----------------------------- MODULE LogStream -----------------------------
(***************************************************************************)
(* The log viewer: the tabs and the selected container (App.tsx), the      *)
(* stream of hooks/useLogStream.ts, and the handler of the server that     *)
(* feeds it (router.go, handleContainerLogs).  A stream is one call of     *)
(* start() with its request; the browser rejects what a call of abort()    *)
(* interrupts before it runs another task, so the catch and finally of an  *)
(* aborted stream are part of the step that aborts it.  An event is one    *)
(* line of one container, two cells on the wire: its data and its end.     *)
(***************************************************************************)
EXTENDS Naturals, Sequences, Lists

CONSTANTS
  Containers, \* containers with logs
  Streams,    \* calls of start(), used again once both ends are over
  None,       \* null
  Cap,        \* lines kept by the viewer (500)
  Window,     \* bound: events on the wire, which holds the handler back
  MaxLog,     \* bound: lines each container writes
  MaxFaults   \* bound: requests refused and connections lost

VARIABLES
  tab, selected, \* App: "logs" or another tab; selectedContainerId
  log,           \* lines each container has written
  lines, streaming, error, abortRef, \* useLogStream
  st,            \* the streams
  faults

ui == <<tab, selected>>
hook == <<lines, streaming, error, abortRef>>
vars == <<ui, hook, log, st, faults>>

Tabs == {"containers", "logs"} \* every tab but logs is like the first

NoStream == [id |-> None, client |-> "over", server |-> "over", sent |-> 0,
             wire |-> <<>>, buffer |-> <<>>]
NewStream(id) == [NoStream EXCEPT !.id = id, !.client = "fetching",
                                  !.server = "asked"]
Free == {s \in Streams : st[s].client = "over" /\ st[s].server = "over"}

\* The argument of useLogStream.
Followed(t, sel) == IF t = "logs" THEN sel ELSE None

\* Mutant: stop() forgets to abort.
AbortedNot(streams, s) == streams

\* abort(): reads and fetch of that stream reject, its finally runs.
Aborted(streams, s) ==
  IF s = None THEN streams
  ELSE [streams EXCEPT ![s].client = "over", ![s].wire = <<>>, ![s].buffer = <<>>]

\* The effect of the hook: nothing when its argument is the same; else the
\* clean-up, stop(), and for a container start(), which stops again.
Follow(old, new) ==
  \/ old = new /\ UNCHANGED <<hook, st>>
  \/ /\ old # new /\ new = None
     /\ st' = Aborted(st, abortRef)
     /\ abortRef' = None /\ streaming' = FALSE
     /\ UNCHANGED <<lines, error>>
  \/ /\ old # new /\ new # None /\ Free # {}
     /\ LET s == CHOOSE f \in Free : TRUE IN
        /\ st' = [Aborted(st, abortRef) EXCEPT ![s] = NewStream(new)]
        /\ abortRef' = s
     /\ lines' = <<>> /\ error' = FALSE /\ streaming' = TRUE

Init ==
  /\ tab = "containers" /\ selected = None
  /\ log = [c \in Containers |-> 0]
  /\ lines = <<>> /\ streaming = FALSE /\ error = FALSE /\ abortRef = None
  /\ st = [s \in Streams |-> NoStream] /\ faults = 0

-----------------------------------------------------------------------------
(* The user.                                                               *)

\* NavTabs
ClickTab(t) ==
  /\ t # tab /\ tab' = t
  /\ Follow(Followed(tab, selected), Followed(t, selected))
  /\ UNCHANGED <<selected, log, faults>>

\* handleSelectContainer, from a row of the list of containers
SelectContainer(c) ==
  /\ tab = "containers"
  /\ tab' = "logs" /\ selected' = c
  /\ Follow(None, c)
  /\ UNCHANGED <<log, faults>>

-----------------------------------------------------------------------------
(* Docker and the handler.                                                 *)

ContainerWrites(c) ==
  /\ log[c] < MaxLog[c]
  /\ log' = [log EXCEPT ![c] = @ + 1]
  /\ UNCHANGED <<ui, hook, st, faults>>

\* StreamLogs succeeds and the headers are flushed, or it fails: an error reply.
HandlerBegins(s) ==
  /\ st[s].server = "asked"
  /\ \/ st' = [st EXCEPT ![s].server = "serving"] /\ UNCHANGED faults
     \/ /\ faults < MaxFaults /\ faults' = faults + 1
        /\ st' = [st EXCEPT ![s].server = "refused"]
  /\ UNCHANGED <<ui, hook, log>>

\* One line is read, written and flushed; to a closed connection, for nothing.
\* The context may be over already: it is looked at between two reads only.
HandlerWrites(s) ==
  /\ st[s].server = "serving" /\ st[s].sent < log[st[s].id]
  /\ Len(st[s].wire) < 2 * Window
  /\ st' = [st EXCEPT ![s].sent = @ + 1,
              ![s].wire = IF st[s].client = "over" THEN <<>>
                          ELSE @ \o <<[id |-> st[s].id, n |-> st[s].sent + 1, end |-> FALSE],
                                      [id |-> st[s].id, n |-> st[s].sent + 1, end |-> TRUE]>>]
  /\ UNCHANGED <<ui, hook, log, faults>>

\* The handler returns: its viewer left, the log is at its end, or the timeout
\* of the router cancels its context: any of them may be at any time.
HandlerReturns(s) ==
  /\ st[s].server = "serving"
  /\ st' = [st EXCEPT ![s].server = "over"]
  /\ UNCHANGED <<ui, hook, log, faults>>

-----------------------------------------------------------------------------
(* The loop of start().                                                    *)

\* fetch resolves with a body.
Responds(s) ==
  /\ st[s].client = "fetching" /\ st[s].server \in {"serving", "over"}
  /\ st' = [st EXCEPT ![s].client = "reading"]
  /\ UNCHANGED <<ui, hook, log, faults>>

\* read() returns some of what is on the wire.  The parts before the last '\n\n'
\* become lines, each set cut to the last Cap; the rest is kept in buffer.
Chunk(s) ==
  /\ st[s].client = "reading"
  /\ \E k \in 1 .. Len(st[s].wire) :
       LET cells == st[s].buffer \o SubSeq(st[s].wire, 1, k)
           ended == Filter(cells, LAMBDA x : x.end)
           whole == IF cells[Len(cells)].end THEN Len(cells) ELSE Len(cells) - 1
           next == lines \o [i \in DOMAIN ended |-> [id |-> ended[i].id, n |-> ended[i].n]]
       IN /\ lines' = IF Len(next) > Cap
                      THEN SubSeq(next, Len(next) - Cap + 1, Len(next)) ELSE next
          /\ st' = [st EXCEPT ![s].wire = SubSeq(@, k + 1, Len(@)),
                              ![s].buffer = SubSeq(cells, whole + 1, Len(cells))]
  /\ UNCHANGED <<ui, streaming, error, abortRef, log, faults>>

\* done: the loop breaks, finally.
Done(s) ==
  /\ st[s].client = "reading" /\ st[s].server = "over" /\ st[s].wire = <<>>
  /\ st' = [st EXCEPT ![s].client = "over", ![s].buffer = <<>>]
  /\ streaming' = FALSE
  /\ UNCHANGED <<ui, lines, error, abortRef, log, faults>>

\* What is thrown, unless it is an AbortError: catch, finally.
Throws(s) ==
  /\ st' = [Aborted(st, s) EXCEPT ![s].server = IF @ = "refused" THEN "over" ELSE @]
  /\ error' = TRUE /\ streaming' = FALSE
  /\ UNCHANGED <<ui, lines, abortRef, log>>

\* !res.ok
Refused(s) ==
  /\ st[s].client = "fetching" /\ st[s].server = "refused"
  /\ Throws(s) /\ UNCHANGED faults

\* The connection breaks: fetch or read() rejects.
ConnectionLost(s) ==
  /\ st[s].client # "over" /\ st[s].server # "refused"
  /\ faults < MaxFaults /\ faults' = faults + 1
  /\ Throws(s)

\* An error reply to a request the browser has aborted.
ReplyIgnored(s) ==
  /\ st[s].client = "over" /\ st[s].server = "refused"
  /\ st' = [st EXCEPT ![s].server = "over"]
  /\ UNCHANGED <<ui, hook, log, faults>>

Next ==
  \/ \E t \in Tabs : ClickTab(t)
  \/ \E c \in Containers : SelectContainer(c) \/ ContainerWrites(c)
  \/ \E s \in Streams :
       \/ HandlerBegins(s) \/ HandlerWrites(s) \/ HandlerReturns(s)
       \/ Responds(s) \/ Chunk(s) \/ Done(s) \/ Refused(s)
       \/ ConnectionLost(s) \/ ReplyIgnored(s)

\* The handler goes on while it can and its read ends once its context is done;
\* the timeout of the router comes; the browser delivers what it received.
Fairness ==
  \A s \in Streams :
    /\ WF_vars(HandlerBegins(s) \/ HandlerWrites(s))
    /\ WF_vars(HandlerReturns(s))
    /\ WF_vars(Responds(s) \/ Chunk(s) \/ Done(s) \/ Refused(s) \/ ReplyIgnored(s))

Spec == Init /\ [][Next]_vars /\ Fairness

-----------------------------------------------------------------------------
TypeOK ==
  /\ tab \in Tabs /\ selected \in Containers \cup {None}
  /\ \A c \in Containers : log[c] \in 0 .. MaxLog[c]
  /\ lines \in Seq([id : Containers, n : Nat]) /\ Len(lines) <= Cap
  /\ streaming \in BOOLEAN /\ error \in BOOLEAN
  /\ abortRef \in Streams \cup {None} /\ faults \in 0 .. MaxFaults

\* The lines in the viewer are those of the container named above them, without
\* a gap, a repeat or a line of another one, however often the user changes
\* tab and container and wherever the network cuts the events.
LinesFaithful ==
  tab = "logs" =>
    \A i \in DOMAIN lines :
      /\ lines[i].id = selected
      /\ lines[i].n = lines[1].n + i - 1
      /\ lines[1].n > 1 => Len(lines) = Cap

\* The badge says STREAMING exactly while the stream of the container in the
\* viewer is open; and then no other stream is.
BadgeHonest ==
  /\ streaming <=> abortRef # None /\ st[abortRef].client # "over"
  /\ streaming => tab = "logs" /\ st[abortRef].id = selected
  /\ \A s \in Streams : st[s].client # "over" => s = abortRef

\* When a stream ended in order, every line its handler wrote is in the viewer,
\* or outdated by Cap newer ones: the end overtakes nothing.
EndComplete ==
  tab = "logs" /\ abortRef # None /\ ~streaming /\ ~error /\ st[abortRef].sent > 0 =>
    lines # <<>> /\ lines[Len(lines)].n = st[abortRef].sent

\* The badge does not say STREAMING for ever: the timeout of the router ends
\* every stream and the viewer hears of it.
StreamsEnd == []<>(~streaming)
=============================================================================
