----------------------------- MODULE Containers -----------------------------
(* The four modules about containers side by side.  They share no state: in   *)
(* a behaviour only the one named by part moves.                              *)
EXTENDS Naturals, Sequences

CONSTANTS
  None,                             \* null
  Ids,                              \* containers
  Polls, Streams,                   \* polls of the list, streams of logs
  Word,                             \* values of a counter of CPU time
  Cap, Window,                      \* lines kept, events on the wire
  HeaderLen, SizeLen, Base,         \* of the framing of logs
  Newline, MaxLow, MaxWidth, BufLen,
  MaxLog, Logs,                     \* bounds: the lines of each container, their sizes
  MaxTicks, MaxChanges, MaxFaults   \* bounds: of time, changes and failures

\* Ids are not null, one line at least is kept, the bounds are numbers, a header is
\* more than a length, and a line has its newline at least.
ASSUME ContainersAssumption ==
  /\ None \notin Ids /\ None \notin Streams
  /\ Cap \in Nat \ {0} /\ Word \in Nat \ {0}
  /\ MaxLog \in [Ids -> Nat]
  /\ MaxTicks \in Nat /\ MaxChanges \in Nat /\ MaxFaults \in Nat
  /\ HeaderLen \in Nat /\ SizeLen \in 1 .. HeaderLen - 1 /\ BufLen \in Nat
  /\ MaxWidth \in Nat \ {0}
  /\ Logs \subseteq Seq(Nat \ {0})

VARIABLES
  part,
  state, changes, polls, containers, loading, error, shown, pinned, faults,
  host, used, system, todo, asked, result, working, stats, moves, losses,
  tab, selected, log, lines, streaming, broken, abortRef, st, cuts,
  text, octet, pos, events, reads

pollsVars == <<state, changes, polls, containers, loading, error, shown, pinned, faults>>
statsVars == <<host, used, system, todo, asked, result, working, stats, moves, losses>>
logsVars == <<tab, selected, log, lines, streaming, broken, abortRef, st, cuts>>
framesVars == <<text, octet, pos, events, reads>>
vars == <<part, pollsVars, statsVars, logsVars, framesVars>>

List == INSTANCE ContainerPolls

Figures == INSTANCE ContainerStats WITH
  state <- host, changes <- moves, faults <- losses

Viewer == INSTANCE LogStream WITH
  Containers <- Ids, error <- broken, faults <- cuts

Framing == INSTANCE LogFrames WITH log <- text

\* A component that does not move rests in one of its initial states.
Init ==
  /\ part \in {"list", "figures", "viewer", "framing"}
  /\ List!Init /\ Figures!Init /\ Viewer!Init /\ Framing!Init
  /\ part # "list" => pinned = {} /\ state = [c \in Ids |-> "running"]
  /\ part # "figures" => host = [c \in Ids |-> "running"]
  /\ part # "framing" => /\ text = CHOOSE l \in Logs : TRUE
                         /\ octet = [p \in DOMAIN octet |-> 0]

Next ==
  /\ UNCHANGED part
  /\ \/ part = "list" /\ List!Next /\ UNCHANGED <<statsVars, logsVars, framesVars>>
     \/ part = "figures" /\ Figures!Next /\ UNCHANGED <<pollsVars, logsVars, framesVars>>
     \/ part = "viewer" /\ Viewer!Next /\ UNCHANGED <<pollsVars, statsVars, framesVars>>
     \/ part = "framing" /\ Framing!Next /\ UNCHANGED <<pollsVars, statsVars, logsVars>>

\* The fairness of the three components that have one, while they move.
ListFairness ==
  \A p \in Polls :
    WF_pollsVars(part = "list" /\ (\/ List!Poll(p) \/ List!List(p) \/ List!Resolve(p)
                                   \/ \E id \in Ids : List!Inspect(p, id)))

FiguresFairness ==
  WF_statsVars(part = "figures" /\ (\/ Figures!List \/ Figures!Answer \/ Figures!Send
                                    \/ \E id \in Ids : Figures!Ask(id) \/ Figures!StatsFail(id)))

ViewerFairness ==
  \A s \in Streams :
    /\ WF_logsVars(part = "viewer" /\ (Viewer!HandlerBegins(s) \/ Viewer!HandlerWrites(s)))
    /\ WF_logsVars(part = "viewer" /\ Viewer!HandlerReturns(s))
    /\ WF_logsVars(part = "viewer" /\ (\/ Viewer!Responds(s) \/ Viewer!Chunk(s) \/ Viewer!Done(s)
                                       \/ Viewer!Refused(s) \/ Viewer!ReplyIgnored(s)))

Spec == Init /\ [][Next]_vars /\ ListFairness /\ FiguresFairness /\ ViewerFairness

-----------------------------------------------------------------------------
\* What the list of containers shows is what ran at one moment, and the figures
\* in its rows make sense, but for a container restarted between its samples.
RowsHonest == List!TypeOK /\ List!ListComplete /\ Figures!TypeOK /\ Figures!PercentHonest

\* The viewer shows the lines of its container without a gap, all of them
\* when its stream ended, and its badge is true, whatever is clicked or lost.
LinesFaithful ==
  /\ Viewer!TypeOK /\ Viewer!LinesFaithful /\ Viewer!BadgeHonest
  /\ Viewer!EndComplete

\* The events keep every character of the log that no read cuts, where no read ends
\* inside a header and no header has a newline in it, and are those of the batch
\* handler where reads end with lines.
TextKept == Framing!TypeOK /\ Framing!TextKept /\ Framing!AgreesWithBatch

\* Only an answer overtaken by a newer one takes the list back to an older one.
NoRegress == List!NoRegress

\* After changes and failures end, list, pins and figures get to the page; and
\* no stream is shown as open for ever.
Settles ==
  /\ []<>(part = "list") => List!CatchesUp
  /\ []<>(part = "figures") => Figures!StatsReturn
  /\ []<>(part = "viewer") => Viewer!StreamsEnd
=============================================================================
