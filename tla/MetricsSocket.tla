--------------------------- MODULE MetricsSocket ---------------------------
(***************************************************************************)
(* hooks/useMetricsSocket.ts: the browser's end of the feed of metrics.    *)
(* One action per task of the page (a socket event, a timer, an effect).   *)
(* A WebSocket object is a member of Sockets, used again once the browser  *)
(* and the hook have let go of it.  Remount is the clean-up and second run *)
(* of the effect that StrictMode (main.tsx) and module reloading cause in  *)
(* development; the built page mounts App once.                            *)
(***************************************************************************)
EXTENDS Naturals, Sequences, FiniteSets

CONSTANTS
  Sockets,     \* WebSocket objects
  None,        \* null
  MaxFrames,   \* bound: frames the server broadcasts
  MaxDowns,    \* bound: times the server goes away
  MaxSilent,   \* bound: connections that die without a sign
  MaxRemounts  \* bound: remounts of App

VARIABLES
  sock,       \* readyState of each object: "closed" also when not in use
  pipe,       \* frames on their way to the page, per socket
  lost,       \* sockets whose connection is gone without a sign
  wsRef,      \* wsRef.current
  timers,     \* pending reconnect timers, named by the socket that set them
  lastTimer,  \* reconnectRef.current
  connection, \* "connecting", "connected" or "disconnected"
  frame,      \* the frame shown, 0 for none
  made,       \* frames broadcast so far
  up,         \* the server can be reached
  downs, remounts

vars == <<sock, pipe, lost, wsRef, timers, lastTimer, connection, frame, made,
          up, downs, remounts>>

Live == {s \in Sockets : sock[s] \in {"connecting", "open"}}
Free == {s \in Sockets : sock[s] = "closed" /\ s \notin timers \cup {wsRef}}

\* connect(), called in a page whose sockets are cur and whose wsRef is ref:
\* nothing when that socket is open, else a new socket whatever else lives.
Connect(cur, ref) ==
  IF ref # None /\ cur[ref] = "open"
  THEN sock' = cur /\ wsRef' = ref /\ UNCHANGED connection
  ELSE LET s == CHOOSE f \in Free : TRUE IN
         /\ Free # {}
         /\ sock' = [cur EXCEPT ![s] = "connecting"]
         /\ wsRef' = s
         /\ connection' = "connecting"

Init ==
  /\ LET s == CHOOSE f \in Sockets : TRUE IN
       /\ sock = [t \in Sockets |-> IF t = s THEN "connecting" ELSE "closed"]
       /\ wsRef = s
  /\ pipe = [s \in Sockets |-> <<>>] /\ lost = {}
  /\ timers = {} /\ lastTimer = None
  /\ connection = "connecting" /\ frame = 0 /\ made = 0
  /\ up = TRUE /\ downs = 0 /\ remounts = 0

-----------------------------------------------------------------------------
(* The server and the network.                                             *)

Broadcast ==
  /\ up /\ made < MaxFrames
  /\ made' = made + 1
  /\ pipe' = [s \in Sockets |-> IF sock[s] = "open" /\ s \notin lost
                                THEN Append(pipe[s], made + 1) ELSE pipe[s]]
  /\ UNCHANGED <<sock, lost, wsRef, timers, lastTimer, connection, frame, up,
                 downs, remounts>>

ServerGoes ==
  /\ up /\ downs < MaxDowns
  /\ up' = FALSE /\ downs' = downs + 1
  /\ UNCHANGED <<sock, pipe, lost, wsRef, timers, lastTimer, connection, frame,
                 made, remounts>>

\* The server is back; connections of its earlier life are gone, and the page
\* learns it from each of them (Closed), late frames first.
ServerComes ==
  /\ ~up
  /\ \A s \in Sockets : sock[s] # "open" \/ s \in lost
  /\ up' = TRUE
  /\ UNCHANGED <<sock, pipe, lost, wsRef, timers, lastTimer, connection, frame,
                 made, downs, remounts>>

\* A middlebox forgets the connection: neither end hears of it, and the page,
\* which sends nothing and watches nothing, never will.
DiesSilently(s) ==
  /\ sock[s] = "open" /\ Cardinality(lost) < MaxSilent
  /\ lost' = lost \cup {s}
  /\ UNCHANGED <<sock, pipe, wsRef, timers, lastTimer, connection, frame, made,
                 up, downs, remounts>>

-----------------------------------------------------------------------------
(* The page.                                                               *)

\* ws.onopen
Opened(s) ==
  /\ sock[s] = "connecting" /\ up
  /\ sock' = [sock EXCEPT ![s] = "open"]
  /\ connection' = "connected"
  /\ UNCHANGED <<pipe, lost, wsRef, timers, lastTimer, frame, made, up, downs,
                 remounts>>

\* ws.onmessage; the browser drops what arrives once close() was called.
Message(s) ==
  /\ sock[s] = "open" /\ pipe[s] # <<>>
  /\ frame' = Head(pipe[s])
  /\ pipe' = [pipe EXCEPT ![s] = Tail(@)]
  /\ UNCHANGED <<sock, lost, wsRef, timers, lastTimer, connection, made, up,
                 downs, remounts>>

\* What ends the connection of s: the close() of a clean-up, no server, or
\* its end once every frame before it was delivered.
Ends(s) ==
  \/ sock[s] = "closing"
  \/ sock[s] = "connecting" /\ ~up
  \/ sock[s] = "open" /\ ~up /\ s \notin lost /\ pipe[s] = <<>>

\* Mutant: no reconnect is scheduled.
ClosedForGood(s) ==
  /\ Ends(s)
  /\ sock' = [sock EXCEPT ![s] = "closed"]
  /\ pipe' = [pipe EXCEPT ![s] = <<>>]
  /\ connection' = "disconnected"
  /\ wsRef' = None
  /\ lost' = lost \ {s}
  /\ UNCHANGED <<timers, lastTimer, frame, made, up, downs, remounts>>

\* ws.onclose, whoever closed s and whatever wsRef names by now; ws.onerror
\* comes first when a connection fails, and closes what is closed already.
Closed(s) ==
  /\ Ends(s)
  /\ sock' = [sock EXCEPT ![s] = "closed"]
  /\ pipe' = [pipe EXCEPT ![s] = <<>>]
  /\ connection' = "disconnected"
  /\ wsRef' = None
  /\ timers' = timers \cup {s} /\ lastTimer' = s
  /\ lost' = lost \ {s}
  /\ UNCHANGED <<frame, made, up, downs, remounts>>

\* Mutant: setInterval for setTimeout.
ReconnectRepeats(s) ==
  /\ s \in timers
  /\ Connect(sock, wsRef)
  /\ UNCHANGED <<pipe, lost, timers, lastTimer, frame, made, up, downs, remounts>>

\* setTimeout(connect, RECONNECT_MS) fires.
Reconnect(s) ==
  /\ s \in timers
  /\ timers' = timers \ {s}
  /\ Connect(sock, wsRef)
  /\ UNCHANGED <<pipe, lost, lastTimer, frame, made, up, downs, remounts>>

\* The clean-up of the effect, which knows the last timer and the last socket
\* only, then the effect again.
Remount ==
  /\ remounts < MaxRemounts
  /\ remounts' = remounts + 1
  /\ timers' = timers \ {lastTimer}
  /\ Connect([s \in Sockets |-> IF s = wsRef /\ s \in Live THEN "closing"
                                ELSE sock[s]], wsRef)
  /\ UNCHANGED <<pipe, lost, lastTimer, frame, made, up, downs>>

Next ==
  \/ Broadcast \/ ServerGoes \/ ServerComes \/ Remount
  \/ \E s \in Sockets : \/ DiesSilently(s) \/ Opened(s) \/ Message(s)
                        \/ Closed(s) \/ Reconnect(s)

\* The browser runs its tasks and reports the fate of a connection; nothing
\* is assumed of the server.
Fairness ==
  WF_vars(\E s \in Sockets : Message(s) \/ Reconnect(s) \/ Opened(s) \/ Closed(s))

Spec == Init /\ [][Next]_vars /\ Fairness

-----------------------------------------------------------------------------
TypeOK ==
  /\ sock \in [Sockets -> {"closed", "connecting", "open", "closing"}]
  /\ pipe \in [Sockets -> Seq(1 .. MaxFrames)]
  /\ lost \subseteq Sockets /\ timers \subseteq Sockets
  /\ wsRef \in Sockets \cup {None} /\ lastTimer \in Sockets \cup {None}
  /\ connection \in {"connecting", "connected", "disconnected"}
  /\ frame \in 0 .. made /\ made \in 0 .. MaxFrames
  /\ up \in BOOLEAN /\ downs \in 0 .. MaxDowns /\ remounts \in 0 .. MaxRemounts

\* However sockets fail, the page has one of them or one timer to get it back,
\* never both: reconnecting does not multiply the viewers of the hub.  Each
\* remount may add one, since the close it causes schedules a reconnect too.
OneFeed == Cardinality(Live) + Cardinality(timers) <= 1 + remounts

\* The page says LIVE only while a socket is open, and without a remount
\* whenever one is: no close of an old socket overwrites a newer state.
StatusHonest ==
  LET open == \E s \in Sockets : sock[s] = "open" IN
  /\ connection = "connected" => open
  /\ remounts = 0 /\ open => connection = "connected"

\* Across any number of reconnects a newer frame is never replaced by an older
\* one; two sockets left by a remount may do that.
FramesInOrder == [][remounts' = 0 => frame' >= frame]_vars

\* A server that stays reachable is reached: the page is connected for good,
\* however the server came and went before.  (A connection that died silently
\* counts as connected: nothing in the hook can tell.)
ReconnectsForGood == <>[]up => <>[](connection = "connected")

=============================================================================
