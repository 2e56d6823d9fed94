--------------------------- MODULE BrowserProofs ---------------------------
(* Theorems about Browser, for any sockets, frames, outages, remounts, ranges, *)
(* clocks, requests, films, windows, widgets, themes and bounds: lemmas about  *)
(* the socket, the charts, the Crosswatch widget and the settings, one after   *)
(* the other, and what they make of the page.                                  *)
EXTENDS Browser, ListProofs, SequenceTheorems, TLAPS

-----------------------------------------------------------------------------
(* The socket. *)

\* Its numbers of members are those of FiniteSets.
LEMMA SocketCards == \A S : Socket!Cardinality(S) = Cardinality(S)
BY DEF Socket!Cardinality, Cardinality

\* There are WebSocket objects, and null is none of them.
SocketSensible ==
  /\ Sockets # {} /\ None \notin Sockets
  /\ MaxFrames \in Nat /\ MaxDowns \in Nat /\ MaxSilent \in Nat /\ MaxRemounts \in Nat

SocketShape ==
  /\ sock \in [Sockets -> {"closed", "connecting", "open", "closing"}]
  /\ pipe \in [Sockets -> Seq(Nat)]
  /\ wsRef \in Sockets \cup {None} /\ timers \subseteq Sockets
  /\ frame \in Nat /\ made \in Nat /\ remounts \in Nat

\* Without a remount, what lives is the socket of wsRef, and then no timer is
\* pending; nor are ever two.
SingleFeed ==
  remounts = 0 =>
    /\ \A s \in Sockets : sock[s] # "closing"
    /\ \A s \in Socket!Live : s = wsRef /\ timers = {}
    /\ \A s, t \in timers : s = t

\* What is on its way to the page is newer than what it shows.
FramesComing ==
  remounts = 0 =>
    /\ frame <= made
    /\ \A s \in Sockets :
         /\ sock[s] # "open" => pipe[s] = <<>>
         /\ \A i \in 1 .. Len(pipe[s]) : frame < pipe[s][i] /\ pipe[s][i] <= made
         /\ \A i, j \in 1 .. Len(pipe[s]) : i < j => pipe[s][i] < pipe[s][j]

SocketInv == SocketShape /\ SingleFeed /\ Socket!StatusHonest /\ FramesComing

\* At the start the page has one socket, which is connecting.
LEMMA SocketInit ==
  ASSUME SocketSensible PROVE Socket!Init => SocketInv
<1> SUFFICES ASSUME Socket!Init PROVE SocketInv
  OBVIOUS
<1>1. Len(<<>>) = 0 /\ <<>> \in Seq(Nat)
  BY EmptySeq
<1>2. PICK s \in Sockets : wsRef = s /\ sock = [t \in Sockets |-> IF t = s THEN "connecting" ELSE "closed"]
  BY DEF Socket!Init, SocketSensible
<1>3. SocketShape
  BY <1>1, <1>2 DEF Socket!Init, SocketShape
<1>4. SingleFeed
  BY <1>2 DEF Socket!Init, SingleFeed, Socket!Live
<1>5. Socket!StatusHonest
  BY <1>2 DEF Socket!Init, Socket!StatusHonest
<1>6. FramesComing
  BY <1>1 DEF Socket!Init, FramesComing
<1>. QED
  BY <1>3, <1>4, <1>5, <1>6 DEF SocketInv

\* What connect() does where no socket of the page is open: it leaves the others
\* and has wsRef name a new one.
LEMMA ConnectOpens ==
  ASSUME SocketInv, Socket!Connect(sock, wsRef), \A s \in Sockets : sock[s] # "open", SocketSensible
  PROVE  \E s \in Sockets : /\ sock[s] = "closed" /\ wsRef' = s
                            /\ sock' = [sock EXCEPT ![s] = "connecting"]
                            /\ connection' = "connecting"
<1>1. ~(wsRef # None /\ sock[wsRef] = "open")
  BY DEF SocketInv, SocketShape
<1>. QED
  BY <1>1 DEF Socket!Connect, Socket!Free

\* Every step keeps the inductive invariant of the socket.
LEMMA SocketStep ==
  ASSUME SocketSensible PROVE SocketInv /\ [Socket!Next]_socketVars => SocketInv'
<1> SUFFICES ASSUME SocketInv, [Socket!Next]_socketVars PROVE SocketInv'
  OBVIOUS
<1>t. SocketShape /\ SingleFeed /\ Socket!StatusHonest /\ FramesComing
  BY DEF SocketInv
<1>l. \A s \in Sockets : pipe[s] \in Seq(Nat) /\ Len(pipe[s]) \in Nat
  BY <1>t, LenProperties DEF SocketShape
<1>1. CASE Socket!Broadcast
  <2>1. \A s \in Sockets :
          \/ pipe'[s] = pipe[s]
          \/ sock[s] = "open" /\ pipe'[s] = Append(pipe[s], made + 1)
    BY <1>1, <1>t DEF Socket!Broadcast, SocketShape
  <2>2. made' = made + 1 /\ UNCHANGED <<sock, wsRef, timers, connection, frame, remounts>>
    BY <1>1 DEF Socket!Broadcast
  <2>3. \A s \in Sockets : pipe'[s] \in Seq(Nat)
    <3> SUFFICES ASSUME NEW s \in Sockets PROVE pipe'[s] \in Seq(Nat)
      OBVIOUS
    <3>1. made + 1 \in Nat /\ pipe[s] \in Seq(Nat)
      BY <1>t DEF SocketShape
    <3>2. Append(pipe[s], made + 1) \in Seq(Nat)
      BY <3>1, AppendProperties
    <3>. QED
      BY <2>1, <3>1, <3>2
  <2>4. pipe' \in [Sockets -> Seq(Nat)]
    BY <1>1, <2>3 DEF Socket!Broadcast
  <2>5. SocketShape'
    BY <1>t, <2>2, <2>4 DEF SocketShape
  <2>6. SingleFeed' /\ Socket!StatusHonest'
    BY <1>t, <2>2 DEF SingleFeed, Socket!Live, Socket!StatusHonest
  <2>7. ASSUME remounts = 0, NEW s \in Sockets
        PROVE  /\ sock'[s] # "open" => pipe'[s] = <<>>
               /\ \A i \in 1 .. Len(pipe'[s]) : frame' < pipe'[s][i] /\ pipe'[s][i] <= made'
               /\ \A i, j \in 1 .. Len(pipe'[s]) : i < j => pipe'[s][i] < pipe'[s][j]
    <3> DEFINE n == Len(pipe[s])
    <3>1. /\ sock[s] # "open" => pipe[s] = <<>>
          /\ \A i \in 1 .. n : frame < pipe[s][i] /\ pipe[s][i] <= made /\ pipe[s][i] \in Nat
          /\ \A i, j \in 1 .. n : i < j => pipe[s][i] < pipe[s][j]
          /\ frame \in Nat /\ made \in Nat /\ n \in Nat /\ frame <= made
      BY <1>t, <1>l, <2>7, ElementOfSeq DEF FramesComing, SocketShape
    <3>2. CASE pipe'[s] = pipe[s]
      BY <2>2, <3>1, <3>2
    <3>3. CASE sock[s] = "open" /\ pipe'[s] = Append(pipe[s], made + 1)
      <4>1. /\ Len(pipe'[s]) = n + 1 /\ pipe'[s][n + 1] = made + 1
            /\ \A i \in 1 .. n : pipe'[s][i] = pipe[s][i]
        BY <1>l, <3>1, <3>3, AppendProperties
      <4>2. \A i \in 1 .. Len(pipe'[s]) : i \in 1 .. n \/ i = n + 1
        BY <3>1, <4>1
      <4>3. \A i \in 1 .. Len(pipe'[s]) : frame < pipe'[s][i] /\ pipe'[s][i] <= made + 1
        <5> SUFFICES ASSUME NEW i \in 1 .. Len(pipe'[s])
                     PROVE  frame < pipe'[s][i] /\ pipe'[s][i] <= made + 1
          OBVIOUS
        <5>1. CASE i \in 1 .. n
          BY <3>1, <4>1, <5>1
        <5>2. CASE i = n + 1
          BY <3>1, <4>1, <5>2
        <5>. QED
          BY <4>2, <5>1, <5>2
      <4>4. ASSUME NEW i \in 1 .. Len(pipe'[s]), NEW j \in 1 .. Len(pipe'[s]), i < j
            PROVE  pipe'[s][i] < pipe'[s][j]
        <5>1. i \in 1 .. n /\ pipe'[s][i] = pipe[s][i]
          BY <3>1, <4>1, <4>2, <4>4
        <5>2. CASE j \in 1 .. n
          BY <3>1, <4>1, <4>4, <5>1, <5>2
        <5>3. CASE j = n + 1
          BY <3>1, <4>1, <5>1, <5>3
        <5>. QED
          BY <4>2, <5>2, <5>3
      <4>. QED
        BY <2>2, <3>3, <4>3, <4>4
    <3>. QED
      BY <2>1, <3>2, <3>3
  <2>8. FramesComing'
    BY <1>t, <2>2, <2>7 DEF FramesComing, SocketShape
  <2>. QED
    BY <2>5, <2>6, <2>8 DEF SocketInv
<1>2. ASSUME NEW s \in Sockets, Socket!Opened(s) PROVE SocketInv'
  <2>1. /\ sock[s] = "connecting" /\ sock' = [sock EXCEPT ![s] = "open"]
        /\ connection' = "connected"
        /\ UNCHANGED <<pipe, wsRef, timers, frame, made, remounts>>
    BY <1>2 DEF Socket!Opened
  <2>2. SocketShape' /\ SingleFeed' /\ Socket!StatusHonest' /\ FramesComing'
    BY <1>t, <2>1 DEF SocketShape, SingleFeed, Socket!Live, Socket!StatusHonest, FramesComing
  <2>. QED
    BY <1>t, <2>1, <2>2 DEF SocketInv
<1>3. ASSUME NEW s \in Sockets, Socket!Message(s) PROVE SocketInv'
  <2> DEFINE n == Len(pipe[s])
  <2>1. /\ sock[s] = "open" /\ pipe[s] # <<>> /\ frame' = Head(pipe[s])
        /\ pipe' = [pipe EXCEPT ![s] = Tail(pipe[s])]
        /\ UNCHANGED <<sock, wsRef, timers, connection, made, remounts>>
    BY <1>3, <1>t DEF Socket!Message, SocketShape
  <2>2. /\ n > 0 /\ 1 \in 1 .. n /\ frame' = pipe[s][1] /\ pipe'[s] = Tail(pipe[s])
        /\ Tail(pipe[s]) \in Seq(Nat) /\ Len(pipe'[s]) = n - 1
        /\ \A i \in 1 .. Len(pipe'[s]) : pipe'[s][i] = pipe[s][i + 1]
        /\ frame' \in Nat
    BY <1>t, <1>l, <2>1, EmptySeq, HeadTailProperties, ElementOfSeq DEF SocketShape
  <2>3. SocketShape' /\ SingleFeed' /\ Socket!StatusHonest'
    BY <1>t, <2>1, <2>2 DEF SocketShape, SingleFeed, Socket!Live, Socket!StatusHonest
  <2>4. ASSUME remounts = 0, NEW t \in Sockets
        PROVE  /\ sock'[t] # "open" => pipe'[t] = <<>>
               /\ \A i \in 1 .. Len(pipe'[t]) : frame' < pipe'[t][i] /\ pipe'[t][i] <= made'
               /\ \A i, j \in 1 .. Len(pipe'[t]) : i < j => pipe'[t][i] < pipe'[t][j]
    <3>1. CASE t = s
      <4>1. /\ \A i \in 1 .. Len(pipe'[s]) : i + 1 \in 1 .. n /\ 1 < i + 1
            /\ \A i, j \in 1 .. Len(pipe'[s]) : i < j => i + 1 < j + 1
        BY <1>l, <2>2
      <4>2. /\ \A i \in 1 .. n : pipe[s][i] <= made
            /\ \A i, j \in 1 .. n : i < j => pipe[s][i] < pipe[s][j]
        BY <1>t, <2>4 DEF FramesComing
      <4>. QED
        BY <2>1, <2>2, <3>1, <4>1, <4>2
    <3>2. CASE t # s
      <4>1. sock[t] # "open"
        BY <1>t, <2>1, <2>4, <3>2 DEF SingleFeed, Socket!Live
      <4>2. pipe'[t] = <<>> /\ Len(<<>>) = 0
        BY <1>t, <2>1, <2>4, <3>2, <4>1 DEF FramesComing, SocketShape
      <4>. QED
        BY <4>2
    <3>. QED
      BY <3>1, <3>2
  <2>5. remounts = 0 => frame' <= made'
    BY <1>t, <2>1, <2>2 DEF FramesComing
  <2>6. FramesComing'
    BY <2>1, <2>4, <2>5 DEF FramesComing
  <2>. QED
    BY <2>3, <2>6 DEF SocketInv
<1>4. ASSUME NEW s \in Sockets, Socket!Closed(s) PROVE SocketInv'
  <2>1. /\ sock[s] \in {"closing", "connecting", "open"}
        /\ sock' = [sock EXCEPT ![s] = "closed"] /\ pipe' = [pipe EXCEPT ![s] = <<>>]
        /\ connection' = "disconnected" /\ wsRef' = None /\ timers' = timers \cup {s}
        /\ UNCHANGED <<frame, made, remounts>>
    BY <1>4 DEF Socket!Closed, Socket!Ends
  <2>2. Len(<<>>) = 0 /\ <<>> \in Seq(Nat)
    BY EmptySeq
  <2>3. SocketShape' /\ FramesComing'
    BY <1>t, <2>1, <2>2 DEF SocketShape, FramesComing
  <2>4. remounts = 0 => s \in Socket!Live /\ timers = {} /\ \A t \in Socket!Live : t = s
    BY <1>t, <2>1 DEF SingleFeed, Socket!Live
  <2>5. SingleFeed' /\ Socket!StatusHonest'
    BY <1>t, <2>1, <2>4 DEF SocketShape, SingleFeed, Socket!Live, Socket!StatusHonest
  <2>. QED
    BY <1>t, <2>1, <2>3, <2>5 DEF SocketInv
<1>5. ASSUME NEW s \in Sockets, Socket!Reconnect(s) PROVE SocketInv'
  <2>1. /\ s \in timers /\ timers' = timers \ {s} /\ Socket!Connect(sock, wsRef)
        /\ UNCHANGED <<pipe, frame, made, remounts>>
    BY <1>5 DEF Socket!Reconnect
  <2>2. CASE \A t \in Sockets : sock[t] # "open"
    <3>1. PICK t \in Sockets : /\ sock[t] = "closed" /\ wsRef' = t
                               /\ sock' = [sock EXCEPT ![t] = "connecting"]
                               /\ connection' = "connecting"
      BY <2>1, <2>2, ConnectOpens
    <3>2. SocketShape' /\ FramesComing'
      BY <1>t, <2>1, <3>1 DEF SocketShape, FramesComing
    <3>3. remounts = 0 => Socket!Live = {} /\ timers' = {}
      BY <1>t, <2>1 DEF SingleFeed
    <3>4. SingleFeed' /\ Socket!StatusHonest'
      BY <1>t, <2>1, <2>2, <3>1, <3>3 DEF SocketShape, SingleFeed, Socket!Live, Socket!StatusHonest
    <3>. QED
      BY <1>t, <2>1, <3>2, <3>4 DEF SocketInv
  <2>3. CASE \E t \in Sockets : sock[t] = "open"
    <3>1. remounts # 0
      BY <1>t, <2>1, <2>3 DEF SingleFeed, Socket!Live
    <3>2. /\ sock' \in [Sockets -> {"closed", "connecting", "open", "closing"}]
          /\ wsRef' \in Sockets \cup {None}
          /\ connection' = "connected" => connection = "connected" /\ sock' = sock
      BY <1>t, <2>1 DEF Socket!Connect, Socket!Free, SocketShape
    <3>3. SocketShape'
      BY <1>t, <2>1, <3>2 DEF SocketShape
    <3>4. SingleFeed' /\ Socket!StatusHonest' /\ FramesComing'
      BY <1>t, <2>1, <3>1, <3>2 DEF SingleFeed, Socket!StatusHonest, FramesComing
    <3>. QED
      BY <1>t, <2>1, <3>3, <3>4 DEF SocketInv
  <2>. QED
    BY <2>2, <2>3
<1>6. CASE Socket!Remount
  <2> DEFINE cur == [s \in Sockets |-> IF s = wsRef /\ s \in Socket!Live THEN "closing" ELSE sock[s]]
  <2>1. /\ remounts' = remounts + 1 /\ remounts' # 0 /\ timers' = timers \ {lastTimer}
        /\ Socket!Connect(cur, wsRef) /\ UNCHANGED <<pipe, frame, made>>
    BY <1>6, <1>t DEF Socket!Remount, SocketShape
  <2>2. /\ cur \in [Sockets -> {"closed", "connecting", "open", "closing"}]
        /\ ~(wsRef # None /\ cur[wsRef] = "open")
    BY <1>t DEF SocketShape, Socket!Live
  <2>3. /\ sock' \in [Sockets -> {"closed", "connecting", "open", "closing"}]
        /\ wsRef' \in Sockets \cup {None} /\ connection' = "connecting"
    BY <2>1, <2>2 DEF Socket!Connect, Socket!Free
  <2>4. SocketShape'
    BY <1>t, <2>1, <2>3 DEF SocketShape
  <2>5. SingleFeed' /\ Socket!StatusHonest' /\ FramesComing'
    BY <2>1, <2>3 DEF SingleFeed, Socket!StatusHonest, FramesComing
  <2>. QED
    BY <1>t, <2>1, <2>4, <2>5 DEF SocketInv
<1>7. CASE UNCHANGED <<sock, pipe, wsRef, timers, connection, frame, made, remounts>>
  BY <1>7, <1>t DEF SocketInv, SocketShape, SingleFeed, Socket!Live, Socket!StatusHonest, FramesComing
<1>. QED
  BY <1>1, <1>2, <1>3, <1>4, <1>5, <1>6, <1>7
  DEF Socket!Next, socketVars, Socket!ServerGoes, Socket!ServerComes, Socket!DiesSilently

\* No frame is on its way that was not broadcast.
SocketTyped ==
  /\ Socket!TypeOK
  /\ \A s \in Sockets : \A i \in 1 .. Len(pipe[s]) : pipe[s][i] <= made

\* The sockets not yet closed and the timers: each remount adds one at most.
BusySockets == {s \in Sockets : sock[s] # "closed"}
SocketsCounted ==
  /\ IsFiniteSet(BusySockets) /\ IsFiniteSet(timers)
  /\ Cardinality(BusySockets) + Cardinality(timers) <= 1 + remounts

\* The types of the socket hold at the start.
LEMMA TypedInit == SocketSensible /\ Socket!Init => SocketTyped
<1> SUFFICES ASSUME SocketSensible, Socket!Init PROVE SocketTyped
  OBVIOUS
<1>1. PICK s \in Sockets : wsRef = s /\ sock = [t \in Sockets |-> IF t = s THEN "connecting" ELSE "closed"]
  BY DEF Socket!Init, SocketSensible
<1>2. /\ pipe = [t \in Sockets |-> <<>>] /\ lost = {} /\ timers = {} /\ lastTimer = None
      /\ connection = "connecting" /\ frame = 0 /\ made = 0
      /\ up = TRUE /\ downs = 0 /\ remounts = 0
  BY DEF Socket!Init
<1>3. \A t \in Sockets : pipe[t] = <<>> /\ Len(pipe[t]) = 0
  BY <1>2, EmptySeq
<1>4. pipe \in [Sockets -> Seq(1 .. MaxFrames)]
  BY <1>2, EmptySeq
<1>5. sock \in [Sockets -> {"closed", "connecting", "open", "closing"}]
  BY <1>1
<1>6. frame \in 0 .. made /\ made \in 0 .. MaxFrames /\ downs \in 0 .. MaxDowns /\ remounts \in 0 .. MaxRemounts
  BY <1>2 DEF SocketSensible
<1>. QED
  BY <1>1, <1>2, <1>3, <1>4, <1>5, <1>6 DEF SocketTyped, Socket!TypeOK

\* connect() opens one socket at most, a free one.
LEMMA ConnectAdds ==
  ASSUME NEW cur \in [Sockets -> {"closed", "connecting", "open", "closing"}],
         \A s \in Sockets : cur[s] = "closed" <=> sock[s] = "closed",
         wsRef \in Sockets \cup {None}, Socket!Connect(cur, wsRef),
         connection \in {"connecting", "connected", "disconnected"}
  PROVE  /\ wsRef' \in Sockets \cup {None}
         /\ connection' \in {"connecting", "connected", "disconnected"}
         /\ sock' \in [Sockets -> {"closed", "connecting", "open", "closing"}]
         /\ \E s \in Sockets \cup {None} : BusySockets' \subseteq BusySockets \cup {s}
<1>1. CASE wsRef # None /\ cur[wsRef] = "open"
  <2>1. sock' = cur /\ wsRef' = wsRef /\ connection' = connection
    BY <1>1 DEF Socket!Connect
  <2>2. BusySockets' \subseteq BusySockets
    BY <2>1 DEF BusySockets
  <2>. QED
    BY <2>1, <2>2
<1>2. CASE ~(wsRef # None /\ cur[wsRef] = "open")
  <2>1. PICK s \in Socket!Free : /\ sock' = [cur EXCEPT ![s] = "connecting"]
                                 /\ wsRef' = s /\ connection' = "connecting"
    BY <1>2 DEF Socket!Connect
  <2>2. s \in Sockets
    BY DEF Socket!Free
  <2>3. BusySockets' \subseteq BusySockets \cup {s}
    BY <2>1, <2>2 DEF BusySockets
  <2>. QED
    BY <2>1, <2>2, <2>3
<1>. QED
  BY <1>1, <1>2

\* The sockets of the page that Remount hands to connect().
LEMMA RemountCloses ==
  ASSUME sock \in [Sockets -> {"closed", "connecting", "open", "closing"}],
         NEW cur, cur = [s \in Sockets |-> IF s = wsRef /\ s \in Socket!Live THEN "closing" ELSE sock[s]]
  PROVE  /\ cur \in [Sockets -> {"closed", "connecting", "open", "closing"}]
         /\ \A s \in Sockets : cur[s] = "closed" <=> sock[s] = "closed"
BY DEF Socket!Live

\* Every step keeps the types of the socket.
LEMMA TypedStep == SocketSensible /\ SocketTyped /\ [Socket!Next]_socketVars => SocketTyped'
<1> SUFFICES ASSUME SocketSensible, SocketTyped, [Socket!Next]_socketVars PROVE SocketTyped'
  OBVIOUS
<1>t. /\ sock \in [Sockets -> {"closed", "connecting", "open", "closing"}]
      /\ pipe \in [Sockets -> Seq(1 .. MaxFrames)]
      /\ lost \subseteq Sockets /\ timers \subseteq Sockets
      /\ wsRef \in Sockets \cup {None} /\ lastTimer \in Sockets \cup {None}
      /\ connection \in {"connecting", "connected", "disconnected"}
      /\ frame \in 0 .. made /\ made \in 0 .. MaxFrames
      /\ up \in BOOLEAN /\ downs \in 0 .. MaxDowns /\ remounts \in 0 .. MaxRemounts
      /\ \A s \in Sockets : \A i \in 1 .. Len(pipe[s]) : pipe[s][i] <= made
  BY DEF SocketTyped, Socket!TypeOK
<1>c. /\ MaxFrames \in Nat /\ MaxDowns \in Nat /\ MaxRemounts \in Nat
      /\ frame \in Nat /\ made \in Nat /\ downs \in Nat /\ remounts \in Nat
  BY <1>t DEF SocketSensible
<1>1. CASE Socket!Broadcast
  <2>1. /\ made < MaxFrames /\ made' = made + 1
        /\ pipe' = [s \in Sockets |-> IF sock[s] = "open" /\ s \notin lost
                                      THEN Append(pipe[s], made + 1) ELSE pipe[s]]
        /\ UNCHANGED <<sock, lost, wsRef, timers, lastTimer, connection, frame, up, downs, remounts>>
    BY <1>1 DEF Socket!Broadcast
  <2>2. made + 1 \in 1 .. MaxFrames /\ frame \in 0 .. made' /\ made' \in 0 .. MaxFrames
    BY <1>t, <1>c, <2>1
  <2>3. ASSUME NEW s \in Sockets
        PROVE  /\ pipe'[s] \in Seq(1 .. MaxFrames)
               /\ \A i \in 1 .. Len(pipe'[s]) : pipe'[s][i] <= made'
    <3>1. /\ pipe[s] \in Seq(1 .. MaxFrames) /\ Len(pipe[s]) \in Nat
          /\ \A i \in 1 .. Len(pipe[s]) : pipe[s][i] \in Nat /\ pipe[s][i] <= made
      <4>1. pipe[s] \in Seq(1 .. MaxFrames) /\ Len(pipe[s]) \in Nat
        BY <1>t
      <4>2. \A i \in 1 .. Len(pipe[s]) : pipe[s][i] \in 1 .. MaxFrames
        BY <4>1, ElementOfSeq
      <4>. QED
        BY <1>t, <4>1, <4>2
    <3>2. CASE pipe'[s] = pipe[s]
      BY <1>c, <2>1, <3>1, <3>2
    <3>3. CASE pipe'[s] = Append(pipe[s], made + 1)
      <4>1. /\ pipe'[s] \in Seq(1 .. MaxFrames) /\ Len(pipe'[s]) = Len(pipe[s]) + 1
            /\ pipe'[s][Len(pipe[s]) + 1] = made + 1
            /\ \A i \in 1 .. Len(pipe[s]) : pipe'[s][i] = pipe[s][i]
        BY <2>2, <3>1, <3>3
      <4>2. \A i \in 1 .. Len(pipe'[s]) : i \in 1 .. Len(pipe[s]) \/ i = Len(pipe[s]) + 1
        BY <3>1, <4>1
      <4>. QED
        BY <1>c, <2>1, <3>1, <4>1, <4>2
    <3>. QED
      BY <2>1, <3>2, <3>3
  <2>4. pipe' \in [Sockets -> Seq(1 .. MaxFrames)]
    BY <2>1, <2>3
  <2>. QED
    BY <1>t, <2>1, <2>2, <2>3, <2>4 DEF SocketTyped, Socket!TypeOK
<1>2. CASE Socket!ServerGoes
  <2>1. downs' \in 0 .. MaxDowns
    BY <1>2, <1>c DEF Socket!ServerGoes
  <2>2. up' \in BOOLEAN
    BY <1>2 DEF Socket!ServerGoes
  <2>. QED
    BY <1>2, <1>t, <2>1, <2>2 DEF Socket!ServerGoes, SocketTyped, Socket!TypeOK
<1>3. CASE Socket!ServerComes
  BY <1>3, <1>t DEF Socket!ServerComes, SocketTyped, Socket!TypeOK
<1>4. ASSUME NEW s \in Sockets, Socket!DiesSilently(s) PROVE SocketTyped'
  BY <1>4, <1>t DEF Socket!DiesSilently, SocketTyped, Socket!TypeOK
<1>5. ASSUME NEW s \in Sockets, Socket!Opened(s) PROVE SocketTyped'
  BY <1>5, <1>t DEF Socket!Opened, SocketTyped, Socket!TypeOK
<1>6. ASSUME NEW s \in Sockets, Socket!Message(s) PROVE SocketTyped'
  <2>1. /\ pipe[s] # <<>> /\ frame' = Head(pipe[s])
        /\ pipe' = [pipe EXCEPT ![s] = Tail(pipe[s])]
        /\ UNCHANGED <<sock, lost, wsRef, timers, lastTimer, connection, made, up, downs, remounts>>
    BY <1>6, <1>t DEF Socket!Message
  <2>2. pipe[s] \in Seq(1 .. MaxFrames) /\ Len(pipe[s]) \in Nat /\ Len(pipe[s]) > 0
    BY <1>t, <2>1, EmptySeq
  <2>3. frame' = pipe[s][1] /\ 1 \in 1 .. Len(pipe[s])
    BY <2>1, <2>2
  <2>4. pipe[s][1] \in 1 .. MaxFrames /\ pipe[s][1] <= made
    BY <1>t, <2>2, <2>3, ElementOfSeq
  <2>5. frame' \in 0 .. made'
    BY <1>c, <2>1, <2>3, <2>4
  <2>6. /\ pipe'[s] \in Seq(1 .. MaxFrames)
        /\ \A i \in 1 .. Len(pipe'[s]) : i + 1 \in 1 .. Len(pipe[s]) /\ pipe'[s][i] = pipe[s][i + 1]
    <3>1. pipe'[s] = Tail(pipe[s])
      BY <1>t, <2>1
    <3>2. /\ Tail(pipe[s]) \in Seq(1 .. MaxFrames) /\ Len(Tail(pipe[s])) = Len(pipe[s]) - 1
          /\ \A i \in 1 .. Len(Tail(pipe[s])) : Tail(pipe[s])[i] = pipe[s][i + 1]
      BY <2>1, <2>2, HeadTailProperties
    <3>. QED
      BY <2>2, <3>1, <3>2
  <2>7. \A i \in 1 .. Len(pipe'[s]) : pipe'[s][i] <= made'
    BY <1>t, <2>1, <2>6
  <2>8. \A t \in Sockets : pipe'[t] = pipe[t] \/ t = s
    BY <1>t, <2>1
  <2>9. pipe' \in [Sockets -> Seq(1 .. MaxFrames)]
    BY <1>t, <2>1, <2>6
  <2>. QED
    BY <1>t, <2>1, <2>5, <2>7, <2>8, <2>9 DEF SocketTyped, Socket!TypeOK
<1>7. ASSUME NEW s \in Sockets, Socket!Closed(s) PROVE SocketTyped'
  <2>1. <<>> \in Seq(1 .. MaxFrames) /\ Len(<<>>) = 0
    BY EmptySeq
  <2>2. \A t \in Sockets : pipe'[t] = <<>> \/ pipe'[t] = pipe[t]
    BY <1>7, <1>t DEF Socket!Closed
  <2>3. pipe' \in [Sockets -> Seq(1 .. MaxFrames)]
    BY <1>7, <1>t, <2>1 DEF Socket!Closed
  <2>4. \A t \in Sockets : \A i \in 1 .. Len(pipe'[t]) : pipe'[t][i] <= made'
    BY <1>7, <1>t, <2>1, <2>2 DEF Socket!Closed
  <2>. QED
    BY <1>7, <1>t, <2>3, <2>4 DEF Socket!Closed, SocketTyped, Socket!TypeOK
<1>8. ASSUME NEW s \in Sockets, Socket!Reconnect(s) PROVE SocketTyped'
  <2>1. /\ wsRef' \in Sockets \cup {None}
        /\ connection' \in {"connecting", "connected", "disconnected"}
        /\ sock' \in [Sockets -> {"closed", "connecting", "open", "closing"}]
    BY <1>8, <1>t, ConnectAdds DEF Socket!Reconnect
  <2>. QED
    BY <1>8, <1>t, <2>1 DEF Socket!Reconnect, SocketTyped, Socket!TypeOK
<1>9. CASE Socket!Remount
  <2> DEFINE cur == [s \in Sockets |-> IF s = wsRef /\ s \in Socket!Live THEN "closing" ELSE sock[s]]
  <2>1. Socket!Connect(cur, wsRef)
    BY <1>9 DEF Socket!Remount
  <2>2. /\ cur \in [Sockets -> {"closed", "connecting", "open", "closing"}]
        /\ \A s \in Sockets : cur[s] = "closed" <=> sock[s] = "closed"
    BY <1>t, RemountCloses
  <2> HIDE DEF cur
  <2>3. /\ wsRef' \in Sockets \cup {None}
        /\ connection' \in {"connecting", "connected", "disconnected"}
        /\ sock' \in [Sockets -> {"closed", "connecting", "open", "closing"}]
    BY <1>t, <2>1, <2>2, ConnectAdds
  <2>4. remounts' \in 0 .. MaxRemounts
    BY <1>9, <1>c DEF Socket!Remount
  <2>. QED
    BY <1>9, <1>t, <2>3, <2>4 DEF Socket!Remount, SocketTyped, Socket!TypeOK
<1>10. CASE UNCHANGED socketVars
  BY <1>10, <1>t DEF socketVars, SocketTyped, Socket!TypeOK
<1>. QED
  BY <1>1, <1>2, <1>3, <1>4, <1>5, <1>6, <1>7, <1>8, <1>9, <1>10 DEF Socket!Next

\* At the start one socket feeds the page.
LEMMA CountedInit == Socket!Init => SocketsCounted
<1> SUFFICES ASSUME Socket!Init PROVE SocketsCounted
  OBVIOUS
<1>1. timers = {} /\ remounts = 0
  BY DEF Socket!Init
<1>2. \E s : BusySockets \subseteq {s}
  BY DEF Socket!Init, BusySockets
<1>3. PICK s : BusySockets \subseteq {s}
  BY <1>2
<1>4. IsFiniteSet({s}) /\ Cardinality({s}) = 1 /\ IsFiniteSet(timers) /\ Cardinality(timers) = 0
  BY <1>1, FS_Singleton, FS_EmptySet
<1>5. IsFiniteSet(BusySockets) /\ Cardinality(BusySockets) <= 1 /\ Cardinality(BusySockets) \in Nat
  BY <1>3, <1>4, FS_Subset, FS_CardinalityType
<1>. QED
  BY <1>1, <1>4, <1>5 DEF SocketsCounted

\* One more or one less.
LEMMA OneMore ==
  ASSUME NEW S, NEW T, NEW x, IsFiniteSet(S), T \subseteq S \cup {x}
  PROVE  IsFiniteSet(T) /\ Cardinality(T) \in Nat /\ Cardinality(S) \in Nat
         /\ Cardinality(T) <= Cardinality(S) + 1
<1>1. IsFiniteSet(S \cup {x}) /\ Cardinality(S \cup {x}) <= Cardinality(S) + 1
      /\ Cardinality(S) \in Nat /\ Cardinality(S \cup {x}) \in Nat
  BY FS_AddElement, FS_CardinalityType
<1>2. IsFiniteSet(T) /\ Cardinality(T) <= Cardinality(S \cup {x}) /\ Cardinality(T) \in Nat
  BY <1>1, FS_Subset, FS_CardinalityType
<1>. QED
  BY <1>1, <1>2

\* A set without one of its members has one member less, or fewer.
LEMMA OneLess ==
  ASSUME NEW S, NEW T, NEW x \in S, IsFiniteSet(S), T \subseteq S \ {x}
  PROVE  IsFiniteSet(T) /\ Cardinality(T) \in Nat /\ Cardinality(S) \in Nat
         /\ Cardinality(T) + 1 <= Cardinality(S)
<1>1. IsFiniteSet(S \ {x}) /\ Cardinality(S \ {x}) = Cardinality(S) - 1
      /\ Cardinality(S) \in Nat /\ Cardinality(S \ {x}) \in Nat
  BY FS_RemoveElement, FS_CardinalityType
<1>2. IsFiniteSet(T) /\ Cardinality(T) <= Cardinality(S \ {x}) /\ Cardinality(T) \in Nat
  BY <1>1, FS_Subset, FS_CardinalityType
<1>. QED
  BY <1>1, <1>2

\* Every step keeps the number of feeds to one for each mount.
LEMMA CountedStep ==
  SocketSensible /\ SocketTyped /\ SocketsCounted /\ [Socket!Next]_socketVars
  => SocketsCounted'
<1> SUFFICES ASSUME SocketSensible, SocketTyped, SocketsCounted, [Socket!Next]_socketVars
             PROVE SocketsCounted'
  OBVIOUS
<1>t. /\ sock \in [Sockets -> {"closed", "connecting", "open", "closing"}]
      /\ timers \subseteq Sockets /\ remounts \in Nat
      /\ wsRef \in Sockets \cup {None}
      /\ connection \in {"connecting", "connected", "disconnected"}
  BY DEF SocketTyped, Socket!TypeOK
<1>c. /\ IsFiniteSet(BusySockets) /\ IsFiniteSet(timers)
      /\ Cardinality(BusySockets) + Cardinality(timers) <= 1 + remounts
      /\ Cardinality(BusySockets) \in Nat /\ Cardinality(timers) \in Nat
  BY FS_CardinalityType DEF SocketsCounted
<1>1. CASE UNCHANGED <<BusySockets, timers, remounts>>
  BY <1>1, <1>c DEF SocketsCounted
<1>2. ASSUME NEW s \in Sockets, Socket!Opened(s) PROVE SocketsCounted'
  <2>1. BusySockets' = BusySockets
    BY <1>2, <1>t DEF Socket!Opened, BusySockets
  <2>. QED
    BY <1>2, <1>1, <2>1 DEF Socket!Opened
<1>3. ASSUME NEW s \in Sockets, Socket!Closed(s) PROVE SocketsCounted'
  <2>1. s \in BusySockets /\ BusySockets' \subseteq BusySockets \ {s}
    BY <1>3, <1>t DEF Socket!Closed, Socket!Ends, BusySockets
  <2>2. timers' \subseteq timers \cup {s} /\ remounts' = remounts
    BY <1>3 DEF Socket!Closed
  <2>3. IsFiniteSet(BusySockets') /\ Cardinality(BusySockets') \in Nat /\ Cardinality(BusySockets') + 1 <= Cardinality(BusySockets)
    BY <1>c, <2>1, OneLess
  <2>4. IsFiniteSet(timers') /\ Cardinality(timers') \in Nat /\ Cardinality(timers') <= Cardinality(timers) + 1
    BY <1>c, <2>2, OneMore
  <2>. QED
    BY <1>t, <1>c, <2>2, <2>3, <2>4 DEF SocketsCounted
<1>4. ASSUME NEW s \in Sockets, Socket!Reconnect(s) PROVE SocketsCounted'
  <2>1. s \in timers /\ timers' = timers \ {s} /\ Socket!Connect(sock, wsRef) /\ remounts' = remounts
    BY <1>4 DEF Socket!Reconnect
  <2>2. PICK t \in Sockets \cup {None} : BusySockets' \subseteq BusySockets \cup {t}
    BY <1>t, <2>1, ConnectAdds
  <2>3. IsFiniteSet(BusySockets') /\ Cardinality(BusySockets') \in Nat /\ Cardinality(BusySockets') <= Cardinality(BusySockets) + 1
    BY <1>c, <2>2, OneMore
  <2>4. IsFiniteSet(timers') /\ Cardinality(timers') \in Nat /\ Cardinality(timers') + 1 <= Cardinality(timers)
    BY <1>c, <2>1, OneLess
  <2>. QED
    BY <1>t, <1>c, <2>1, <2>3, <2>4 DEF SocketsCounted
<1>5. CASE Socket!Remount
  <2> DEFINE cur == [s \in Sockets |-> IF s = wsRef /\ s \in Socket!Live THEN "closing" ELSE sock[s]]
  <2>1. timers' \subseteq timers /\ Socket!Connect(cur, wsRef) /\ remounts' = remounts + 1
    BY <1>5 DEF Socket!Remount
  <2>2. /\ cur \in [Sockets -> {"closed", "connecting", "open", "closing"}]
        /\ \A s \in Sockets : cur[s] = "closed" <=> sock[s] = "closed"
    BY <1>t, RemountCloses
  <2> HIDE DEF cur
  <2>3. PICK t \in Sockets \cup {None} : BusySockets' \subseteq BusySockets \cup {t}
    BY <1>t, <2>1, <2>2, ConnectAdds
  <2>4. IsFiniteSet(BusySockets') /\ Cardinality(BusySockets') \in Nat /\ Cardinality(BusySockets') <= Cardinality(BusySockets) + 1
    BY <1>c, <2>3, OneMore
  <2>5. IsFiniteSet(timers') /\ Cardinality(timers') \in Nat /\ Cardinality(timers') <= Cardinality(timers)
    BY <1>c, <2>1, FS_Subset, FS_CardinalityType
  <2>. QED
    BY <1>t, <1>c, <2>1, <2>4, <2>5 DEF SocketsCounted
<1>6. CASE UNCHANGED <<sock, timers, remounts>>
  BY <1>6, <1>1 DEF BusySockets
<1>. QED
  BY <1>2, <1>3, <1>4, <1>5, <1>6
  DEF Socket!Next, socketVars, Socket!Broadcast, Socket!ServerGoes, Socket!ServerComes,
      Socket!DiesSilently, Socket!Message

\* What is counted says how many sockets live.
LEMMA CountedMeans == SocketTyped /\ SocketsCounted => Socket!OneFeed
<1> SUFFICES ASSUME SocketTyped, SocketsCounted PROVE Socket!OneFeed
  OBVIOUS
<1>1. Socket!Live \subseteq BusySockets
  BY DEF Socket!Live, BusySockets
<1>2. IsFiniteSet(BusySockets) /\ IsFiniteSet(timers) /\ remounts \in Nat
      /\ Cardinality(BusySockets) + Cardinality(timers) <= 1 + remounts
  BY DEF SocketTyped, Socket!TypeOK, SocketsCounted
<1>3. /\ Cardinality(Socket!Live) <= Cardinality(BusySockets) /\ Cardinality(Socket!Live) \in Nat
      /\ Cardinality(BusySockets) \in Nat /\ Cardinality(timers) \in Nat
  BY <1>1, <1>2, FS_Subset, FS_CardinalityType
<1>. QED
  BY <1>2, <1>3, SocketCards DEF Socket!OneFeed

\* A step brings no older frame to a page that is not remounted: an old socket is
\* closed before the next one is asked for, and takes with it what was on its way.
LEMMA SocketForward ==
  SocketInv /\ [Socket!Next]_socketVars => [remounts' = 0
  => frame' >= frame]_socketVars
<1> SUFFICES ASSUME SocketInv, Socket!Next, remounts' = 0 PROVE frame' >= frame
  BY DEF socketVars
<1>t. SocketShape /\ FramesComing
  BY DEF SocketInv
<1>1. ASSUME NEW s \in Sockets, Socket!Message(s) PROVE frame' >= frame
  <2>1. remounts = 0 /\ pipe[s] # <<>> /\ frame' = Head(pipe[s])
    BY <1>1 DEF Socket!Message
  <2>2. /\ pipe[s] \in Seq(Nat) /\ Len(pipe[s]) \in Nat /\ frame \in Nat
        /\ pipe[s][1] \in Nat /\ frame' = pipe[s][1] /\ 1 \in 1 .. Len(pipe[s])
    BY <1>t, <2>1, LenProperties, EmptySeq, HeadTailProperties, ElementOfSeq DEF SocketShape
  <2>. QED
    BY <1>t, <2>1, <2>2 DEF FramesComing
<1>2. CASE UNCHANGED frame
  BY <1>t, <1>2 DEF SocketShape
<1>. QED
  BY <1>1, <1>2
  DEF Socket!Next, Socket!Broadcast, Socket!ServerGoes, Socket!ServerComes, Socket!Remount,
      Socket!DiesSilently, Socket!Opened, Socket!Closed, Socket!Reconnect

-----------------------------------------------------------------------------
(* The charts. *)

\* Its lists are those of Lists.
LEMMA ChartLists ==
  /\ \A S : Chart!Cardinality(S) = Cardinality(S)
  /\ \A s, S : Chart!At(s, S) = At(s, S)
<1>1. \A S : Chart!Cardinality(S) = Cardinality(S)
  BY DEF Chart!Cardinality, Cardinality
<1>2. \A S, i : Chart!Rank(S, i) = Rank(S, i)
  BY <1>1 DEF Chart!Rank, Rank
<1>3. \A S, k : Chart!Nth(S, k) = Nth(S, k)
  BY <1>2 DEF Chart!Nth, Nth
<1>. QED
  BY <1>1, <1>3 DEF Chart!At, At

(* The averages of the samples of a window. *)

\* What a bucket becomes, and the state of the loop over the samples.
Averages == [t : Int, sum : Nat, n : Nat \ {0}]
LoopState == [out : Seq(Averages), acc : [t : Int, v : Nat, n : Nat], cur : Int]

\* The larger of two numbers, as Max gives it.
LEMMA MaxOfTwo ==
  ASSUME NEW a \in Int, NEW b \in Int
  PROVE  /\ Chart!Max({a, b}) \in {a, b} /\ a <= Chart!Max({a, b}) /\ b <= Chart!Max({a, b})
<1>1. \E x \in {a, b} : \A y \in {a, b} : x >= y
  OBVIOUS
<1>. QED
  BY <1>1 DEF Chart!Max

\* The slice of a sample is a number.
LEMMA SliceType ==
  ASSUME NEW s \in Chart!Sample, NEW start \in Int, NEW dur \in Nat \ {0}
  PROVE  Chart!Slice(s, start, dur) \in Int
<1>1. s.t - start \in Int
  BY DEF Chart!Sample
<1>2. ASSUME NEW a \in Int PROVE Chart!GoDiv(a, dur) \in Int
  BY DEF Chart!GoDiv
<1>. QED
  BY <1>1, <1>2 DEF Chart!Slice

\* flush ends the bucket that has samples, and does nothing for one that has none.
LEMMA FlushProperties ==
  ASSUME NEW st \in LoopState
  PROVE  /\ Chart!Flush(st) \in LoopState /\ Chart!Flush(st).acc = Chart!EmptyAcc /\ Chart!Flush(st).cur = st.cur
         /\ st.acc.n = 0 => Chart!Flush(st).out = st.out
         /\ st.acc.n # 0 => Chart!Flush(st).out = Append(st.out, Chart!Average(st.acc))
         /\ st.acc.n # 0 => Chart!Average(st.acc) \in Averages
<1>1. ASSUME st.acc.n # 0 PROVE Chart!Average(st.acc) \in Averages
  <2>1. st.acc.t \in Int /\ st.acc.v \in Nat /\ st.acc.n \in Nat \ {0}
    BY <1>1 DEF LoopState
  <2>2. st.acc.t \div st.acc.n \in Int
    BY <2>1
  <2>. QED
    BY <2>1, <2>2 DEF Chart!Average, Averages
<1>2. Chart!EmptyAcc \in [t : Int, v : Nat, n : Nat]
  BY DEF Chart!EmptyAcc
<1> DEFINE out == IF st.acc.n = 0 THEN st.out ELSE Append(st.out, Chart!Average(st.acc))
<1>3. out \in Seq(Averages)
  BY <1>1 DEF LoopState
<1>4. Chart!Flush(st) = [st EXCEPT !.out = out, !.acc = Chart!EmptyAcc]
  BY DEF Chart!Flush, LoopState
<1> HIDE DEF out
<1>5. Chart!Flush(st) \in LoopState /\ Chart!Flush(st).acc = Chart!EmptyAcc /\ Chart!Flush(st).cur = st.cur
      /\ Chart!Flush(st).out = out
  BY <1>2, <1>3, <1>4 DEF LoopState
<1>. QED
  BY <1>1, <1>5 DEF out

\* A round of the loop, with or without a flush.
LEMMA ConsumeProperties ==
  ASSUME NEW st \in LoopState, NEW s \in Chart!Sample, NEW start \in Int, NEW dur \in Nat \ {0}
  PROVE  LET idx  == Chart!Slice(s, start, dur)
             base == IF idx # st.cur THEN Chart!Flush(st) ELSE st
             next == Chart!Consume(st, s, start, dur)
         IN  /\ next \in LoopState /\ next.out = base.out /\ next.cur = idx
             /\ next.acc = [t |-> base.acc.t + s.t, v |-> base.acc.v + s.v, n |-> base.acc.n + 1]
<1> DEFINE idx  == Chart!Slice(s, start, dur)
           base == IF idx # st.cur THEN Chart!Flush(st) ELSE st
           st1  == [base EXCEPT !.cur = idx]
           acc  == [t |-> base.acc.t + s.t, v |-> base.acc.v + s.v, n |-> base.acc.n + 1]
<1>1. idx \in Int
  BY SliceType
<1>2. base \in LoopState
  BY FlushProperties
<1>3. Chart!Consume(st, s, start, dur) = [st1 EXCEPT !.acc = acc]
  <2>1. CASE idx # st.cur
    <3>1. base = Chart!Flush(st) /\ st1.acc = base.acc
      BY <2>1, <1>2 DEF LoopState
    <3>. QED
      BY <2>1, <3>1 DEF Chart!Consume
  <2>2. CASE idx = st.cur
    <3>1. base = st /\ st1 = st
      BY <2>2, <1>2 DEF LoopState
    <3>. QED
      BY <2>2, <3>1 DEF Chart!Consume
  <2>. QED
    BY <2>1, <2>2
<1> HIDE DEF idx, base
<1>4. acc \in [t : Int, v : Nat, n : Nat]
  BY <1>2, SMTT(30) DEF LoopState, Chart!Sample
<1> HIDE DEF acc
<1>5. /\ [st1 EXCEPT !.acc = acc] \in LoopState
      /\ [st1 EXCEPT !.acc = acc].out = base.out
      /\ [st1 EXCEPT !.acc = acc].cur = idx
      /\ [st1 EXCEPT !.acc = acc].acc = acc
  BY <1>1, <1>2, <1>4 DEF LoopState
<1>. QED
  BY <1>3, <1>5 DEF idx, base, acc

\* The arguments of the loop.
LoopArgs(src, start, dur) == src \in Seq(Chart!Sample) /\ start \in Int /\ dur \in Nat \ {0}

LoopStart == [out |-> <<>>, acc |-> Chart!EmptyAcc, cur |-> -1]

\* The loop goes from each state to the next by one round.
LEMMA LoopRecurs ==
  ASSUME NEW src, NEW start, NEW dur, LoopArgs(src, start, dur)
  PROVE  /\ Chart!Loop(src, start, dur)[0] = LoopStart
         /\ \A i \in 1 .. Len(src) :
              Chart!Loop(src, start, dur)[i] = Chart!Consume(Chart!Loop(src, start, dur)[i - 1], src[i], start, dur)
         /\ \A i \in 0 .. Len(src) : Chart!Loop(src, start, dur)[i] \in LoopState
<1>. src \in Seq(Chart!Sample) /\ start \in Int /\ dur \in Nat \ {0}
  BY DEF LoopArgs
<1> DEFINE n == Len(src)
           step == [i \in 1 .. n |-> [st \in LoopState |-> Chart!Consume(st, src[i], start, dur)]]
           IsLoop(g) == g = [i \in 0 .. Len(src) |->
                          IF i = 0 THEN LoopStart ELSE Chart!Consume(g[i - 1], src[i], start, dur)]
<1>1. n \in Nat /\ \A i \in 1 .. n : src[i] \in Chart!Sample
  OBVIOUS
<1>2. \A i \in 1 .. n : \A st \in LoopState : Chart!Consume(st, src[i], start, dur) \in LoopState
  BY <1>1, ConsumeProperties
<1>3. step \in [1 .. n -> [LoopState -> LoopState]]
  BY <1>2
<1>4. \A st \in LoopState : \A i \in 1 .. n : step[i][st] = Chart!Consume(st, src[i], start, dur)
  OBVIOUS
<1> HIDE DEF step
<1>5. LoopStart \in LoopState
  BY DEF LoopStart, LoopState, Chart!EmptyAcc
<1>6. PICK f \in [0 .. n -> LoopState] :
        f[0] = LoopStart /\ \A i \in 1 .. n : f[i] = step[i][f[i - 1]]
  <2> HIDE DEF n
  <2>1. Steps(LoopState, LoopStart, n, step)
    BY <1>1, <1>3, <1>5 DEF Steps
  <2>. QED
    BY <2>1, Recursion
<1>7. IsLoop(f)
  <2>1. ASSUME NEW i \in 0 .. n
        PROVE  f[i] = IF i = 0 THEN LoopStart ELSE Chart!Consume(f[i - 1], src[i], start, dur)
    <3>1. CASE i = 0
      BY <1>6, <3>1
    <3>2. CASE i # 0
      <4>1. i \in 1 .. n /\ i - 1 \in 0 .. n
        BY <1>1, <3>2
      <4>. QED
        BY <1>4, <1>6, <3>2, <4>1
    <3>. QED
      BY <3>1, <3>2
  <2>2. f = [i \in 0 .. n |-> f[i]]
    BY <1>6
  <2>. QED
    BY <2>1, <2>2
<1>8. Chart!Loop(src, start, dur) = CHOOSE g : IsLoop(g)
  BY DEF Chart!Loop, LoopStart
<1> DEFINE F == Chart!Loop(src, start, dur)
<1> HIDE DEF IsLoop, F
<1>9. IsLoop(F)
  BY <1>7, <1>8 DEF F
<1>10. F = [i \in 0 .. n |-> IF i = 0 THEN LoopStart ELSE Chart!Consume(F[i - 1], src[i], start, dur)]
  BY <1>9 DEF IsLoop
<1> HIDE DEF n
<1>11. F[0] = LoopStart
  BY <1>1, <1>10
<1>12. \A i \in 1 .. n : F[i] = Chart!Consume(F[i - 1], src[i], start, dur)
  BY <1>1, <1>10
<1> DEFINE T == {i \in Nat : i <= n => F[i] \in LoopState}
<1>13. 0 \in T
  BY <1>5, <1>11
<1>14. ASSUME NEW i \in Nat, i \in T PROVE i + 1 \in T
  <2>1. ASSUME i + 1 <= n PROVE F[i + 1] \in LoopState
    <3>1. i + 1 \in 1 .. n /\ (i + 1) - 1 = i /\ i <= n
      BY <1>1, <2>1
    <3>2. F[i] \in LoopState /\ F[i + 1] = Chart!Consume(F[i], src[i + 1], start, dur)
      BY <1>12, <1>14, <3>1
    <3>. QED
      BY <1>2, <3>1, <3>2
  <2>. QED
    BY <2>1
<1> HIDE DEF T
<1>15. \A i \in Nat : i \in T
  BY <1>13, <1>14, Induction
<1>16. \A i \in 0 .. n : F[i] \in LoopState
  BY <1>1, <1>15 DEF T
<1>. QED
  BY <1>11, <1>12, <1>16 DEF F, n

\* The lengths of slices are positive.
LEMMA BucketDurType ==
  ASSUME NEW span \in Int, NEW p \in Nat \ {0}
  PROVE  Chart!BucketDur(span, p) \in Nat \ {0} /\ span \div p <= Chart!BucketDur(span, p)
<1> DEFINE len == span \div p
<1>1. len \in Int /\ 1 \in Int
  OBVIOUS
<1>2. Chart!BucketDur(span, p) = Chart!Max({1, len})
  BY DEF Chart!BucketDur
<1> HIDE DEF len
<1>3. Chart!Max({1, len}) \in {1, len} /\ 1 <= Chart!Max({1, len}) /\ len <= Chart!Max({1, len})
  BY <1>1, MaxOfTwo
<1>4. Chart!BucketDur(span, p) \in Nat \ {0} /\ len <= Chart!BucketDur(span, p)
  BY <1>1, <1>2, <1>3
<1>. QED
  BY <1>4 DEF len

\* Where a slice begins.
Edge(start, dur, k) == start + dur * k

\* A later slice begins where an earlier one has ended.
LEMMA Edges ==
  ASSUME NEW start \in Int, NEW dur \in Nat \ {0}, NEW x \in Int, NEW y \in Int
  PROVE  /\ Edge(start, dur, x) \in Int
         /\ x < y => Edge(start, dur, x) + dur <= Edge(start, dur, y)
<1> DEFINE a == dur * x
           b == dur * y
<1>1. a \in Int /\ b \in Int /\ (x < y => a + dur <= b)
  BY Multiples
<1> HIDE DEF a, b
<1>2. start + a \in Int /\ (x < y => (start + a) + dur <= start + b)
  BY <1>1
<1>. QED
  BY <1>2 DEF Edge, a, b

\* The loop over a window in order of time, from its first sample on.
SortedArgs(src, start, dur) ==
  LoopArgs(src, start, dur) /\ Chart!InOrder(src) /\ Len(src) > 0 /\ start = src[1].t

\* Where the slice of a sample begins.
Low(s, start, dur) == Edge(start, dur, Chart!Slice(s, start, dur))

\* The slice of each sample contains it, and the slices come in order.
LEMMA SlicesGrow ==
  ASSUME NEW src, NEW start, NEW dur, SortedArgs(src, start, dur)
  PROVE  /\ \A i \in 1 .. Len(src) :
              /\ Chart!Slice(src[i], start, dur) \in Nat /\ src[i].t \in Int
              /\ Low(src[i], start, dur) \in Int /\ Low(src[i], start, dur) <= src[i].t
              /\ src[i].t < Low(src[i], start, dur) + dur
         /\ \A i \in 1 .. Len(src) :
              i > 1 => Chart!Slice(src[i - 1], start, dur) <= Chart!Slice(src[i], start, dur)
<1> DEFINE n == Len(src)
           k(i) == Chart!Slice(src[i], start, dur)
<1>0. /\ src \in Seq(Chart!Sample) /\ start \in Int /\ dur \in Nat \ {0}
      /\ n \in Nat \ {0} /\ DOMAIN src = 1 .. n /\ start = src[1].t
      /\ \A i, j \in 1 .. n : i < j => src[i].t <= src[j].t
  BY DEF SortedArgs, LoopArgs, Chart!InOrder
<1>1. \A i \in 1 .. n : src[i].t \in Int
  <2>1. \A i \in 1 .. n : src[i] \in Chart!Sample
    BY <1>0
  <2>. QED
    BY <2>1 DEF Chart!Sample
<1> DEFINE e(i) == Edge(start, dur, k(i))
<1>2. ASSUME NEW i \in 1 .. n
      PROVE  k(i) \in Nat /\ e(i) \in Int /\ e(i) <= src[i].t /\ src[i].t < e(i) + dur
  <2> DEFINE a == src[i].t - start
             q == a \div dur
             m == dur * q
  <2>1. i = 1 \/ 1 < i
    BY <1>0
  <2>2. start <= src[i].t
    BY <1>0, <1>1, <2>1
  <2>3. a \in Nat /\ a >= 0 /\ src[i].t = start + a
    BY <1>0, <1>1, <2>2
  <2>4. k(i) = q
    BY <2>3 DEF Chart!Slice, Chart!GoDiv
  <2> HIDE DEF a
  <2>5. q \in Nat /\ m <= a /\ a < m + dur
    BY <1>0, <2>3, Division
  <2> HIDE DEF q, k
  <2>6. m \in Int
    BY <1>0, <2>5, Multiples
  <2>7. e(i) = start + m
    BY <2>4 DEF Edge
  <2> HIDE DEF m, e
  <2>. QED
    BY <1>0, <2>3, <2>4, <2>5, <2>6, <2>7
<1>3. ASSUME NEW i \in 1 .. n, i > 1 PROVE k(i - 1) <= k(i)
  <2> HIDE DEF k
  <2>1. i - 1 \in 1 .. n /\ i - 1 < i
    BY <1>0, <1>3
  <2>2. src[i - 1].t <= src[i].t /\ src[i - 1].t \in Int /\ src[i].t \in Int
    BY <1>0, <1>1, <2>1
  <2>3. /\ k(i - 1) \in Nat /\ k(i) \in Nat /\ e(i) \in Int /\ e(i - 1) \in Int
        /\ e(i - 1) <= src[i - 1].t /\ src[i].t < e(i) + dur
    BY <1>2, <2>1
  <2>4. k(i) < k(i - 1) => e(i) + dur <= e(i - 1)
    <3>1. start \in Int /\ dur \in Nat \ {0} /\ k(i) \in Int /\ k(i - 1) \in Int
      BY <1>0, <2>3
    <3>. QED
      BY <3>1, Edges
  <2> HIDE DEF e
  <2>. QED
    BY <1>0, <2>2, <2>3, <2>4
<1>. QED
  BY <1>1, <1>2, <1>3 DEF Low

\* The buckets are in order of time and before limit.
Rising(out, limit) ==
  /\ \A j \in 1 .. Len(out) : out[j].t < limit
  /\ \A j, k \in 1 .. Len(out) : j < k => out[j].t < out[k].t

\* One of them is in the slice that begins at low.
Hit(out, low, dur) == \E j \in 1 .. Len(out) : low <= out[j].t /\ out[j].t < low + dur

\* What the loop has made of the first i samples: those of the current slice are
\* in the accumulator, and each slice before it has its bucket.
Thinned(src, start, dur, i, st) ==
  /\ st.cur = Chart!Slice(src[i], start, dur)
  /\ st.acc.n # 0
  /\ Low(src[i], start, dur) * st.acc.n <= st.acc.t
  /\ st.acc.t <= (Low(src[i], start, dur) + dur - 1) * st.acc.n
  /\ Rising(st.out, Low(src[i], start, dur))
  /\ \A m \in 1 .. i : \/ Chart!Slice(src[m], start, dur) = st.cur
                       \/ Hit(st.out, Low(src[m], start, dur), dur)

\* A bucket that is appended behind the others keeps what they hit, and hits.
LEMMA AppendHits ==
  ASSUME NEW out \in Seq(Averages), NEW b \in Averages, NEW low \in Int, NEW dur \in Nat \ {0},
         Rising(out, low), low <= b.t, b.t < low + dur
  PROVE  /\ Rising(Append(out, b), low + dur)
         /\ Hit(Append(out, b), low, dur)
         /\ \A x : Hit(out, x, dur) => Hit(Append(out, b), x, dur)
<1> DEFINE n == Len(out)
           e == Append(out, b)
<1>1. /\ n \in Nat /\ Len(e) = n + 1 /\ e[n + 1] = b /\ \A j \in 1 .. n : e[j] = out[j]
      /\ \A j \in 1 .. n : out[j] \in Averages
  OBVIOUS
<1>2. b.t \in Int /\ \A j \in 1 .. n : out[j].t \in Int
  BY <1>1 DEF Averages
<1> HIDE DEF e
<1>3. \A j \in 1 .. n : out[j].t < low
  BY DEF Rising
<1>4. \A j \in 1 .. n + 1 : j = n + 1 \/ j \in 1 .. n
  BY <1>1
<1> HIDE DEF n
<1>5. \A j \in 1 .. n + 1 : e[j].t < low + dur
  <2> TAKE j \in 1 .. n + 1
  <2>1. CASE j = n + 1
    BY <1>1, <2>1
  <2>2. CASE j \in 1 .. n
    BY <1>1, <1>2, <1>3, <2>2
  <2>. QED
    BY <1>4, <2>1, <2>2
<1>6. \A j, k \in 1 .. n + 1 : j < k => e[j].t < e[k].t
  <2> SUFFICES ASSUME NEW j \in 1 .. n + 1, NEW k \in 1 .. n + 1, j < k PROVE e[j].t < e[k].t
    OBVIOUS
  <2>1. j \in 1 .. n
    BY <1>1
  <2>2. CASE k = n + 1
    BY <1>1, <1>2, <1>3, <2>1, <2>2
  <2>3. CASE k \in 1 .. n
    BY <1>1, <2>1, <2>3 DEF Rising, n
  <2>. QED
    BY <1>4, <2>2, <2>3
<1>7. Rising(e, low + dur)
  BY <1>1, <1>5, <1>6 DEF Rising
<1>8. Hit(e, low, dur)
  <2>1. n + 1 \in 1 .. Len(e)
    BY <1>1
  <2>. QED
    BY <1>1, <2>1 DEF Hit
<1>9. \A x : Hit(out, x, dur) => Hit(e, x, dur)
  <2>1. \A j \in 1 .. n : j \in 1 .. Len(e)
    BY <1>1
  <2>. QED
    BY <1>1, <2>1 DEF Hit, n
<1>. QED
  BY <1>7, <1>8, <1>9 DEF e

\* flush gives the current slice its bucket.
LEMMA FlushThins ==
  ASSUME NEW src, NEW start, NEW dur, SortedArgs(src, start, dur), NEW i \in 1 .. Len(src),
         NEW st \in LoopState, Thinned(src, start, dur, i, st)
  PROVE  /\ Rising(Chart!Flush(st).out, Low(src[i], start, dur) + dur)
         /\ \A m \in 1 .. i : Hit(Chart!Flush(st).out, Low(src[m], start, dur), dur)
<1> DEFINE low == Low(src[i], start, dur)
           b == Chart!Average(st.acc)
           out == st.out
<1>1. dur \in Nat \ {0} /\ start \in Int /\ Len(src) \in Nat
  BY DEF SortedArgs, LoopArgs
<1>2. low \in Int
  BY SlicesGrow
<1>3. /\ st.acc.n \in Nat \ {0} /\ st.acc.t \in Int /\ out \in Seq(Averages)
      /\ low * st.acc.n <= st.acc.t /\ st.acc.t <= (low + dur - 1) * st.acc.n
      /\ Rising(out, low)
  BY DEF Thinned, LoopState
<1>4. Chart!Flush(st).out = Append(out, b) /\ b \in Averages
  BY <1>3, FlushProperties
<1>5. b.t = st.acc.t \div st.acc.n
  BY DEF Chart!Average
<1> HIDE DEF low, b, out
<1> DEFINE t == st.acc.t
           n == st.acc.n
           hi == low + dur - 1
<1>6. low <= b.t /\ b.t <= hi /\ b.t \in Int
  <2>1. n \in Nat \ {0} /\ t \in Int /\ low * n <= t /\ t <= hi * n /\ hi \in Int
    BY <1>1, <1>2, <1>3
  <2>2. b.t = t \div n
    BY <1>5
  <2> HIDE DEF t, n, hi
  <2>3. t \div n \in Int /\ low <= t \div n /\ t \div n <= hi
    BY <1>2, <2>1, DivisionBetween
  <2>. QED
    BY <2>2, <2>3
<1>7. b.t < low + dur
  BY <1>1, <1>2, <1>6
<1>8. /\ Rising(Append(out, b), low + dur) /\ Hit(Append(out, b), low, dur)
      /\ \A x : Hit(out, x, dur) => Hit(Append(out, b), x, dur)
  BY <1>1, <1>2, <1>3, <1>4, <1>6, <1>7, AppendHits
<1>9. ASSUME NEW m \in 1 .. i PROVE Hit(Append(out, b), Low(src[m], start, dur), dur)
  <2>1. Low(src[m], start, dur) = low \/ Hit(out, Low(src[m], start, dur), dur)
    BY DEF Thinned, Low, low, out
  <2>. QED
    BY <1>8, <2>1
<1>. QED
  BY <1>4, <1>8, <1>9 DEF low

\* A sample adds itself to the sum within the bounds of its slice.
LEMMA SumGrows ==
  ASSUME NEW lo \in Int, NEW hi \in Int, NEW n \in Nat, NEW t \in Int, NEW s \in Int,
         lo * n <= t, t <= hi * n, lo <= s, s <= hi
  PROVE  lo * (n + 1) <= t + s /\ t + s <= hi * (n + 1)
<1>1. lo * n \in Int /\ hi * n \in Int
  BY SMTT(30)
<1>2. lo * (n + 1) = lo * n + lo /\ hi * (n + 1) = hi * n + hi
  BY SMTT(30)
<1>. QED
  BY <1>1, <1>2

\* A round of the loop puts a sample where it belongs.
LEMMA ConsumeThins ==
  ASSUME NEW src, NEW start, NEW dur, SortedArgs(src, start, dur), NEW i \in 1 .. Len(src),
         NEW st \in LoopState, i = 1 => st = LoopStart, i > 1 => Thinned(src, start, dur, i - 1, st)
  PROVE  Thinned(src, start, dur, i, Chart!Consume(st, src[i], start, dur))
<1> DEFINE s == src[i]
           low == Low(s, start, dur)
           idx == Chart!Slice(s, start, dur)
           next == Chart!Consume(st, s, start, dur)
           base == IF idx # st.cur THEN Chart!Flush(st) ELSE st
<1>0. /\ dur \in Nat \ {0} /\ start \in Int /\ Len(src) \in Nat /\ s \in Chart!Sample
  BY DEF SortedArgs, LoopArgs
<1>1. idx \in Nat /\ s.t \in Int /\ low <= s.t /\ s.t < low + dur /\ i \in Nat
  BY SlicesGrow
<1>2. low \in Int
  BY SlicesGrow
<1>3. /\ next \in LoopState /\ next.out = base.out /\ next.cur = idx
      /\ next.acc = [t |-> base.acc.t + s.t, v |-> base.acc.v + s.v, n |-> base.acc.n + 1]
  BY <1>0, ConsumeProperties
<1>4. base \in LoopState
  BY FlushProperties
<1>5. base.acc.n \in Nat /\ base.acc.t \in Int
  BY <1>4 DEF LoopState
<1>6. SUFFICES /\ low * base.acc.n <= base.acc.t /\ base.acc.t <= (low + dur - 1) * base.acc.n
               /\ Rising(base.out, low)
               /\ \A m \in 1 .. i : \/ Chart!Slice(src[m], start, dur) = idx
                                    \/ Hit(base.out, Low(src[m], start, dur), dur)
  <2> DEFINE t == base.acc.t
             n == base.acc.n
             hi == low + dur - 1
  <2>1. next.acc.t = t + s.t /\ next.acc.n = n + 1
    BY <1>3
  <2>2. hi \in Int /\ s.t <= hi
    BY <1>0, <1>1, <1>2
  <2> HIDE DEF t, n, hi, low, base, next
  <2>3. ASSUME low * n <= t, t <= hi * n
        PROVE  low * (n + 1) <= t + s.t /\ t + s.t <= hi * (n + 1)
    <3>1. n \in Nat /\ t \in Int
      BY <1>5 DEF n, t
    <3>. QED
      BY <1>1, <1>2, <2>2, <2>3, <3>1, SumGrows
  <2>4. n + 1 # 0
    BY <1>5 DEF n
  <2>. QED
    BY <1>3, <2>1, <2>3, <2>4 DEF Thinned, low, t, n, hi, next
<1>7. CASE i = 1
  <2>1. st = LoopStart /\ st.acc.n = 0 /\ st.acc.t = 0 /\ st.out = <<>> /\ st.cur = -1
    BY <1>7 DEF LoopStart, Chart!EmptyAcc
  <2>2. base = Chart!Flush(st)
    BY <1>1, <2>1
  <2>3. base.out = <<>> /\ base.acc.n = 0 /\ base.acc.t = 0 /\ Len(base.out) = 0
    BY <2>1, <2>2, FlushProperties DEF Chart!EmptyAcc
  <2> HIDE DEF base, low
  <2>4. low * 0 = 0 /\ (low + dur - 1) * 0 = 0
    BY <1>0, <1>2
  <2>5. \A m \in 1 .. i : m = i
    BY <1>7
  <2>. QED
    BY <2>3, <2>4, <2>5 DEF Rising
<1>8. CASE i > 1
  <2> DEFINE old == src[i - 1]
             mid == Low(old, start, dur)
  <2>1. i - 1 \in 1 .. Len(src) /\ i > 1 /\ (\A m \in 1 .. i : m = i \/ m \in 1 .. i - 1)
    BY <1>0, <1>8
  <2>2. /\ Thinned(src, start, dur, i - 1, st) /\ st.cur = Chart!Slice(old, start, dur)
        /\ st.cur \in Nat /\ st.cur <= idx
    BY <1>8, <2>1, SlicesGrow DEF Thinned
  <2>3. CASE idx = st.cur
    <3>1. base = st /\ mid = low
      BY <2>2, <2>3 DEF Low
    <3>2. \A m \in 1 .. i : \/ Chart!Slice(src[m], start, dur) = idx
                            \/ Hit(base.out, Low(src[m], start, dur), dur)
      <4> HIDE DEF base
      <4>. QED
        BY <2>1, <2>2, <2>3, <3>1 DEF Thinned
    <3>. QED
      BY <2>2, <3>1, <3>2 DEF Thinned
  <2>4. CASE idx # st.cur
    <3>1. base = Chart!Flush(st) /\ base.acc.n = 0 /\ base.acc.t = 0
      BY <2>4, FlushProperties DEF Chart!EmptyAcc
    <3>2. /\ Rising(base.out, mid + dur)
          /\ \A m \in 1 .. i - 1 : Hit(base.out, Low(src[m], start, dur), dur)
      BY <2>1, <2>2, <3>1, FlushThins
    <3>3. mid + dur <= low /\ mid \in Int
      <4>1. st.cur < idx
        BY <1>1, <2>2, <2>4
      <4>2. mid = Edge(start, dur, st.cur) /\ low = Edge(start, dur, idx)
        BY <2>2 DEF Low
      <4>3. start \in Int /\ dur \in Nat \ {0} /\ st.cur \in Int /\ idx \in Int
        BY <1>0, <1>1, <2>2
      <4>4. /\ Edge(start, dur, st.cur) \in Int
            /\ Edge(start, dur, st.cur) + dur <= Edge(start, dur, idx)
        BY <4>1, <4>3, Edges
      <4> HIDE DEF mid, low, idx
      <4>. QED
        BY <4>2, <4>4
    <3>4. \A j \in 1 .. Len(base.out) : base.out[j].t \in Int
      <4>1. base.out \in Seq(Averages)
        BY <1>4 DEF LoopState
      <4> HIDE DEF base
      <4>2. \A j \in 1 .. Len(base.out) : base.out[j] \in Averages
        BY <4>1
      <4>. QED
        BY <4>2 DEF Averages
    <3> HIDE DEF base, mid, low
    <3>5. Rising(base.out, low)
      BY <1>0, <1>2, <3>2, <3>3, <3>4 DEF Rising
    <3>6. low * 0 = 0 /\ (low + dur - 1) * 0 = 0
      BY <1>0, <1>2
    <3>. QED
      BY <2>1, <3>1, <3>2, <3>5, <3>6
  <2>. QED
    BY <2>3, <2>4
<1>9. i = 1 \/ i > 1
  BY <1>1
<1>. QED
  BY <1>7, <1>8, <1>9

\* The loop thins a window out.
LEMMA LoopThins ==
  ASSUME NEW src, NEW start, NEW dur, SortedArgs(src, start, dur)
  PROVE  Thinned(src, start, dur, Len(src), Chart!Loop(src, start, dur)[Len(src)])
<1> DEFINE n == Len(src)
           L == Chart!Loop(src, start, dur)
           Good(i) == Thinned(src, start, dur, i, L[i])
           T == {i \in Nat : 1 <= i /\ i <= n => Good(i)}
<1>0. LoopArgs(src, start, dur) /\ n \in Nat \ {0}
  BY DEF SortedArgs, LoopArgs
<1>1. /\ L[0] = LoopStart /\ \A i \in 1 .. n : L[i] = Chart!Consume(L[i - 1], src[i], start, dur)
      /\ \A j \in 0 .. n : L[j] \in LoopState
  BY <1>0, LoopRecurs
<1> HIDE DEF L
<1>2. 0 \in T
  OBVIOUS
<1>3. ASSUME NEW i \in Nat, i \in T PROVE i + 1 \in T
  <2> SUFFICES ASSUME i + 1 <= n PROVE Good(i + 1)
    OBVIOUS
  <2>1. /\ i + 1 \in 1 .. n /\ (i + 1) - 1 = i /\ i \in 0 .. n
        /\ i + 1 = 1 => i = 0
        /\ i + 1 > 1 => 1 <= i /\ i <= n
    BY <1>0
  <2>2. L[i] \in LoopState /\ L[i + 1] = Chart!Consume(L[i], src[i + 1], start, dur)
    BY <1>1, <2>1
  <2>3. i + 1 = 1 => L[i] = LoopStart
    BY <1>1, <2>1
  <2>4. i + 1 > 1 => Thinned(src, start, dur, (i + 1) - 1, L[i])
    BY <1>3, <2>1
  <2> HIDE DEF n
  <2>5. Thinned(src, start, dur, i + 1, Chart!Consume(L[i], src[i + 1], start, dur))
    BY <2>1, <2>2, <2>3, <2>4, ConsumeThins DEF n
  <2>. QED
    BY <2>2, <2>5
<1> HIDE DEF T
<1>4. n \in T
  BY <1>0, <1>2, <1>3, Induction
<1>5. n \in Nat /\ 1 <= n /\ n <= n
  BY <1>0
<1> HIDE DEF n
<1>6. Good(n)
  BY <1>4, <1>5 DEF T
<1>. QED
  BY <1>6 DEF L, n

\* The blur of an answer.
BlurOf(src, p) ==
  IF Len(src) <= p THEN 0 ELSE Chart!BucketDur(Chart!Last(src).t - Head(src).t, p) - 1

\* What comes back for a window: its samples, if they are few; and, if they are in
\* order of time, points in order, of which one is near each sample.
LEMMA DownsampleThins ==
  ASSUME NEW src \in Seq(Chart!Sample), NEW p \in Nat \ {0}
  PROVE  LET out == Chart!Downsample(src, p)
         IN  /\ out \in Seq(Averages)
             /\ BlurOf(src, p) \in Nat
             /\ Chart!InOrder(src) =>
                  \A j, k \in 1 .. Len(out) : j < k => out[j].t <= out[k].t
             /\ Chart!InOrder(src) \/ Len(src) <= p =>
                  \A i \in 1 .. Len(src) : \E j \in 1 .. Len(out) :
                    out[j].t \in src[i].t - BlurOf(src, p) .. src[i].t + BlurOf(src, p)
<1> DEFINE n == Len(src)
           asked == Chart!Max({1, p})
           start == Head(src).t
           span == Chart!Last(src).t - start
           raw == [i \in DOMAIN src |-> Chart!Raw(src[i])]
           dur == Chart!BucketDur(span, p)
           out == Chart!Downsample(src, p)
<1>1. asked = p
  <2>1. 1 \in Int /\ p \in Int
    OBVIOUS
  <2>2. asked \in {1, p} /\ 1 <= asked /\ p <= asked
    BY <2>1, MaxOfTwo
  <2> HIDE DEF asked
  <2>. QED
    BY <2>2
<1>2. out = IF n <= p THEN raw ELSE IF span <= 0 THEN <<Chart!Last(raw)>> ELSE Chart!Buckets(src, start, dur)
  BY <1>1 DEF Chart!Downsample
<1>3. /\ n \in Nat /\ DOMAIN src = 1 .. n /\ \A i \in 1 .. n : src[i] \in Chart!Sample
      /\ \A i \in 1 .. n : src[i].t \in Int
  <2>1. n \in Nat /\ DOMAIN src = 1 .. n /\ \A i \in 1 .. n : src[i] \in Chart!Sample
    OBVIOUS
  <2>. QED
    BY <2>1 DEF Chart!Sample
<1>4. \A i \in 1 .. n : Chart!Raw(src[i]) \in Averages /\ Chart!Raw(src[i]).t = src[i].t
  BY <1>3 DEF Chart!Raw, Chart!Sample, Averages
<1>5. raw \in Seq(Averages) /\ Len(raw) = n /\ \A i \in 1 .. n : raw[i].t = src[i].t
  BY <1>3, <1>4
<1> HIDE DEF asked, raw, out
<1>6. CASE n <= p
  <2>1. out = raw /\ BlurOf(src, p) = 0
    BY <1>2, <1>6 DEF BlurOf
  <2>2. Chart!InOrder(src) => \A j, k \in 1 .. n : j < k => raw[j].t <= raw[k].t
    BY <1>3, <1>5 DEF Chart!InOrder
  <2>3. \A i \in 1 .. n : raw[i].t \in src[i].t - 0 .. src[i].t + 0
    BY <1>3, <1>5
  <2> HIDE DEF n
  <2>. QED
    BY <1>5, <2>1, <2>2, <2>3 DEF out, n
<1>7. CASE ~(n <= p)
  <2>0. 1 \in 1 .. n /\ n \in 1 .. n /\ n > 0 /\ Head(src) = src[1] /\ Chart!Last(src) = src[n]
    BY <1>3, <1>7 DEF Chart!Last
  <2>1. start \in Int /\ span \in Int /\ start = src[1].t /\ span = src[n].t - start
    BY <1>3, <2>0
  <2>2. dur \in Nat \ {0} /\ BlurOf(src, p) = dur - 1
    <3>1. BlurOf(src, p) = dur - 1
      BY <1>7 DEF BlurOf
    <3> HIDE DEF span
    <3>2. dur \in Nat \ {0}
      BY <2>1, BucketDurType
    <3>. QED
      BY <3>1, <3>2
  <2> DEFINE blur == BlurOf(src, p)
  <2> HIDE DEF blur, span, start, dur
  <2>3. blur \in Nat /\ blur = dur - 1
    BY <2>2 DEF blur
  <2>4. CASE span <= 0
    <3>1. out = <<Chart!Last(raw)>>
      BY <1>2, <1>7, <2>4
    <3>2. Chart!Last(raw) = raw[n] /\ raw[n] \in Averages /\ raw[n].t = src[n].t
      BY <1>5, <2>0 DEF Chart!Last
    <3>3. out \in Seq(Averages) /\ Len(out) = 1 /\ out[1].t = src[n].t
      BY <3>1, <3>2
    <3>4. ASSUME Chart!InOrder(src), NEW i \in 1 .. n PROVE src[n].t \in src[i].t - blur .. src[i].t + blur
      <4>0. src[i].t \in Int /\ src[n].t \in Int /\ src[1].t \in Int
        BY <1>3, <2>0
      <4>1. \A j, k \in 1 .. n : j < k => src[j].t <= src[k].t
        BY <1>3, <3>4 DEF Chart!InOrder
      <4>2. n \in Nat
        BY <1>3
      <4> HIDE DEF n
      <4>3. (i = 1 \/ 1 < i) /\ (i = n \/ i < n)
        BY <4>2
      <4>4. i = 1 \/ src[1].t <= src[i].t
        BY <2>0, <4>1, <4>3
      <4>5. i = n \/ src[i].t <= src[n].t
        BY <2>0, <4>1, <4>3
      <4>6. src[n].t <= src[1].t
        BY <2>1, <2>4, <4>0
      <4>7. src[i].t = src[n].t
        BY <4>0, <4>4, <4>5, <4>6
      <4>. QED
        BY <2>3, <4>0, <4>7
    <3>5. 1 \in 1 .. Len(out) /\ \A j, k \in 1 .. Len(out) : ~(j < k)
      BY <3>3
    <3>. QED
      BY <1>7, <2>3, <3>3, <3>4, <3>5 DEF out, blur
  <2>5. CASE ~(span <= 0)
    <3> DEFINE st == Chart!Loop(src, start, dur)[n]
    <3>1. LoopArgs(src, start, dur) /\ n \in 0 .. n
      BY <1>3, <2>1, <2>2 DEF LoopArgs
    <3>2. st \in LoopState
      BY <3>1, LoopRecurs
    <3>3. out = Chart!Flush(st).out /\ Chart!Flush(st) \in LoopState
      BY <1>2, <1>7, <2>5, <3>2, FlushProperties DEF Chart!Buckets
    <3>4. out \in Seq(Averages)
      BY <3>3 DEF LoopState
    <3> HIDE DEF st
    <3>5. ASSUME Chart!InOrder(src)
          PROVE  /\ \A j, k \in 1 .. Len(out) : j < k => out[j].t < out[k].t
                 /\ \A i \in 1 .. n : Hit(out, Low(src[i], start, dur), dur)
      <4>1. SortedArgs(src, start, dur)
        BY <2>0, <2>1, <3>1, <3>5 DEF SortedArgs
      <4>2. Thinned(src, start, dur, n, st)
        BY <4>1, LoopThins DEF st
      <4>3. /\ Rising(Chart!Flush(st).out, Low(src[n], start, dur) + dur)
            /\ \A m \in 1 .. n : Hit(Chart!Flush(st).out, Low(src[m], start, dur), dur)
        BY <2>0, <3>2, <4>1, <4>2, FlushThins
      <4>. QED
        BY <3>3, <4>3 DEF Rising
    <3>6. \A j \in 1 .. Len(out) : out[j].t \in Int
      <4>1. \A j \in 1 .. Len(out) : out[j] \in Averages
        BY <3>4
      <4>. QED
        BY <4>1 DEF Averages
    <3>7. ASSUME Chart!InOrder(src), NEW i \in 1 .. n
          PROVE  \E j \in 1 .. Len(out) : out[j].t \in src[i].t - blur .. src[i].t + blur
      <4> DEFINE low == Low(src[i], start, dur)
      <4>1. SortedArgs(src, start, dur)
        BY <2>0, <2>1, <3>1, <3>7 DEF SortedArgs
      <4>2. src[i].t \in Int /\ low \in Int /\ low <= src[i].t /\ src[i].t < low + dur
        BY <4>1, SlicesGrow
      <4>3. PICK j \in 1 .. Len(out) : low <= out[j].t /\ out[j].t < low + dur
        BY <3>5, <3>7 DEF Hit
      <4> HIDE DEF low
      <4>. QED
        BY <2>2, <2>3, <3>6, <4>2, <4>3
    <3>8. Chart!InOrder(src) => \A j, k \in 1 .. Len(out) : j < k => out[j].t <= out[k].t
      BY <3>5, <3>6
    <3>. QED
      BY <1>7, <2>3, <3>4, <3>7, <3>8 DEF out, blur
  <2>. QED
    BY <2>4, <2>5
<1>. QED
  BY <1>6, <1>7

\* What the constants are.
ChartSensible ==
  /\ FirstRange \in Ranges /\ RANGE_MS \in [Ranges -> Nat] /\ MaxPoints \in [Ranges -> Nat \ {0}]
  /\ MinGap \in Nat \ {0} /\ Skews \subseteq Int /\ Jumps \subseteq Int
  /\ Retain \in Nat /\ MaxLen \in Nat \ {0} /\ MaxTime \in Nat /\ MaxLoadFaults \in Nat

\* The window of a ring: it has the samples that are recent enough, in order if
\* those of the ring are.
LEMMA WindowProperties ==
  ASSUME NEW s \in Seq(Chart!Sample), NEW c \in Int
  PROVE  /\ Chart!Window(s, c) \in Seq(Chart!Sample)
         /\ Chart!InOrder(s) => Chart!InOrder(Chart!Window(s, c))
         /\ \A k \in DOMAIN s : s[k].t >= c =>
              \E i \in 1 .. Len(Chart!Window(s, c)) : Chart!Window(s, c)[i] = s[k]
<1> DEFINE S == {i \in DOMAIN s : s[i].t >= c}
           n == Cardinality(S)
           e == At(s, S)
<1>1. Chart!Window(s, c) = e
  BY ChartLists DEF Chart!Window, Chart!Filter
<1>2. S \in SUBSET (DOMAIN s) /\ \A k \in DOMAIN s : s[k].t >= c => k \in S
  OBVIOUS
<1> HIDE DEF S
<1>3. /\ IsFiniteSet(S) /\ S \in SUBSET Nat /\ e \in Seq(Chart!Sample) /\ Len(e) = n
      /\ \A k \in 1 .. n : Nth(S, k) \in S /\ e[k] = s[Nth(S, k)]
      /\ \A i \in S : \E k \in 1 .. n : e[k] = s[i]
  BY <1>2, AtProperties
<1>4. \A k, m \in 1 .. n : k < m => Nth(S, k) < Nth(S, m)
  BY <1>3, NthLists
<1>5. DOMAIN e = 1 .. n
  BY <1>3
<1> HIDE DEF n, e
<1>6. ASSUME Chart!InOrder(s), NEW k \in 1 .. n, NEW m \in 1 .. n, k < m PROVE e[k].t <= e[m].t
  <2>1. Nth(S, k) < Nth(S, m) /\ Nth(S, k) \in DOMAIN s /\ Nth(S, m) \in DOMAIN s
    BY <1>2, <1>3, <1>4, <1>6
  <2>. QED
    BY <1>3, <1>6, <2>1 DEF Chart!InOrder
<1>7. Chart!InOrder(s) => Chart!InOrder(e)
  BY <1>5, <1>6 DEF Chart!InOrder
<1>. QED
  BY <1>1, <1>2, <1>3, <1>7

\* What Record leaves of a ring is a ring.
LEMMA RecordedType ==
  ASSUME NEW s \in Seq(Chart!Sample), NEW c \in Int, NEW len \in Nat
  PROVE  Chart!Cap(Chart!DropOld(s, c), len) \in Seq(Chart!Sample)
<1>1. ASSUME NEW q \in Seq(Chart!Sample), NEW m \in Nat \ {0}
      PROVE  SubSeq(q, m, Len(q)) \in Seq(Chart!Sample)
  <2>1. Len(q) \in Nat /\ \A i \in m .. Len(q) : q[i] \in Chart!Sample
    OBVIOUS
  <2>. QED
    BY <2>1, SubSeqProperties
<1> DEFINE d == Chart!DropOld(s, c)
           young == {i \in DOMAIN s : s[i].t >= c}
<1>2. d \in Seq(Chart!Sample)
  <2>1. CASE young = {}
    <3>1. d = <<>>
      BY <2>1 DEF Chart!DropOld
    <3>. QED
      BY <3>1
  <2>2. CASE young # {}
    <3>1. young \in SUBSET Nat /\ 0 \notin young
      OBVIOUS
    <3>2. d = SubSeq(s, Chart!Min(young), Len(s))
      BY <2>2 DEF Chart!DropOld
    <3> HIDE DEF young
    <3>3. \E m \in young : \A n \in young : m <= n
      BY <2>2, <3>1, MinNat
    <3>4. Chart!Min(young) \in young
      BY <3>3 DEF Chart!Min
    <3>5. Chart!Min(young) \in Nat \ {0}
      BY <3>1, <3>4
    <3>. QED
      BY <1>1, <3>2, <3>5
  <2>. QED
    BY <2>1, <2>2
<1> HIDE DEF d
<1>3. CASE Len(d) > len
  <2>1. Len(d) \in Nat
    BY <1>2
  <2>2. Len(d) - len + 1 \in Nat \ {0}
    BY <1>3, <2>1
  <2>. QED
    BY <1>1, <1>2, <1>3, <2>2 DEF Chart!Cap, d
<1>4. CASE ~(Len(d) > len)
  BY <1>2, <1>4 DEF Chart!Cap, d
<1>. QED
  BY <1>3, <1>4

\* The points of an answer: loaded ones, in order if its ring is, and one of them
\* near each sample of its range.
LEMMA MappedProperties ==
  ASSUME ChartSensible, NEW r \in Ranges, NEW a \in Chart!Answers
  PROVE  LET ps   == Chart!Mapped(r, a)
             src  == Chart!Asked(r, a)
             blur == BlurOf(src, MaxPoints[r])
         IN  /\ ps \in Seq(Chart!Point) /\ \A i \in 1 .. Len(ps) : ~ps[i].live
             /\ Chart!InOrder(a.ring) => \A i, j \in 1 .. Len(ps) : i < j => ps[i].t <= ps[j].t
             /\ blur \in Nat
             /\ Chart!InOrder(a.ring) \/ Len(src) <= MaxPoints[r] =>
                  \A k \in DOMAIN a.ring : a.ring[k].t >= a.at - RANGE_MS[r] =>
                    \E j \in 1 .. Len(ps) : ps[j].t \in a.ring[k].t - blur .. a.ring[k].t + blur
<1> DEFINE src == Chart!Asked(r, a)
           p == MaxPoints[r]
           c == a.at - RANGE_MS[r]
           blur == BlurOf(src, p)
           out == Chart!Downsample(src, p)
           n == Len(out)
           ps == Chart!Mapped(r, a)
<1>1. p \in Nat \ {0} /\ c \in Int /\ a.ring \in Seq(Chart!Sample)
  BY DEF ChartSensible, Chart!Answers
<1>2. src = Chart!Window(a.ring, c)
  BY DEF Chart!Asked
<1>3. ps = [i \in DOMAIN out |-> [t |-> out[i].t, live |-> FALSE]]
  BY DEF Chart!Mapped
<1> HIDE DEF src, c, p
<1>4. /\ src \in Seq(Chart!Sample)
      /\ Chart!InOrder(a.ring) => Chart!InOrder(src)
      /\ \A k \in DOMAIN a.ring : a.ring[k].t >= c => \E i \in 1 .. Len(src) : src[i] = a.ring[k]
  BY <1>1, <1>2, WindowProperties
<1>5. /\ out \in Seq(Averages) /\ blur \in Nat
      /\ Chart!InOrder(src) => \A j, k \in 1 .. n : j < k => out[j].t <= out[k].t
      /\ Chart!InOrder(src) \/ Len(src) <= p =>
           \A i \in 1 .. Len(src) : \E j \in 1 .. n : out[j].t \in src[i].t - blur .. src[i].t + blur
  BY <1>1, <1>4, DownsampleThins
<1> HIDE DEF out, ps, blur
<1>6. n \in Nat /\ DOMAIN out = 1 .. n /\ \A i \in 1 .. n : out[i] \in Averages
  BY <1>5
<1>7. \A i \in 1 .. n : out[i].t \in Int
  BY <1>6 DEF Averages
<1>8. /\ ps \in Seq(Chart!Point) /\ Len(ps) = n
      /\ \A i \in 1 .. n : ps[i].t = out[i].t /\ ~ps[i].live
  <2>1. \A i \in 1 .. n : [t |-> out[i].t, live |-> FALSE] \in Chart!Point
    BY <1>7 DEF Chart!Point
  <2> HIDE DEF n
  <2>. QED
    BY <1>3, <1>6, <2>1
<1> HIDE DEF n
<1>9. Chart!InOrder(a.ring) => \A i, j \in 1 .. n : i < j => ps[i].t <= ps[j].t
  BY <1>4, <1>5, <1>8
<1>10. ASSUME Chart!InOrder(a.ring) \/ Len(src) <= p, NEW k \in DOMAIN a.ring, a.ring[k].t >= c
       PROVE  \E j \in 1 .. n : ps[j].t \in a.ring[k].t - blur .. a.ring[k].t + blur
  <2>1. PICK i \in 1 .. Len(src) : src[i] = a.ring[k]
    BY <1>4, <1>10
  <2>2. PICK j \in 1 .. n : out[j].t \in src[i].t - blur .. src[i].t + blur
    BY <1>4, <1>5, <1>10
  <2>. QED
    BY <1>8, <2>1, <2>2
<1>. QED
  BY <1>5, <1>8, <1>9, <1>10 DEF src, p, c, blur, ps

\* A live point comes later than the one before it.
LiveLater(ps) == \A i \in 2 .. Len(ps) : ps[i].live => ps[i].t >= ps[i - 1].t + MinGap

\* Points in order of time.
Rises(ps) == \A i \in 2 .. Len(ps) : ps[i].t >= ps[i - 1].t

\* A live reading goes behind every point, and disturbs none.
LEMMA ExtendedProperties ==
  ASSUME ChartSensible, NEW ps \in Seq(Chart!Point), LiveLater(ps), NEW c, now \in Int
  PROVE  LET e == Chart!Extended(ps, c)
         IN  /\ e \in Seq(Chart!Point) /\ LiveLater(e)
             /\ Rises(ps) => Rises(e)
             /\ \A i \in DOMAIN ps : i \in DOMAIN e /\ e[i] = ps[i]
<1> DEFINE x == [t |-> now, live |-> TRUE]
           n == Len(ps)
           e == Chart!Extended(ps, c)
<1>1. n \in Nat /\ DOMAIN ps = 1 .. n /\ \A i \in 1 .. n : ps[i] \in Chart!Point
  OBVIOUS
<1>2. x \in Chart!Point /\ x.t = now
  BY DEF Chart!Point
<1>3. CASE e = ps
  BY <1>3
<1>4. CASE e # ps
  <2>1. ps = <<>> \/ ~(now - ps[n].t < MinGap)
    BY <1>4 DEF Chart!Extended
  <2>2. e = Append(ps, x)
    BY <1>4 DEF Chart!Extended
  <2> HIDE DEF x, e
  <2>3. /\ e \in Seq(Chart!Point) /\ Len(e) = n + 1 /\ DOMAIN e = 1 .. n + 1 /\ e[n + 1] = x
        /\ \A i \in 1 .. n : e[i] = ps[i]
    BY <1>2, <2>2
  <2>4. n > 0 => now >= ps[n].t + MinGap /\ now >= ps[n].t
    <3>1. ASSUME n > 0 PROVE ps # <<>> /\ ps[n].t \in Int
      <4>1. ps # <<>> /\ ps[n] \in Chart!Point
        BY <1>1, <3>1
      <4>. QED
        BY <4>1 DEF Chart!Point
    <3>2. MinGap \in Nat
      BY DEF ChartSensible
    <3> HIDE DEF n
    <3>. QED
      BY <2>1, <3>1, <3>2
  <2>5. ASSUME NEW i \in 2 .. n + 1
        PROVE  \/ i \in 2 .. n /\ e[i] = ps[i] /\ e[i - 1] = ps[i - 1]
               \/ i = n + 1 /\ n > 0 /\ e[i].t = now /\ e[i - 1] = ps[n]
    <3> HIDE DEF n
    <3>1. CASE i = n + 1
      <4>1. n > 0 /\ i - 1 = n /\ n \in 1 .. n
        BY <1>1, <3>1
      <4>. QED
        BY <1>2, <2>3, <3>1, <4>1
    <3>2. CASE i # n + 1
      <4>1. i \in 2 .. n /\ i \in 1 .. n /\ i - 1 \in 1 .. n
        BY <1>1, <3>2
      <4>. QED
        BY <2>3, <4>1
    <3>. QED
      BY <3>1, <3>2
  <2>6. LiveLater(e)
    BY <2>3, <2>4, <2>5 DEF LiveLater
  <2>7. Rises(ps) => Rises(e)
    BY <2>3, <2>4, <2>5 DEF Rises
  <2>8. \A i \in 1 .. n : i \in 1 .. n + 1
    BY <1>1
  <2>. QED
    BY <1>1, <2>3, <2>6, <2>7, <2>8 DEF e
<1>. QED
  BY <1>3, <1>4

\* Requests under way belong to the range that is selected, unless they are
\* cancelled, and answers are not from the future.
LoadsHonest ==
  \A l \in loads : /\ l.answer.some => l.answer.when <= now
                   /\ ~l.cancelled => mounted /\ l.range = range

\* A view that is closed holds nothing.
ViewClosed == ~mounted => range = FirstRange /\ points = <<>> /\ shown = Chart!NoAnswer

\* An answer that could replace the one shown was given no earlier, unless a newer
\* one overtook it.
NewestShown ==
  shown.some =>
    /\ shown.when <= now
    /\ \A l \in loads :
         l.answer.some /\ ~l.overtaken /\ ~l.cancelled => l.answer.when >= shown.when

\* The points begin with those of the answer they came from.
AnswerCovered ==
  shown.some =>
    \A i \in DOMAIN Chart!Mapped(range, shown) :
      i \in DOMAIN points /\ points[i] = Chart!Mapped(range, shown)[i]

ChartInv == Chart!TypeOK /\ Chart!Ordered /\ LoadsHonest /\ ViewClosed /\ NewestShown /\ AnswerCovered

\* In other words, what Ordered says of the points.
LEMMA OrderedMeans ==
  ASSUME Chart!TypeOK
  PROVE  Chart!Ordered <=> LiveLater(points) /\ (Chart!InOrder(shown.ring) => Rises(points))
BY DEF Chart!Ordered, LiveLater, Rises

\* The inductive invariant of the chart holds at the start.
LEMMA ChartInit == ChartSensible /\ Chart!Init => ChartInv
<1> SUFFICES ASSUME ChartSensible, Chart!Init PROVE ChartInv
  OBVIOUS
<1>1. /\ now = 0 /\ server \in Skews /\ mounted = TRUE /\ range = FirstRange
      /\ samples = [i \in 1 .. 3 |-> Chart!Sampled(server - 3 + i)]
      /\ points = <<>> /\ connected = FALSE /\ loads = {Chart!Load(FirstRange)}
      /\ shown = Chart!NoAnswer /\ chartFaults = 0
  BY DEF Chart!Init
<1>2. server \in Int /\ MaxTime \in Nat /\ MaxLoadFaults \in Nat
  BY <1>1 DEF ChartSensible
<1>3. <<>> \in Seq(Chart!Point) /\ <<>> \in Seq(Chart!Sample) /\ Len(<<>>) = 0
  OBVIOUS
<1>4. Chart!NoAnswer \in Chart!Answers /\ ~Chart!NoAnswer.some
  BY <1>3 DEF Chart!NoAnswer, Chart!Answers
<1>5. /\ Chart!Load(FirstRange) \in Chart!Loads /\ ~Chart!Load(FirstRange).answer.some
      /\ Chart!Load(FirstRange).range = FirstRange
  BY <1>4 DEF Chart!Load, Chart!Loads, ChartSensible
<1>6. samples \in Seq(Chart!Sample)
  <2>1. \A i \in 1 .. 3 : Chart!Sampled(server - 3 + i) \in Chart!Sample
    BY <1>2 DEF Chart!Sampled, Chart!Sample
  <2>. QED
    BY <1>1, <2>1
<1>7. Chart!TypeOK
  <2>1. now \in 0 .. MaxTime /\ chartFaults \in 0 .. MaxLoadFaults
    BY <1>1, <1>2
  <2>2. range \in Ranges /\ loads \subseteq Chart!Loads /\ points \in Seq(Chart!Point)
    BY <1>1, <1>3, <1>5 DEF ChartSensible
  <2>3. mounted \in BOOLEAN /\ connected \in BOOLEAN /\ shown \in Chart!Answers
    BY <1>1, <1>4
  <2>. QED
    BY <1>2, <1>6, <2>1, <2>2, <2>3 DEF Chart!TypeOK
<1>8. Chart!Ordered
  BY <1>1, <1>3 DEF Chart!Ordered
<1>9. LoadsHonest
  BY <1>1, <1>5 DEF LoadsHonest
<1>. QED
  BY <1>1, <1>4, <1>7, <1>8, <1>9 DEF ChartInv, ViewClosed, NewestShown, AnswerCovered

\* Requests that are marked, as cancelled or as overtaken, are otherwise the same.
LEMMA LoadsMarked ==
  ASSUME loads \subseteq Chart!Loads
  PROVE  /\ \A l \in Chart!Cancelled(loads) :
              /\ l \in Chart!Loads /\ l.cancelled
              /\ \E k \in loads : l.answer = k.answer
         /\ \A l \in {[m EXCEPT !.overtaken = TRUE] : m \in loads} :
              /\ l \in Chart!Loads /\ l.overtaken
              /\ \E k \in loads : l.answer = k.answer /\ l.cancelled = k.cancelled /\ l.range = k.range
<1>1. \A l \in Chart!Cancelled(loads) : \E k \in loads : l = [k EXCEPT !.cancelled = TRUE]
  BY DEF Chart!Cancelled
<1>2. \A l \in {[m EXCEPT !.overtaken = TRUE] : m \in loads} : \E k \in loads : l = [k EXCEPT !.overtaken = TRUE]
  OBVIOUS
<1>3. ASSUME NEW k \in loads, NEW l, l = [k EXCEPT !.cancelled = TRUE]
      PROVE  l \in Chart!Loads /\ l.cancelled /\ l.answer = k.answer
  <2>1. k \in Chart!Loads
    OBVIOUS
  <2>. QED
    BY <1>3, <2>1 DEF Chart!Loads
<1>4. ASSUME NEW k \in loads, NEW l, l = [k EXCEPT !.overtaken = TRUE]
      PROVE  /\ l \in Chart!Loads /\ l.overtaken
             /\ l.answer = k.answer /\ l.cancelled = k.cancelled /\ l.range = k.range
  <2>1. k \in Chart!Loads
    OBVIOUS
  <2>. QED
    BY <1>4, <2>1 DEF Chart!Loads
<1>5. \A l \in Chart!Cancelled(loads) :
        l \in Chart!Loads /\ l.cancelled /\ \E k \in loads : l.answer = k.answer
  BY <1>1, <1>3
<1>6. \A l \in {[m EXCEPT !.overtaken = TRUE] : m \in loads} :
        /\ l \in Chart!Loads /\ l.overtaken
        /\ \E k \in loads : l.answer = k.answer /\ l.cancelled = k.cancelled /\ l.range = k.range
  BY <1>2, <1>4
<1>. QED
  BY <1>5, <1>6

\* Every step keeps the chart.
LEMMA ChartStep == ChartSensible /\ ChartInv /\ [Chart!Next]_chartVars => ChartInv'
<1> SUFFICES ASSUME ChartSensible, ChartInv, [Chart!Next]_chartVars PROVE ChartInv'
  OBVIOUS
<1>t. Chart!TypeOK /\ Chart!Ordered /\ LoadsHonest /\ ViewClosed /\ NewestShown /\ AnswerCovered
  BY DEF ChartInv
<1>n. /\ now \in Int /\ server \in Int /\ samples \in Seq(Chart!Sample) /\ range \in Ranges
      /\ loads \subseteq Chart!Loads /\ points \in Seq(Chart!Point) /\ chartFaults \in Nat
      /\ MaxTime \in Nat /\ MaxLoadFaults \in Nat /\ shown \in Chart!Answers
      /\ mounted \in BOOLEAN /\ connected \in BOOLEAN
  BY <1>t DEF Chart!TypeOK, ChartSensible
<1>w. shown.when \in Int /\ \A l \in loads : l.answer \in Chart!Answers /\ l.answer.when \in Int
  <2>1. \A l \in loads : l \in Chart!Loads
    BY <1>n
  <2>2. \A l \in loads : l.answer \in Chart!Answers
    BY <2>1 DEF Chart!Loads
  <2>. QED
    BY <1>n, <2>2 DEF Chart!Answers
<1>m. Chart!NoAnswer \in Chart!Answers /\ ~Chart!NoAnswer.some
  <2>1. <<>> \in Seq(Chart!Sample)
    OBVIOUS
  <2>. QED
    BY <2>1 DEF Chart!NoAnswer, Chart!Answers
<1>d. ASSUME NEW r \in Ranges
      PROVE  Chart!Load(r) \in Chart!Loads /\ ~Chart!Load(r).answer.some /\ Chart!Load(r).range = r
  BY <1>d, <1>m DEF Chart!Load, Chart!Loads
<1>o. LiveLater(points) /\ (Chart!InOrder(shown.ring) => Rises(points))
  BY <1>t, OrderedMeans
\* An answer stays covered while it and its range stay, and the points do.
<1>k. ASSUME UNCHANGED <<range, shown>>, \A i \in DOMAIN points : i \in DOMAIN points' /\ points'[i] = points[i]
      PROVE  AnswerCovered'
  <2>1. Chart!Mapped(range, shown)' = Chart!Mapped(range, shown)
    BY <1>k DEF Chart!Mapped, Chart!Asked
  <2>. QED
    BY <1>t, <1>k, <2>1 DEF AnswerCovered
<1>1. CASE Chart!Tick
  <2>1. /\ now' = now + 1 /\ now < MaxTime /\ server' = server + 1
        /\ samples' = Chart!Cap(Chart!DropOld(Append(samples, Chart!Sampled(server')), server' - Retain), MaxLen)
        /\ UNCHANGED <<mounted, range, points, connected, loads, shown, chartFaults>>
    BY <1>1 DEF Chart!Tick
  <2>2. samples' \in Seq(Chart!Sample)
    <3>1. PICK c : c = server' - Retain
      OBVIOUS
    <3>2. PICK x : x = Chart!Sampled(server')
      OBVIOUS
    <3>3. x \in Chart!Sample /\ c \in Int /\ MaxLen \in Nat
      BY <1>n, <2>1, <3>1, <3>2 DEF Chart!Sampled, Chart!Sample, ChartSensible
    <3>4. PICK q : q = Append(samples, x)
      OBVIOUS
    <3>5. q \in Seq(Chart!Sample)
      BY <1>n, <3>3, <3>4
    <3>6. samples' = Chart!Cap(Chart!DropOld(q, c), MaxLen)
      BY <2>1, <3>1, <3>2, <3>4
    <3>. QED
      BY <3>3, <3>5, <3>6, RecordedType
  <2>3. Chart!TypeOK'
    BY <1>t, <1>n, <2>1, <2>2 DEF Chart!TypeOK
  <2>4. LoadsHonest'
    BY <1>t, <1>n, <1>w, <2>1 DEF LoadsHonest
  <2>5. NewestShown'
    BY <1>t, <1>n, <1>w, <2>1 DEF NewestShown
  <2>6. Chart!Ordered' /\ ViewClosed' /\ AnswerCovered'
    BY <1>t, <1>k, <2>1 DEF Chart!Ordered, Chart!InOrder, ViewClosed
  <2>. QED
    BY <2>3, <2>4, <2>5, <2>6 DEF ChartInv
<1>2. CASE Chart!ServerRestarts \/ Chart!ServerClockSet
  <2>1. /\ chartFaults' = chartFaults + 1 /\ chartFaults < MaxLoadFaults
        /\ UNCHANGED <<now, mounted, range, points, connected, loads, shown>>
    BY <1>2 DEF Chart!ServerRestarts, Chart!ServerClockSet
  <2>2. samples' \in Seq(Chart!Sample) /\ server' \in Int
    <3>1. CASE Chart!ServerRestarts
      BY <1>n, <3>1 DEF Chart!ServerRestarts
    <3>2. CASE Chart!ServerClockSet
      BY <1>n, <3>2 DEF Chart!ServerClockSet, ChartSensible
    <3>. QED
      BY <1>2, <3>1, <3>2
  <2>3. Chart!TypeOK'
    BY <1>t, <1>n, <2>1, <2>2 DEF Chart!TypeOK
  <2>4. Chart!Ordered' /\ LoadsHonest' /\ ViewClosed' /\ NewestShown' /\ AnswerCovered'
    BY <1>t, <1>k, <2>1 DEF Chart!Ordered, Chart!InOrder, LoadsHonest, ViewClosed, NewestShown
  <2>. QED
    BY <2>3, <2>4 DEF ChartInv
<1>3. CASE Chart!PropsChange
  <2>1. /\ connected' \in BOOLEAN
        /\ points' = IF mounted THEN Chart!Extended(points, connected') ELSE points
        /\ UNCHANGED <<now, server, samples, mounted, range, loads, shown, chartFaults>>
    <3>1. connected' \in BOOLEAN
      BY <1>3, <1>n DEF Chart!PropsChange
    <3>. QED
      BY <1>3, <3>1 DEF Chart!PropsChange
  <2>2. /\ points' \in Seq(Chart!Point) /\ LiveLater(points') /\ (Rises(points) => Rises(points'))
        /\ \A i \in DOMAIN points : i \in DOMAIN points' /\ points'[i] = points[i]
    <3>1. CASE mounted
      <4>1. PICK c : c = connected'
        OBVIOUS
      <4> DEFINE e == Chart!Extended(points, c)
      <4>2. /\ e \in Seq(Chart!Point) /\ LiveLater(e) /\ (Rises(points) => Rises(e))
            /\ \A i \in DOMAIN points : i \in DOMAIN e /\ e[i] = points[i]
        BY <1>n, <1>o, ExtendedProperties
      <4>3. points' = e
        BY <2>1, <3>1, <4>1
      <4> HIDE DEF e
      <4>. QED
        BY <4>2, <4>3 DEF LiveLater, Rises
    <3>2. CASE ~mounted
      BY <1>o, <1>n, <2>1, <3>2 DEF LiveLater, Rises
    <3>. QED
      BY <3>1, <3>2, <1>n
  <2>3. Chart!TypeOK'
    BY <1>t, <1>n, <2>1, <2>2 DEF Chart!TypeOK
  <2>4. Chart!Ordered'
    BY <1>o, <2>1, <2>2 DEF Chart!Ordered, Chart!InOrder, LiveLater, Rises
  <2>5. LoadsHonest' /\ NewestShown' /\ AnswerCovered'
    BY <1>t, <1>k, <2>1, <2>2 DEF LoadsHonest, NewestShown
  <2>6. ViewClosed'
    BY <1>t, <2>1 DEF ViewClosed, Chart!NoAnswer
  <2>. QED
    BY <2>3, <2>4, <2>5, <2>6 DEF ChartInv
<1>4. CASE Chart!Poll
  <2>1. /\ mounted /\ loads' = loads \cup {Chart!Load(range)}
        /\ UNCHANGED <<now, server, samples, mounted, range, points, connected, shown, chartFaults>>
    BY <1>4 DEF Chart!Poll
  <2>2. /\ Chart!Load(range) \in Chart!Loads /\ ~Chart!Load(range).answer.some
        /\ Chart!Load(range).range = range
    BY <1>n, <1>d
  <2>3. Chart!TypeOK'
    BY <1>t, <2>1, <2>2 DEF Chart!TypeOK
  <2>4. LoadsHonest'
    BY <1>t, <2>1, <2>2 DEF LoadsHonest
  <2>5. NewestShown'
    BY <1>t, <2>1, <2>2 DEF NewestShown
  <2>6. Chart!Ordered' /\ ViewClosed' /\ AnswerCovered'
    BY <1>t, <1>k, <2>1 DEF Chart!Ordered, Chart!InOrder, ViewClosed
  <2>. QED
    BY <2>3, <2>4, <2>5, <2>6 DEF ChartInv
<1>5. CASE Chart!Leave
  <2>1. /\ mounted' = FALSE /\ points' = <<>> /\ range' = FirstRange
        /\ shown' = Chart!NoAnswer /\ loads' = Chart!Cancelled(loads)
        /\ UNCHANGED <<now, server, samples, connected, chartFaults>>
    BY <1>5 DEF Chart!Leave
  <2>2. \A l \in loads' : l \in Chart!Loads /\ l.cancelled /\ \E k \in loads : l.answer = k.answer
    BY <1>n, <2>1, LoadsMarked
  <2>3. <<>> \in Seq(Chart!Point) /\ Len(<<>>) = 0
    OBVIOUS
  <2>4. Chart!TypeOK'
    BY <1>t, <1>m, <2>1, <2>2, <2>3 DEF Chart!TypeOK, ChartSensible
  <2>5. LoadsHonest'
    BY <1>t, <2>1, <2>2 DEF LoadsHonest
  <2>6. Chart!Ordered' /\ NewestShown' /\ AnswerCovered'
    BY <1>m, <2>1, <2>3 DEF Chart!Ordered, NewestShown, AnswerCovered
  <2>7. ViewClosed'
    BY <2>1 DEF ViewClosed, Chart!NoAnswer
  <2>. QED
    BY <2>4, <2>5, <2>6, <2>7 DEF ChartInv
<1>6. CASE Chart!Enter
  <2>1. /\ ~mounted /\ mounted' = TRUE /\ loads' = loads \cup {Chart!Load(FirstRange)}
        /\ points' = Chart!Extended(<<>>, connected)
        /\ UNCHANGED <<now, server, samples, range, connected, shown, chartFaults>>
    BY <1>6 DEF Chart!Enter
  <2>2. range = FirstRange /\ ~shown.some
    BY <1>t, <1>m, <2>1 DEF ViewClosed
  <2>3. /\ Chart!Load(FirstRange) \in Chart!Loads /\ ~Chart!Load(FirstRange).answer.some
        /\ Chart!Load(FirstRange).range = FirstRange
    BY <1>d DEF ChartSensible
  <2>4. points' \in Seq(Chart!Point) /\ LiveLater(points') /\ Rises(points')
    <3>1. PICK none : none = <<>>
      OBVIOUS
    <3>2. none \in Seq(Chart!Point) /\ LiveLater(none) /\ Rises(none)
      BY <3>1 DEF LiveLater, Rises
    <3>3. /\ Chart!Extended(none, connected) \in Seq(Chart!Point)
          /\ LiveLater(Chart!Extended(none, connected)) /\ Rises(Chart!Extended(none, connected))
      BY <1>n, <3>2, ExtendedProperties
    <3>4. points' = Chart!Extended(none, connected)
      BY <2>1, <3>1
    <3>. QED
      BY <3>3, <3>4
  <2>5. Chart!TypeOK'
    BY <1>t, <2>1, <2>3, <2>4 DEF Chart!TypeOK
  <2>6. LoadsHonest'
    BY <1>t, <2>1, <2>2, <2>3 DEF LoadsHonest
  <2>7. Chart!Ordered'
    BY <2>4 DEF Chart!Ordered, LiveLater, Rises
  <2>8. ViewClosed' /\ NewestShown' /\ AnswerCovered'
    BY <2>1, <2>2 DEF ViewClosed, NewestShown, AnswerCovered
  <2>. QED
    BY <2>5, <2>6, <2>7, <2>8 DEF ChartInv
<1>7. ASSUME NEW l \in loads, Chart!Answer(l) PROVE ChartInv'
  <2> DEFINE a == [some |-> TRUE, at |-> server, when |-> now, ring |-> samples]
             k == [l EXCEPT !.answer = a]
  <2>1. /\ loads' = (loads \ {l}) \cup {k}
        /\ UNCHANGED <<now, server, samples, mounted, range, points, connected, shown, chartFaults>>
    BY <1>7 DEF Chart!Answer
  <2>2. a \in Chart!Answers /\ a.when = now
    BY <1>n DEF Chart!Answers
  <2> HIDE DEF a
  <2>3. k \in Chart!Loads /\ k.answer = a /\ k.range = l.range /\ k.cancelled = l.cancelled
    <3>1. l \in Chart!Loads
      BY <1>n
    <3>. QED
      BY <2>2, <3>1 DEF Chart!Loads
  <2> HIDE DEF k
  <2>4. Chart!TypeOK'
    BY <1>t, <2>1, <2>3 DEF Chart!TypeOK
  <2>5. LoadsHonest'
    BY <1>t, <1>n, <2>1, <2>2, <2>3 DEF LoadsHonest
  <2>6. NewestShown'
    BY <1>t, <1>n, <1>w, <2>1, <2>2, <2>3 DEF NewestShown
  <2>7. Chart!Ordered' /\ ViewClosed' /\ AnswerCovered'
    BY <1>t, <1>k, <2>1 DEF Chart!Ordered, Chart!InOrder, ViewClosed
  <2>. QED
    BY <2>4, <2>5, <2>6, <2>7 DEF ChartInv
<1>8. ASSUME NEW l \in loads, Chart!LoadFails(l) PROVE ChartInv'
  <2>1. /\ chartFaults' = chartFaults + 1 /\ chartFaults < MaxLoadFaults /\ loads' = loads \ {l}
        /\ UNCHANGED <<now, server, samples, mounted, range, points, connected, shown>>
    BY <1>8 DEF Chart!LoadFails
  <2>2. Chart!TypeOK'
    BY <1>t, <1>n, <2>1 DEF Chart!TypeOK
  <2>3. Chart!Ordered' /\ LoadsHonest' /\ ViewClosed' /\ NewestShown' /\ AnswerCovered'
    BY <1>t, <1>k, <2>1 DEF Chart!Ordered, Chart!InOrder, LoadsHonest, ViewClosed, NewestShown
  <2>. QED
    BY <2>2, <2>3 DEF ChartInv
<1>9. ASSUME NEW l \in loads, Chart!Resolve(l) PROVE ChartInv'
  <2>0. /\ UNCHANGED <<now, server, samples, mounted, range, connected, chartFaults>> /\ l.answer.some
        /\ points' = IF l.cancelled THEN points ELSE Chart!Mapped(l.range, l.answer)
    BY <1>9 DEF Chart!Resolve, Chart!Arrives
  <2>1. CASE l.cancelled
    <3>1. loads' = loads \ {l} /\ UNCHANGED <<points, shown>>
      BY <1>9, <2>0, <2>1 DEF Chart!Resolve, Chart!Arrives
    <3>2. Chart!TypeOK'
      BY <1>t, <2>0, <3>1 DEF Chart!TypeOK
    <3>3. Chart!Ordered' /\ LoadsHonest' /\ ViewClosed' /\ NewestShown' /\ AnswerCovered'
      BY <1>t, <1>k, <2>0, <3>1
      DEF Chart!Ordered, Chart!InOrder, LoadsHonest, ViewClosed, NewestShown
    <3>. QED
      BY <3>2, <3>3 DEF ChartInv
  <2>2. CASE ~l.cancelled
    <3>1. /\ loads' = {[m EXCEPT !.overtaken = TRUE] : m \in loads \ {l}}
          /\ points' = Chart!Mapped(l.range, l.answer) /\ shown' = l.answer
      BY <1>9, <2>0, <2>2 DEF Chart!Resolve, Chart!Arrives
    <3>2. \A k \in loads' : /\ k \in Chart!Loads /\ k.overtaken
                            /\ \E m \in loads : /\ k.answer = m.answer
                                                /\ k.cancelled = m.cancelled /\ k.range = m.range
      BY <1>n, <3>1, LoadsMarked
    <3>3. l.answer \in Chart!Answers /\ mounted /\ l.range = range /\ l.answer.when <= now
      BY <1>t, <1>w, <2>0, <2>2 DEF LoadsHonest
    <3> DEFINE ps == Chart!Mapped(range, l.answer)
    <3>4. /\ ps \in Seq(Chart!Point) /\ \A i \in 1 .. Len(ps) : ~ps[i].live
          /\ Chart!InOrder(l.answer.ring) => \A i, j \in 1 .. Len(ps) : i < j => ps[i].t <= ps[j].t
      BY <1>n, <3>3, MappedProperties
    <3>5. points' = ps
      BY <3>1, <3>3
    <3>6. Chart!TypeOK'
      BY <1>t, <2>0, <3>1, <3>2, <3>3, <3>4, <3>5 DEF Chart!TypeOK
    <3>7. AnswerCovered'
      <4>1. Chart!Mapped(range, shown)' = ps
        BY <2>0, <3>1 DEF Chart!Mapped, Chart!Asked
      <4>. QED
        BY <3>5, <4>1 DEF AnswerCovered
    <3>8. Chart!Ordered'
      <4> HIDE DEF ps
      <4>1. Len(ps) \in Nat /\ \A i \in 1 .. Len(ps) : ps[i] \in Chart!Point
        BY <3>4
      <4>2. \A i \in 1 .. Len(ps) : ps[i].t \in Int
        BY <4>1 DEF Chart!Point
      <4>3. \A i \in 2 .. Len(ps) : i \in 1 .. Len(ps) /\ i - 1 \in 1 .. Len(ps) /\ i - 1 < i
        BY <4>1
      <4>4. LiveLater(ps) /\ (Chart!InOrder(l.answer.ring) => Rises(ps))
        BY <3>4, <4>2, <4>3 DEF LiveLater, Rises
      <4>. QED
        BY <3>1, <3>5, <4>4 DEF Chart!Ordered, Chart!InOrder, LiveLater, Rises
    <3>9. LoadsHonest'
      BY <1>t, <2>0, <3>2 DEF LoadsHonest
    <3>10. ViewClosed'
      BY <2>0, <3>3 DEF ViewClosed
    <3>11. NewestShown'
      BY <2>0, <3>1, <3>2, <3>3 DEF NewestShown
    <3>. QED
      BY <3>6, <3>7, <3>8, <3>9, <3>10, <3>11 DEF ChartInv
  <2>. QED
    BY <2>1, <2>2
<1>10. ASSUME NEW r \in Ranges, Chart!SetRange(r) PROVE ChartInv'
  <2>1. /\ mounted /\ range' = r /\ loads' = Chart!Cancelled(loads) \cup {Chart!Load(r)}
        /\ shown' = [shown EXCEPT !.some = FALSE]
        /\ UNCHANGED <<now, server, samples, mounted, points, connected, chartFaults>>
    BY <1>10 DEF Chart!SetRange
  <2>2. \A l \in Chart!Cancelled(loads) :
          l \in Chart!Loads /\ l.cancelled /\ \E k \in loads : l.answer = k.answer
    BY <1>n, LoadsMarked
  <2>3. Chart!Load(r) \in Chart!Loads /\ ~Chart!Load(r).answer.some /\ Chart!Load(r).range = r
    BY <1>d
  <2>4. shown' \in Chart!Answers /\ ~shown'.some /\ shown'.ring = shown.ring
    BY <1>n, <2>1 DEF Chart!Answers
  <2>5. Chart!TypeOK'
    BY <1>t, <2>1, <2>2, <2>3, <2>4 DEF Chart!TypeOK
  <2>6. LoadsHonest'
    BY <1>t, <2>1, <2>2, <2>3 DEF LoadsHonest
  <2>7. Chart!Ordered' /\ ViewClosed' /\ NewestShown' /\ AnswerCovered'
    BY <1>t, <2>1, <2>4 DEF Chart!Ordered, Chart!InOrder, ViewClosed, NewestShown, AnswerCovered
  <2>. QED
    BY <2>5, <2>6, <2>7 DEF ChartInv
<1>11. CASE UNCHANGED chartVars
  <2>1. UNCHANGED <<now, server, samples, mounted, range, points, connected, loads, shown, chartFaults>>
    BY <1>11 DEF chartVars
  <2>2. Chart!TypeOK' /\ Chart!Ordered'
    BY <1>t, <2>1 DEF Chart!TypeOK, Chart!Ordered, Chart!InOrder
  <2>3. LoadsHonest' /\ ViewClosed' /\ NewestShown' /\ AnswerCovered'
    BY <1>t, <1>k, <2>1 DEF LoadsHonest, ViewClosed, NewestShown, Chart!NoAnswer
  <2>. QED
    BY <2>2, <2>3 DEF ChartInv
<1>. QED
  BY <1>1, <1>2, <1>3, <1>4, <1>5, <1>6, <1>7, <1>8, <1>9, <1>10, <1>11 DEF Chart!Next

\* What the invariant says of the chart that is shown.
LEMMA ChartMeans == ChartSensible /\ ChartInv => Chart!TypeOK /\ Chart!Ordered /\ Chart!ChartComplete
<1> SUFFICES ASSUME ChartSensible, ChartInv, shown.some, shown.at <= now,
                    Len(Chart!Asked(range, shown)) <= MaxPoints[range] \/ Chart!InOrder(shown.ring),
                    NEW k \in DOMAIN shown.ring, shown.ring[k].t - Chart!Blur >= Chart!cutoff
             PROVE  \E i \in DOMAIN Chart!visible :
                      Chart!visible[i].t \in shown.ring[k].t - Chart!Blur .. shown.ring[k].t + Chart!Blur
  BY DEF ChartInv, Chart!ChartComplete
<1> DEFINE t == shown.ring[k].t
           blur == Chart!Blur
           ps == Chart!Mapped(range, shown)
           S == {i \in DOMAIN points : points[i].t >= Chart!cutoff}
<1>1. /\ now \in Int /\ range \in Ranges /\ shown \in Chart!Answers /\ points \in Seq(Chart!Point)
      /\ RANGE_MS[range] \in Nat
  BY DEF ChartInv, Chart!TypeOK, ChartSensible
<1>2. shown.at \in Int /\ t \in Int
  <2>1. shown.ring \in Seq(Chart!Sample) /\ shown.at \in Int
    BY <1>1 DEF Chart!Answers
  <2>2. shown.ring[k] \in Chart!Sample
    BY <2>1
  <2>. QED
    BY <2>1, <2>2 DEF Chart!Sample
<1>3. blur = BlurOf(Chart!Asked(range, shown), MaxPoints[range])
  BY DEF Chart!Blur, BlurOf
<1>4. /\ blur \in Nat /\ ps \in Seq(Chart!Point)
      /\ t >= shown.at - RANGE_MS[range] => \E j \in 1 .. Len(ps) : ps[j].t \in t - blur .. t + blur
  BY <1>1, <1>3, MappedProperties
<1>5. t >= shown.at - RANGE_MS[range]
  <2>1. t - blur >= now - RANGE_MS[range]
    BY DEF Chart!cutoff
  <2> HIDE DEF t, blur
  <2>. QED
    BY <1>1, <1>2, <1>4, <2>1
<1>6. PICK j \in 1 .. Len(ps) : ps[j].t \in t - blur .. t + blur
  BY <1>4, <1>5
<1>7. j \in DOMAIN points /\ points[j] = ps[j]
  <2>1. j \in DOMAIN ps
    BY <1>4
  <2>. QED
    BY <2>1 DEF ChartInv, AnswerCovered
<1>8. j \in S
  <2>1. t - blur >= Chart!cutoff /\ Chart!cutoff \in Int
    BY <1>1 DEF Chart!cutoff
  <2> HIDE DEF t, blur
  <2>2. ps[j].t >= Chart!cutoff
    BY <1>2, <1>4, <1>6, <2>1
  <2>. QED
    BY <1>7, <2>2
<1>9. Chart!visible = At(points, S) /\ S \in SUBSET (DOMAIN points)
  BY ChartLists DEF Chart!visible, Chart!Filter
<1> HIDE DEF S
<1>10. /\ Len(At(points, S)) = Cardinality(S) /\ At(points, S) \in Seq(Chart!Point)
       /\ \E i \in 1 .. Cardinality(S) : At(points, S)[i] = points[j]
  BY <1>1, <1>8, <1>9, AtProperties
<1>11. DOMAIN Chart!visible = 1 .. Cardinality(S)
  BY <1>9, <1>10
<1>. QED
  BY <1>6, <1>7, <1>9, <1>10, <1>11

\* Only an answer that was overtaken takes the chart back.
LEMMA ChartForward ==
  ChartSensible /\ ChartInv /\ [Chart!Next]_chartVars =>
    [shown.some /\ shown'.some /\ shown'.when < shown.when =>
       \E l \in loads : l.overtaken /\ l.answer = shown']_chartVars
<1> SUFFICES ASSUME ChartSensible, ChartInv, Chart!Next, shown.some, shown'.some, shown'.when < shown.when
             PROVE  \E l \in loads : l.overtaken /\ l.answer = shown'
  OBVIOUS
<1>1. shown.when \in Int /\ ~Chart!NoAnswer.some /\ loads \subseteq Chart!Loads
  BY DEF ChartInv, Chart!TypeOK, Chart!Answers, Chart!NoAnswer
<1>2. ~(UNCHANGED shown)
  BY <1>1
<1>3. ASSUME NEW r \in Ranges, Chart!SetRange(r) PROVE FALSE
  <2>1. shown' = [shown EXCEPT !.some = FALSE] /\ shown \in Chart!Answers
    BY <1>3 DEF Chart!SetRange, ChartInv, Chart!TypeOK
  <2>. QED
    BY <2>1 DEF Chart!Answers
<1>4. PICK l \in loads : Chart!Resolve(l)
  BY <1>1, <1>2, <1>3
  DEF Chart!Next, Chart!Tick, Chart!ServerRestarts, Chart!ServerClockSet, Chart!PropsChange,
      Chart!Poll, Chart!Leave, Chart!Enter, Chart!Answer, Chart!LoadFails
<1>5. l.answer.some /\ ~l.cancelled /\ shown' = l.answer
  BY <1>2, <1>4 DEF Chart!Resolve, Chart!Arrives
<1>6. l.answer.when \in Int
  <2>1. l \in Chart!Loads
    BY <1>1
  <2>2. l.answer \in Chart!Answers
    BY <2>1 DEF Chart!Loads
  <2>. QED
    BY <2>2 DEF Chart!Answers
<1>7. ~(l.answer.when >= shown.when)
  BY <1>1, <1>5, <1>6
<1>. QED
  BY <1>5, <1>7 DEF ChartInv, NewestShown

-----------------------------------------------------------------------------
(* The Crosswatch widget. *)

\* Its lists are those of Lists.
LEMMA WidgetLists ==
  /\ \A S : Widget!Cardinality(S) = Cardinality(S)
  /\ \A s, S : Widget!At(s, S) = At(s, S)
<1>1. \A S : Widget!Cardinality(S) = Cardinality(S)
  BY DEF Widget!Cardinality, Cardinality
<1>2. \A S, i : Widget!Rank(S, i) = Rank(S, i)
  BY <1>1 DEF Widget!Rank, Rank
<1>3. \A S, k : Widget!Nth(S, k) = Nth(S, k)
  BY <1>2 DEF Widget!Nth, Nth
<1>. QED
  BY <1>1, <1>3 DEF Widget!At, At

\* The lists hold films, or 0 for a film without an id.
WidgetSensible ==
  /\ watchlist \in Seq(Films \cup {0}) /\ watched \in Seq(Films \cup {0})
  /\ Brokens \subseteq SUBSET Films /\ BatchSize \in Nat \ {0} /\ MaxFaults \in Nat

\* One run of enrich(), before its end.
Batch == [left : Seq(Films), got : SUBSET Films, cancelled : BOOLEAN]

\* Nothing is at work for the widget.
WidgetIdle == ~busy /\ \A b \in batches : b.cancelled

\* Until the lists are there nothing is enriched; then one batch at a time is.
AtWork ==
  /\ auth["hook"].phase # "known" => fetching = "no" /\ WidgetIdle
  /\ fetching = "asked" => WidgetIdle
  /\ busy <=> \E b \in batches : ~b.cancelled
  /\ \A a, b \in batches : ~a.cancelled /\ ~b.cancelled => a = b
  /\ \A b \in batches : b.left # <<>>

\* A session, an answer that says so and an account shown all mean that one was
\* seen since the page was opened.
AccountSeen ==
  /\ session => seen
  /\ \A i \in Widget!Calls : auth[i].connected \/ auth[i].answer => seen

WidgetInv == Widget!TypeOK /\ AtWork /\ AccountSeen

\* The batch the effect starts has a film at least, and has nothing yet.
LEMMA NextBatchProperties ==
  ASSUME WidgetSensible, NEW c
  PROVE  /\ Widget!NextBatch(c) \subseteq Batch
         /\ \A b \in Widget!NextBatch(c) : ~b.cancelled /\ b.left # <<>>
         /\ \A a, b \in Widget!NextBatch(c) : a = b
<1> DEFINE films == watchlist \o watched
           some == {i \in Widget!Firsts(films) : films[i] \notin c}
           un == Widget!Uncached(c)
           n == IF Len(un) < BatchSize THEN Len(un) ELSE BatchSize
<1>1. films \in Seq(Films \cup {0}) /\ some \in SUBSET (DOMAIN films)
  BY DEF WidgetSensible, Widget!Firsts
<1>2. \A i \in some : films[i] \in Films
  <2>1. \A i \in some : i \in 1 .. Len(films) /\ films[i] # 0
    BY <1>1 DEF Widget!Firsts
  <2> HIDE DEF films, some
  <2>. QED
    BY <1>1, <2>1, ElementOfSeq
<1>3. un = At(films, some)
  BY WidgetLists DEF Widget!Uncached
<1> HIDE DEF un
<1>4. /\ un \in Seq(Films \cup {0}) /\ Len(un) = Cardinality(some) /\ Cardinality(some) \in Nat
      /\ \A k \in 1 .. Cardinality(some) : Nth(some, k) \in some /\ un[k] = films[Nth(some, k)]
  <2> HIDE DEF films, some
  <2>. QED
    BY <1>1, <1>3, AtProperties
<1>5. \A k \in 1 .. Cardinality(some) : un[k] \in Films
  BY <1>2, <1>4
<1>6. un \in Seq(Films) /\ Len(un) \in Nat
  <2>1. un = [k \in 1 .. Cardinality(some) |-> un[k]]
    BY <1>3 DEF At
  <2> HIDE DEF some
  <2>2. [k \in 1 .. Cardinality(some) |-> un[k]] \in Seq(Films)
    BY <1>4, <1>5
  <2>. QED
    BY <2>1, <2>2, LenProperties
<1>7. Widget!NextBatch(c) = IF hasTmdb /\ n > 0
                            THEN {[left |-> SubSeq(un, 1, n), got |-> {}, cancelled |-> FALSE]} ELSE {}
  BY DEF Widget!NextBatch, un
<1>8. n \in 0 .. Len(un)
  BY <1>6 DEF WidgetSensible
<1>9. ASSUME n > 0 PROVE SubSeq(un, 1, n) \in Seq(Films) /\ SubSeq(un, 1, n) # <<>>
  <2> HIDE DEF n
  <2>1. SubSeq(un, 1, n) \in Seq(Films) /\ Len(SubSeq(un, 1, n)) = n
    BY <1>6, <1>8, <1>9, SubSeqProperties
  <2>. QED
    BY <1>8, <1>9, <2>1, EmptySeq
<1> HIDE DEF n
<1>10. CASE hasTmdb /\ n > 0
  <2> DEFINE b == [left |-> SubSeq(un, 1, n), got |-> {}, cancelled |-> FALSE]
  <2>1. b \in Batch /\ ~b.cancelled /\ b.left # <<>>
    BY <1>9, <1>10 DEF Batch
  <2>2. Widget!NextBatch(c) = {b}
    BY <1>7, <1>10
  <2> HIDE DEF b
  <2>. QED
    BY <2>1, <2>2
<1>11. CASE ~(hasTmdb /\ n > 0)
  BY <1>7, <1>11
<1>. QED
  BY <1>10, <1>11

\* The inductive invariant of the widget holds at the start.
LEMMA WidgetInit == WidgetSensible /\ Widget!Init => WidgetInv
<1> SUFFICES ASSUME WidgetSensible, Widget!Init PROVE WidgetInv
  OBVIOUS
<1>1. session \in BOOLEAN /\ configured \in Widget!Config /\ broken \subseteq Films /\ hasTmdb \in BOOLEAN
  BY DEF Widget!Init, Widget!Config, WidgetSensible
<1>2. \A i \in Widget!Calls : auth[i] = Widget!Asked \/ auth[i] = Widget!Unmounted
  BY DEF Widget!Init
<1>3. auth \in [Widget!Calls -> [phase : {"off", "asked", "answered", "known"},
                                 answer : BOOLEAN, connected : BOOLEAN]]
  BY DEF Widget!Init, Widget!Asked, Widget!Unmounted
<1>4. form \in [typedId : BOOLEAN, typedSecret : BOOLEAN, saving : {"no", "asked"}, config : Widget!Config]
  BY DEF Widget!Init, Widget!BlankForm, Widget!Config
<1>5. Widget!TypeOK
  <2>1. seen \in BOOLEAN /\ tab \in {"home", "settings", "other"} /\ logout = {} /\ fetching = "no"
        /\ cache = {} /\ batches = {}
    BY <1>1 DEF Widget!Init
  <2>2. loading \in BOOLEAN /\ error \in BOOLEAN /\ loaded \in BOOLEAN /\ busy \in BOOLEAN
        /\ saveLost \in BOOLEAN
    BY DEF Widget!Init
  <2>3. faults \in 0 .. MaxFaults
    BY DEF Widget!Init, WidgetSensible
  <2>. QED
    BY <1>1, <1>3, <1>4, <2>1, <2>2, <2>3 DEF Widget!TypeOK
<1>6. AtWork
  BY <1>2 DEF Widget!Init, AtWork, WidgetIdle, Widget!Asked, Widget!Unmounted
<1>7. AccountSeen
  BY <1>2 DEF Widget!Init, AccountSeen, Widget!Asked, Widget!Unmounted
<1>. QED
  BY <1>5, <1>6, <1>7 DEF WidgetInv

\* What opening a page leaves.
LEMMA OpenKeeps ==
  ASSUME WidgetSensible, WidgetInv, NEW t \in {"home", "settings", "other"}, NEW reload \in BOOLEAN,
         Widget!Open(t, reload), session' \in BOOLEAN, logout' \subseteq Widget!Calls \cup {"closed"},
         UNCHANGED <<configured, Widget!account>>, faults' \in 0 .. MaxFaults
  PROVE  WidgetInv'
<1>t. Widget!TypeOK /\ AtWork
  BY DEF WidgetInv
<1>0. Widget!Open(t, reload)
  OBVIOUS
<1>1. /\ tab' = t /\ seen' = session'
      /\ loading' = FALSE /\ error' = FALSE /\ loaded' = FALSE /\ fetching' = "no"
      /\ cache' = {} /\ busy' = FALSE
      /\ form' = Widget!BlankForm /\ saveLost' = FALSE
  BY <1>0 DEF Widget!Open
<1>2. \A i \in Widget!Calls : auth'[i] = Widget!Asked \/ auth'[i] = Widget!Unmounted
  BY <1>0 DEF Widget!Open
<1>3. auth' \in [Widget!Calls -> [phase : {"off", "asked", "answered", "known"},
                                  answer : BOOLEAN, connected : BOOLEAN]]
  <2>1. \A a \in {Widget!Asked, Widget!Unmounted} : a \in [phase : {"off", "asked", "answered", "known"},
                                                           answer : BOOLEAN, connected : BOOLEAN]
    <3>1. Widget!Unmounted \in [phase : {"off", "asked", "answered", "known"},
                                answer : BOOLEAN, connected : BOOLEAN]
      BY DEF Widget!Unmounted
    <3>2. Widget!Asked = [Widget!Unmounted EXCEPT !.phase = "asked"]
      BY DEF Widget!Asked
    <3>3. Widget!Asked \in [phase : {"off", "asked", "answered", "known"},
                            answer : BOOLEAN, connected : BOOLEAN]
      BY <3>1, <3>2
    <3>. QED
      BY <3>1, <3>3
  <2>2. auth' = [i \in Widget!Calls |-> IF i \in Widget!On(t) THEN Widget!Asked ELSE Widget!Unmounted]
    BY <1>0 DEF Widget!Open
  <2>. QED
    BY <2>1, <2>2
<1>4. form' \in [typedId : BOOLEAN, typedSecret : BOOLEAN, saving : {"no", "asked"}, config : Widget!Config]
  BY <1>1 DEF Widget!BlankForm, Widget!Config
<1>5. batches \subseteq Batch
  BY <1>t DEF Widget!TypeOK, Batch
<1>6. Widget!Abandoned(batches) \subseteq Batch /\ \A b \in Widget!Abandoned(batches) : b.cancelled
  BY <1>5 DEF Widget!Abandoned, Batch
<1>7. \A b \in Widget!Abandoned(batches) : b.left # <<>>
  BY <1>5, <1>t DEF Widget!Abandoned, Batch, AtWork
<1>8. batches' \subseteq Widget!Abandoned(batches)
  BY <1>0 DEF Widget!Open
<1>9. Widget!TypeOK'
  <2>1. batches' \subseteq [left : Seq(Films), got : SUBSET Films, cancelled : BOOLEAN]
    BY <1>6, <1>8 DEF Batch
  <2>2. /\ configured' \in Widget!Config /\ broken' \subseteq Films /\ hasTmdb' \in BOOLEAN
    BY <1>t DEF Widget!TypeOK, Widget!account
  <2>3. seen' \in BOOLEAN /\ tab' \in {"home", "settings", "other"} /\ fetching' \in {"no", "asked"}
        /\ cache' \subseteq Films
    BY <1>1
  <2>4. loading' \in BOOLEAN /\ error' \in BOOLEAN /\ loaded' \in BOOLEAN /\ busy' \in BOOLEAN
        /\ saveLost' \in BOOLEAN
    BY <1>1
  <2>. QED
    BY <1>3, <1>4, <2>1, <2>2, <2>3, <2>4 DEF Widget!TypeOK
<1>10. AtWork'
  BY <1>1, <1>6, <1>7, <1>8 DEF AtWork, WidgetIdle
<1>11. AccountSeen'
  BY <1>1, <1>2 DEF AccountSeen, Widget!Asked, Widget!Unmounted
<1>. QED
  BY <1>9, <1>10, <1>11 DEF WidgetInv

\* What checkAuth leaves.
LEMMA KnowsKeeps ==
  ASSUME WidgetInv, NEW i \in Widget!Calls, NEW c \in BOOLEAN, Widget!Knows(i, c), c => seen,
         auth[i].phase # "known", faults' \in 0 .. MaxFaults
  PROVE  WidgetInv'
<1>t. Widget!TypeOK /\ AtWork /\ AccountSeen
  BY DEF WidgetInv
<1>1. /\ auth' = [auth EXCEPT ![i].phase = "known", ![i].connected = c]
      /\ UNCHANGED <<Widget!account, Widget!server, tab, seen, logout, loaded, cache, busy, batches, Widget!page>>
  BY DEF Widget!Knows
<1>2. \/ i = "hook" /\ loading' = TRUE /\ error' = FALSE /\ fetching' = "asked"
      \/ UNCHANGED <<loading, error, fetching>>
  BY DEF Widget!Knows
<1>3. auth \in [Widget!Calls -> [phase : {"off", "asked", "answered", "known"},
                                answer : BOOLEAN, connected : BOOLEAN]]
  BY <1>t DEF Widget!TypeOK
<1>4. /\ auth' \in [Widget!Calls -> [phase : {"off", "asked", "answered", "known"},
                                     answer : BOOLEAN, connected : BOOLEAN]]
      /\ auth'[i].phase = "known" /\ auth'[i].connected = c /\ auth'[i].answer = auth[i].answer
      /\ \A j \in Widget!Calls : j # i => auth'[j] = auth[j]
  BY <1>1, <1>3
<1>5. loading' \in BOOLEAN /\ error' \in BOOLEAN /\ fetching' \in {"no", "asked"}
  BY <1>2, <1>t DEF Widget!TypeOK
<1>6. Widget!TypeOK'
  BY <1>1, <1>4, <1>5, <1>t DEF Widget!TypeOK, Widget!account, Widget!server, Widget!page
<1>7. AtWork'
  <2>1. CASE i = "hook"
    <3>1. WidgetIdle /\ auth'["hook"].phase = "known"
      BY <1>4, <1>t, <2>1 DEF AtWork
    <3>. QED
      BY <1>1, <1>t, <3>1 DEF AtWork, WidgetIdle
  <2>2. CASE i # "hook"
    <3>1. auth'["hook"] = auth["hook"] /\ fetching' = fetching
      BY <1>2, <1>4, <2>2 DEF Widget!Calls
    <3>. QED
      BY <1>1, <1>t, <3>1 DEF AtWork, WidgetIdle
  <2>. QED
    BY <2>1, <2>2
<1>8. AccountSeen'
  BY <1>1, <1>4, <1>t DEF AccountSeen, Widget!server
<1>. QED
  BY <1>6, <1>7, <1>8 DEF WidgetInv

\* Every step keeps the inductive invariant of the widget.
LEMMA WidgetStep == WidgetSensible /\ WidgetInv /\ [Widget!Next]_widgetVars => WidgetInv'
<1> SUFFICES ASSUME WidgetSensible, WidgetInv, [Widget!Next]_widgetVars PROVE WidgetInv'
  OBVIOUS
<1> DEFINE Auths == [Widget!Calls -> [phase : {"off", "asked", "answered", "known"},
                                      answer : BOOLEAN, connected : BOOLEAN]]
           Forms == [typedId : BOOLEAN, typedSecret : BOOLEAN, saving : {"no", "asked"},
                     config : Widget!Config]
<1>t. Widget!TypeOK /\ AtWork /\ AccountSeen
  BY DEF WidgetInv
<1>n. MaxFaults \in Nat /\ faults \in 0 .. MaxFaults
      /\ (faults < MaxFaults => faults + 1 \in 0 .. MaxFaults)
  BY <1>t DEF Widget!TypeOK, WidgetSensible
<1>a. auth \in Auths /\ form \in Forms /\ batches \subseteq Batch /\ configured \in Widget!Config
      /\ session \in BOOLEAN /\ logout \subseteq Widget!Calls \cup {"closed"}
      /\ cache \subseteq Films
  BY <1>t DEF Widget!TypeOK, Batch
<1>1. ASSUME NEW t \in {"home", "settings", "other"}, Widget!ClickTab(t) PROVE WidgetInv'
  <2>1. Widget!Open(t, FALSE) /\ session' = session /\ UNCHANGED <<configured, Widget!account, faults>>
        /\ logout' \subseteq Widget!Calls \cup {"closed"}
    BY <1>1 DEF Widget!ClickTab
  <2>. QED
    BY <1>a, <1>n, <2>1, OpenKeeps
<1>2. CASE Widget!Login
  <2>1. Widget!Open("home", TRUE) /\ UNCHANGED <<configured, Widget!account, faults>>
        /\ logout' \subseteq Widget!Calls \cup {"closed"}
    BY <1>2 DEF Widget!Login
  <2>2. session' \in BOOLEAN
    BY <1>2, <1>a DEF Widget!Login
  <2>. QED
    BY <1>n, <2>1, <2>2, OpenKeeps
<1>3. CASE Widget!SessionEnds
  <2>1. /\ session' = FALSE
        /\ UNCHANGED <<configured, Widget!account, tab, seen, auth, logout, Widget!widget, Widget!page, faults>>
    BY <1>3 DEF Widget!SessionEnds
  <2>2. Widget!TypeOK'
    <3>1. session' \in BOOLEAN
      BY <2>1
    <3>. QED
      BY <1>t, <2>1, <3>1 DEF Widget!TypeOK, Widget!account, Widget!widget, Widget!page
  <2>3. AtWork'
    BY <1>t, <2>1 DEF AtWork, WidgetIdle, Widget!widget
  <2>4. AccountSeen'
    BY <1>t, <2>1 DEF AccountSeen
  <2>. QED
    BY <2>2, <2>3, <2>4 DEF WidgetInv
<1>4. ASSUME NEW i \in Widget!Calls, Widget!MeHandled(i) PROVE WidgetInv'
  <2>1. /\ auth[i].phase = "asked"
        /\ auth' = [auth EXCEPT ![i].phase = "answered", ![i].answer = session]
        /\ UNCHANGED <<Widget!account, Widget!server, tab, seen, logout, Widget!widget, Widget!page, faults>>
    BY <1>4 DEF Widget!MeHandled
  <2>2. /\ auth' \in Auths
        /\ auth'[i].phase = "answered" /\ auth'[i].connected = auth[i].connected
        /\ auth'[i].answer = session
        /\ \A j \in Widget!Calls : j # i => auth'[j] = auth[j]
    BY <1>a, <2>1
  <2>3. Widget!TypeOK'
    BY <1>t, <2>1, <2>2 DEF Widget!TypeOK, Widget!account, Widget!server, Widget!widget, Widget!page
  <2>4. auth'["hook"] = auth["hook"] \/ (auth["hook"].phase = "asked" /\ auth'["hook"].phase = "answered")
    BY <2>1, <2>2 DEF Widget!Calls
  <2>5. AtWork'
    BY <1>t, <2>1, <2>4 DEF AtWork, WidgetIdle, Widget!widget
  <2>6. AccountSeen'
    BY <1>t, <2>1, <2>2 DEF AccountSeen, Widget!server
  <2>. QED
    BY <2>3, <2>5, <2>6 DEF WidgetInv
<1>5. ASSUME NEW i \in Widget!Calls, Widget!MeResolves(i) PROVE WidgetInv'
  <2>1. Widget!Knows(i, auth[i].answer) /\ auth[i].phase # "known" /\ faults' = faults
    BY <1>5 DEF Widget!MeResolves
  <2>2. auth[i].answer \in BOOLEAN /\ (auth[i].answer => seen)
    BY <1>a, <1>t DEF AccountSeen
  <2>. QED
    BY <1>n, <2>1, <2>2, KnowsKeeps
<1>6. ASSUME NEW i \in Widget!Calls, Widget!MeFails(i) PROVE WidgetInv'
  <2>1. Widget!Knows(i, auth[i].connected) /\ auth[i].phase # "known" /\ faults' = faults + 1
        /\ faults < MaxFaults
    BY <1>6 DEF Widget!MeFails
  <2>2. auth[i].connected \in BOOLEAN /\ (auth[i].connected => seen)
    BY <1>a, <1>t DEF AccountSeen
  <2>. QED
    BY <1>n, <2>1, <2>2, KnowsKeeps
<1>7. ASSUME NEW i \in Widget!Calls, Widget!ClickLogout(i) PROVE WidgetInv'
  <2>1. /\ logout' \subseteq Widget!Calls \cup {"closed"}
        /\ UNCHANGED <<Widget!account, Widget!server, tab, seen, auth, Widget!widget, Widget!page, faults>>
    BY <1>7, <1>a DEF Widget!ClickLogout
  <2>. QED
    BY <1>t, <2>1 DEF WidgetInv, Widget!TypeOK, AtWork, WidgetIdle, AccountSeen, Widget!account,
         Widget!server, Widget!widget, Widget!page
<1>8. ASSUME NEW i \in Widget!Calls \cup {"closed"}, Widget!LogoutDone(i) PROVE WidgetInv'
  <2>1. /\ logout' \subseteq Widget!Calls \cup {"closed"}
        /\ auth' = [c \in Widget!Calls |-> IF c = i THEN [auth[c] EXCEPT !.connected = FALSE] ELSE auth[c]]
        /\ UNCHANGED <<configured, Widget!account, tab, seen, Widget!widget, Widget!page>>
    BY <1>8, <1>a DEF Widget!LogoutDone
  <2>2. session' = FALSE \/ session' = session
    BY <1>8 DEF Widget!LogoutDone
  <2>3. faults' \in 0 .. MaxFaults
    BY <1>8, <1>n DEF Widget!LogoutDone
  <2>4. \A c \in Widget!Calls : auth[c] \in [phase : {"off", "asked", "answered", "known"},
                                             answer : BOOLEAN, connected : BOOLEAN]
    BY <1>a
  <2>5. /\ auth' \in Auths
        /\ \A c \in Widget!Calls : /\ auth'[c].phase = auth[c].phase /\ auth'[c].answer = auth[c].answer
                                   /\ auth'[c].connected => auth[c].connected
    <3>1. ASSUME NEW c \in Widget!Calls
          PROVE  /\ auth'[c] \in [phase : {"off", "asked", "answered", "known"},
                                  answer : BOOLEAN, connected : BOOLEAN]
                 /\ auth'[c].phase = auth[c].phase /\ auth'[c].answer = auth[c].answer
                 /\ auth'[c].connected => auth[c].connected
      <4>1. auth'[c] = auth[c] \/ auth'[c] = [auth[c] EXCEPT !.connected = FALSE]
        BY <2>1
      <4>2. auth[c] \in [phase : {"off", "asked", "answered", "known"},
                         answer : BOOLEAN, connected : BOOLEAN]
        BY <2>4
      <4>3. CASE auth'[c] = auth[c]
        BY <4>2, <4>3
      <4>4. CASE auth'[c] = [auth[c] EXCEPT !.connected = FALSE]
        BY <4>2, <4>4
      <4>. QED
        BY <4>1, <4>3, <4>4
    <3>2. auth' = [c \in Widget!Calls |-> auth'[c]]
      BY <2>1
    <3>. QED
      BY <3>1, <3>2
  <2>6. Widget!TypeOK'
    <3>1. session' \in BOOLEAN
      BY <1>a, <2>2
    <3>. QED
      BY <1>t, <2>1, <2>3, <2>5, <3>1 DEF Widget!TypeOK, Widget!account, Widget!widget, Widget!page
  <2>7. auth'["hook"].phase = auth["hook"].phase
    <3>1. "hook" \in Widget!Calls
      BY DEF Widget!Calls
    <3>. QED
      BY <2>5, <3>1
  <2>8. AtWork'
    BY <1>t, <2>1, <2>7 DEF AtWork, WidgetIdle, Widget!widget
  <2>9. AccountSeen'
    BY <1>t, <2>1, <2>2, <2>5 DEF AccountSeen
  <2>. QED
    BY <2>6, <2>8, <2>9 DEF WidgetInv
<1>9. CASE Widget!ListsResolve
  <2>1. /\ fetching = "asked" /\ fetching' = "no" /\ loading' = FALSE
        /\ UNCHANGED <<Widget!account, Widget!server, tab, seen, auth, logout, cache, Widget!page>>
    BY <1>9 DEF Widget!ListsResolve
  <2>2. WidgetIdle /\ auth["hook"].phase = "known"
    BY <1>t, <2>1 DEF AtWork
  <2>3. CASE error' = TRUE /\ faults' \in 0 .. MaxFaults /\ UNCHANGED <<loaded, busy, batches>>
    <3>1. error' = TRUE /\ faults' \in 0 .. MaxFaults
      BY <2>3
    <3>2. Widget!TypeOK'
      BY <1>t, <2>1, <2>3, <3>1 DEF Widget!TypeOK, Widget!account, Widget!server, Widget!page
    <3>3. AtWork' /\ AccountSeen'
      BY <1>t, <2>1, <2>2, <2>3 DEF AtWork, WidgetIdle, AccountSeen, Widget!server
    <3>. QED
      BY <3>2, <3>3 DEF WidgetInv
  <2>4. CASE /\ loaded' = TRUE /\ UNCHANGED <<error, faults>>
             /\ batches' = batches \cup Widget!NextBatch(cache) /\ busy' = (Widget!NextBatch(cache) # {})
    <3>1. /\ Widget!NextBatch(cache) \subseteq Batch
          /\ \A b \in Widget!NextBatch(cache) : ~b.cancelled /\ b.left # <<>>
          /\ \A a, b \in Widget!NextBatch(cache) : a = b
      BY NextBatchProperties
    <3>2. batches' \subseteq Batch
      BY <1>a, <2>4, <3>1
    <3>3. Widget!TypeOK'
      BY <1>t, <2>1, <2>4, <3>2 DEF Widget!TypeOK, Widget!account, Widget!server, Widget!page, Batch
    <3>4. AtWork'
      BY <1>t, <2>1, <2>2, <2>4, <3>1 DEF AtWork, WidgetIdle
    <3>5. AccountSeen'
      BY <1>t, <2>1 DEF AccountSeen, Widget!server
    <3>. QED
      BY <3>3, <3>4, <3>5 DEF WidgetInv
  <2>. QED
    BY <1>9, <1>n, <2>3, <2>4 DEF Widget!ListsResolve
<1>10. ASSUME NEW b \in batches, Widget!EnrichStep(b) PROVE WidgetInv'
  <2>1. PICK ok \in BOOLEAN :
          LET film == Head(b.left)
              got == IF ok THEN b.got \cup {film} ELSE b.got
              rest == [b EXCEPT !.left = Tail(@), !.got = got]
          IN /\ \/ (ok \/ film \in broken) /\ UNCHANGED faults
                \/ ~ok /\ film \notin broken /\ faults < MaxFaults /\ faults' = faults + 1
             /\ \/ /\ Widget!Stops(b)
                   /\ batches' = batches \ {b} /\ UNCHANGED <<cache, busy>>
                \/ /\ ~Widget!Stops(b) /\ rest.left # <<>>
                   /\ batches' = (batches \ {b}) \cup {rest} /\ UNCHANGED <<cache, busy>>
                \/ /\ ~Widget!Stops(b) /\ rest.left = <<>>
                   /\ cache' = cache \cup got
                   /\ batches' = (batches \ {b}) \cup Widget!NextBatch(cache')
                   /\ busy' = (Widget!NextBatch(cache') # {})
             /\ UNCHANGED <<Widget!account, Widget!server, tab, seen, auth, logout, loading, error,
                            loaded, fetching, Widget!page>>
    BY <1>10 DEF Widget!EnrichStep
  <2> DEFINE film == Head(b.left)
             got == IF ok THEN b.got \cup {film} ELSE b.got
             rest == [b EXCEPT !.left = Tail(@), !.got = got]
  <2>2. b \in Batch /\ b.left \in Seq(Films) /\ b.left # <<>> /\ b.got \subseteq Films
        /\ b.cancelled \in BOOLEAN
    <3>1. b \in Batch
      BY <1>a
    <3>. QED
      BY <1>t, <3>1 DEF Batch, AtWork
  <2>3. film \in Films /\ Tail(b.left) \in Seq(Films)
    BY <2>2
  <2>4. got \subseteq Films
    BY <2>2, <2>3
  <2>5. rest \in Batch /\ rest.left = Tail(b.left) /\ rest.cancelled = b.cancelled
    <3> HIDE DEF got
    <3>. QED
      BY <2>2, <2>3, <2>4 DEF Batch
  <2>6. /\ faults' \in 0 .. MaxFaults
        /\ UNCHANGED <<Widget!account, Widget!server, tab, seen, auth, logout, loading, error,
                       loaded, fetching, Widget!page>>
    BY <1>n, <2>1
  <2>7. \/ /\ b.cancelled
           /\ batches' = batches \ {b} /\ UNCHANGED <<cache, busy>>
        \/ /\ ~b.cancelled /\ rest.left # <<>>
           /\ batches' = (batches \ {b}) \cup {rest} /\ UNCHANGED <<cache, busy>>
        \/ /\ ~b.cancelled
           /\ cache' = cache \cup got
           /\ batches' = (batches \ {b}) \cup Widget!NextBatch(cache')
           /\ busy' = (Widget!NextBatch(cache') # {})
    BY <2>1 DEF Widget!Stops
  <2> HIDE DEF rest, got
  <2>8. /\ Widget!NextBatch(cache') \subseteq Batch
        /\ \A d \in Widget!NextBatch(cache') : ~d.cancelled /\ d.left # <<>>
        /\ \A a, d \in Widget!NextBatch(cache') : a = d
    BY NextBatchProperties
  <2>9. batches' \subseteq Batch /\ cache' \subseteq Films
    BY <1>a, <2>4, <2>5, <2>7, <2>8
  <2>10. busy' \in BOOLEAN
    BY <1>t, <2>7 DEF Widget!TypeOK
  <2>11. Widget!TypeOK'
    BY <1>t, <2>6, <2>9, <2>10 DEF Widget!TypeOK, Widget!account, Widget!server, Widget!page, Batch
  <2>12. AccountSeen'
    BY <1>t, <2>6 DEF AccountSeen, Widget!server
  <2>13. AtWork'
    <3>0. /\ auth' = auth /\ fetching' = fetching
          /\ busy <=> \E d \in batches : ~d.cancelled
          /\ \A a, d \in batches : ~a.cancelled /\ ~d.cancelled => a = d
          /\ \A d \in batches : d.left # <<>>
          /\ auth["hook"].phase # "known" => fetching = "no" /\ WidgetIdle
          /\ fetching = "asked" => WidgetIdle
      BY <1>t, <2>6 DEF AtWork
    <3>1. CASE b.cancelled
      <4>1. batches' = batches \ {b} /\ busy' = busy
        BY <2>7, <3>1
      <4>. QED
        BY <3>0, <3>1, <4>1 DEF AtWork, WidgetIdle
    <3>2. CASE ~b.cancelled
      <4>1. ~WidgetIdle /\ auth["hook"].phase = "known" /\ fetching # "asked" /\ busy
            /\ \A d \in batches \ {b} : d.cancelled
        BY <3>0, <3>2 DEF WidgetIdle
      <4>2. CASE /\ rest.left # <<>>
                 /\ batches' = (batches \ {b}) \cup {rest} /\ busy' = busy
        BY <2>5, <3>0, <3>2, <4>1, <4>2 DEF AtWork
      <4>3. CASE /\ batches' = (batches \ {b}) \cup Widget!NextBatch(cache')
                 /\ busy' = (Widget!NextBatch(cache') # {})
        BY <2>8, <3>0, <4>1, <4>3 DEF AtWork
      <4>. QED
        BY <2>7, <3>2, <4>2, <4>3
    <3>. QED
      BY <3>1, <3>2
  <2>. QED
    BY <2>11, <2>12, <2>13 DEF WidgetInv
<1>11. CASE UNCHANGED <<Widget!account, session, tab, seen, auth, logout, Widget!widget>>
            /\ configured' \in Widget!Config /\ form' \in Forms /\ saveLost' \in BOOLEAN
            /\ faults' \in 0 .. MaxFaults
  BY <1>t, <1>11 DEF WidgetInv, Widget!TypeOK, AtWork, WidgetIdle, AccountSeen, Widget!account,
       Widget!widget
<1>12. CASE Widget!ConfigLoaded
  <2>1. form' \in Forms
    BY <1>12, <1>a DEF Widget!ConfigLoaded
  <2>. QED
    BY <1>12, <1>a, <1>n, <1>t, <2>1, <1>11 DEF Widget!ConfigLoaded, Widget!server, Widget!TypeOK
<1>13. CASE Widget!TypeIn
  <2>1. form' \in Forms
    BY <1>13, <1>a DEF Widget!TypeIn
  <2>. QED
    BY <1>13, <1>a, <1>n, <1>t, <2>1, <1>11 DEF Widget!TypeIn, Widget!server, Widget!TypeOK
<1>14. CASE Widget!ClickSave
  <2>1. form' \in Forms
    BY <1>14, <1>a DEF Widget!ClickSave
  <2>2. saveLost' \in BOOLEAN
    BY <1>14 DEF Widget!ClickSave
  <2>. QED
    BY <1>14, <1>a, <1>n, <2>1, <2>2, <1>11 DEF Widget!ClickSave, Widget!server
<1>15. CASE Widget!SaveReplies
  <2>1. configured' \in Widget!Config
    <3>1. configured' = configured
          \/ configured' = [id |-> TRUE, secret |-> configured.secret \/ form.typedSecret]
      BY <1>15 DEF Widget!SaveReplies
    <3> DEFINE secret == configured.secret \/ form.typedSecret
    <3>2. secret \in BOOLEAN
      OBVIOUS
    <3> HIDE DEF secret
    <3>3. [id |-> TRUE, secret |-> secret] \in Widget!Config
      BY <3>2 DEF Widget!Config
    <3>. QED
      BY <1>a, <3>1, <3>3 DEF secret
  <2>2. form' \in Forms
    BY <1>15, <1>a, <2>1 DEF Widget!SaveReplies
  <2>3. saveLost' \in BOOLEAN
    BY <1>15, <1>t DEF Widget!SaveReplies, Widget!TypeOK
  <2>4. faults' \in 0 .. MaxFaults
    BY <1>15, <1>n DEF Widget!SaveReplies
  <2>. QED
    BY <1>15, <2>1, <2>2, <2>3, <2>4, <1>11 DEF Widget!SaveReplies
<1>16. CASE UNCHANGED widgetVars
  BY <1>t, <1>16 DEF widgetVars, WidgetInv, Widget!TypeOK, AtWork, WidgetIdle, AccountSeen,
       Widget!account, Widget!server, Widget!widget, Widget!page
<1>. QED
  BY <1>1, <1>2, <1>3, <1>4, <1>5, <1>6, <1>7, <1>8, <1>9, <1>10, <1>12, <1>13, <1>14, <1>15, <1>16
  DEF Widget!Next

\* What the invariant says of the properties.
LEMMA WidgetMeans == WidgetInv => Widget!TypeOK /\ Widget!OneBatch /\ Widget!NoGhost
<1> SUFFICES ASSUME WidgetInv PROVE Widget!TypeOK /\ Widget!OneBatch /\ Widget!NoGhost
  OBVIOUS
<1>1. Widget!TypeOK /\ AtWork /\ AccountSeen
  BY DEF WidgetInv
<1> DEFINE at_work == {b \in batches : ~b.cancelled}
<1>2. \A a, b \in at_work : a = b
  BY <1>1 DEF AtWork
<1>3. Cardinality(at_work) <= 1
  <2> HIDE DEF at_work
  <2>1. ASSUME NEW b \in at_work PROVE Cardinality(at_work) <= 1
    <3>1. at_work = {b}
      BY <1>2
    <3>2. Cardinality({b}) = 1
      BY FS_Singleton
    <3>. QED
      BY <3>1, <3>2
  <2>2. CASE at_work = {}
    <3>1. Cardinality(at_work) = 0
      BY <2>2, FS_EmptySet
    <3>. QED
      BY <3>1
  <2>. QED
    BY <2>1, <2>2
<1>4. Widget!OneBatch
  BY <1>1, <1>3, WidgetLists DEF Widget!OneBatch, AtWork
<1>5. Widget!On(tab) \subseteq Widget!Calls
  BY DEF Widget!On, Widget!Calls
<1>. QED
  BY <1>1, <1>4, <1>5 DEF Widget!NoGhost, AccountSeen

\* A batch that is cancelled was so before, or was at the same film.
LEMMA WidgetQuiet ==
  ASSUME WidgetSensible, WidgetInv, Widget!Next
  PROVE  \A b \in batches' : b.cancelled =>
           b \in batches \/ [b EXCEPT !.cancelled = FALSE] \in batches
<1> SUFFICES ASSUME NEW b \in batches', b.cancelled
             PROVE  b \in batches \/ [b EXCEPT !.cancelled = FALSE] \in batches
  OBVIOUS
<1>t. batches \subseteq Batch
  BY DEF WidgetInv, Widget!TypeOK, Batch
<1>1. ASSUME NEW t, NEW reload, Widget!Open(t, reload)
      PROVE  b \in batches \/ [b EXCEPT !.cancelled = FALSE] \in batches
  <2>1. b \in Widget!Abandoned(batches)
    BY <1>1 DEF Widget!Open
  <2>2. PICK d \in batches : b = [d EXCEPT !.cancelled = TRUE]
    BY <2>1 DEF Widget!Abandoned
  <2>3. d \in Batch
    BY <1>t
  <2>4. CASE d.cancelled
    <3>1. b = d
      BY <2>2, <2>3, <2>4 DEF Batch
    <3>. QED
      BY <3>1
  <2>5. CASE ~d.cancelled
    <3>1. [b EXCEPT !.cancelled = FALSE] = d
      BY <2>2, <2>3, <2>5 DEF Batch
    <3>. QED
      BY <3>1
  <2>. QED
    BY <2>4, <2>5
<1>2. CASE Widget!ListsResolve
  <2>1. batches' \subseteq batches \cup Widget!NextBatch(cache)
    BY <1>2 DEF Widget!ListsResolve
  <2>. QED
    BY <2>1, NextBatchProperties
<1>3. ASSUME NEW d \in batches, Widget!EnrichStep(d) PROVE b \in batches
  <2>1. PICK rest : batches' \subseteq batches \cup Widget!NextBatch(cache') \cup {rest}
                    /\ (rest \in batches' => rest \in batches \/ ~rest.cancelled
                                              \/ rest \in Widget!NextBatch(cache'))
    <3>1. CASE batches' \subseteq batches \cup Widget!NextBatch(cache')
      BY <3>1
    <3>2. CASE \E e : ~e.cancelled /\ batches' \subseteq batches \cup {e}
      BY <3>2
    <3>3. ASSUME NEW got PROVE ~d.cancelled => ~[d EXCEPT !.left = Tail(@), !.got = got].cancelled
      <4>1. d \in Batch
        BY <1>t
      <4>. QED
        BY <4>1 DEF Batch
    <3>. QED
      BY <1>3, <3>1, <3>2, <3>3 DEF Widget!EnrichStep, Widget!Stops
  <2>. QED
    BY <2>1, NextBatchProperties
<1>4. CASE batches' = batches
  BY <1>4
<1>. QED
  BY <1>1, <1>2, <1>3, <1>4
  DEF Widget!Next, Widget!ClickTab, Widget!Login, Widget!SessionEnds, Widget!MeHandled,
      Widget!MeResolves, Widget!MeFails, Widget!Knows, Widget!ClickLogout,
      Widget!LogoutDone, Widget!ConfigLoaded, Widget!TypeIn, Widget!ClickSave, Widget!SaveReplies, Widget!widget

-----------------------------------------------------------------------------
(* The settings. *)

\* Its lists are those of Lists.
LEMMA SavedLists ==
  /\ \A S : Saved!Cardinality(S) = Cardinality(S)
  /\ \A s, S : Saved!At(s, S) = At(s, S)
<1>1. \A S : Saved!Cardinality(S) = Cardinality(S)
  BY DEF Saved!Cardinality, Cardinality
<1>2. \A S, i : Saved!Rank(S, i) = Rank(S, i)
  BY <1>1 DEF Saved!Rank, Rank
<1>3. \A S, k : Saved!Nth(S, k) = Nth(S, k)
  BY <1>2 DEF Saved!Nth, Nth
<1>. QED
  BY <1>1, <1>3 DEF Saved!At, At

Item == [id : Saved!Ids, span : {1, 2}]
Palette == Colours \cup {Presets[theme][key] : theme \in DOMAIN Presets, key \in Saved!Keys}
WindowView == [settings : Saved!Stored(Saved!Layouts), tab : Saved!Tabs, editing : BOOLEAN,
               drag : {None} \cup DOMAIN WIDGETS,
               seen : [layout : Saved!Layouts, drag : {None} \cup DOMAIN WIDGETS]]

\* What the constants are: no widget is there twice, a theme has every colour,
\* and null is nothing else.
SettingsSensible ==
  /\ WIDGETS \in Seq(Saved!Ids) /\ \A i, j \in DOMAIN WIDGETS : WIDGETS[i] = WIDGETS[j] => i = j
  /\ defaultSpan \in [Saved!Ids -> {1, 2}]
  /\ FirstTheme \in DOMAIN Presets /\ \A theme \in DOMAIN Presets : Presets[theme] \in [Saved!Keys -> Palette]
  /\ Legacy \subseteq SUBSET Saved!Ids /\ MaxChanges \in Nat
  /\ None \notin Nat /\ None \notin Saved!Layouts /\ None \notin Saved!Palettes
  /\ None \notin Saved!Stored(Saved!Layouts) /\ None \notin Saved!Stored({None})

\* No widget twice.
Distinct(l) == \A i, j \in DOMAIN l : l[i].id = l[j].id => i = j

\* The layout without a widget.
Others(l, id) == Filter(l, LAMBDA x : x.id # id)

\* The widget at d is the one that was picked, and the others are as they were.
Holds(l, d, b) ==
  d \in DOMAIN l /\ l[d].id = b.id /\ Others(l, b.id) = Others(b.layout, b.id)

\* What a window holds, and what it held when the drag began.
WindowSound(v, b) ==
  /\ v \in WindowView /\ b \in [layout : Saved!Layouts, id : {None} \cup Saved!Ids]
  /\ Distinct(v.settings.homeLayout) /\ Distinct(v.seen.layout)
  /\ v.drag = None => v.seen = [layout |-> v.settings.homeLayout, drag |-> None]
  /\ v.drag # None => /\ v.seen.drag # None
                      /\ Holds(v.settings.homeLayout, v.drag, b)
                      /\ Holds(v.seen.layout, v.seen.drag, b)

SoundStore(st) ==
  /\ st \in {None} \cup Saved!Stored(Saved!Layouts) \cup Saved!Stored({None})
  /\ st # None /\ st.homeLayout # None => Distinct(st.homeLayout)

SettingsInv ==
  /\ DOMAIN win = Windows /\ win = [w \in Windows |-> win[w]]
  /\ DOMAIN before = Windows /\ before = [w \in Windows |-> before[w]]
  /\ \A w \in Windows : WindowSound(win[w], before[w])
  /\ SoundStore(store)
  /\ fresh \subseteq Windows /\ changes \in 0 .. MaxChanges
  /\ Saved!ReloadKeeps

(* Lists with an item taken out, and put back. *)

\* An item taken out leaves the others in their order.
LEMMA RemoveAtProperties ==
  ASSUME NEW T, NEW s \in Seq(T), NEW b \in 1 .. Len(s)
  PROVE  /\ Saved!RemoveAt(s, b) \in Seq(T) /\ Len(Saved!RemoveAt(s, b)) = Len(s) - 1
         /\ \A k \in 1 .. Len(s) - 1 : Saved!RemoveAt(s, b)[k] = s[IF k < b THEN k ELSE k + 1]
<1> DEFINE n == Len(s)
           p == SubSeq(s, 1, b - 1)
           q == SubSeq(s, b + 1, n)
<1>1. n \in Nat /\ 1 \in 1 .. n + 1 /\ b - 1 \in 0 .. n /\ b + 1 \in 1 .. n + 1 /\ n \in (b + 1) - 1 .. n
  BY LenProperties
<1>2. /\ p \in Seq(T) /\ Len(p) = b - 1
      /\ \A k \in 1 .. b - 1 : p[k] = s[k]
  BY <1>1, SubSeqProperties
<1>3. /\ q \in Seq(T) /\ Len(q) = n - b
      /\ \A k \in 1 .. n - b : q[k] = s[b + k]
  <2>1. /\ q \in Seq(T) /\ Len(q) = n - (b + 1) + 1
        /\ \A k \in 1 .. n - (b + 1) + 1 : q[k] = s[(b + 1) + k - 1]
    BY <1>1, SubSeqProperties
  <2>2. n - (b + 1) + 1 = n - b /\ \A k \in 1 .. n - b : (b + 1) + k - 1 = b + k
    BY <1>1
  <2> HIDE DEF q, n
  <2>. QED
    BY <2>1, <2>2
<1>4. Saved!RemoveAt(s, b) = p \o q
  BY DEF Saved!RemoveAt
<1> HIDE DEF p, q, n
<1>5. /\ p \o q \in Seq(T) /\ Len(p \o q) = Len(p) + Len(q)
      /\ \A k \in 1 .. Len(p) + Len(q) : (p \o q)[k] = IF k <= Len(p) THEN p[k] ELSE q[k - Len(p)]
  BY <1>2, <1>3, ConcatProperties
<1>6. ASSUME NEW k \in 1 .. n - 1 PROVE (p \o q)[k] = s[IF k < b THEN k ELSE k + 1]
  <2>1. k \in 1 .. Len(p) + Len(q)
    BY <1>1, <1>2, <1>3
  <2>2. CASE k < b
    BY <1>1, <1>2, <1>5, <2>1, <2>2
  <2>3. CASE ~(k < b)
    <3>1. ~(k <= Len(p)) /\ k - Len(p) = k - b + 1 /\ k - b + 1 \in 1 .. n - b
          /\ b + (k - b + 1) = k + 1
      BY <1>1, <1>2, <2>3
    <3>. QED
      BY <1>3, <1>5, <2>1, <2>3, <3>1
  <2>. QED
    BY <2>2, <2>3
<1>. QED
  BY <1>1, <1>2, <1>3, <1>4, <1>5, <1>6 DEF n

\* An item put in leaves the others in their order.
LEMMA InsertAtProperties ==
  ASSUME NEW T, NEW s \in Seq(T), NEW i \in 1 .. Len(s) + 1, NEW x \in T
  PROVE  /\ Saved!InsertAt(s, i, x) \in Seq(T) /\ Len(Saved!InsertAt(s, i, x)) = Len(s) + 1
         /\ Saved!InsertAt(s, i, x)[i] = x
         /\ \A k \in 1 .. Len(s) + 1 :
              k # i => Saved!InsertAt(s, i, x)[k] = s[IF k < i THEN k ELSE k - 1]
<1> DEFINE n == Len(s)
           p == SubSeq(s, 1, i - 1)
           q == SubSeq(s, i, n)
           m == p \o <<x>>
<1>1. n \in Nat /\ 1 \in 1 .. n + 1 /\ i - 1 \in 0 .. n /\ n \in i - 1 .. n
  BY LenProperties
<1>2. /\ p \in Seq(T) /\ Len(p) = i - 1
      /\ \A k \in 1 .. i - 1 : p[k] = s[k]
  BY <1>1, SubSeqProperties
<1>3. /\ q \in Seq(T) /\ Len(q) = n - i + 1
      /\ \A k \in 1 .. n - i + 1 : q[k] = s[i + k - 1]
  BY <1>1, SubSeqProperties
<1>4. Saved!InsertAt(s, i, x) = m \o q
  BY DEF Saved!InsertAt
<1>5. m = Append(p, x)
  <2> HIDE DEF p
  <2>. QED
    BY <1>2, AppendIsConcat
<1> HIDE DEF p, q, n, m
<1>6. /\ m \in Seq(T) /\ Len(m) = i /\ m[i] = x /\ \A k \in 1 .. i - 1 : m[k] = s[k]
  BY <1>1, <1>2, <1>5, AppendProperties
<1>7. /\ m \o q \in Seq(T) /\ Len(m \o q) = Len(m) + Len(q)
      /\ \A k \in 1 .. Len(m) + Len(q) : (m \o q)[k] = IF k <= Len(m) THEN m[k] ELSE q[k - Len(m)]
  BY <1>3, <1>6, ConcatProperties
<1>8. Len(m) + Len(q) = n + 1
  BY <1>1, <1>3, <1>6
<1>9. ASSUME NEW k \in 1 .. n + 1, k # i PROVE (m \o q)[k] = s[IF k < i THEN k ELSE k - 1]
  <2>1. CASE k < i
    BY <1>1, <1>6, <1>7, <1>8, <2>1
  <2>2. CASE ~(k < i)
    <3>1. ~(k <= Len(m)) /\ k - Len(m) \in 1 .. n - i + 1 /\ i + (k - Len(m)) - 1 = k - 1
      BY <1>1, <1>6, <1>9, <2>2
    <3>. QED
      BY <1>3, <1>7, <1>8, <2>2, <3>1
  <2>. QED
    BY <2>1, <2>2
<1>10. (m \o q)[i] = x
  BY <1>1, <1>6, <1>7, <1>8
<1>. QED
  BY <1>4, <1>7, <1>8, <1>9, <1>10 DEF n

\* The widgets at some places, no two of them the same.
LEMMA AtDistinct ==
  ASSUME NEW l \in Saved!Layouts, Distinct(l), NEW S \in SUBSET (DOMAIN l)
  PROVE  At(l, S) \in Saved!Layouts /\ Distinct(At(l, S))
<1>1. /\ IsFiniteSet(S) /\ S \in SUBSET Nat /\ Cardinality(S) \in Nat
      /\ At(l, S) \in Seq(Item) /\ Len(At(l, S)) = Cardinality(S)
      /\ \A k \in 1 .. Cardinality(S) : Nth(S, k) \in S /\ At(l, S)[k] = l[Nth(S, k)]
  BY AtProperties DEF Saved!Layouts, Item
<1>2. \A k \in 1 .. Cardinality(S) : Rank(S, Nth(S, k)) = k
  BY <1>1, NthLists
<1>3. DOMAIN At(l, S) = 1 .. Cardinality(S)
  BY <1>1
<1>4. Distinct(At(l, S))
  <2> SUFFICES ASSUME NEW j \in 1 .. Cardinality(S), NEW k \in 1 .. Cardinality(S),
                      At(l, S)[j].id = At(l, S)[k].id
               PROVE  j = k
    BY <1>3 DEF Distinct
  <2>1. Nth(S, j) \in DOMAIN l /\ Nth(S, k) \in DOMAIN l /\ l[Nth(S, j)].id = l[Nth(S, k)].id
    BY <1>1
  <2>2. Nth(S, j) = Nth(S, k)
    BY <2>1 DEF Distinct
  <2>. QED
    BY <1>2, <2>2
<1>. QED
  BY <1>1, <1>4 DEF Saved!Layouts, Item

\* The other widgets are those left when one is taken out.
LEMMA OthersAre ==
  ASSUME NEW l \in Saved!Layouts, Distinct(l), NEW b \in DOMAIN l
  PROVE  Others(l, l[b].id) = Saved!RemoveAt(l, b)
<1> DEFINE n == Len(l)
           S == {i \in DOMAIN l : l[i].id # l[b].id}
           e == [k \in 1 .. n - 1 |-> IF k < b THEN k ELSE k + 1]
<1>1. l \in Seq(Item) /\ n \in Nat /\ DOMAIN l = 1 .. n /\ b \in 1 .. n /\ n - 1 \in Nat
  BY DEF Saved!Layouts, Item
<1>2. S = {i \in 1 .. n : i # b}
  BY <1>1 DEF Distinct
<1>3. {e[k] : k \in 1 .. n - 1} = {i \in 1 .. n : i # b}
  <2>1. \A k \in 1 .. n - 1 : e[k] \in 1 .. n /\ e[k] # b
    BY <1>1
  <2>2. ASSUME NEW i \in 1 .. n, i # b PROVE \E k \in 1 .. n - 1 : e[k] = i
    <3>1. CASE i < b
      <4>1. i \in 1 .. n - 1 /\ e[i] = i
        BY <1>1, <3>1
      <4>. QED
        BY <4>1
    <3>2. CASE i > b
      <4>1. i - 1 \in 1 .. n - 1 /\ e[i - 1] = i
        BY <1>1, <3>2
      <4>. QED
        BY <4>1
    <3>. QED
      BY <1>1, <2>2, <3>1, <3>2
  <2> HIDE DEF e
  <2>. QED
    BY <2>1, <2>2
<1>4. e \in [1 .. n - 1 -> Nat] /\ \A j, k \in 1 .. n - 1 : j < k => e[j] < e[k]
  BY <1>1
<1>5. \A k \in 1 .. n - 1 : l[e[k]] = l[IF k < b THEN k ELSE k + 1]
  OBVIOUS
<1> HIDE DEF n, S, e
<1>6. Cardinality(S) = n - 1 /\ \A k \in 1 .. n - 1 : Nth(S, k) = e[k]
  <2>1. \A i : i \in S <=> \E k \in 1 .. n - 1 : i = e[k]
    BY <1>2, <1>3
  <2> DEFINE m == n - 1
  <2>2. m \in Nat /\ e \in [1 .. m -> Nat] /\ \A j, k \in 1 .. m : j < k => e[j] < e[k]
    BY <1>1, <1>4
  <2>3. \A i : i \in S <=> \E k \in 1 .. m : i = e[k]
    BY <2>1
  <2> HIDE DEF m
  <2>4. Cardinality(S) = m /\ \A k \in 1 .. m : Nth(S, k) = e[k]
    BY <2>2, <2>3, ListOfMembers, ZenonT(60)
  <2>. QED
    BY <2>4 DEF m
<1>7. Others(l, l[b].id) = At(l, S)
  BY SavedLists DEF Others, Filter, S
<1>8. At(l, S) = [k \in 1 .. n - 1 |-> l[e[k]]]
  BY <1>6 DEF At
<1>9. /\ Saved!RemoveAt(l, b) \in Seq(Item) /\ Len(Saved!RemoveAt(l, b)) = n - 1
      /\ \A k \in 1 .. n - 1 : Saved!RemoveAt(l, b)[k] = l[IF k < b THEN k ELSE k + 1]
  BY <1>1, RemoveAtProperties DEF n
<1>10. Saved!RemoveAt(l, b) = [k \in 1 .. n - 1 |-> Saved!RemoveAt(l, b)[k]]
  BY <1>1, <1>9
<1>. QED
  BY <1>5, <1>7, <1>8, <1>9, <1>10

\* A widget taken out and put back elsewhere: every widget is there once, and
\* the others are as they were.
LEMMA MovedProperties ==
  ASSUME NEW l \in Saved!Layouts, Distinct(l), NEW b \in DOMAIN l, NEW i \in DOMAIN l
  PROVE  /\ Saved!Moved(l, b, i) \in Saved!Layouts /\ DOMAIN Saved!Moved(l, b, i) = DOMAIN l
         /\ Saved!Moved(l, b, i)[i] = l[b]
         /\ Distinct(Saved!Moved(l, b, i))
         /\ Saved!RemoveAt(Saved!Moved(l, b, i), i) = Saved!RemoveAt(l, b)
<1> DEFINE n == Len(l)
           r == Saved!RemoveAt(l, b)
           m == Saved!Moved(l, b, i)
           old(k) == IF k = i THEN b
                     ELSE IF k < i THEN (IF k < b THEN k ELSE k + 1)
                     ELSE (IF k - 1 < b THEN k - 1 ELSE k)
<1>1. l \in Seq(Item) /\ n \in Nat /\ DOMAIN l = 1 .. n /\ b \in 1 .. n /\ i \in 1 .. n /\ l[b] \in Item
  <2>1. l \in Seq(Item) /\ n \in Nat /\ DOMAIN l = 1 .. n
    BY DEF Saved!Layouts, Item
  <2>2. b \in 1 .. n /\ i \in 1 .. n
    BY <2>1
  <2>. QED
    BY <2>1, <2>2, ElementOfSeq
<1>2. /\ r \in Seq(Item) /\ Len(r) = n - 1
      /\ \A k \in 1 .. n - 1 : r[k] = l[IF k < b THEN k ELSE k + 1]
  BY <1>1, RemoveAtProperties
<1>3. m = Saved!InsertAt(r, i, l[b])
  BY DEF Saved!Moved
<1> HIDE DEF n, r, m
<1>4. i \in 1 .. Len(r) + 1 /\ Len(r) + 1 = n
  BY <1>1, <1>2
<1>5. /\ m \in Seq(Item) /\ Len(m) = n /\ m[i] = l[b]
      /\ \A k \in 1 .. n : k # i => m[k] = r[IF k < i THEN k ELSE k - 1]
  <2> DEFINE y == l[b]
  <2>1. y \in Item /\ r \in Seq(Item) /\ i \in 1 .. Len(r) + 1 /\ m = Saved!InsertAt(r, i, y)
    BY <1>1, <1>2, <1>3, <1>4
  <2> HIDE DEF y
  <2>2. /\ m \in Seq(Item) /\ Len(m) = Len(r) + 1 /\ m[i] = y
        /\ \A k \in 1 .. Len(r) + 1 : k # i => m[k] = r[IF k < i THEN k ELSE k - 1]
    BY <2>1, InsertAtProperties, SMTT(30)
  <2>. QED
    BY <1>4, <2>2 DEF y
<1>6. \A k \in 1 .. n : m[k] = l[old(k)]
  <2> SUFFICES ASSUME NEW k \in 1 .. n PROVE m[k] = l[old(k)]
    OBVIOUS
  <2>1. CASE k = i
    BY <1>5, <2>1
  <2>2. CASE k < i
    <3>1. k \in 1 .. n - 1 /\ k # i
      BY <1>1, <2>2
    <3>. QED
      BY <1>2, <1>5, <2>2, <3>1
  <2>3. CASE k > i
    <3>1. k - 1 \in 1 .. n - 1 /\ k # i /\ ~(k < i) /\ (k - 1) + 1 = k
      BY <1>1, <2>3
    <3>. QED
      BY <1>2, <1>5, <2>3, <3>1
  <2>. QED
    BY <1>1, <2>1, <2>2, <2>3
<1>7. /\ \A k \in 1 .. n : old(k) \in 1 .. n
      /\ \A j, k \in 1 .. n : old(j) = old(k) => j = k
  BY <1>1
<1> HIDE DEF old
<1>8. DOMAIN m = 1 .. n
  BY <1>5
<1>9. Distinct(m)
  <2> SUFFICES ASSUME NEW j \in 1 .. n, NEW k \in 1 .. n, m[j].id = m[k].id PROVE j = k
    BY <1>8 DEF Distinct
  <2>1. l[old(j)].id = l[old(k)].id /\ old(j) \in 1 .. n /\ old(k) \in 1 .. n
    BY <1>6, <1>7
  <2>2. old(j) = old(k)
    BY <1>1, <2>1 DEF Distinct
  <2>. QED
    BY <1>7, <2>2
<1>10. Saved!RemoveAt(m, i) = r
  <2>1. /\ Saved!RemoveAt(m, i) \in Seq(Item) /\ Len(Saved!RemoveAt(m, i)) = n - 1
        /\ \A k \in 1 .. n - 1 : Saved!RemoveAt(m, i)[k] = m[IF k < i THEN k ELSE k + 1]
    BY <1>1, <1>5, RemoveAtProperties
  <2>2. ASSUME NEW k \in 1 .. n - 1 PROVE Saved!RemoveAt(m, i)[k] = r[k]
    <3>1. CASE k < i
      <4>1. k \in 1 .. n /\ k # i
        BY <1>1, <3>1
      <4>. QED
        BY <1>5, <2>1, <3>1, <4>1
    <3>2. CASE ~(k < i)
      <4>1. k + 1 \in 1 .. n /\ k + 1 # i /\ ~(k + 1 < i) /\ (k + 1) - 1 = k
        BY <1>1, <3>2
      <4>. QED
        BY <1>5, <2>1, <3>2, <4>1
    <3>. QED
      BY <3>1, <3>2
  <2>. QED
    BY <1>2, <2>1, <2>2, SeqEqual
<1>. QED
  BY <1>1, <1>5, <1>8, <1>9, <1>10 DEF Saved!Layouts, Item, m, r

(* The settings. *)

\* The default layout, and that of an older version.
LEMMA DefaultLayout ==
  ASSUME SettingsSensible
  PROVE  /\ Saved!DEFAULT_HOME_LAYOUT \in Saved!Layouts /\ Distinct(Saved!DEFAULT_HOME_LAYOUT)
         /\ \A ids : Saved!layoutFromWidgetIds(ids) \in Saved!Layouts /\ Distinct(Saved!layoutFromWidgetIds(ids))
<1> DEFINE d == [i \in DOMAIN WIDGETS |-> [id |-> WIDGETS[i], span |-> defaultSpan[WIDGETS[i]]]]
<1>1. Len(WIDGETS) \in Nat /\ DOMAIN WIDGETS = 1 .. Len(WIDGETS)
      /\ \A i \in DOMAIN WIDGETS : WIDGETS[i] \in Saved!Ids
  BY ElementOfSeq DEF SettingsSensible
<1>2. \A i \in DOMAIN WIDGETS : [id |-> WIDGETS[i], span |-> defaultSpan[WIDGETS[i]]] \in Item
  BY <1>1 DEF SettingsSensible, Item
<1>3. d \in Seq(Item)
  BY <1>1, <1>2
<1>4. DOMAIN d = DOMAIN WIDGETS /\ \A i \in DOMAIN d : d[i].id = WIDGETS[i]
  OBVIOUS
<1>5. Saved!DEFAULT_HOME_LAYOUT = d
  BY DEF Saved!DEFAULT_HOME_LAYOUT
<1> HIDE DEF d
<1>6. Saved!DEFAULT_HOME_LAYOUT \in Saved!Layouts /\ Distinct(Saved!DEFAULT_HOME_LAYOUT)
  BY <1>3, <1>4, <1>5 DEF Saved!Layouts, Item, Distinct, SettingsSensible
<1>7. ASSUME NEW ids
      PROVE Saved!layoutFromWidgetIds(ids) \in Saved!Layouts /\ Distinct(Saved!layoutFromWidgetIds(ids))
  <2> DEFINE S == {i \in DOMAIN Saved!DEFAULT_HOME_LAYOUT : Saved!DEFAULT_HOME_LAYOUT[i].id \in ids}
  <2>1. Saved!layoutFromWidgetIds(ids) = At(Saved!DEFAULT_HOME_LAYOUT, S)
    BY SavedLists DEF Saved!layoutFromWidgetIds, Saved!Filter
  <2>2. S \in SUBSET (DOMAIN Saved!DEFAULT_HOME_LAYOUT)
    OBVIOUS
  <2> HIDE DEF S
  <2>. QED
    BY <1>6, <2>1, <2>2, AtDistinct
<1>. QED
  BY <1>6, <1>7

\* The settings of a page that stored nothing.
LEMMA DefaultSettings ==
  ASSUME SettingsSensible
  PROVE  Saved!DEFAULT_SETTINGS \in Saved!Stored(Saved!Layouts) /\ Distinct(Saved!DEFAULT_SETTINGS.homeLayout)
<1>1. <<>> \in Seq(Containers)
  OBVIOUS
<1>. QED
  BY <1>1, DefaultLayout DEF Saved!DEFAULT_SETTINGS, Saved!Stored, SettingsSensible

\* What is loaded are settings; a layout that is there is kept.
LEMMA LoadSound ==
  ASSUME SettingsSensible, NEW st, SoundStore(st)
  PROVE  Saved!Load(st) \in Saved!Stored(Saved!Layouts) /\ Distinct(Saved!Load(st).homeLayout)
<1>1. CASE st = None
  BY <1>1, DefaultSettings DEF Saved!Load
<1>2. CASE st # None /\ (st.homeLayout = None \/ st.homeLayout = <<>>)
  <2> DEFINE l == Saved!layoutFromWidgetIds(st.homeWidgets)
  <2>1. Saved!Load(st) = [st EXCEPT !.homeLayout = l]
    BY <1>2 DEF Saved!Load
  <2>2. l \in Saved!Layouts /\ Distinct(l)
    BY DefaultLayout
  <2>3. st \in Saved!Stored(Saved!Layouts) \cup Saved!Stored({None})
    BY <1>2 DEF SoundStore
  <2> HIDE DEF l
  <2>. QED
    BY <2>1, <2>2, <2>3 DEF Saved!Stored
<1>3. CASE st # None /\ st.homeLayout # None /\ st.homeLayout # <<>>
  <2>1. Saved!Load(st) = st /\ Distinct(st.homeLayout)
    BY <1>3 DEF Saved!Load, SoundStore
  <2>2. st \in Saved!Stored(Saved!Layouts)
    BY <1>3 DEF SoundStore, Saved!Stored
  <2>. QED
    BY <2>1, <2>2
<1>. QED
  BY <1>1, <1>2, <1>3

\* Settings that are saved are loaded as they are.
LEMMA LoadSaved ==
  ASSUME SettingsSensible, NEW s \in Saved!Stored(Saved!Layouts), s.homeLayout # <<>>
  PROVE  Saved!Load(s) = s
<1>1. s # None /\ s.homeLayout # None
  BY DEF SettingsSensible, Saved!Stored
<1>. QED
  BY <1>1 DEF Saved!Load

\* Settings that are shown may be stored.
LEMMA SavedSound ==
  ASSUME NEW s \in Saved!Stored(Saved!Layouts), Distinct(s.homeLayout)
  PROVE  SoundStore(s)
BY DEF SoundStore

\* A window that shows a page just loaded.
LEMMA FreshSound ==
  ASSUME SettingsSensible, NEW st, SoundStore(st)
  PROVE  WindowSound(Saved!Fresh(st), Saved!NotDragged) /\ Saved!Fresh(st).settings = Saved!Load(st)
<1>1. Saved!Load(st) \in Saved!Stored(Saved!Layouts) /\ Distinct(Saved!Load(st).homeLayout) /\ Saved!Load(st).homeLayout \in Saved!Layouts
  BY LoadSound DEF Saved!Stored
<1>2. <<>> \in Saved!Layouts
  BY DEF Saved!Layouts
<1>3. /\ Saved!Fresh(st).settings = Saved!Load(st) /\ Saved!Fresh(st).drag = None
      /\ Saved!Fresh(st).seen = [layout |-> Saved!Load(st).homeLayout, drag |-> None]
  BY DEF Saved!Fresh
<1>4. [layout |-> Saved!Load(st).homeLayout, drag |-> None] \in [layout : Saved!Layouts, drag : {None} \cup DOMAIN WIDGETS]
  BY <1>1
<1>5. Saved!Fresh(st) \in WindowView
  <2>1. "home" \in Saved!Tabs
    BY DEF Saved!Tabs
  <2>. QED
    BY <1>1, <1>4, <2>1 DEF Saved!Fresh, WindowView
<1>6. Saved!NotDragged \in [layout : Saved!Layouts, id : {None} \cup Saved!Ids]
  BY <1>2 DEF Saved!NotDragged
<1>7. Distinct(Saved!Fresh(st).seen.layout)
  BY <1>1, <1>3
<1>. QED
  BY <1>1, <1>3, <1>5, <1>6, <1>7 DEF WindowSound

\* A window that was rendered and in which nothing is dragged.
LEMMA RestingSound ==
  ASSUME NEW v \in WindowView, Distinct(v.settings.homeLayout), v.drag = None,
         v.seen = [layout |-> v.settings.homeLayout, drag |-> None],
         NEW b \in [layout : Saved!Layouts, id : {None} \cup Saved!Ids]
  PROVE  WindowSound(v, b)
BY DEF WindowSound

\* One window changed.
Changed(w, v, b) ==
  /\ win' = [win EXCEPT ![w] = v] /\ before' = [before EXCEPT ![w] = b]
  /\ WindowSound(v, b) /\ SoundStore(store')
  /\ fresh' \subseteq Windows /\ changes' \in 0 .. MaxChanges

\* A step that leaves one window and the store sound keeps the invariant.
LEMMA ChangedKeeps ==
  ASSUME SettingsInv, NEW w \in Windows, NEW v, NEW b, Changed(w, v, b), Saved!ReloadKeeps'
  PROVE  SettingsInv'
<1>1. /\ win' = [win EXCEPT ![w] = v] /\ before' = [before EXCEPT ![w] = b]
      /\ win = [u \in Windows |-> win[u]] /\ before = [u \in Windows |-> before[u]]
  BY DEF Changed, SettingsInv
<1>2. /\ DOMAIN win' = Windows /\ win' = [u \in Windows |-> win'[u]]
      /\ DOMAIN before' = Windows /\ before' = [u \in Windows |-> before'[u]]
      /\ win'[w] = v /\ before'[w] = b
      /\ \A u \in Windows : u # w => win'[u] = win[u] /\ before'[u] = before[u]
  BY <1>1
<1>3. ASSUME NEW u \in Windows PROVE WindowSound(win'[u], before'[u])
  <2>1. CASE u = w
    BY <1>2, <2>1 DEF Changed
  <2>2. CASE u # w
    BY <1>2, <2>2 DEF SettingsInv
  <2>. QED
    BY <2>1, <2>2
<1>. QED
  BY <1>2, <1>3 DEF SettingsInv, Changed

\* The settings of one window were saved: no other is fresh.
LEMMA SavedKeeps ==
  ASSUME SettingsSensible, SettingsInv, NEW w \in Windows, NEW v, NEW b,
         win' = [win EXCEPT ![w] = v], before' = [before EXCEPT ![w] = b], WindowSound(v, b),
         store' = v.settings, fresh' = {w}, changes' \in 0 .. MaxChanges
  PROVE  SettingsInv'
<1>1. v.settings \in Saved!Stored(Saved!Layouts) /\ Distinct(v.settings.homeLayout)
  BY DEF WindowSound, WindowView
<1>2. SoundStore(store')
  BY <1>1, SavedSound
<1>3. Changed(w, v, b)
  BY <1>2 DEF Changed
<1>4. win'[w] = v
  BY DEF SettingsInv
<1>5. v.settings.homeLayout # <<>> => Saved!Load(v.settings) = v.settings
  BY <1>1, LoadSaved
<1>6. Saved!ReloadKeeps'
  BY <1>4, <1>5 DEF Saved!ReloadKeeps
<1>. QED
  BY <1>3, <1>6, ChangedKeeps

\* Nothing was saved, and the settings of the window are as they were.
LEMMA ViewKeeps ==
  ASSUME SettingsInv, NEW w \in Windows, NEW v, NEW b,
         win' = [win EXCEPT ![w] = v], before' = [before EXCEPT ![w] = b], WindowSound(v, b),
         v.settings = win[w].settings, UNCHANGED <<store, fresh, changes>>
  PROVE  SettingsInv'
<1>1. Changed(w, v, b)
  BY DEF Changed, SettingsInv
<1>2. \A u \in Windows : win'[u].settings = win[u].settings
  BY DEF SettingsInv
<1>3. Saved!ReloadKeeps'
  BY <1>2 DEF Saved!ReloadKeeps, SettingsInv
<1>. QED
  BY <1>1, <1>3, ChangedKeeps

\* The inductive invariant of the settings holds at the start.
LEMMA SettingsInit == SettingsSensible /\ Saved!Init => SettingsInv
<1> SUFFICES ASSUME SettingsSensible, Saved!Init PROVE SettingsInv
  OBVIOUS
<1>1. SoundStore(store)
  <2>1. CASE store = None
    BY <2>1 DEF SoundStore
  <2>2. ASSUME NEW ids \in Legacy, store = Saved!LegacyStore(ids) PROVE SoundStore(store)
    <3>1. Saved!LegacyStore(ids) \in Saved!Stored({None}) /\ Saved!LegacyStore(ids).homeLayout = None
      <4>1. ids \in SUBSET Saved!Ids
        BY DEF SettingsSensible
      <4>2. Saved!DEFAULT_SETTINGS \in Saved!Stored(Saved!Layouts)
        BY DefaultSettings
      <4>. QED
        BY <4>1, <4>2 DEF Saved!LegacyStore, Saved!Stored
    <3>. QED
      BY <2>2, <3>1 DEF SoundStore
  <2>. QED
    BY <2>1, <2>2 DEF Saved!Init
<1>2. \A w \in Windows : win[w] = Saved!Fresh(store) /\ before[w] = Saved!NotDragged
  BY DEF Saved!Init
<1>3. \A w \in Windows : WindowSound(win[w], before[w]) /\ win[w].settings = Saved!Load(store)
  BY <1>1, <1>2, FreshSound
<1>4. Saved!ReloadKeeps
  BY <1>3 DEF Saved!ReloadKeeps, Saved!Init
<1>5. changes \in 0 .. MaxChanges
  BY DEF Saved!Init, SettingsSensible
<1>6. /\ DOMAIN win = Windows /\ win = [w \in Windows |-> win[w]]
      /\ DOMAIN before = Windows /\ before = [w \in Windows |-> before[w]]
      /\ fresh \subseteq Windows
  BY DEF Saved!Init
<1>. QED
  BY <1>1, <1>3, <1>4, <1>5, <1>6 DEF SettingsInv

\* A click: the window rests, and what it saves becomes its settings.
LEMMA UpdateKeeps ==
  ASSUME SettingsSensible, SettingsInv, NEW w \in Windows, win[w].drag = None,
         NEW s \in Saved!Stored(Saved!Layouts), Distinct(s.homeLayout), Saved!Update(w, s)
  PROVE  SettingsInv'
<1>1. /\ changes < MaxChanges /\ store' = s /\ fresh' = {w} /\ changes' = changes + 1
      /\ win' = [win EXCEPT ![w].settings = s, ![w].seen.layout = s.homeLayout]
      /\ UNCHANGED before
  BY DEF Saved!Update
<1>2. /\ win[w] \in WindowView /\ before[w] \in [layout : Saved!Layouts, id : {None} \cup Saved!Ids]
      /\ win[w].seen = [layout |-> win[w].settings.homeLayout, drag |-> None]
  BY DEF SettingsInv, WindowSound
<1> DEFINE v == [win[w] EXCEPT !.settings = s, !.seen.layout = s.homeLayout]
<1>3. s.homeLayout \in Saved!Layouts
  BY DEF Saved!Stored
<1>4. v \in WindowView /\ v.settings = s /\ v.drag = None
      /\ v.seen = [layout |-> s.homeLayout, drag |-> None]
  <2> DEFINE d == [win[w].seen EXCEPT !.layout = s.homeLayout]
  <2>1. d = [layout |-> s.homeLayout, drag |-> None]
    BY <1>2
  <2>2. d \in [layout : Saved!Layouts, drag : {None} \cup DOMAIN WIDGETS]
    BY <1>3, <2>1
  <2>3. v = [[win[w] EXCEPT !.settings = s] EXCEPT !.seen = d]
    BY <1>2 DEF WindowView
  <2> HIDE DEF d, v
  <2>4. v \in WindowView /\ v.settings = s /\ v.drag = win[w].drag /\ v.seen = d
    BY <1>2, <2>2, <2>3 DEF WindowView
  <2>. QED
    BY <2>1, <2>4
<1>5. win' = [win EXCEPT ![w] = v]
  BY <1>1 DEF SettingsInv
<1>6. before' = [before EXCEPT ![w] = before[w]]
  BY <1>1 DEF SettingsInv
<1> HIDE DEF v
<1>7. WindowSound(v, before[w])
  BY <1>2, <1>4, RestingSound
<1>8. changes' \in 0 .. MaxChanges
  BY <1>1 DEF SettingsInv, SettingsSensible
<1>. QED
  BY <1>1, <1>4, <1>5, <1>6, <1>7, <1>8, SavedKeeps

\* Another layout, from a click.
LEMMA LayoutKeeps ==
  ASSUME SettingsSensible, SettingsInv, NEW w \in Windows, win[w].drag = None,
         NEW l \in Saved!Layouts, Distinct(l), Saved!setLayout(w, l)
  PROVE  SettingsInv'
<1> DEFINE s == [win[w].settings EXCEPT !.homeLayout = l]
<1>1. Saved!Update(w, s)
  BY DEF Saved!setLayout
<1>2. win[w].settings \in Saved!Stored(Saved!Layouts)
  BY DEF SettingsInv, WindowSound, WindowView
<1>3. s \in Saved!Stored(Saved!Layouts) /\ s.homeLayout = l
  BY <1>2 DEF Saved!Stored
<1> HIDE DEF s
<1>. QED
  BY <1>1, <1>3, UpdateKeeps

\* What the clicks make of a layout.
LEMMA EditsSound ==
  ASSUME SettingsSensible, NEW l \in Saved!Layouts, Distinct(l)
  PROVE  /\ \A i \in DOMAIN l :
              /\ Saved!RemoveAt(l, i) \in Saved!Layouts /\ Distinct(Saved!RemoveAt(l, i))
              /\ [l EXCEPT ![i].span = 3 - @] \in Saved!Layouts /\ Distinct([l EXCEPT ![i].span = 3 - @])
         /\ \A id \in Saved!Ids : (\A i \in DOMAIN l : l[i].id # id) =>
              /\ Append(l, [id |-> id, span |-> defaultSpan[id]]) \in Saved!Layouts
              /\ Distinct(Append(l, [id |-> id, span |-> defaultSpan[id]]))
         /\ \A id : Others(l, id) \in Saved!Layouts /\ Distinct(Others(l, id))
<1>1. l \in Seq(Item) /\ Len(l) \in Nat /\ DOMAIN l = 1 .. Len(l)
  BY DEF Saved!Layouts, Item
<1>2. ASSUME NEW id PROVE Others(l, id) \in Saved!Layouts /\ Distinct(Others(l, id))
  <2> DEFINE S == {i \in DOMAIN l : l[i].id # id}
  <2>1. Others(l, id) = At(l, S)
    BY SavedLists DEF Others, Filter
  <2>2. S \in SUBSET (DOMAIN l)
    OBVIOUS
  <2> HIDE DEF S
  <2>. QED
    BY <2>1, <2>2, AtDistinct
<1>3. ASSUME NEW i \in DOMAIN l
      PROVE Saved!RemoveAt(l, i) \in Saved!Layouts /\ Distinct(Saved!RemoveAt(l, i))
  BY <1>2, OthersAre
<1>4. ASSUME NEW i \in DOMAIN l
      PROVE [l EXCEPT ![i].span = 3 - @] \in Saved!Layouts /\ Distinct([l EXCEPT ![i].span = 3 - @])
  <2> DEFINE it == [l[i] EXCEPT !.span = 3 - @]
             m == [l EXCEPT ![i] = it]
  <2>1. l[i] \in Item
    BY <1>1, ElementOfSeq
  <2>2. 3 - l[i].span \in {1, 2}
    BY <2>1 DEF Item
  <2>3. it \in Item /\ it.id = l[i].id
    BY <2>1, <2>2 DEF Item
  <2> HIDE DEF it
  <2>4. m \in Seq(Item) /\ DOMAIN m = DOMAIN l /\ \A j \in DOMAIN l : m[j] = IF j = i THEN it ELSE l[j]
    BY <1>1, <2>3, ExceptSeq
  <2>5. \A j \in DOMAIN l : m[j].id = l[j].id
    BY <2>3, <2>4
  <2>6. [l EXCEPT ![i].span = 3 - @] = m
    BY DEF it
  <2> HIDE DEF m
  <2>7. Distinct(m)
    BY <2>4, <2>5 DEF Distinct
  <2>. QED
    BY <2>4, <2>6, <2>7 DEF Saved!Layouts, Item
<1>5. ASSUME NEW id \in Saved!Ids, \A i \in DOMAIN l : l[i].id # id
      PROVE  /\ Append(l, [id |-> id, span |-> defaultSpan[id]]) \in Saved!Layouts
             /\ Distinct(Append(l, [id |-> id, span |-> defaultSpan[id]]))
  <2> DEFINE it == [id |-> id, span |-> defaultSpan[id]]
             m == Append(l, it)
             n == Len(l)
  <2>1. it \in Item /\ it.id = id
    BY DEF Item, SettingsSensible
  <2> HIDE DEF it
  <2>2. m \in Seq(Item) /\ Len(m) = n + 1 /\ DOMAIN m = 1 .. n + 1 /\ m[n + 1] = it
        /\ \A i \in 1 .. n : m[i] = l[i]
    BY <1>1, <2>1, AppendProperties
  <2>3. \A i \in 1 .. n + 1 : i \in 1 .. n \/ i = n + 1
    BY <1>1
  <2> HIDE DEF m, n
  <2>4. \A i \in 1 .. n + 1 : (i \in 1 .. n /\ m[i].id = l[i].id) \/ (i = n + 1 /\ m[i].id = id)
    BY <2>1, <2>2, <2>3
  <2>5. \A i \in 1 .. n : l[i].id # id
    BY <1>1, <1>5 DEF n
  <2>6. \A i, j \in 1 .. n : l[i].id = l[j].id => i = j
    BY <1>1 DEF Distinct, n
  <2>7. Distinct(m)
    BY <2>2, <2>4, <2>5, <2>6 DEF Distinct
  <2>. QED
    BY <2>2, <2>7 DEF Saved!Layouts, Item, m, it
<1>. QED
  BY <1>2, <1>3, <1>4, <1>5

\* The toolbar of a widget moves, resizes, removes or adds one.
LEMMA ToolbarKeeps ==
  ASSUME SettingsSensible, SettingsInv, NEW w \in Windows, Saved!Toolbar(w) PROVE SettingsInv'
<1> DEFINE l == win[w].settings.homeLayout
<1>1. win[w].drag = None
  BY DEF Saved!Toolbar, Saved!Shows
<1>2. l \in Saved!Layouts /\ Distinct(l)
  BY DEF SettingsInv, WindowSound, WindowView, Saved!Stored
<1>3. \/ \E i, j \in DOMAIN l : Saved!setLayout(w, Saved!Moved(l, i, j))
      \/ \E i \in DOMAIN l : \/ Saved!setLayout(w, [l EXCEPT ![i].span = 3 - @])
                             \/ Saved!setLayout(w, Saved!RemoveAt(l, i))
      \/ \E id \in Saved!Ids \ {l[i].id : i \in DOMAIN l} :
           Saved!setLayout(w, Append(l, [id |-> id, span |-> defaultSpan[id]]))
  BY DEF Saved!Toolbar
<1> HIDE DEF l
<1>4. ASSUME NEW i \in DOMAIN l, NEW j \in DOMAIN l, Saved!setLayout(w, Saved!Moved(l, i, j))
      PROVE SettingsInv'
  BY <1>1, <1>2, <1>4, MovedProperties, LayoutKeeps
<1>5. ASSUME NEW i \in DOMAIN l, Saved!setLayout(w, [l EXCEPT ![i].span = 3 - @]) PROVE SettingsInv'
  BY <1>1, <1>2, <1>5, EditsSound, LayoutKeeps
<1>6. ASSUME NEW i \in DOMAIN l, Saved!setLayout(w, Saved!RemoveAt(l, i)) PROVE SettingsInv'
  BY <1>1, <1>2, <1>6, EditsSound, LayoutKeeps
<1>7. ASSUME NEW id \in Saved!Ids \ {l[i].id : i \in DOMAIN l},
             Saved!setLayout(w, Append(l, [id |-> id, span |-> defaultSpan[id]]))
      PROVE  SettingsInv'
  BY <1>1, <1>2, <1>7, EditsSound, LayoutKeeps
<1>. QED
  BY <1>3, <1>4, <1>5, <1>6, <1>7

\* The settings page removes a widget, or adds one that is not there.
LEMMA ToggleWidgetKeeps ==
  ASSUME SettingsSensible, SettingsInv, NEW w \in Windows, NEW id \in Saved!Ids, Saved!ToggleWidget(w, id)
  PROVE  SettingsInv'
<1> DEFINE l == win[w].settings.homeLayout
<1>1. win[w].drag = None
  BY DEF Saved!ToggleWidget, Saved!Shows
<1>2. l \in Saved!Layouts /\ Distinct(l)
  BY DEF SettingsInv, WindowSound, WindowView, Saved!Stored
<1>3. Saved!setLayout(w, IF \E i \in DOMAIN l : l[i].id = id THEN Others(l, id)
                         ELSE Append(l, [id |-> id, span |-> defaultSpan[id]]))
  BY SavedLists DEF Saved!ToggleWidget, Others, Saved!Filter, Filter
<1> HIDE DEF l
<1>4. CASE \E i \in DOMAIN l : l[i].id = id
  <2>1. Saved!setLayout(w, Others(l, id))
    BY <1>3, <1>4
  <2>. QED
    BY <1>1, <1>2, <2>1, EditsSound, LayoutKeeps
<1>5. CASE ~\E i \in DOMAIN l : l[i].id = id
  <2>1. Saved!setLayout(w, Append(l, [id |-> id, span |-> defaultSpan[id]]))
    BY <1>3, <1>5
  <2>. QED
    BY <1>1, <1>2, <1>5, <2>1, EditsSound, LayoutKeeps
<1>. QED
  BY <1>4, <1>5

\* Themes, colours, options and pins leave the layout alone.
LEMMA OptionsKeep ==
  ASSUME SettingsSensible, SettingsInv, NEW w \in Windows,
         \/ \E theme \in DOMAIN Presets : Saved!PickTheme(w, theme)
         \/ \E key \in Saved!Keys, colour \in Colours : Saved!PickColour(w, key, colour)
         \/ Saved!EditHex(w) \/ Saved!ResetCustomColours(w)
         \/ \E value \in Options : Saved!SetOption(w, value)
         \/ \E id \in Containers : Saved!TogglePin(w, id)
  PROVE  SettingsInv'
<1> DEFINE s == win[w].settings
<1>1. win[w].drag = None
  BY DEF Saved!PickTheme, Saved!PickColour, Saved!EditHex, Saved!ResetCustomColours, Saved!SetOption,
       Saved!TogglePin, Saved!Shows
<1>2. s \in Saved!Stored(Saved!Layouts) /\ Distinct(s.homeLayout)
  BY DEF SettingsInv, WindowSound, WindowView
<1>3. Saved!Active(s) \in Saved!Palettes
  <2>1. CASE s.custom # None
    BY <1>2, <2>1 DEF Saved!Active, Saved!Stored
  <2>2. CASE s.custom = None
    BY <1>2, <2>2 DEF Saved!Active, Saved!Stored, SettingsSensible, Saved!Palettes, Palette
  <2>. QED
    BY <2>1, <2>2
<1>4. ASSUME NEW t \in Saved!Stored(Saved!Layouts), t.homeLayout = s.homeLayout, Saved!Update(w, t)
      PROVE SettingsInv'
  BY <1>1, <1>2, <1>4, UpdateKeeps
<1>5. ASSUME NEW theme \in DOMAIN Presets, Saved!PickTheme(w, theme) PROVE SettingsInv'
  <2> DEFINE t == [s EXCEPT !.theme = theme, !.custom = None]
  <2>1. t \in Saved!Stored(Saved!Layouts) /\ t.homeLayout = s.homeLayout
    BY <1>2 DEF Saved!Stored
  <2>2. Saved!Update(w, t)
    BY <1>5 DEF Saved!PickTheme
  <2> HIDE DEF t
  <2>. QED
    BY <1>4, <2>1, <2>2
<1>6. ASSUME NEW c \in {None} \cup Saved!Palettes, Saved!Update(w, [s EXCEPT !.custom = c])
      PROVE SettingsInv'
  <2> DEFINE t == [s EXCEPT !.custom = c]
  <2>1. t \in Saved!Stored(Saved!Layouts) /\ t.homeLayout = s.homeLayout
    BY <1>2 DEF Saved!Stored
  <2>2. Saved!Update(w, t)
    BY <1>6
  <2> HIDE DEF t
  <2>. QED
    BY <1>4, <2>1, <2>2
<1>7. ASSUME NEW key \in Saved!Keys, NEW colour \in Colours, Saved!PickColour(w, key, colour)
      PROVE SettingsInv'
  <2>1. [Saved!Active(s) EXCEPT ![key] = colour] \in Saved!Palettes
    BY <1>3 DEF Saved!Palettes
  <2>2. Saved!Update(w, [s EXCEPT !.custom = [Saved!Active(s) EXCEPT ![key] = colour]])
    BY <1>7 DEF Saved!PickColour
  <2>. QED
    BY <1>6, <2>1, <2>2
<1>8. CASE Saved!EditHex(w)
  BY <1>3, <1>6, <1>8 DEF Saved!EditHex
<1>9. CASE Saved!ResetCustomColours(w)
  BY <1>6, <1>9 DEF Saved!ResetCustomColours
<1>10. ASSUME NEW value \in Options, Saved!SetOption(w, value) PROVE SettingsInv'
  <2> DEFINE t == [s EXCEPT !.option = value]
  <2>1. t \in Saved!Stored(Saved!Layouts) /\ t.homeLayout = s.homeLayout
    BY <1>2 DEF Saved!Stored
  <2>2. Saved!Update(w, t)
    BY <1>10 DEF Saved!SetOption
  <2> HIDE DEF t
  <2>. QED
    BY <1>4, <2>1, <2>2
<1>11. ASSUME NEW id \in Containers, Saved!TogglePin(w, id) PROVE SettingsInv'
  <2> DEFINE S == {i \in DOMAIN s.pinned : s.pinned[i] # id}
             p == IF id \in Saved!ToSet(s.pinned) THEN At(s.pinned, S) ELSE Append(s.pinned, id)
             t == [s EXCEPT !.pinned = p]
  <2>1. s.pinned \in Seq(Containers)
    BY <1>2 DEF Saved!Stored
  <2>2. S \in SUBSET (DOMAIN s.pinned)
    OBVIOUS
  <2>3. Saved!Update(w, t)
    BY <1>11, SavedLists DEF Saved!TogglePin, Saved!Filter
  <2> HIDE DEF S, s
  <2>4. At(s.pinned, S) \in Seq(Containers) /\ Append(s.pinned, id) \in Seq(Containers)
    BY <2>1, <2>2, AtProperties, AppendProperties
  <2>5. p \in Seq(Containers)
    BY <2>4
  <2> HIDE DEF p
  <2>6. t \in Saved!Stored(Saved!Layouts) /\ t.homeLayout = s.homeLayout
    BY <1>2, <2>5 DEF Saved!Stored
  <2> HIDE DEF t
  <2>. QED
    BY <1>4, <2>3, <2>6
<1>. QED
  BY <1>5, <1>7, <1>8, <1>9, <1>10, <1>11

\* The page is loaded again.
LEMMA ReloadStep ==
  ASSUME SettingsSensible, SettingsInv, NEW w \in Windows, Saved!Reload(w) \/ Saved!ResetAll(w)
  PROVE SettingsInv'
<1>1. CASE Saved!Reload(w)
  <2>1. /\ win' = [win EXCEPT ![w] = Saved!Fresh(store)] /\ before' = [before EXCEPT ![w] = Saved!NotDragged]
        /\ fresh' = fresh \cup {w} /\ UNCHANGED <<store, changes>>
    BY <1>1 DEF Saved!Reload
  <2>2. WindowSound(Saved!Fresh(store), Saved!NotDragged) /\ Saved!Fresh(store).settings = Saved!Load(store) /\ SoundStore(store)
    BY FreshSound DEF SettingsInv
  <2>3. Changed(w, Saved!Fresh(store), Saved!NotDragged)
    BY <2>1, <2>2 DEF Changed, SettingsInv
  <2>4. win'[w] = Saved!Fresh(store) /\ \A u \in Windows : u # w => win'[u] = win[u]
    BY <2>1 DEF SettingsInv
  <2>5. \A u \in fresh : u \in Windows
    BY DEF SettingsInv
  <2>6. Saved!ReloadKeeps'
    <3> SUFFICES ASSUME NEW u \in fresh', win'[u].settings.homeLayout # <<>>
                 PROVE  Saved!Load(store') = win'[u].settings
      BY DEF Saved!ReloadKeeps
    <3>1. CASE u = w
      BY <2>1, <2>2, <2>4, <3>1
    <3>2. CASE u # w
      BY <2>1, <2>4, <2>5, <3>2 DEF Saved!ReloadKeeps, SettingsInv
    <3>. QED
      BY <3>1, <3>2
  <2>. QED
    BY <2>3, <2>6, ChangedKeeps
<1>2. CASE Saved!ResetAll(w)
  <2>1. /\ changes < MaxChanges
        /\ store' = None /\ fresh' = {w} /\ changes' = changes + 1
        /\ win' = [win EXCEPT ![w] = Saved!Fresh(None)] /\ UNCHANGED before
        /\ win[w].drag = None
    BY <1>2 DEF Saved!ResetAll, Saved!Shows
  <2>2. SoundStore(None)
    BY DEF SoundStore
  <2>3. WindowSound(Saved!Fresh(None), Saved!NotDragged) /\ Saved!Fresh(None).settings = Saved!Load(None)
    BY <2>2, FreshSound
  <2>4. Saved!Fresh(None).drag = None
    BY DEF Saved!Fresh
  <2>5. before[w] \in [layout : Saved!Layouts, id : {None} \cup Saved!Ids]
    BY DEF SettingsInv, WindowSound
  <2>6. WindowSound(Saved!Fresh(None), before[w])
    BY <2>3, <2>4, <2>5 DEF WindowSound
  <2>7. before' = [before EXCEPT ![w] = before[w]]
    BY <2>1 DEF SettingsInv
  <2>8. changes' \in 0 .. MaxChanges
    BY <2>1 DEF SettingsInv, SettingsSensible
  <2>9. Changed(w, Saved!Fresh(None), before[w])
    BY <2>1, <2>2, <2>6, <2>7, <2>8 DEF Changed
  <2>10. Saved!ReloadKeeps'
    BY <2>1, <2>3 DEF Saved!ReloadKeeps, SettingsInv
  <2>. QED
    BY <2>9, <2>10, ChangedKeeps
<1>. QED
  BY <1>1, <1>2

\* What is only shown, and what is only dragged.
LEMMA ShowsKeep ==
  ASSUME SettingsSensible, SettingsInv, NEW w \in Windows,
         \/ Saved!ToggleEditing(w) \/ Saved!Render(w) \/ Saved!DragEnd(w)
         \/ \E t \in Saved!Tabs : Saved!ClickTab(w, t)
         \/ \E i \in DOMAIN WIDGETS : Saved!DragStart(w, i)
  PROVE  SettingsInv'
<1> DEFINE v == win[w]
           b == before[w]
           l == v.settings.homeLayout
           Seens == [layout : Saved!Layouts, drag : {None} \cup DOMAIN WIDGETS]
<1>1. /\ WindowSound(v, b) /\ v \in WindowView /\ b \in [layout : Saved!Layouts, id : {None} \cup Saved!Ids]
      /\ l \in Saved!Layouts /\ Distinct(l) /\ Distinct(v.seen.layout)
      /\ v.drag = None => v.seen = [layout |-> l, drag |-> None]
  BY DEF SettingsInv, WindowSound, WindowView, Saved!Stored
<1>2. before = [before EXCEPT ![w] = b]
  BY DEF SettingsInv
<1>3. ASSUME NEW x, NEW d, win' = [win EXCEPT ![w] = x], before' = [before EXCEPT ![w] = d],
             WindowSound(x, d), x.settings = v.settings, UNCHANGED <<store, fresh, changes>>
      PROVE  SettingsInv'
  BY <1>3, ViewKeeps
<1>4. CASE Saved!ToggleEditing(w)
  <2> DEFINE x == [v EXCEPT !.editing = ~@]
  <2>1. win' = [win EXCEPT ![w] = x] /\ UNCHANGED <<store, before, fresh, changes>> /\ v.drag = None
    BY <1>4 DEF Saved!ToggleEditing, Saved!Shows, SettingsInv
  <2>2. x \in WindowView /\ x.settings = v.settings /\ x.seen = v.seen /\ x.drag = v.drag
    BY <1>1 DEF WindowView
  <2> HIDE DEF x
  <2>3. WindowSound(x, b)
    BY <1>1, <2>1, <2>2 DEF WindowSound
  <2>. QED
    BY <1>2, <1>3, <2>1, <2>2, <2>3
<1>5. ASSUME NEW t \in Saved!Tabs, Saved!ClickTab(w, t) PROVE SettingsInv'
  <2> DEFINE x == [v EXCEPT !.tab = t, !.editing = FALSE]
  <2>1. win' = [win EXCEPT ![w] = x] /\ UNCHANGED <<store, before, fresh, changes>> /\ v.drag = None
    BY <1>5 DEF Saved!ClickTab, SettingsInv
  <2>2. x \in WindowView /\ x.settings = v.settings /\ x.seen = v.seen /\ x.drag = v.drag
    BY <1>1 DEF WindowView
  <2> HIDE DEF x
  <2>3. WindowSound(x, b)
    BY <1>1, <2>1, <2>2 DEF WindowSound
  <2>. QED
    BY <1>2, <1>3, <2>1, <2>2, <2>3
<1>6. CASE Saved!Render(w)
  <2> DEFINE d == [layout |-> l, drag |-> v.drag]
             x == [v EXCEPT !.seen = d]
  <2>1. win' = [win EXCEPT ![w] = x] /\ UNCHANGED <<store, before, fresh, changes>>
    BY <1>6 DEF Saved!Render, Saved!Rendered, SettingsInv
  <2>2. d \in Seens /\ d.layout = l /\ d.drag = v.drag
    BY <1>1 DEF WindowView
  <2> HIDE DEF d
  <2>3. x \in WindowView /\ x.settings = v.settings /\ x.seen = d /\ x.drag = v.drag
    BY <1>1, <2>2 DEF WindowView
  <2> HIDE DEF x
  <2>4. WindowSound(x, b)
    BY <1>1, <2>2, <2>3 DEF WindowSound, d
  <2>. QED
    BY <1>2, <1>3, <2>1, <2>3, <2>4
<1>7. CASE Saved!DragEnd(w)
  <2> DEFINE d == [layout |-> l, drag |-> None]
             x == [v EXCEPT !.drag = None, !.seen = d]
  <2>1. win' = [win EXCEPT ![w] = x] /\ before' = [before EXCEPT ![w] = Saved!NotDragged]
        /\ UNCHANGED <<store, fresh, changes>>
    <3>1. win' = [win EXCEPT ![w] = Saved!Rendered([v EXCEPT !.drag = None])]
          /\ before' = [before EXCEPT ![w] = Saved!NotDragged] /\ UNCHANGED <<store, fresh, changes>>
      BY <1>7 DEF Saved!DragEnd, SettingsInv
    <3>2. Saved!Rendered([v EXCEPT !.drag = None]) = x
      BY <1>1 DEF Saved!Rendered, WindowView
    <3>. QED
      BY <3>1, <3>2
  <2>2. d \in Seens /\ d.layout = l /\ d.drag = None
    BY <1>1 DEF WindowView
  <2> HIDE DEF d
  <2>3. x \in WindowView /\ x.settings = v.settings /\ x.seen = d /\ x.drag = None
    BY <1>1, <2>2 DEF WindowView
  <2> HIDE DEF x
  <2>4. Saved!NotDragged \in [layout : Saved!Layouts, id : {None} \cup Saved!Ids]
    BY DEF Saved!NotDragged, Saved!Layouts
  <2>5. WindowSound(x, Saved!NotDragged)
    BY <1>1, <2>2, <2>3, <2>4 DEF WindowSound, d
  <2>. QED
    BY <1>3, <2>1, <2>3, <2>5
<1>8. ASSUME NEW i \in DOMAIN WIDGETS, Saved!DragStart(w, i) PROVE SettingsInv'
  <2> DEFINE d == [v.seen EXCEPT !.drag = i]
             x == [v EXCEPT !.drag = i, !.seen = d]
             a == [layout |-> l, id |-> l[i].id]
  <2>1. /\ win' = [win EXCEPT ![w] = x] /\ before' = [before EXCEPT ![w] = a]
        /\ UNCHANGED <<store, fresh, changes>> /\ v.drag = None /\ i \in DOMAIN l
    <3>1. /\ win' = [win EXCEPT ![w].drag = i, ![w].seen.drag = i]
          /\ before' = [before EXCEPT ![w] = a]
          /\ UNCHANGED <<store, fresh, changes>> /\ v.drag = None /\ i \in DOMAIN l
      BY <1>8 DEF Saved!DragStart, Saved!Shows
    <3>2. win' = [win EXCEPT ![w] = x]
      BY <1>1, <3>1 DEF SettingsInv, WindowView
    <3>. QED
      BY <3>1, <3>2
  <2>2. i # None
    BY DEF SettingsSensible
  <2>3. d \in Seens /\ d.layout = l /\ d.drag = i
    BY <1>1, <2>1 DEF WindowView
  <2> HIDE DEF d
  <2>4. x \in WindowView /\ x.settings = v.settings /\ x.seen = d /\ x.drag = i
    BY <1>1, <2>3 DEF WindowView
  <2>5. l[i].id \in Saved!Ids
    <3>1. l \in Seq([id : Saved!Ids, span : {1, 2}])
      BY <1>1 DEF Saved!Layouts
    <3> HIDE DEF l
    <3>2. i \in 1 .. Len(l)
      BY <2>1, <3>1
    <3>3. l[i] \in [id : Saved!Ids, span : {1, 2}]
      BY <3>1, <3>2, ElementOfSeq
    <3>. QED
      BY <3>3
  <2>6. a \in [layout : Saved!Layouts, id : {None} \cup Saved!Ids] /\ a.layout = l /\ a.id = l[i].id
    BY <1>1, <2>5
  <2> HIDE DEF x, a
  <2>7. Holds(l, i, a)
    BY <2>1, <2>6 DEF Holds
  <2>8. WindowSound(x, a)
    BY <1>1, <2>2, <2>3, <2>4, <2>6, <2>7 DEF WindowSound
  <2>. QED
    BY <1>3, <2>1, <2>4, <2>8
<1>. QED
  BY <1>4, <1>5, <1>6, <1>7, <1>8

\* A dragover, computed from what the page showed when it was rendered last.
LEMMA DragOverKeeps ==
  ASSUME SettingsSensible, SettingsInv, NEW w \in Windows, NEW i \in DOMAIN WIDGETS, Saved!DragOver(w, i)
  PROVE  SettingsInv'
<1> DEFINE v == win[w]
           b == before[w]
           old == v.seen.layout
           m == Saved!Moved(old, v.seen.drag, i)
           s == [v.settings EXCEPT !.homeLayout = m]
           x == [v EXCEPT !.settings = s, !.drag = i]
<1>1. /\ v.seen.drag # None /\ i \in DOMAIN old /\ changes < MaxChanges
      /\ store' = s /\ fresh' = {w} /\ changes' = changes + 1
      /\ win' = [win EXCEPT ![w].settings = s, ![w].drag = i] /\ UNCHANGED before
  BY DEF Saved!DragOver
<1>2. WindowSound(v, b)
  BY DEF SettingsInv
<1>3. /\ v \in WindowView /\ b \in [layout : Saved!Layouts, id : {None} \cup Saved!Ids]
      /\ v.drag # None
      /\ Holds(old, v.seen.drag, b) /\ Distinct(old) /\ old \in Saved!Layouts
  BY <1>1, <1>2 DEF WindowSound, WindowView
<1>4. v.seen.drag \in DOMAIN old /\ old[v.seen.drag].id = b.id
      /\ Others(old, b.id) = Others(b.layout, b.id)
  BY <1>3 DEF Holds
<1>5. /\ m \in Saved!Layouts /\ DOMAIN m = DOMAIN old /\ m[i] = old[v.seen.drag] /\ Distinct(m)
      /\ Saved!RemoveAt(m, i) = Saved!RemoveAt(old, v.seen.drag)
  BY <1>1, <1>3, <1>4, MovedProperties
<1> HIDE DEF m
<1>6. Others(m, b.id) = Others(old, b.id)
  <2>1. i \in DOMAIN m /\ m[i].id = b.id
    BY <1>1, <1>4, <1>5
  <2>2. Others(m, m[i].id) = Saved!RemoveAt(m, i)
    BY <1>5, <2>1, OthersAre
  <2>3. Others(old, old[v.seen.drag].id) = Saved!RemoveAt(old, v.seen.drag)
    BY <1>3, <1>4, OthersAre
  <2>. QED
    BY <1>4, <1>5, <2>1, <2>2, <2>3
<1>7. Holds(m, i, b)
  BY <1>1, <1>4, <1>5, <1>6 DEF Holds
<1>8. s \in Saved!Stored(Saved!Layouts) /\ s.homeLayout = m
  <2>1. v.settings \in Saved!Stored(Saved!Layouts)
    BY <1>3 DEF WindowView
  <2>. QED
    BY <1>5, <2>1 DEF Saved!Stored
<1> HIDE DEF s
<1>9. x \in WindowView /\ x.settings = s /\ x.seen = v.seen /\ x.drag = i
  BY <1>3, <1>8 DEF WindowView
<1>10. win' = [win EXCEPT ![w] = x] /\ before' = [before EXCEPT ![w] = b]
  BY <1>1 DEF SettingsInv
<1> HIDE DEF x
<1>11. i # None
  BY DEF SettingsSensible
<1>12. WindowSound(x, b)
  BY <1>1, <1>3, <1>5, <1>7, <1>8, <1>9, <1>11 DEF WindowSound
<1>13. changes' \in 0 .. MaxChanges
  BY <1>1 DEF SettingsInv, SettingsSensible
<1>. QED
  BY <1>1, <1>9, <1>10, <1>12, <1>13, SavedKeeps

\* Every step keeps the inductive invariant of the settings.
LEMMA SettingsStep == SettingsSensible /\ SettingsInv /\ [Saved!Next]_settingsVars => SettingsInv'
<1> SUFFICES ASSUME SettingsSensible, SettingsInv, [Saved!Next]_settingsVars PROVE SettingsInv'
  OBVIOUS
<1>1. CASE UNCHANGED settingsVars
  <2>1. UNCHANGED <<store, win, before, fresh, changes>>
    BY <1>1 DEF settingsVars
  <2>2. Saved!ReloadKeeps' <=> Saved!ReloadKeeps
    BY <2>1 DEF Saved!ReloadKeeps
  <2>. QED
    BY <2>1, <2>2 DEF SettingsInv
<1>2. ASSUME NEW w \in Windows,
             \/ Saved!Reload(w) \/ Saved!ToggleEditing(w) \/ Saved!Render(w) \/ Saved!DragEnd(w) \/ Saved!Toolbar(w)
             \/ Saved!EditHex(w) \/ Saved!ResetCustomColours(w) \/ Saved!ResetAll(w)
             \/ \E t \in Saved!Tabs : Saved!ClickTab(w, t)
             \/ \E i \in DOMAIN WIDGETS : Saved!DragStart(w, i) \/ Saved!DragOver(w, i)
             \/ \E id \in Saved!Ids : Saved!ToggleWidget(w, id)
             \/ \E theme \in DOMAIN Presets : Saved!PickTheme(w, theme)
             \/ \E key \in Saved!Keys, colour \in Colours : Saved!PickColour(w, key, colour)
             \/ \E value \in Options : Saved!SetOption(w, value)
             \/ \E id \in Containers : Saved!TogglePin(w, id)
      PROVE  SettingsInv'
  BY <1>2, ReloadStep, ShowsKeep, DragOverKeeps, ToolbarKeeps, ToggleWidgetKeeps, OptionsKeep
<1>. QED
  BY <1>1, <1>2 DEF Saved!Next

\* What the invariant says of the properties.
LEMMA SettingsMean ==
  SettingsSensible /\ SettingsInv
  => Saved!TypeOK /\ Saved!LayoutDistinct /\ Saved!DragFollows /\ Saved!ReloadKeeps
<1> SUFFICES ASSUME SettingsSensible, SettingsInv
             PROVE Saved!TypeOK /\ Saved!LayoutDistinct /\ Saved!DragFollows /\ Saved!ReloadKeeps
  OBVIOUS
<1>1. \A w \in Windows : win[w] \in WindowView /\ before[w] \in [layout : Saved!Layouts, id : {None} \cup Saved!Ids]
  BY DEF SettingsInv, WindowSound
<1>2. win \in [Windows -> WindowView] /\ before \in [Windows -> [layout : Saved!Layouts, id : {None} \cup Saved!Ids]]
  BY <1>1 DEF SettingsInv
<1>3. \A w \in Windows : win[w].drag # None => Holds(win[w].settings.homeLayout, win[w].drag, before[w])
  BY DEF SettingsInv, WindowSound
<1>4. Saved!TypeOK
  BY <1>2, <1>3 DEF Saved!TypeOK, SettingsInv, SoundStore, WindowView, Holds
<1>5. Saved!LayoutDistinct
  <2>1. \A w \in Windows : Distinct(win[w].settings.homeLayout)
    BY DEF SettingsInv, WindowSound
  <2>2. store # None /\ store.homeLayout # None => Distinct(store.homeLayout)
    BY DEF SettingsInv, SoundStore
  <2>. QED
    BY <2>1, <2>2 DEF Saved!LayoutDistinct, Distinct
<1>6. Saved!DragFollows
  BY <1>3, SavedLists DEF Saved!DragFollows, Holds, Others, Saved!Filter, Filter
<1>. QED
  BY <1>4, <1>5, <1>6 DEF SettingsInv

-----------------------------------------------------------------------------
(* The page. *)

\* The constants are those the components take.
LEMMA BrowserConstants == SocketSensible /\ ChartSensible /\ WidgetSensible /\ SettingsSensible
<1>1. SocketSensible /\ ChartSensible /\ WidgetSensible
  BY BrowserAssumption DEF SocketSensible, ChartSensible, WidgetSensible
<1>2. SettingsSensible
  BY BrowserAssumption DEF SettingsSensible, Saved!Palettes, Palette
<1>. QED
  BY <1>1, <1>2

\* A step of the page is a step of each component or leaves it alone.
LEMMA StepsApart ==
  [Next]_vars => /\ [Socket!Next]_socketVars /\ [Chart!Next]_chartVars
                 /\ [Widget!Next]_widgetVars /\ [Saved!Next]_settingsVars
BY DEF Next, vars

\* The inductive invariant: that of each component.
BrowserInv ==
  /\ SocketInv /\ SocketTyped /\ SocketsCounted
  /\ ChartInv /\ WidgetInv /\ SettingsInv

\* It holds at the start.
LEMMA BrowserInit == Init => BrowserInv
<1> SUFFICES ASSUME Init PROVE BrowserInv
  OBVIOUS
<1>1. Socket!Init /\ Chart!Init /\ Widget!Init /\ Saved!Init
  BY DEF Init
<1>2. SocketInv /\ SocketTyped /\ SocketsCounted
  BY <1>1, BrowserConstants, SocketInit, TypedInit, CountedInit
<1>3. ChartInv /\ WidgetInv /\ SettingsInv
  BY <1>1, BrowserConstants, ChartInit, WidgetInit, SettingsInit
<1>. QED
  BY <1>2, <1>3 DEF BrowserInv

\* Every step keeps it.
LEMMA BrowserStep == BrowserInv /\ [Next]_vars => BrowserInv'
<1> SUFFICES ASSUME BrowserInv, [Next]_vars PROVE BrowserInv'
  OBVIOUS
<1>1. /\ [Socket!Next]_socketVars /\ [Chart!Next]_chartVars
      /\ [Widget!Next]_widgetVars /\ [Saved!Next]_settingsVars
  BY StepsApart
<1>2. SocketInv' /\ SocketTyped' /\ SocketsCounted'
  BY <1>1, BrowserConstants, SocketStep, TypedStep, CountedStep DEF BrowserInv
<1>3. ChartInv' /\ WidgetInv' /\ SettingsInv'
  BY <1>1, BrowserConstants, ChartStep, WidgetStep, SettingsStep DEF BrowserInv
<1>. QED
  BY <1>2, <1>3 DEF BrowserInv

\* However sockets fail, the page has one of them or one timer to get it back, and
\* one more for each remount at most; and it says LIVE only while a socket is open,
\* and without a remount whenever one is.
THEOREM FeedIsHonest == Spec => []FeedHonest
<1>1. BrowserInv => FeedHonest
  BY CountedMeans DEF BrowserInv, SocketInv, SocketTyped, FeedHonest
<1>. QED
  BY BrowserInit, BrowserStep, <1>1, PTL DEF Spec

\* However often the server's clock is set, and however answers, live readings and
\* changes of range interleave, a live point comes later than the one before it;
\* the points are in order of time if the samples are that they came from; and,
\* unless the server's clock ran ahead or averaged samples out of order, there is
\* a point less than a bucket away from each of them that the range still shows.
THEOREM ChartIsFaithful == Spec => []ChartFaithful
<1>1. BrowserInv => ChartFaithful
  BY BrowserConstants, ChartMeans DEF BrowserInv, ChartFaithful
<1>. QED
  BY BrowserInit, BrowserStep, <1>1, PTL DEF Spec

\* At most one batch asks TMDB for films, busy says whether one does, and an
\* account is shown only if a session was there while the page was open.
THEOREM BatchesAreSound == Spec => []BatchesSound
<1>1. BrowserInv => BatchesSound
  BY WidgetMeans DEF BrowserInv, BatchesSound
<1>. QED
  BY BrowserInit, BrowserStep, <1>1, PTL DEF Spec

\* No widget is on the home page twice, and a drag moves the widget that was
\* picked, although dragover events work on the layout of an older render.
THEOREM DragsFollow == Spec => []DragFollows
<1>1. BrowserInv => DragFollows
  BY BrowserConstants, SettingsMean DEF BrowserInv, DragFollows
<1>. QED
  BY BrowserInit, BrowserStep, <1>1, PTL DEF Spec

\* A window that nobody saved after shows, once it is loaded again, what it shows
\* now, unless its home page has no widgets.
THEOREM ReloadsKeep == Spec => []ReloadKeeps
<1>1. BrowserInv => ReloadKeeps
  BY BrowserConstants, SettingsMean DEF BrowserInv, ReloadKeeps
<1>. QED
  BY BrowserInit, BrowserStep, <1>1, PTL DEF Spec

\* No frame is replaced by an older one without a remount, no answer by an older
\* one unless their requests overlapped, and no batch of a closed widget goes on
\* to another film.
THEOREM NothingGoesBack == Spec => NeverBack
<1>1. BrowserInv /\ [Next]_vars => [remounts' = 0 => frame' >= frame]_(Socket!vars)
  BY StepsApart, SocketForward DEF BrowserInv, Socket!vars, socketVars
<1>2. BrowserInv /\ [Next]_vars =>
        [shown.some /\ shown'.some /\ shown'.when < shown.when =>
           \E l \in loads : l.overtaken /\ l.answer = shown']_(Chart!vars)
  BY BrowserConstants, StepsApart, ChartForward DEF BrowserInv, Chart!vars, chartVars
<1>3. BrowserInv /\ [Next]_vars =>
        [\A b \in batches' : b.cancelled =>
           b \in batches \/ [b EXCEPT !.cancelled = FALSE] \in batches]_(Widget!vars)
  BY BrowserConstants, StepsApart, WidgetQuiet DEF BrowserInv, Widget!vars, widgetVars
<1>. QED
  BY BrowserInit, BrowserStep, <1>1, <1>2, <1>3, PTL
  DEF Spec, NeverBack, Socket!FramesInOrder, Chart!NoRegress, Widget!CancelledQuiet
=============================================================================
