-------------------------- MODULE MetricsHubProofs --------------------------
(***************************************************************************)
(* Theorems about MetricsHub, for any set of connections, any capacities   *)
(* and any number of frames.                                               *)
(***************************************************************************)
EXTENDS MetricsHub, SequenceTheorems, TLAPS

\* A connection Hub.Run has not registered yet is untouched by it and has no pump;
\* writePump holds a frame only while it writes.
Fresh ==
  \A c \in Clients :
    /\ reader[c] \in {"absent", "registering"} =>
         /\ ~closed[c] /\ writer[c] = "absent"
         /\ send[c] = <<>> /\ written[c] = <<>>
    /\ writer[c] # "writing" => hand[c] = <<>>

\* While the range loop runs, message is the newest dispatched frame, and the
\* clients still to be visited joined before it.
Round ==
  /\ \A c \in Clients : joined[c] <= Len(dispatched)
  /\ \A c \in todo : joined[c] < Len(dispatched)
  /\ todo # {} => message = dispatched[Len(dispatched)]

PanicInv == TypeOK /\ Fresh /\ ServedIffOpen /\ NoChannelPanic
GapInv   == PanicInv /\ Round /\ NoSilentGap

-----------------------------------------------------------------------------
\* The variables have their types at the start.
LEMMA TypeInit == Init => TypeOK
<1>1. <<>> \in Seq(Nat) /\ Len(<<>>) = 0
  BY EmptySeq
<1>2. ASSUME Init PROVE TypeOK
  <2>1. /\ broadcast \in Seq(Nat) /\ Len(broadcast) <= BroadcastCap
        /\ dispatched \in Seq(Nat)
        /\ send \in [Clients -> Seq(Nat)] /\ hand \in [Clients -> Seq(Nat)]
        /\ written \in [Clients -> Seq(Nat)]
    BY <1>1, <1>2, HubAssumption DEF Init, HubAssumption
  <2>2. \A c \in Clients : Len(send[c]) <= SendCap
    BY <1>1, <1>2, HubAssumption DEF Init, HubAssumption
  <2>3. /\ closed \in [Clients -> BOOLEAN] /\ gone \in [Clients -> BOOLEAN]
        /\ panicked \in BOOLEAN
    BY <1>2 DEF Init
  <2>4. /\ reader \in [Clients -> ReaderStates] /\ writer \in [Clients -> WriterStates]
        /\ conn \in [Clients -> ConnStates]
        /\ evictors \in [Clients -> Nat] /\ joined \in [Clients -> Nat]
    BY <1>2 DEF Init, ReaderStates, WriterStates, ConnStates
  <2>5. /\ produced \in 0..MaxFrames /\ message \in Nat
        /\ clients \subseteq Clients /\ todo \subseteq clients
    BY <1>2, HubAssumption DEF Init, HubAssumption
  <2>. QED
    BY <2>1, <2>2, <2>3, <2>4, <2>5 DEF TypeOK
<1>. QED
  BY <1>2

\* Every step keeps the types.
LEMMA TypeStep == TypeOK /\ [Next]_vars => TypeOK'
<1> SUFFICES ASSUME TypeOK, [Next]_vars PROVE TypeOK'
  OBVIOUS
<1> USE HubAssumption DEF HubAssumption, TypeOK, ReaderStates, WriterStates, ConnStates
<1>1. CASE Broadcast
  BY <1>1 DEF Broadcast, hubVars, pumpVars, chanVars
<1>2. CASE HubTakesFrame
  BY <1>2 DEF HubTakesFrame, pumpVars, chanVars
<1>3. ASSUME NEW c \in Clients, HubRegister(c) PROVE TypeOK'
  BY <1>3, LenProperties DEF HubRegister, InSelect, chanVars
<1>4. ASSUME NEW c \in Clients, HubUnregistersReader(c) PROVE TypeOK'
  BY <1>4 DEF HubUnregistersReader, Unregister, InSelect
<1>5. ASSUME NEW c \in Clients, HubUnregistersEvictor(c) PROVE TypeOK'
  <2>1. evictors[c] - 1 \in Nat
    BY <1>5 DEF HubUnregistersEvictor
  <2>2. evictors' \in [Clients -> Nat]
    BY <1>5, <2>1 DEF HubUnregistersEvictor
  <2>. QED
    BY <1>5, <2>2 DEF HubUnregistersEvictor, Unregister, InSelect, pumpVars
<1>6. ASSUME NEW c \in Clients, HubSends(c) PROVE TypeOK'
  <2>1. CASE Len(send[c]) < SendCap /\ ~closed[c] /\ send' = [send EXCEPT ![c] = Append(@, message)]
                /\ UNCHANGED <<panicked, evictors>>
    <3>1. Append(send[c], message) \in Seq(Nat) /\ Len(Append(send[c], message)) = Len(send[c]) + 1
      BY AppendProperties
    <3>2. send' \in [Clients -> Seq(Nat)] /\ \A d \in Clients : Len(send'[d]) <= SendCap
      BY <2>1, <3>1, LenProperties
    <3>. QED
      BY <1>6, <2>1, <3>2 DEF HubSends, pumpVars
  <2>2. CASE evictors' = [evictors EXCEPT ![c] = @ + 1] /\ UNCHANGED <<panicked, send>>
    <3>1. evictors' \in [Clients -> Nat]
      BY <2>2
    <3>. QED
      BY <1>6, <2>2, <3>1 DEF HubSends, pumpVars
  <2>3. CASE panicked' = TRUE /\ UNCHANGED <<send, evictors>>
    BY <1>6, <2>3 DEF HubSends, pumpVars
  <2>. QED
    BY <1>6, <2>1, <2>2, <2>3 DEF HubSends
<1>7. ASSUME NEW c \in Clients, ServeWS(c) PROVE TypeOK'
  BY <1>7 DEF ServeWS, hubVars, chanVars
<1>8. ASSUME NEW c \in Clients, ReadFails(c) PROVE TypeOK'
  BY <1>8 DEF ReadFails, hubVars, chanVars
<1>9. ASSUME NEW c \in Clients, ReaderCloses(c) PROVE TypeOK'
  BY <1>9 DEF ReaderCloses, hubVars, chanVars
<1>10. ASSUME NEW c \in Clients, WriterTakesFrame(c) PROVE TypeOK'
  <2>1. /\ Head(send[c]) \in Nat /\ Tail(send[c]) \in Seq(Nat)
        /\ Len(Tail(send[c])) <= Len(send[c])
    BY <1>10, HeadTailProperties, LenProperties DEF WriterTakesFrame
  <2>2. <<Head(send[c])>> \in Seq(Nat)
    BY <2>1
  <2>3. /\ send' \in [Clients -> Seq(Nat)] /\ hand' \in [Clients -> Seq(Nat)]
        /\ \A d \in Clients : Len(send'[d]) <= SendCap
    BY <1>10, <2>1, <2>2, LenProperties DEF WriterTakesFrame
  <2>. QED
    BY <1>10, <2>3 DEF WriterTakesFrame, hubVars
<1>11. ASSUME NEW c \in Clients, WriterExits(c) PROVE TypeOK'
  BY <1>11 DEF WriterExits, hubVars, chanVars
<1>12. ASSUME NEW c \in Clients, WriteSucceeds(c) PROVE TypeOK'
  BY <1>12 DEF WriteSucceeds, hubVars, chanVars
<1>13. ASSUME NEW c \in Clients, PeerVanishes(c) PROVE TypeOK'
  BY <1>13 DEF PeerVanishes, hubVars, chanVars
<1>14. CASE UNCHANGED vars
  BY <1>14 DEF vars, hubVars, pumpVars, chanVars
<1> QED
  BY <1>1, <1>2, <1>3, <1>4, <1>5, <1>6, <1>7, <1>8, <1>9, <1>10, <1>11, <1>12,
     <1>13, <1>14
  DEF Next, WriterSeesClose, WriteFails, PingFails

\* Every variable keeps its type, no channel holds more than its capacity, and
\* Hub.Run only visits registered clients.
THEOREM TypeCorrect == Spec => []TypeOK
BY TypeInit, TypeStep, PTL DEF Spec

-----------------------------------------------------------------------------
\* At the start no client is registered and no channel is closed.
LEMMA PanicInit == Init => PanicInv
BY TypeInit DEF Init, PanicInv, Fresh, ServedIffOpen, NoChannelPanic

\* Only a client still in the map is closed, and closing removes it in the same
\* step; the range loop only visits clients still in the map, because Hub.Run
\* itself serves both register and unregister.
LEMMA PanicStep == PanicInv /\ [Next]_vars => PanicInv'
<1> SUFFICES ASSUME PanicInv, [Next]_vars PROVE PanicInv'
  OBVIOUS
<1>t. TypeOK'
  BY TypeStep DEF PanicInv
<1> USE DEF PanicInv, TypeOK
<1>1. CASE Broadcast
  BY <1>1, <1>t DEF Broadcast, hubVars, pumpVars, chanVars, Fresh, ServedIffOpen, NoChannelPanic
<1>2. CASE HubTakesFrame
  BY <1>2, <1>t DEF HubTakesFrame, pumpVars, chanVars, Fresh, ServedIffOpen, NoChannelPanic
<1>3. ASSUME NEW c \in Clients, HubRegister(c) PROVE PanicInv'
  <2>1. Fresh'
    BY <1>3, <1>t DEF HubRegister, chanVars, Fresh
  <2>2. ServedIffOpen'
    BY <1>3, <1>t DEF HubRegister, chanVars, Fresh, ServedIffOpen
  <2>. QED
    BY <1>3, <1>t, <2>1, <2>2 DEF HubRegister, chanVars, NoChannelPanic
<1>4. ASSUME NEW c \in Clients, Unregister(c),
             reader[c] \notin {"absent", "registering"},
             reader' = reader \/ reader' = [reader EXCEPT ![c] = "closing"],
             UNCHANGED <<writer, send, hand, written>>
      PROVE  PanicInv'
  <2>1. Fresh'
    BY <1>4 DEF Unregister, Fresh
  <2>2. ServedIffOpen'
    BY <1>4 DEF Unregister, ServedIffOpen
  <2>3. NoChannelPanic'
    BY <1>4 DEF Unregister, ServedIffOpen, NoChannelPanic
  <2>. QED
    BY <1>t, <2>1, <2>2, <2>3
<1>5. ASSUME NEW c \in Clients, HubUnregistersReader(c) PROVE PanicInv'
  BY <1>4, <1>5 DEF HubUnregistersReader
<1>6. ASSUME NEW c \in Clients, HubUnregistersEvictor(c) PROVE PanicInv'
  <2>1. CASE c \in clients
    BY <1>4, <1>6, <2>1 DEF HubUnregistersEvictor, pumpVars, ServedIffOpen
  <2>2. CASE c \notin clients
    BY <1>6, <1>t, <2>2
    DEF HubUnregistersEvictor, Unregister, pumpVars, Fresh, ServedIffOpen, NoChannelPanic
  <2>. QED
    BY <2>1, <2>2
<1>7. ASSUME NEW c \in Clients, HubSends(c) PROVE PanicInv'
  <2>1. c \in clients /\ ~closed[c] /\ reader[c] \notin {"absent", "registering"}
    BY <1>7 DEF HubSends, ServedIffOpen
  <2>2. Fresh'
    BY <1>7, <2>1 DEF HubSends, pumpVars, Fresh
  <2>. QED
    BY <1>7, <1>t, <2>1, <2>2 DEF HubSends, pumpVars, ServedIffOpen, NoChannelPanic
<1>8. ASSUME NEW c \in Clients, ServeWS(c) PROVE PanicInv'
  BY <1>8, <1>t DEF ServeWS, hubVars, chanVars, Fresh, ServedIffOpen, NoChannelPanic
<1>9. ASSUME NEW c \in Clients, ReadFails(c) PROVE PanicInv'
  BY <1>9, <1>t DEF ReadFails, hubVars, chanVars, Fresh, ServedIffOpen, NoChannelPanic
<1>10. ASSUME NEW c \in Clients, ReaderCloses(c) PROVE PanicInv'
  BY <1>10, <1>t DEF ReaderCloses, hubVars, chanVars, Fresh, ServedIffOpen, NoChannelPanic
<1>11. ASSUME NEW c \in Clients, WriterTakesFrame(c) PROVE PanicInv'
  BY <1>11, <1>t DEF WriterTakesFrame, hubVars, Fresh, ServedIffOpen, NoChannelPanic
<1>12. ASSUME NEW c \in Clients, WriterExits(c), writer[c] # "absent" PROVE PanicInv'
  BY <1>12, <1>t DEF WriterExits, hubVars, chanVars, Fresh, ServedIffOpen, NoChannelPanic
<1>13. ASSUME NEW c \in Clients, WriteSucceeds(c) PROVE PanicInv'
  BY <1>13, <1>t DEF WriteSucceeds, hubVars, chanVars, Fresh, ServedIffOpen, NoChannelPanic
<1>14. ASSUME NEW c \in Clients, PeerVanishes(c) PROVE PanicInv'
  BY <1>14, <1>t DEF PeerVanishes, hubVars, chanVars, Fresh, ServedIffOpen, NoChannelPanic
<1>15. CASE UNCHANGED vars
  BY <1>15, <1>t DEF vars, hubVars, pumpVars, chanVars, Fresh, ServedIffOpen, NoChannelPanic
<1> QED
  BY <1>1, <1>2, <1>3, <1>5, <1>6, <1>7, <1>8, <1>9, <1>10, <1>11, <1>12, <1>13,
     <1>14, <1>15
  DEF Next, WriterSeesClose, WriteFails, PingFails

\* The process never dies of a send on, or a close of, a closed client channel,
\* whatever the number of evictors and readPumps asking to drop one client.
THEOREM NoPanic == Spec => []NoChannelPanic
BY PanicInit, PanicStep, PTL DEF Spec, PanicInv

\* A registered client's channel is open; a client that left the map is closed
\* and never comes back.
THEOREM ServedExactlyWhileOpen == Spec => []ServedIffOpen
BY PanicInit, PanicStep, PTL DEF Spec, PanicInv

-----------------------------------------------------------------------------
\* At the start no frame was handed out.
LEMMA GapInit == Init => GapInv
<1> SUFFICES ASSUME Init PROVE GapInv
  OBVIOUS
<1>1. Len(dispatched) = 0
  BY EmptySeq DEF Init
<1> QED
  BY PanicInit, <1>1 DEF Init, GapInv, Round, NoSilentGap

\* Concatenation is associative.
LEMMA NatConcatAssociative ==
  \A x, y, z \in Seq(Nat) : (x \o y) \o z = x \o (y \o z)
<1>1. ASSUME NEW x \in Seq(Nat), NEW y \in Seq(Nat), NEW z \in Seq(Nat)
      PROVE  (x \o y) \o z = x \o (y \o z)
  <2> DEFINE l == (x \o y) \o z
             r == x \o (y \o z)
  <2>1. /\ x \o y \in Seq(Nat) /\ Len(x \o y) = Len(x) + Len(y)
        /\ y \o z \in Seq(Nat) /\ Len(y \o z) = Len(y) + Len(z)
        /\ Len(x) \in Nat /\ Len(y) \in Nat /\ Len(z) \in Nat
    BY ConcatProperties, LenProperties
  <2>2. /\ l \in Seq(Nat) /\ Len(l) = Len(x) + Len(y) + Len(z)
        /\ r \in Seq(Nat) /\ Len(r) = Len(x) + Len(y) + Len(z)
    BY <2>1, ConcatProperties
  <2>3. \A i \in 1 .. Len(l) : l[i] = r[i]
    BY <2>1, <2>2, ConcatProperties
  <2> HIDE DEF l, r
  <2>4. l = r
    BY <2>2, <2>3, SeqEqual
  <2>. QED
    BY <2>4 DEF l, r
<1> QED
  BY <1>1

\* What writePump takes from its channel, and then writes, leaves the frames the
\* channel accepted as they were.
LEMMA TakeKeepsAccepted ==
  ASSUME NEW w \in Seq(Nat), NEW s \in Seq(Nat), s # <<>>
  PROVE  (w \o <<Head(s)>>) \o Tail(s) = (w \o <<>>) \o s
<1>1. Head(s) \in Nat /\ Tail(s) \in Seq(Nat) /\ Len(Tail(s)) = Len(s) - 1
      /\ \A i \in 1 .. Len(Tail(s)) : Tail(s)[i] = s[i+1]
  BY HeadTailProperties
<1>2. <<Head(s)>> \in Seq(Nat) /\ Len(<<Head(s)>>) = 1 /\ <<Head(s)>>[1] = s[1]
  BY <1>1
<1> DEFINE t == <<Head(s)>> \o Tail(s)
<1>3. t \in Seq(Nat) /\ Len(t) = 1 + Len(Tail(s))
      /\ \A i \in 1 .. 1 + Len(Tail(s)) :
           t[i] = IF i <= 1 THEN <<Head(s)>>[i] ELSE Tail(s)[i - 1]
  BY <1>1, <1>2, ConcatProperties
<1>4. Len(s) \in Nat /\ Len(t) = Len(s) /\ \A i \in 1 .. Len(t) : t[i] = s[i]
  BY <1>1, <1>2, <1>3, LenProperties
<1>5. t = s
  BY <1>3, <1>4, SeqEqual
<1>6. (w \o <<Head(s)>>) \o Tail(s) = w \o t
  <2> HIDE DEF t
  <2>1. \A h \in Seq(Nat) : (w \o h) \o Tail(s) = w \o (h \o Tail(s))
    BY <1>1, NatConcatAssociative
  <2>. QED
    BY <1>2, <2>1 DEF t
<1>7. w \o <<>> = w
  BY ConcatEmptySeq
<1> QED
  BY <1>5, <1>6, <1>7

\* A client c in the map keeps Accepted = Owed while nothing of c changes but the
\* connection.
LEMMA UntouchedKeepsGapFree ==
  ASSUME GapInv, NEW c \in Clients, c \in clients,
         evictors'[c] = evictors[c], conn'[c] = "open" => conn[c] = "open",
         written'[c] = written[c], hand'[c] = hand[c], send'[c] = send[c],
         dispatched' = dispatched, joined'[c] = joined[c],
         (c \in todo') <=> (c \in todo)
  PROVE  (evictors[c] = 0 /\ conn[c] = "open" => Accepted(c) = Owed(c))'
BY DEF GapInv, NoSilentGap, Accepted, Owed

\* Every step keeps what a client was handed in one piece.
LEMMA GapStep == GapInv /\ [Next]_vars => GapInv'
<1> SUFFICES ASSUME GapInv, [Next]_vars PROVE GapInv'
  OBVIOUS
<1>p. PanicInv'
  BY PanicStep DEF GapInv
<1>t. TypeOK /\ TypeOK' /\ Len(dispatched) \in Nat
  BY <1>p, LenProperties DEF GapInv, PanicInv, TypeOK
<1> DEFINE Complete(c) == evictors[c] = 0 /\ conn[c] = "open" => Accepted(c) = Owed(c)
<1>g. (\A c \in clients' : Complete(c)') <=> NoSilentGap'
  BY DEF NoSilentGap
<1>r. ASSUME UNCHANGED <<dispatched, joined, message>>, todo' \subseteq todo PROVE Round'
  BY <1>r DEF GapInv, Round
<1> HIDE DEF Complete
<1>1. CASE Broadcast
  BY <1>1, <1>p, <1>t, <1>g, <1>r, UntouchedKeepsGapFree
  DEF Broadcast, hubVars, pumpVars, chanVars, GapInv, Complete, TypeOK
<1>2. CASE HubTakesFrame
  <2> DEFINE m == Head(broadcast)
  <2>1. m \in Nat
    BY <1>2, <1>t, HeadTailProperties DEF HubTakesFrame, TypeOK
  <2>2. /\ dispatched' \in Seq(Nat) /\ Len(dispatched') = Len(dispatched) + 1
        /\ \A i \in 1 .. Len(dispatched) : dispatched'[i] = dispatched[i]
        /\ dispatched'[Len(dispatched) + 1] = m
    BY <1>2, <1>t, <2>1, AppendProperties DEF HubTakesFrame, TypeOK
  <2>3. Round'
    <3>1. \A c \in Clients : joined[c] \in Nat /\ joined[c] <= Len(dispatched)
      BY <1>t DEF GapInv, Round, TypeOK
    <3>2. \A c \in Clients : joined[c] < Len(dispatched')
      BY <1>t, <2>2, <3>1
    <3>3. joined' = joined /\ todo' \subseteq Clients /\ message' = m
      BY <1>2, <1>t DEF HubTakesFrame, TypeOK
    <3>4. message' = dispatched'[Len(dispatched')]
      BY <2>2, <3>3
    <3>. QED
      BY <1>t, <2>2, <3>1, <3>2, <3>3, <3>4 DEF Round
  <2>4. ASSUME NEW c \in clients' PROVE Complete(c)'
    <3>1. c \in Clients /\ c \in clients /\ c \notin todo /\ c \in todo'
      BY <1>2, <1>t, <2>4 DEF HubTakesFrame, InSelect, TypeOK
    <3>2. joined[c] \in Nat /\ joined[c] <= Len(dispatched)
      BY <1>t, <3>1 DEF GapInv, Round, TypeOK
    <3>n. Len(dispatched') - 1 = Len(dispatched) /\ Len(dispatched) - 0 = Len(dispatched)
      BY <1>t, <2>2
    <3>3. Owed(c)' = SubSeq(dispatched', joined[c] + 1, Len(dispatched))
      <4>1. joined' = joined
        BY <1>2 DEF HubTakesFrame
      <4>2. Owed(c)' = SubSeq(dispatched', joined'[c] + 1, Len(dispatched') - 1)
        BY <3>1 DEF Owed
      <4>. QED
        BY <3>n, <4>1, <4>2
    <3>4. SubSeq(dispatched', joined[c] + 1, Len(dispatched))
            = SubSeq(dispatched, joined[c] + 1, Len(dispatched))
      <4> DEFINE j == joined[c] + 1
                 n == Len(dispatched)
                 x == SubSeq(dispatched', j, n)
                 y == SubSeq(dispatched, j, n)
      <4>1. j \in Int /\ 1 <= j /\ n \in Int /\ Len(dispatched') = n + 1
        BY <1>t, <2>2, <3>2
      <4>a. \A i \in j .. n : i \in 1 .. Len(dispatched) /\ i \in 1 .. Len(dispatched')
        BY <4>1
      <4>b. dispatched \in Seq(Nat) /\ dispatched' \in Seq(Nat)
        BY <1>t DEF TypeOK
      <4>2. /\ \A i \in j .. n : dispatched[i] \in Nat /\ dispatched'[i] = dispatched[i]
            /\ \A i \in j .. n : dispatched'[i] \in Nat
        BY <2>2, <4>a, <4>b, ElementOfSeq
      <4> HIDE DEF j, n
      <4>3. /\ x \in Seq(Nat) /\ Len(x) = IF j <= n THEN n - j + 1 ELSE 0
            /\ \A i \in 1 .. n - j + 1 : x[i] = dispatched'[j + i - 1]
        BY <4>1, <4>2, SubSeqProperties
      <4>4. /\ y \in Seq(Nat) /\ Len(y) = IF j <= n THEN n - j + 1 ELSE 0
            /\ \A i \in 1 .. n - j + 1 : y[i] = dispatched[j + i - 1]
        BY <4>1, <4>2, SubSeqProperties
      <4> HIDE DEF x, y
      <4>5. \A i \in 1 .. Len(x) : x[i] = y[i]
        BY <4>1, <4>2, <4>3, <4>4
      <4>6. x = y
        BY <4>3, <4>4, <4>5, SeqEqual
      <4>. QED
        BY <4>6 DEF x, y, j, n
    <3>5. Owed(c) = SubSeq(dispatched, joined[c] + 1, Len(dispatched))
      <4>1. Owed(c) = SubSeq(dispatched, joined[c] + 1, Len(dispatched) - 0)
        BY <3>1 DEF Owed
      <4>. QED
        BY <3>n, <4>1
    <3>. QED
      BY <1>2, <3>1, <3>3, <3>4, <3>5
      DEF HubTakesFrame, pumpVars, chanVars, GapInv, NoSilentGap, Complete, Accepted
  <2>. QED
    BY <1>p, <1>g, <2>3, <2>4 DEF GapInv
<1>3. ASSUME NEW c \in Clients, HubRegister(c) PROVE GapInv'
  <2>1. Round'
    BY <1>3, <1>t DEF HubRegister, InSelect, GapInv, Round, TypeOK
  <2>2. Complete(c)'
    <3>1. Accepted(c)' = <<>> \o <<>> \o <<>>
      BY <1>3 DEF HubRegister, chanVars, GapInv, PanicInv, Fresh, Accepted
    <3>2. <<>> \o <<>> \o <<>> = <<>>
      BY ConcatEmptySeq, EmptySeq
    <3>3. Owed(c)' = SubSeq(dispatched, Len(dispatched) + 1, Len(dispatched))
      BY <1>3, <1>t DEF HubRegister, InSelect, Owed, TypeOK
    <3>4. SubSeq(dispatched, Len(dispatched) + 1, Len(dispatched)) = <<>>
      BY <1>t, SubSeqEmpty
    <3>. QED
      BY <3>1, <3>2, <3>3, <3>4 DEF Complete
  <2>3. ASSUME NEW d \in clients', d # c PROVE Complete(d)'
    BY <1>3, <1>t, <2>3, UntouchedKeepsGapFree DEF HubRegister, chanVars, Complete, TypeOK
  <2>. QED
    BY <1>p, <1>g, <2>1, <2>2, <2>3 DEF GapInv
<1>4. ASSUME NEW c \in Clients, HubUnregistersReader(c) PROVE GapInv'
  BY <1>4, <1>p, <1>t, <1>g, <1>r, UntouchedKeepsGapFree
  DEF HubUnregistersReader, Unregister, GapInv, Complete, TypeOK
<1>5. ASSUME NEW c \in Clients, HubUnregistersEvictor(c) PROVE GapInv'
  <2>1. c \notin clients' /\ clients' \subseteq clients
    BY <1>5 DEF HubUnregistersEvictor, Unregister
  <2>2. ASSUME NEW d \in clients' PROVE Complete(d)'
    BY <1>5, <1>t, <2>1, <2>2, UntouchedKeepsGapFree
    DEF HubUnregistersEvictor, pumpVars, Complete, TypeOK
  <2>. QED
    BY <1>5, <1>p, <1>g, <1>r, <2>2 DEF HubUnregistersEvictor, GapInv
<1>6. ASSUME NEW c \in Clients, HubSends(c) PROVE GapInv'
  <2>1. Round'
    BY <1>6, <1>r DEF HubSends
  <2>2. ASSUME NEW d \in clients', d # c PROVE Complete(d)'
    BY <1>6, <1>t, <2>2, UntouchedKeepsGapFree DEF HubSends, pumpVars, Complete, TypeOK
  <2>3. Complete(c)'
    <3>1. CASE ~closed[c] /\ send' = [send EXCEPT ![c] = Append(@, message)]
               /\ UNCHANGED <<panicked, evictors>>
      <4> DEFINE n == Len(dispatched)
                 j == joined[c]
                 a == written[c] \o hand[c]
      <4>1. c \in clients /\ c \in todo /\ c \notin todo' /\ j \in Nat /\ j < n
            /\ message = dispatched[n] /\ message \in Nat
        BY <1>6, <1>t DEF HubSends, GapInv, Round, TypeOK
      <4>2. Accepted(c)' = a \o Append(send[c], message)
        BY <1>6, <1>t, <3>1 DEF HubSends, pumpVars, Accepted, TypeOK
      <4>3. a \in Seq(Nat) /\ <<message>> \in Seq(Nat)
        BY <1>t, <4>1, ConcatProperties DEF TypeOK
      <4>4. Accepted(c)' = Accepted(c) \o <<message>>
        <5>1. send[c] \in Seq(Nat)
          BY <1>t DEF TypeOK
        <5>2. Append(send[c], message) = send[c] \o <<message>>
          BY <4>1, <5>1, AppendIsConcat
        <5>3. \A x, y, z \in Seq(Nat) : (x \o y) \o z = x \o (y \o z)
          BY NatConcatAssociative
        <5> HIDE DEF a
        <5>4. (a \o send[c]) \o <<message>> = a \o (send[c] \o <<message>>)
          BY <4>3, <5>1, <5>3
        <5>. QED
          BY <4>2, <5>2, <5>4 DEF Accepted, a
      <4>5. Owed(c) = SubSeq(dispatched, j + 1, n - 1)
        BY <4>1 DEF Owed
      <4>6. Owed(c)' = SubSeq(dispatched, j + 1, n)
        <5>1. Owed(c)' = SubSeq(dispatched', joined'[c] + 1, Len(dispatched') - 0)
          BY <4>1 DEF Owed
        <5>2. dispatched' = dispatched /\ joined' = joined
          BY <1>6 DEF HubSends
        <5>3. n \in Nat
          BY <1>t, LenProperties DEF TypeOK
        <5> HIDE DEF n
        <5>4. n - 0 = n
          BY <5>3
        <5>. QED
          BY <5>1, <5>2, <5>4 DEF n
      <4>7. SubSeq(dispatched, j + 1, n) = SubSeq(dispatched, j + 1, n - 1) \o <<dispatched[n]>>
        <5>1. j + 1 \in 1 .. Len(dispatched) /\ n \in j + 1 .. Len(dispatched)
          BY <1>t, <4>1
        <5>2. dispatched \in Seq(Nat)
          BY <1>t DEF TypeOK
        <5> HIDE DEF j, n
        <5>. QED
          BY <5>1, <5>2, SubSeqRecursiveSecond
      <4>8. evictors[c] = 0 /\ conn[c] = "open" => Accepted(c) = Owed(c)
        BY <4>1 DEF GapInv, NoSilentGap
      <4>. QED
        BY <1>6, <3>1, <4>1, <4>4, <4>5, <4>6, <4>7, <4>8 DEF Complete, HubSends, pumpVars
    <3>2. CASE evictors' = [evictors EXCEPT ![c] = @ + 1]
      <4>1. evictors'[c] # 0
        BY <1>t, <3>2 DEF TypeOK
      <4>. QED
        BY <4>1 DEF Complete
    <3>3. CASE closed[c]
      BY <1>6, <3>3 DEF HubSends, GapInv, PanicInv, ServedIffOpen, TypeOK
    <3>. QED
      BY <1>6, <3>1, <3>2, <3>3 DEF HubSends
  <2>. QED
    BY <1>p, <1>g, <2>1, <2>2, <2>3 DEF GapInv
<1>7. ASSUME NEW c \in Clients, ServeWS(c) PROVE GapInv'
  <2>1. c \notin clients
    BY <1>7 DEF ServeWS, GapInv, PanicInv, ServedIffOpen
  <2>2. ASSUME NEW d \in clients' PROVE Complete(d)'
    BY <1>7, <1>t, <2>1, <2>2, UntouchedKeepsGapFree
    DEF ServeWS, hubVars, chanVars, Complete, TypeOK
  <2>. QED
    BY <1>7, <1>p, <1>g, <1>r, <2>2 DEF ServeWS, hubVars, GapInv
<1>8. ASSUME NEW c \in Clients, ReadFails(c) PROVE GapInv'
  BY <1>8, <1>p, <1>t, <1>g, <1>r, UntouchedKeepsGapFree
  DEF ReadFails, hubVars, chanVars, GapInv, Complete, TypeOK
<1>9. ASSUME NEW c \in Clients, ReaderCloses(c) PROVE GapInv'
  <2>1. ASSUME NEW d \in clients' PROVE Complete(d)'
    BY <1>9, <1>t, <2>1, UntouchedKeepsGapFree
    DEF ReaderCloses, hubVars, chanVars, Complete, TypeOK
  <2>. QED
    BY <1>9, <1>p, <1>g, <1>r, <2>1 DEF ReaderCloses, hubVars, GapInv
<1>10. ASSUME NEW c \in Clients, WriterTakesFrame(c) PROVE GapInv'
  <2>1. hand[c] = <<>> /\ send[c] # <<>>
    BY <1>10 DEF WriterTakesFrame, GapInv, PanicInv, Fresh
  <2>2. Accepted(c)' = Accepted(c)
    <3>1. written[c] \in Seq(Nat) /\ send[c] \in Seq(Nat)
      BY <1>t DEF TypeOK
    <3>2. Accepted(c)' = (written[c] \o <<Head(send[c])>>) \o Tail(send[c])
      BY <1>10, <1>t DEF WriterTakesFrame, Accepted, TypeOK
    <3>. QED
      BY <2>1, <3>1, <3>2, TakeKeepsAccepted DEF Accepted
  <2>3. Owed(c)' = Owed(c)
    BY <1>10 DEF WriterTakesFrame, hubVars, Owed
  <2>4. c \in clients => Complete(c)'
    BY <1>10, <2>2, <2>3 DEF WriterTakesFrame, GapInv, NoSilentGap, Complete
  <2>5. ASSUME NEW d \in clients', d # c PROVE Complete(d)'
    BY <1>10, <1>t, <2>5, UntouchedKeepsGapFree
    DEF WriterTakesFrame, hubVars, Complete, TypeOK
  <2>. QED
    BY <1>10, <1>p, <1>g, <1>r, <2>4, <2>5 DEF WriterTakesFrame, hubVars, GapInv
<1>11. ASSUME NEW c \in Clients, WriterExits(c) PROVE GapInv'
  <2>1. Complete(c)'
    BY <1>11, <1>t DEF WriterExits, Complete, TypeOK
  <2>2. ASSUME NEW d \in clients', d # c PROVE Complete(d)'
    BY <1>11, <1>t, <2>2, UntouchedKeepsGapFree
    DEF WriterExits, hubVars, chanVars, Complete, TypeOK
  <2>. QED
    BY <1>11, <1>p, <1>g, <1>r, <2>1, <2>2 DEF WriterExits, hubVars, GapInv
<1>12. ASSUME NEW c \in Clients, WriteSucceeds(c) PROVE GapInv'
  <2>1. Accepted(c)' = Accepted(c)
    <3>1. written[c] \in Seq(Nat) /\ hand[c] \in Seq(Nat) /\ send[c] \in Seq(Nat)
      BY <1>t DEF TypeOK
    <3>2. Accepted(c)' = (written[c] \o hand[c]) \o <<>> \o send[c]
      BY <1>12, <1>t DEF WriteSucceeds, chanVars, Accepted, TypeOK
    <3>3. (written[c] \o hand[c]) \o <<>> = written[c] \o hand[c]
      BY <3>1, ConcatProperties, ConcatEmptySeq
    <3>. QED
      BY <3>2, <3>3 DEF Accepted
  <2>2. Owed(c)' = Owed(c)
    BY <1>12 DEF WriteSucceeds, hubVars, Owed
  <2>3. c \in clients => Complete(c)'
    BY <1>12, <2>1, <2>2 DEF WriteSucceeds, chanVars, GapInv, NoSilentGap, Complete
  <2>4. ASSUME NEW d \in clients', d # c PROVE Complete(d)'
    BY <1>12, <1>t, <2>4, UntouchedKeepsGapFree
    DEF WriteSucceeds, hubVars, chanVars, Complete, TypeOK
  <2>. QED
    BY <1>12, <1>p, <1>g, <1>r, <2>3, <2>4 DEF WriteSucceeds, hubVars, GapInv
<1>13. ASSUME NEW c \in Clients, PeerVanishes(c) PROVE GapInv'
  BY <1>13, <1>p, <1>t, <1>g, <1>r, UntouchedKeepsGapFree
  DEF PeerVanishes, hubVars, chanVars, GapInv, Complete, TypeOK
<1>14. CASE UNCHANGED vars
  BY <1>14, <1>p, <1>t, <1>g, <1>r, UntouchedKeepsGapFree
  DEF vars, hubVars, pumpVars, chanVars, GapInv, Complete, TypeOK
<1> QED
  BY <1>1, <1>2, <1>3, <1>4, <1>5, <1>6, <1>7, <1>8, <1>9, <1>10, <1>11, <1>12,
     <1>13, <1>14
  DEF Next, WriterSeesClose, WriteFails, PingFails

\* A registered client that nobody is evicting and whose connection is open has
\* been given exactly the frames the hub handed out since it joined: no gap, no
\* duplicate, no reordering, for any number of clients and any capacities.
THEOREM NoGap == Spec => []NoSilentGap
BY GapInit, GapStep, PTL DEF Spec, GapInv

-----------------------------------------------------------------------------
(* MetricsHub implements FrameFeed.                                          *)

\* Frames are numbered in the order in which they are produced, and Hub.Run takes
\* them in that order.
Numbered ==
  /\ \A i, j \in 1 .. Len(dispatched) : i < j => dispatched[i] < dispatched[j]
  /\ \A i, j \in 1 .. Len(broadcast) : i < j => broadcast[i] < broadcast[j]
  /\ \A i \in 1 .. Len(dispatched), j \in 1 .. Len(broadcast) :
       dispatched[i] < broadcast[j]
  /\ \A i \in 1 .. Len(dispatched) : dispatched[i] \in 1 .. produced
  /\ \A i \in 1 .. Len(broadcast) : broadcast[i] \in 1 .. produced

\* What the range loop has already handed to c since it joined.
Handed(c) ==
  {dispatched[k] : k \in joined[c] + 1 .. Len(dispatched) - (IF c \in todo THEN 1 ELSE 0)}

\* What is buffered is newer than what is being written, and that newer than
\* what was written; all of it was handed out to c.
InOrder(c) ==
  /\ Len(hand[c]) <= 1
  /\ writer[c] = "writing" => Len(hand[c]) = 1
  /\ \A i \in 1 .. Len(written[c]) : written[c][i] \in Handed(c)
  /\ \A i \in 1 .. Len(hand[c]) : hand[c][i] \in Handed(c)
  /\ \A i \in 1 .. Len(send[c]) : send[c][i] \in Handed(c)
  /\ \A i \in 1 .. Len(written[c]), j \in 1 .. Len(hand[c]) : written[c][i] < hand[c][j]
  /\ \A i \in 1 .. Len(written[c]), j \in 1 .. Len(send[c]) : written[c][i] < send[c][j]
  /\ \A i \in 1 .. Len(hand[c]), j \in 1 .. Len(send[c]) : hand[c][i] < send[c][j]
  /\ \A i, j \in 1 .. Len(send[c]) : i < j => send[c][i] < send[c][j]

\* A connection is open until a pump of its client, which starts with its
\* registration, closes it.
Upgraded == \A c \in Clients : reader[c] = "registering" => conn[c] = "open"

OrderInv == GapInv /\ Numbered /\ Upgraded /\ \A c \in Clients : InOrder(c)

-----------------------------------------------------------------------------
\* At the start there are no frames.
LEMMA OrderInit == Init => OrderInv
<1> SUFFICES ASSUME Init PROVE OrderInv
  OBVIOUS
<1>1. Len(<<>>) = 0
  OBVIOUS
<1>2. Numbered
  BY <1>1 DEF Init, Numbered
<1>3. Upgraded
  BY DEF Init, Upgraded
<1>4. \A c \in Clients : InOrder(c)
  BY <1>1 DEF Init, InOrder
<1>. QED
  BY GapInit, <1>2, <1>3, <1>4 DEF OrderInv

\* Every step keeps the frames in the order of their numbers.
LEMMA NumberedStep == OrderInv /\ [Next]_vars => Numbered'
<1> SUFFICES ASSUME OrderInv, [Next]_vars PROVE Numbered'
  OBVIOUS
<1>t. /\ TypeOK /\ Numbered /\ produced \in Nat
      /\ dispatched \in Seq(Nat) /\ Len(dispatched) \in Nat
      /\ broadcast \in Seq(Nat) /\ Len(broadcast) \in Nat
  BY HubAssumption, LenProperties DEF OrderInv, GapInv, PanicInv, TypeOK, HubAssumption
<1>b. /\ \A i \in 1 .. Len(dispatched) : dispatched[i] \in Nat /\ dispatched[i] < produced + 1
      /\ \A i \in 1 .. Len(broadcast) : broadcast[i] \in Nat /\ broadcast[i] < produced + 1
  BY <1>t DEF Numbered
<1>i. /\ \A i, j \in 1 .. Len(dispatched) : i < j => dispatched[i] < dispatched[j]
      /\ \A i, j \in 1 .. Len(broadcast) : i < j => broadcast[i] < broadcast[j]
      /\ \A i \in 1 .. Len(dispatched), j \in 1 .. Len(broadcast) : dispatched[i] < broadcast[j]
  BY <1>t DEF Numbered
<1>1. CASE Broadcast
  <2>1. dispatched' = dispatched /\ produced' = produced + 1
    BY <1>1 DEF Broadcast, hubVars
  <2>2. CASE broadcast' = Append(broadcast, produced + 1)
    <3>1. /\ Len(broadcast') = Len(broadcast) + 1
          /\ \A i \in 1 .. Len(broadcast) : broadcast'[i] = broadcast[i]
          /\ broadcast'[Len(broadcast) + 1] = produced + 1
      BY <1>t, <2>2, AppendProperties
    <3> DEFINE n == Len(broadcast)
    <3>3. \A i \in 1 .. Len(broadcast') :
            \/ broadcast'[i] = produced + 1 /\ i = n + 1
            \/ broadcast'[i] = broadcast[i] /\ i \in 1 .. n
      <4>1. n \in Nat /\ 1 .. Len(broadcast') = 1 .. n + 1
        BY <1>t, <3>1
      <4>2. \A i \in 1 .. n + 1 : i = n + 1 \/ i \in 1 .. n
        BY <4>1
      <4>. QED
        BY <3>1, <4>1, <4>2
    <3>4. Len(dispatched') = Len(dispatched)
      BY <2>1
    <3>5. \A i \in 1 .. Len(broadcast') : broadcast'[i] \in 1 .. produced'
      <4>1. \A m \in 1 .. produced : m \in 1 .. produced'
        BY <1>t, <2>1
      <4>2. produced + 1 \in 1 .. produced'
        BY <1>t, <2>1
      <4>3. \A i \in 1 .. n : broadcast[i] \in 1 .. produced
        BY <1>t DEF Numbered
      <4>. QED
        BY <3>3, <4>1, <4>2, <4>3
    <3>6. \A i, j \in 1 .. Len(broadcast') : i < j => broadcast'[i] < broadcast'[j]
      <4> SUFFICES ASSUME NEW i \in 1 .. Len(broadcast'), NEW j \in 1 .. Len(broadcast'), i < j
                   PROVE  broadcast'[i] < broadcast'[j]
        OBVIOUS
      <4>1. i \in 1 .. n /\ broadcast'[i] = broadcast[i]
        BY <1>t, <3>1, <3>3
      <4>. QED
        BY <1>b, <1>i, <3>3, <4>1
    <3>7. \A i \in 1 .. Len(dispatched), j \in 1 .. Len(broadcast') : dispatched[i] < broadcast'[j]
      BY <1>b, <1>i, <3>3
    <3>8. \A i \in 1 .. Len(dispatched) : dispatched[i] \in 1 .. produced'
      BY <1>t, <2>1 DEF Numbered
    <3>. QED
      BY <1>t, <2>1, <3>4, <3>5, <3>6, <3>7, <3>8 DEF Numbered
  <2>3. CASE broadcast' = broadcast
    <3>1. Len(broadcast') = Len(broadcast) /\ Len(dispatched') = Len(dispatched)
      BY <2>1, <2>3
    <3>. QED
      BY <1>t, <2>1, <2>3, <3>1 DEF Numbered
  <2>. QED
    BY <1>1, <2>2, <2>3 DEF Broadcast
<1>2. CASE HubTakesFrame
  <2>0. broadcast # <<>> /\ broadcast' = Tail(broadcast) /\ Len(broadcast) > 0
    BY <1>2, <1>t, EmptySeq DEF HubTakesFrame
  <2>1. /\ Len(broadcast') = Len(broadcast) - 1
        /\ \A i \in 1 .. Len(broadcast') : broadcast'[i] = broadcast[i + 1]
        /\ Head(broadcast) = broadcast[1] /\ broadcast[1] \in Nat
    BY <1>t, <2>0, HeadTailProperties, ElementOfSeq
  <2>2. /\ Len(dispatched') = Len(dispatched) + 1
        /\ \A i \in 1 .. Len(dispatched) : dispatched'[i] = dispatched[i]
        /\ dispatched'[Len(dispatched) + 1] = broadcast[1]
    BY <1>2, <1>t, <2>1, AppendProperties DEF HubTakesFrame
  <2>3. produced' = produced
    BY <1>2 DEF HubTakesFrame
  <2> DEFINE n == Len(dispatched)
  <2>4. \A i \in 1 .. Len(dispatched') :
          \/ dispatched'[i] = broadcast[1] /\ i = n + 1
          \/ dispatched'[i] = dispatched[i] /\ i \in 1 .. n
    <3>1. n \in Nat /\ 1 .. Len(dispatched') = 1 .. n + 1
      BY <1>t, <2>2
    <3>2. \A i \in 1 .. n + 1 : i = n + 1 \/ i \in 1 .. n
      BY <3>1
    <3>. QED
      BY <2>2, <3>1, <3>2
  <2>5. /\ 1 \in 1 .. Len(broadcast)
        /\ \A i \in 1 .. Len(broadcast') : i + 1 \in 1 .. Len(broadcast) /\ 1 < i + 1
        /\ \A i, j \in 1 .. Len(broadcast') : i < j => i + 1 < j + 1
    BY <1>t, <2>0, <2>1
  <2>6. \A i, j \in 1 .. Len(dispatched') : i < j => dispatched'[i] < dispatched'[j]
    <3> SUFFICES ASSUME NEW i \in 1 .. Len(dispatched'), NEW j \in 1 .. Len(dispatched'), i < j
                 PROVE  dispatched'[i] < dispatched'[j]
      OBVIOUS
    <3>1. i \in 1 .. n /\ dispatched'[i] = dispatched[i]
      BY <1>t, <2>2, <2>4
    <3>. QED
      BY <1>i, <2>4, <2>5, <3>1
  <2>7. \A i, j \in 1 .. Len(broadcast') : i < j => broadcast'[i] < broadcast'[j]
    BY <1>t, <2>1, <2>5 DEF Numbered
  <2>8. \A i \in 1 .. Len(dispatched'), j \in 1 .. Len(broadcast') : dispatched'[i] < broadcast'[j]
    BY <1>t, <2>1, <2>4, <2>5 DEF Numbered
  <2>9. \A i \in 1 .. Len(dispatched') : dispatched'[i] \in 1 .. produced'
    BY <1>t, <2>3, <2>4, <2>5 DEF Numbered
  <2>10. \A i \in 1 .. Len(broadcast') : broadcast'[i] \in 1 .. produced'
    BY <1>t, <2>1, <2>3, <2>5 DEF Numbered
  <2>. QED
    BY <2>6, <2>7, <2>8, <2>9, <2>10 DEF Numbered
<1>3. CASE UNCHANGED <<dispatched, broadcast, produced>>
  BY <1>t, <1>3 DEF Numbered
<1>. QED
  BY <1>1, <1>2, <1>3
  DEF Next, vars, hubVars, HubRegister, HubUnregistersReader, HubUnregistersEvictor, HubSends,
      ServeWS, ReadFails, ReaderCloses, WriterTakesFrame, WriterSeesClose, WriterExits,
      WriteSucceeds, WriteFails, PingFails, PeerVanishes

\* A connection whose client has a pump, or none yet that could close it.
LEMMA UpgradedStep == OrderInv /\ [Next]_vars => Upgraded'
<1> SUFFICES ASSUME OrderInv, [Next]_vars PROVE Upgraded'
  OBVIOUS
<1>t. TypeOK /\ Fresh /\ Upgraded
  BY DEF OrderInv, GapInv, PanicInv
<1>1. ASSUME NEW c \in Clients, ServeWS(c) PROVE Upgraded'
  BY <1>1, <1>t DEF ServeWS, Upgraded, TypeOK
<1>2. ASSUME NEW c \in Clients, HubRegister(c) PROVE Upgraded'
  BY <1>2, <1>t DEF HubRegister, Upgraded, TypeOK
<1>3. ASSUME NEW c \in Clients, HubUnregistersReader(c) PROVE Upgraded'
  BY <1>3, <1>t DEF HubUnregistersReader, Upgraded, TypeOK
<1>4. ASSUME NEW c \in Clients, ReadFails(c) PROVE Upgraded'
  BY <1>4, <1>t DEF ReadFails, Upgraded, TypeOK
<1>5. ASSUME NEW c \in Clients, ReaderCloses(c) PROVE Upgraded'
  BY <1>5, <1>t DEF ReaderCloses, Upgraded, TypeOK
<1>6. ASSUME NEW c \in Clients, WriterExits(c), writer[c] # "absent" PROVE Upgraded'
  BY <1>6, <1>t DEF WriterExits, Upgraded, Fresh, TypeOK
<1>7. CASE UNCHANGED <<reader, conn>>
  BY <1>7, <1>t DEF Upgraded
<1>. QED
  BY <1>1, <1>2, <1>3, <1>4, <1>5, <1>6, <1>7
  DEF Next, vars, pumpVars, Broadcast, HubTakesFrame, HubUnregistersEvictor, HubSends,
      WriterTakesFrame, WriterSeesClose, WriteSucceeds, WriteFails, PingFails, PeerVanishes

-----------------------------------------------------------------------------
\* A client keeps its order while its frames stay where they are and the range
\* loop does not come back to it.
LEMMA OrderKept ==
  ASSUME OrderInv, NEW c \in Clients,
         UNCHANGED <<dispatched, joined[c], written[c], send[c]>>,
         hand'[c] = hand[c] \/ hand'[c] = <<>>,
         writer'[c] = "writing" => writer[c] = "writing" /\ hand'[c] = hand[c],
         c \in todo' => c \in todo
  PROVE  InOrder(c)'
<1>1. InOrder(c) /\ Len(<<>>) = 0 /\ Len(dispatched) \in Nat /\ joined[c] \in Nat
  BY LenProperties DEF OrderInv, GapInv, PanicInv, TypeOK
<1>2. Handed(c) \subseteq Handed(c)'
  BY <1>1 DEF Handed
<1>. QED
  BY <1>1, <1>2 DEF InOrder

\* Every step keeps the queues of the clients in order.
LEMMA OrderStep == OrderInv /\ [Next]_vars => OrderInv'
<1> SUFFICES ASSUME OrderInv, [Next]_vars PROVE OrderInv'
  OBVIOUS
<1>t. /\ TypeOK /\ TypeOK' /\ Fresh /\ Round
      /\ dispatched \in Seq(Nat) /\ Len(dispatched) \in Nat
      /\ \A i \in 1 .. Len(dispatched) : dispatched[i] \in Nat
      /\ \A d \in Clients : InOrder(d) /\ joined[d] \in Nat /\ joined[d] <= Len(dispatched)
  <2>1. TypeOK /\ TypeOK' /\ Fresh /\ Round /\ \A d \in Clients : InOrder(d)
    BY TypeStep DEF OrderInv, GapInv, PanicInv
  <2>. QED
    BY <2>1, LenProperties, ElementOfSeq DEF TypeOK, Round
<1>s. \A d \in Clients : /\ send[d] \in Seq(Nat) /\ Len(send[d]) \in Nat
                         /\ hand[d] \in Seq(Nat) /\ Len(hand[d]) \in Nat
                         /\ written[d] \in Seq(Nat) /\ Len(written[d]) \in Nat
  BY <1>t, LenProperties DEF TypeOK
<1>o. \A d \in Clients : InOrder(d)'
  <2>1. CASE Broadcast
    BY <2>1, OrderKept DEF Broadcast, hubVars, pumpVars, chanVars
  <2>2. CASE HubTakesFrame
    <3> SUFFICES ASSUME NEW d \in Clients PROVE InOrder(d)'
      OBVIOUS
    <3>1. /\ Len(dispatched') = Len(dispatched) + 1
          /\ \A i \in 1 .. Len(dispatched) : dispatched'[i] = dispatched[i]
      BY <2>2, <1>t, HeadTailProperties, AppendProperties DEF HubTakesFrame, TypeOK
    <3>2. d \notin todo /\ UNCHANGED <<joined, pumpVars, chanVars>>
      BY <2>2 DEF HubTakesFrame, InSelect
    <3>3. \A k \in joined[d] + 1 .. Len(dispatched) :
            /\ k \in joined'[d] + 1 .. Len(dispatched') - (IF d \in todo' THEN 1 ELSE 0)
            /\ dispatched'[k] = dispatched[k]
      BY <1>t, <3>1, <3>2
    <3>4. Handed(d) = {dispatched[k] : k \in joined[d] + 1 .. Len(dispatched)}
      BY <1>t, <3>2 DEF Handed
    <3>5. Handed(d) \subseteq Handed(d)'
      BY <3>3, <3>4 DEF Handed
    <3>. QED
      BY <1>t, <3>2, <3>5 DEF InOrder, pumpVars, chanVars
  <2>3. ASSUME NEW c \in Clients, HubRegister(c) PROVE \A d \in Clients : InOrder(d)'
    <3>1. ASSUME NEW d \in Clients, d # c PROVE InOrder(d)'
      BY <2>3, <1>t, <3>1, OrderKept DEF HubRegister, chanVars, TypeOK
    <3>2. InOrder(c)'
      <4>1. /\ send'[c] = <<>> /\ written'[c] = <<>> /\ hand'[c] = <<>>
            /\ writer'[c] = "select"
        BY <2>3, <1>t DEF HubRegister, chanVars, Fresh, TypeOK
      <4>2. Len(<<>>) = 0
        OBVIOUS
      <4>. QED
        BY <4>1, <4>2 DEF InOrder
    <3>. QED
      BY <3>1, <3>2
  <2>4. ASSUME NEW c \in Clients, HubUnregistersReader(c) PROVE \A d \in Clients : InOrder(d)'
    BY <2>4, OrderKept DEF HubUnregistersReader
  <2>5. ASSUME NEW c \in Clients, HubUnregistersEvictor(c) PROVE \A d \in Clients : InOrder(d)'
    BY <2>5, OrderKept DEF HubUnregistersEvictor, pumpVars
  <2>6. ASSUME NEW c \in Clients, HubSends(c) PROVE \A d \in Clients : InOrder(d)'
    <3>1. ASSUME NEW d \in Clients, send'[d] = send[d] PROVE InOrder(d)'
      BY <2>6, <3>1, OrderKept DEF HubSends, pumpVars
    <3>2. CASE send' = [send EXCEPT ![c] = Append(@, message)]
      <4> DEFINE n == Len(dispatched)
                 l == Len(send[c])
      <4>1. /\ c \in todo /\ c \notin todo' /\ joined[c] < n /\ message = dispatched[n]
            /\ message \in Nat
            /\ UNCHANGED <<dispatched, joined, pumpVars>>
        BY <2>6, <1>t DEF HubSends, Round, TypeOK
      <4>2. /\ Len(send'[c]) = l + 1 /\ send'[c][l + 1] = message
            /\ \A i \in 1 .. l : send'[c][i] = send[c][i]
        BY <1>t, <1>s, <3>2, <4>1, AppendProperties DEF TypeOK
      <4>3. \A f \in Handed(c) : f \in Handed(c)' /\ f \in Nat /\ f < message
        <5>1. \A k \in joined[c] + 1 .. n - 1 :
                /\ k \in joined[c] + 1 .. n - 0 /\ k \in 1 .. n /\ n \in 1 .. n /\ k < n
          BY <1>t, <4>1
        <5>2. \A k \in joined[c] + 1 .. n - 1 : dispatched[k] \in Nat /\ dispatched[k] < dispatched[n]
          BY <1>t, <5>1 DEF OrderInv, Numbered
        <5>. QED
          BY <4>1, <5>1, <5>2 DEF Handed
      <4>4. message \in Handed(c)'
        <5>1. n \in joined[c] + 1 .. n - 0
          BY <1>t, <4>1
        <5>. QED
          BY <4>1, <5>1 DEF Handed
      <4>5. \A i \in 1 .. Len(send'[c]) :
              \/ i \in 1 .. l /\ send'[c][i] = send[c][i]
              \/ i = l + 1 /\ send'[c][i] = message
        <5>1. \A i \in 1 .. l + 1 : i \in 1 .. l \/ i = l + 1
          BY <1>s
        <5>. QED
          BY <4>2, <5>1
      <4>6. /\ \A i \in 1 .. Len(written[c]) : written[c][i] \in Handed(c)
            /\ \A i \in 1 .. Len(hand[c]) : hand[c][i] \in Handed(c)
            /\ \A i \in 1 .. l : send[c][i] \in Handed(c)
        BY <1>t DEF InOrder
      <4>7. UNCHANGED <<written[c], hand[c], writer[c]>>
        BY <4>1 DEF pumpVars
      <4>8. \A i \in 1 .. Len(send'[c]) : send'[c][i] \in Handed(c)'
        BY <4>3, <4>4, <4>5, <4>6
      <4>9. \A i \in 1 .. Len(written[c]), j \in 1 .. Len(send'[c]) : written[c][i] < send'[c][j]
        BY <1>t, <4>3, <4>5, <4>6 DEF InOrder
      <4>10. \A i \in 1 .. Len(hand[c]), j \in 1 .. Len(send'[c]) : hand[c][i] < send'[c][j]
        BY <1>t, <4>3, <4>5, <4>6 DEF InOrder
      <4>11. ASSUME NEW i \in 1 .. Len(send'[c]), NEW j \in 1 .. Len(send'[c]), i < j
             PROVE  send'[c][i] < send'[c][j]
        <5>1. i \in 1 .. l /\ send'[c][i] = send[c][i]
          BY <1>s, <4>2, <4>5, <4>11
        <5>. QED
          BY <1>t, <4>3, <4>5, <4>6, <4>11, <5>1 DEF InOrder
      <4>12. InOrder(c)'
        BY <1>t, <4>3, <4>6, <4>7, <4>8, <4>9, <4>10, <4>11 DEF InOrder
      <4>13. \A d \in Clients : d # c => send'[d] = send[d]
        BY <1>t, <3>2 DEF TypeOK
      <4>. QED
        BY <3>1, <4>12, <4>13
    <3>. QED
      BY <2>6, <3>1, <3>2 DEF HubSends
  <2>7. ASSUME NEW c \in Clients, ServeWS(c) PROVE \A d \in Clients : InOrder(d)'
    BY <2>7, OrderKept DEF ServeWS, hubVars, chanVars
  <2>8. ASSUME NEW c \in Clients, ReadFails(c) PROVE \A d \in Clients : InOrder(d)'
    BY <2>8, OrderKept DEF ReadFails, hubVars, chanVars
  <2>9. ASSUME NEW c \in Clients, ReaderCloses(c) PROVE \A d \in Clients : InOrder(d)'
    BY <2>9, OrderKept DEF ReaderCloses, hubVars, chanVars
  <2>10. ASSUME NEW c \in Clients, WriterTakesFrame(c) PROVE \A d \in Clients : InOrder(d)'
    <3>1. ASSUME NEW d \in Clients, d # c PROVE InOrder(d)'
      BY <2>10, <1>t, <3>1, OrderKept DEF WriterTakesFrame, hubVars, TypeOK
    <3> DEFINE l == Len(send[c])
    <3>2. send[c] # <<>> /\ l > 0
      BY <2>10, <1>s, EmptySeq DEF WriterTakesFrame
    <3>3. /\ hand'[c] = <<Head(send[c])>> /\ send'[c] = Tail(send[c])
          /\ UNCHANGED <<written, dispatched, joined, todo>>
      BY <2>10, <1>t DEF WriterTakesFrame, hubVars, TypeOK
    <3>4. /\ Head(send[c]) = send[c][1] /\ Len(send'[c]) = l - 1
          /\ \A i \in 1 .. Len(send'[c]) : send'[c][i] = send[c][i + 1]
      BY <1>s, <3>2, <3>3, HeadTailProperties
    <3>5. Len(hand'[c]) = 1 /\ hand'[c][1] = send[c][1]
      BY <3>3, <3>4
    <3>6. /\ 1 \in 1 .. l
          /\ \A i \in 1 .. Len(send'[c]) : i + 1 \in 1 .. l /\ 1 < i + 1
          /\ \A i, j \in 1 .. Len(send'[c]) : i < j => i + 1 < j + 1
          /\ \A i \in 1 .. Len(hand'[c]) : hand'[c][i] = send[c][1]
      BY <1>s, <3>2, <3>4, <3>5
    <3>7. Handed(c)' = Handed(c)
      BY <3>3 DEF Handed
    <3>8. InOrder(c)'
      BY <1>t, <3>3, <3>4, <3>5, <3>6, <3>7 DEF InOrder
    <3>. QED
      BY <3>1, <3>8
  <2>11. ASSUME NEW c \in Clients, WriterExits(c) PROVE \A d \in Clients : InOrder(d)'
    BY <2>11, <1>t, OrderKept DEF WriterExits, hubVars, chanVars, TypeOK
  <2>12. ASSUME NEW c \in Clients, WriteSucceeds(c) PROVE \A d \in Clients : InOrder(d)'
    <3>1. ASSUME NEW d \in Clients, d # c PROVE InOrder(d)'
      BY <2>12, <1>t, <3>1, OrderKept DEF WriteSucceeds, hubVars, chanVars, TypeOK
    <3> DEFINE l == Len(written[c])
    <3>2. /\ hand'[c] = <<>> /\ written'[c] = written[c] \o hand[c] /\ writer'[c] = "select"
          /\ writer[c] = "writing"
          /\ UNCHANGED <<send, dispatched, joined, todo>>
      BY <2>12, <1>t DEF WriteSucceeds, hubVars, chanVars, TypeOK
    <3>3. Len(hand[c]) = 1 /\ Len(<<>>) = 0
      BY <1>t, <3>2 DEF InOrder
    <3>4. /\ Len(written'[c]) = l + 1
          /\ \A i \in 1 .. l + 1 :
               written'[c][i] = IF i <= l THEN written[c][i] ELSE hand[c][i - l]
      <4>1. /\ Len(written[c] \o hand[c]) = l + Len(hand[c])
            /\ \A i \in 1 .. l + Len(hand[c]) :
                 (written[c] \o hand[c])[i] = IF i <= l THEN written[c][i] ELSE hand[c][i - l]
        BY <1>s, ConcatProperties
      <4>. QED
        BY <3>2, <3>3, <4>1
    <3>5. \A i \in 1 .. Len(written'[c]) :
            \/ i \in 1 .. l /\ written'[c][i] = written[c][i]
            \/ written'[c][i] = hand[c][1]
      <4>1. \A i \in 1 .. l + 1 : (i \in 1 .. l /\ i <= l) \/ (~(i <= l) /\ i - l = 1)
        BY <1>s
      <4>. QED
        BY <3>4, <4>1
    <3>6. Handed(c)' = Handed(c)
      BY <3>2 DEF Handed
    <3>7. 1 \in 1 .. Len(hand[c])
      BY <3>3
    <3>8. \A i \in 1 .. Len(written'[c]) : written'[c][i] \in Handed(c)
      BY <1>t, <3>5, <3>7 DEF InOrder
    <3>9. \A i \in 1 .. Len(written'[c]), j \in 1 .. Len(send[c]) : written'[c][i] < send[c][j]
      BY <1>t, <3>5, <3>7 DEF InOrder
    <3>10. \A i \in 1 .. Len(hand'[c]) : FALSE
      BY <3>2, <3>3
    <3>11. /\ \A i \in 1 .. Len(send[c]) : send[c][i] \in Handed(c)
           /\ \A i, j \in 1 .. Len(send[c]) : i < j => send[c][i] < send[c][j]
           /\ Len(hand'[c]) = 0 /\ writer'[c] # "writing" /\ send'[c] = send[c]
      BY <1>t, <3>2, <3>3 DEF InOrder
    <3>12. InOrder(c)'
      BY <3>6, <3>8, <3>9, <3>10, <3>11 DEF InOrder
    <3>. QED
      BY <3>1, <3>12
  <2>13. ASSUME NEW c \in Clients, PeerVanishes(c) PROVE \A d \in Clients : InOrder(d)'
    BY <2>13, OrderKept DEF PeerVanishes, hubVars, chanVars
  <2>14. CASE UNCHANGED vars
    BY <2>14, OrderKept DEF vars, hubVars, pumpVars, chanVars
  <2>. QED
    BY <2>1, <2>2, <2>3, <2>4, <2>5, <2>6, <2>7, <2>8, <2>9, <2>10, <2>11, <2>12,
       <2>13, <2>14
    DEF Next, WriterSeesClose, WriteFails, PingFails
<1>. QED
  BY GapStep, NumberedStep, UpgradedStep, <1>o DEF OrderInv
-----------------------------------------------------------------------------
\* The frames the hub handed out are those that the feed has published; those
\* newer than what was written to an open connection are pending.
Published == {dispatched[i] : i \in DOMAIN dispatched}
Pending(c) == IF FeedStatus(c) = "on" THEN {f \in HandedOut(c) : Newer(c, f)} ELSE {}

\* The feed does not notice a step that hands out and writes nothing and leaves
\* every subscriber on or off.
LEMMA Unnoticed ==
  ASSUME UNCHANGED <<dispatched, joined, written>>,
         \A c \in Clients : FeedStatus(c)' = FeedStatus(c)
  PROVE  UNCHANGED Feed!feedVars
<1>1. Published' = Published
  BY DEF Published
<1>2. \A c \in Clients : Pending(c)' = Pending(c)
  BY DEF Pending, HandedOut, Newer, FeedStatus
<1>. QED
  BY <1>1, <1>2 DEF Feed!feedVars, Published, Pending

\* Closing the connection cuts its subscriber off, unless it is off already.
LEMMA CloseCuts ==
  ASSUME NEW c \in Clients, UNCHANGED <<dispatched, joined, written>>,
         conn \in [Clients -> ConnStates], conn' = [conn EXCEPT ![c] = "closed"],
         \A d \in Clients : reader'[d] \in {"absent", "registering"}
                            <=> reader[d] \in {"absent", "registering"}
  PROVE  Feed!Cut(c) \/ UNCHANGED Feed!feedVars
<1>1. \A d \in Clients : d # c => FeedStatus(d)' = FeedStatus(d)
  BY DEF FeedStatus
<1>2. CASE FeedStatus(c) # "on"
  <2>1. FeedStatus(c)' = FeedStatus(c)
    BY <1>2 DEF FeedStatus
  <2>. QED
    BY <1>1, <2>1, Unnoticed
<1>3. CASE FeedStatus(c) = "on"
  <2>1. FeedStatus(c)' = "cut"
    BY <1>3 DEF FeedStatus
  <2>2. Pending(c)' = {} /\ \A d \in Clients : d # c => Pending(d)' = Pending(d)
    BY <1>1, <2>1 DEF Pending, HandedOut, Newer, FeedStatus
  <2>3. Published' = Published
    BY DEF Published
  <2>. QED
    BY <1>1, <1>3, <2>1, <2>2, <2>3 DEF Feed!Cut, Published, Pending
<1>. QED
  BY <1>2, <1>3

\* The initial states are initial states of the feed.
LEMMA FeedInit == Init => Feed!Init
<1> SUFFICES ASSUME Init PROVE Feed!Init
  OBVIOUS
<1>1. DOMAIN dispatched = {} /\ written = [c \in Clients |-> <<>>]
  BY DEF Init
<1>2. \A c \in Clients : FeedStatus(c) = "off"
  BY DEF Init, FeedStatus
<1>. QED
  BY <1>1, <1>2 DEF Feed!Init

\* Every step of the hub is a step of the feed or leaves it alone.
LEMMA FeedStep == OrderInv /\ [Next]_vars => [Feed!Next]_(Feed!feedVars)
<1> SUFFICES ASSUME OrderInv, [Next]_vars PROVE Feed!Next \/ UNCHANGED Feed!feedVars
  OBVIOUS
<1>t. /\ TypeOK /\ Fresh /\ Round /\ Upgraded /\ Numbered
      /\ dispatched \in Seq(Nat) /\ Len(dispatched) \in Nat /\ DOMAIN dispatched = 1 .. Len(dispatched)
      /\ \A d \in Clients : InOrder(d) /\ joined[d] \in Nat /\ joined[d] <= Len(dispatched)
  <2>1. TypeOK /\ Fresh /\ Round /\ Upgraded /\ Numbered /\ \A d \in Clients : InOrder(d)
    BY DEF OrderInv, GapInv, PanicInv
  <2>. QED
    BY <2>1, LenProperties DEF TypeOK, Round
<1>s. \A d \in Clients : /\ hand[d] \in Seq(Nat) /\ written[d] \in Seq(Nat)
                         /\ Len(written[d]) \in Nat /\ DOMAIN written[d] = 1 .. Len(written[d])
  BY <1>t, LenProperties DEF TypeOK
<1>1. CASE Broadcast
  BY <1>1, Unnoticed DEF Broadcast, hubVars, pumpVars, FeedStatus
<1>2. CASE HubTakesFrame
  <2>m. PICK m : m = Head(broadcast)
    OBVIOUS
  <2>1. /\ broadcast \in Seq(Nat) /\ broadcast # <<>> /\ Len(broadcast) > 0 /\ m = broadcast[1]
        /\ 1 \in 1 .. Len(broadcast)
    BY <1>2, <2>m, <1>t, EmptySeq, HeadTailProperties, LenProperties DEF HubTakesFrame, TypeOK
  <2>2. /\ m \in 1 .. MaxFrames /\ m \in Nat
        /\ \A i \in 1 .. Len(dispatched) : dispatched[i] < m
    BY <1>t, <2>1, HubAssumption DEF Numbered, TypeOK, HubAssumption
  <2>3. /\ dispatched' = Append(dispatched, m) /\ Len(dispatched') = Len(dispatched) + 1
        /\ DOMAIN dispatched' = 1 .. Len(dispatched) + 1
        /\ \A i \in 1 .. Len(dispatched) : dispatched'[i] = dispatched[i]
        /\ dispatched'[Len(dispatched) + 1] = m
    BY <1>2, <1>t, <2>m, <2>2, AppendProperties DEF HubTakesFrame
  <2>4. UNCHANGED <<joined, written, reader, conn>> /\ todo = {}
    BY <1>2 DEF HubTakesFrame, pumpVars, InSelect
  <2>5. Published' = Published \cup {m}
    <3>1. \A i : i \in 1 .. Len(dispatched) + 1 <=> i \in 1 .. Len(dispatched) \/ i = Len(dispatched) + 1
      BY <1>t
    <3>. QED
      BY <1>t, <2>3, <3>1 DEF Published
  <2>6. \A d \in Clients : FeedStatus(d)' = FeedStatus(d)
    BY <2>4 DEF FeedStatus
  <2>7. ASSUME NEW d \in Clients, FeedStatus(d) = "on" PROVE Pending(d)' = Pending(d) \cup {m}
    <3>1. HandedOut(d)' = HandedOut(d) \cup {m}
      <4>1. \A i : i \in joined[d] + 1 .. Len(dispatched) + 1
                  <=> i \in joined[d] + 1 .. Len(dispatched) \/ i = Len(dispatched) + 1
        BY <1>t
      <4>2. \A i \in joined[d] + 1 .. Len(dispatched) : i \in 1 .. Len(dispatched)
        BY <1>t
      <4>. QED
        BY <2>3, <2>4, <2>7, <4>1, <4>2 DEF HandedOut, FeedStatus
    <3>2. Newer(d, m)
      <4>1. \A k \in joined[d] + 1 .. Len(dispatched) - 0 : k \in 1 .. Len(dispatched)
        BY <1>t
      <4>2. \A f \in Handed(d) : f < m
        BY <2>2, <2>4, <4>1 DEF Handed
      <4>. QED
        BY <1>t, <1>s, <4>2 DEF InOrder, Newer
    <3>3. \A f : Newer(d, f)' = Newer(d, f)
      BY <2>4 DEF Newer
    <3>. QED
      BY <2>6, <2>7, <3>1, <3>2, <3>3 DEF Pending
  <2>8. ASSUME NEW d \in Clients, FeedStatus(d) # "on" PROVE Pending(d)' = Pending(d)
    BY <2>6, <2>8 DEF Pending
  <2>9. \A g \in Published : g < m
    BY <1>t, <2>2 DEF Published
  <2>10. Feed!Publish(m)
    BY <2>4, <2>5, <2>6, <2>7, <2>8, <2>9 DEF Feed!Publish, Published, Pending
  <2>. QED
    BY <2>2, <2>10 DEF Feed!Next
<1>3. ASSUME NEW c \in Clients, HubRegister(c) PROVE Feed!Next
  <2>1. /\ reader[c] = "registering" /\ reader' = [reader EXCEPT ![c] = "reading"]
        /\ joined' = [joined EXCEPT ![c] = Len(dispatched)]
        /\ UNCHANGED <<dispatched, conn, written>>
    BY <1>3 DEF HubRegister
  <2>2. FeedStatus(c) = "off" /\ FeedStatus(c)' = "on"
    BY <1>t, <2>1 DEF FeedStatus, Upgraded, TypeOK
  <2>3. \A d \in Clients : d # c => FeedStatus(d)' = FeedStatus(d) /\ Pending(d)' = Pending(d)
    BY <1>t, <2>1 DEF FeedStatus, Pending, HandedOut, Newer, TypeOK
  <2>4. Pending(c) = {} /\ Pending(c)' = {}
    <3>1. joined'[c] + 1 .. Len(dispatched') = {}
      BY <1>t, <2>1 DEF TypeOK
    <3>2. HandedOut(c)' = {}
      BY <3>1 DEF HandedOut
    <3>. QED
      BY <2>2, <3>2 DEF Pending
  <2>5. Published' = Published
    BY <2>1 DEF Published
  <2>6. Feed!Subscribe(c)
    BY <2>1, <2>2, <2>3, <2>4, <2>5 DEF Feed!Subscribe, Published, Pending
  <2>. QED
    BY <2>6 DEF Feed!Next
<1>4. ASSUME NEW c \in Clients, HubUnregistersReader(c) PROVE UNCHANGED Feed!feedVars
  <2>1. \A d \in Clients : FeedStatus(d)' = FeedStatus(d)
    BY <1>4, <1>t DEF HubUnregistersReader, FeedStatus, TypeOK
  <2>. QED
    BY <1>4, <2>1, Unnoticed DEF HubUnregistersReader
<1>5. ASSUME NEW c \in Clients, HubUnregistersEvictor(c) PROVE UNCHANGED Feed!feedVars
  BY <1>5, Unnoticed DEF HubUnregistersEvictor, pumpVars, FeedStatus
<1>6. ASSUME NEW c \in Clients, HubSends(c) PROVE UNCHANGED Feed!feedVars
  BY <1>6, Unnoticed DEF HubSends, pumpVars, FeedStatus
<1>7. ASSUME NEW c \in Clients, ServeWS(c) PROVE UNCHANGED Feed!feedVars
  <2>1. \A d \in Clients : FeedStatus(d)' = FeedStatus(d)
    BY <1>7, <1>t DEF ServeWS, FeedStatus, TypeOK
  <2>. QED
    BY <1>7, <2>1, Unnoticed DEF ServeWS, hubVars
<1>8. ASSUME NEW c \in Clients, ReadFails(c) PROVE UNCHANGED Feed!feedVars
  <2>1. \A d \in Clients : FeedStatus(d)' = FeedStatus(d)
    BY <1>8, <1>t DEF ReadFails, FeedStatus, TypeOK
  <2>. QED
    BY <1>8, <2>1, Unnoticed DEF ReadFails, hubVars
<1>9. ASSUME NEW c \in Clients, ReaderCloses(c) PROVE Feed!Next \/ UNCHANGED Feed!feedVars
  <2>1. \A d \in Clients : reader'[d] \in {"absent", "registering"}
                           <=> reader[d] \in {"absent", "registering"}
    BY <1>9, <1>t DEF ReaderCloses, TypeOK
  <2>2. Feed!Cut(c) \/ UNCHANGED Feed!feedVars
    BY <1>9, <1>t, <2>1, CloseCuts DEF ReaderCloses, hubVars, TypeOK
  <2>. QED
    BY <2>2 DEF Feed!Next
<1>10. ASSUME NEW c \in Clients, WriterTakesFrame(c) PROVE UNCHANGED Feed!feedVars
  BY <1>10, Unnoticed DEF WriterTakesFrame, hubVars, FeedStatus
<1>11. ASSUME NEW c \in Clients, WriterExits(c) PROVE Feed!Next \/ UNCHANGED Feed!feedVars
  <2>1. Feed!Cut(c) \/ UNCHANGED Feed!feedVars
    BY <1>11, <1>t, CloseCuts DEF WriterExits, hubVars, TypeOK
  <2>. QED
    BY <2>1 DEF Feed!Next
<1>12. ASSUME NEW c \in Clients, WriteSucceeds(c) PROVE Feed!Next
  <2> DEFINE f == hand[c][1]
  <2>1. /\ writer[c] = "writing" /\ conn[c] = "open"
        /\ written' = [written EXCEPT ![c] = @ \o hand[c]]
        /\ UNCHANGED <<dispatched, joined, reader, conn, todo>>
    BY <1>12 DEF WriteSucceeds, hubVars
  <2>2. Len(hand[c]) = 1 /\ 1 \in 1 .. Len(hand[c]) /\ f \in Handed(c)
    BY <1>t, <2>1 DEF InOrder
  <2>3. FeedStatus(c) = "on" /\ reader[c] \notin {"absent", "registering"}
    BY <1>t, <2>1 DEF FeedStatus, Fresh
  <2>4. f \in HandedOut(c) /\ f \in 1 .. MaxFrames
    <3>1. \A k \in joined[c] + 1 .. Len(dispatched) - (IF c \in todo THEN 1 ELSE 0) :
            k \in joined[c] + 1 .. Len(dispatched) /\ k \in 1 .. Len(dispatched)
      BY <1>t
    <3>2. f \in HandedOut(c)
      BY <2>2, <2>3, <3>1 DEF Handed, HandedOut
    <3>3. \A k \in 1 .. Len(dispatched) : dispatched[k] \in 1 .. MaxFrames
      BY <1>t, HubAssumption DEF Numbered, TypeOK, HubAssumption
    <3>. QED
      BY <2>2, <3>1, <3>2, <3>3 DEF Handed
  <2>5. Newer(c, f)
    BY <1>t, <1>s, <2>2 DEF InOrder, Newer
  <2>6. hand[c] = <<f>>
    BY <1>s, <2>2
  <2>7. written' = [written EXCEPT ![c] = Append(@, f)]
    <3>1. f \in Nat
      BY <2>4
    <3>2. Append(written[c], f) = written[c] \o <<f>>
      BY <1>s, <3>1, AppendIsConcat
    <3> HIDE DEF f
    <3>. QED
      BY <2>1, <2>6, <3>2
  <2>8. \A d \in Clients : FeedStatus(d)' = FeedStatus(d)
    BY <2>1 DEF FeedStatus
  <2>9. \A d \in Clients : d # c => Pending(d)' = Pending(d)
    BY <1>t, <2>1, <2>8 DEF Pending, HandedOut, Newer, TypeOK
  <2>10. Pending(c)' = {g \in Pending(c) : f < g}
    <3>1. /\ DOMAIN written'[c] = 1 .. Len(written[c]) + 1
          /\ \A i \in 1 .. Len(written[c]) : written'[c][i] = written[c][i]
          /\ written'[c][Len(written[c]) + 1] = f
      BY <1>t, <1>s, <2>4, <2>7, AppendProperties DEF TypeOK
    <3>2. \A i : i \in 1 .. Len(written[c]) + 1
                <=> i \in 1 .. Len(written[c]) \/ i = Len(written[c]) + 1
      BY <1>s
    <3>3. \A g : Newer(c, g)' <=> Newer(c, g) /\ f < g
      BY <1>s, <3>1, <3>2 DEF Newer
    <3>4. HandedOut(c)' = HandedOut(c)
      BY <2>1 DEF HandedOut
    <3>. QED
      BY <2>3, <2>8, <3>3, <3>4 DEF Pending
  <2>11. f \in Pending(c) /\ Published' = Published
    BY <2>1, <2>3, <2>4, <2>5 DEF Pending, Published
  <2>12. Feed!Deliver(c, f)
    BY <2>7, <2>8, <2>9, <2>10, <2>11 DEF Feed!Deliver, Published, Pending
  <2>. QED
    BY <2>4, <2>12 DEF Feed!Next
<1>13. ASSUME NEW c \in Clients, PeerVanishes(c) PROVE UNCHANGED Feed!feedVars
  BY <1>13, Unnoticed DEF PeerVanishes, hubVars, FeedStatus
<1>14. CASE UNCHANGED vars
  BY <1>14, Unnoticed DEF vars, hubVars, pumpVars, FeedStatus
<1>. QED
  BY <1>1, <1>2, <1>3, <1>4, <1>5, <1>6, <1>7, <1>8, <1>9, <1>10, <1>11, <1>12,
     <1>13, <1>14
  DEF Next, WriterSeesClose, WriteFails, PingFails

\* Every behaviour of the hub with its pumps and evictors is one of the lossy,
\* ordered feed: a browser gets each frame at most once, in order, none from
\* before it was registered and none after its connection was closed, for any
\* number of browsers and frames and any capacities of the channels.
THEOREM HubImplementsFeed == Spec => ImplementsFeed
<1>1. Spec => []OrderInv
  BY OrderInit, OrderStep, PTL DEF Spec
<1>. QED
  BY <1>1, FeedInit, FeedStep, PTL DEF Spec, ImplementsFeed, Feed!Spec
=============================================================================
