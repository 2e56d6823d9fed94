----------------------------- MODULE HostProofs -----------------------------
(* Theorems about Host, for any callers, traffic, samples, requests and        *)
(* bounds: first the collector, then the ring of samples and the windows cut   *)
(* from it, and what they make of the whole.                                   *)
EXTENDS Host, ListProofs, SequenceTheorems, TLAPS

-----------------------------------------------------------------------------
(* The collector. *)

\* The initial state and every step keep the types.
LEMMA TypeInit == Init => TypeOK
<1> SUFFICES ASSUME Init PROVE TypeOK
  OBVIOUS
<1>1. Zero \in Reading
  BY DEF Zero, Reading
<1>2. now \in 0..MaxTime /\ counter \in Nat /\ carried \in Nat
      /\ resets \in 0..MaxResets /\ credited \in Nat
  BY CollectorAssumption DEF Init
<1>3. hasPrev \in BOOLEAN /\ overlapped \in BOOLEAN
  BY DEF Init
<1>4. rate \in [bytes : Nat, elapsed : Int, slack : Int]
  BY DEF Init
<1>. QED
  BY <1>1, <1>2, <1>3, <1>4 DEF Init, TypeOK

\* ... a rate is never computed from a negative number of bytes.
LEMMA TypeStep == TypeOK /\ [Next]_vars => TypeOK'
<1> SUFFICES ASSUME TypeOK, [Next]_vars PROVE TypeOK'
  OBVIOUS
<1>1. CASE Tick
  BY <1>1, CollectorAssumption DEF Tick, TypeOK, prevVars
<1>2. CASE Shrink
  BY <1>2, CollectorAssumption DEF Shrink, TypeOK, prevVars
<1>3. ASSUME NEW c \in Callers, ReadCounters(c) PROVE TypeOK'
  <2>1. [total |-> counter, time |-> now, read |-> now] \in Reading
    BY CollectorAssumption DEF TypeOK, Reading
  <2>2. overlapped' \in BOOLEAN
    BY <1>3 DEF ReadCounters
  <2>. QED
    BY <1>3, <2>1, <2>2 DEF ReadCounters, TypeOK, hostVars, prevVars
<1>4. ASSUME NEW c \in Callers, ReadClock(c) PROVE TypeOK'
  <2>1. [mine[c] EXCEPT !.time = now] \in Reading
    BY CollectorAssumption DEF TypeOK, Reading
  <2>. QED
    BY <1>4, <2>1 DEF ReadClock, TypeOK, hostVars, prevVars
<1>5. ASSUME NEW c \in Callers, Locked(c) PROVE TypeOK'
  <2>1. Zero \in Reading
    BY DEF Zero, Reading
  <2>2. Bytes(mine[c]) \in Nat
    BY <1>5 DEF Bytes, TypeOK, Reading
  <2>3. mine[c].time - prev.time \in Int /\ prev.time - prev.read \in Int
    BY DEF TypeOK, Reading
  <2>. QED
    BY <1>5, <2>1, <2>2, <2>3 DEF Locked, Leaves, TypeOK, hostVars
<1>6. CASE UNCHANGED vars
  BY <1>6 DEF vars, hostVars, prevVars, TypeOK
<1>. QED
  BY <1>1, <1>2, <1>3, <1>4, <1>5, <1>6 DEF Next

\* The state keeps its types; in particular a rate is never computed from a
\* negative number of bytes.
THEOREM TypeCorrect == Spec => []TypeOK
BY TypeInit, TypeStep, PTL DEF Spec

-----------------------------------------------------------------------------

\* What a sum that was x and is y now has grown by.
Growth(x, y) == IF y >= x THEN y - x ELSE 0

\* What has been credited once c's call is through.
Due(c) == credited + (IF hasPrev THEN Growth(prev.total, mine[c].total) ELSE 0)

\* While calls do not overlap, one caller reads at a time, and what is credited,
\* together with what prev and the readings under way are behind the counters,
\* is no more than was carried.
Account ==
  /\ \A c, d \in Callers : pc[c] # "idle" /\ pc[d] # "idle" => c = d
  /\ hasPrev => credited + Growth(prev.total, counter) <= carried
  /\ ~hasPrev => credited = 0
  /\ \A c \in Callers :
       pc[c] # "idle" => Due(c) + Growth(mine[c].total, counter) <= carried

OnceInv == TypeOK /\ (~overlapped => Account)

\* Nothing is credited and nobody reads at first.
LEMMA OnceInit == Init => OnceInv
BY TypeInit DEF Init, OnceInv, Account

\* Every step keeps the account.
LEMMA OnceStep == OnceInv /\ [Next]_vars => OnceInv'
<1> SUFFICES ASSUME OnceInv, [Next]_vars, ~overlapped' PROVE Account'
  BY TypeStep DEF OnceInv
<1>t. TypeOK /\ TypeOK'
  BY TypeStep DEF OnceInv
<1>a. ~overlapped /\ Account
  <2>1. ~overlapped
    <3>1. CASE Tick \/ Shrink \/ UNCHANGED vars
      BY <3>1 DEF Tick, Shrink, vars
    <3>2. ASSUME NEW c \in Callers, ReadCounters(c) \/ ReadClock(c) \/ Locked(c)
          PROVE ~overlapped
      BY <3>2 DEF ReadCounters, ReadClock, Locked
    <3>. QED
      BY <3>1, <3>2 DEF Next
  <2>. QED
    BY <2>1 DEF OnceInv
<1>1. CASE Tick
  BY <1>1, <1>t, <1>a DEF Tick, prevVars, TypeOK, Reading, Account, Due, Growth
<1>2. CASE Shrink
  BY <1>2, <1>t, <1>a DEF Shrink, prevVars, TypeOK, Reading, Account, Due, Growth
<1>3. ASSUME NEW c \in Callers, ReadCounters(c) PROVE Account'
  <2>1. \A d \in Callers : pc[d] = "idle" /\ (pc'[d] # "idle" => d = c)
    BY <1>3, <1>t DEF ReadCounters, TypeOK
  <2>2. mine'[c].total = counter
    BY <1>3, <1>t DEF ReadCounters, TypeOK
  <2>. QED
    BY <1>3, <1>t, <1>a, <2>1, <2>2
    DEF ReadCounters, hostVars, prevVars, TypeOK, Reading, Account, Due, Growth
<1>4. ASSUME NEW c \in Callers, ReadClock(c) PROVE Account'
  <2>1. \A d \in Callers : /\ pc'[d] # "idle" <=> pc[d] # "idle"
                            /\ mine'[d].total = mine[d].total
    BY <1>4, <1>t DEF ReadClock, TypeOK, Reading
  <2>. QED
    BY <1>4, <1>a, <2>1 DEF ReadClock, hostVars, prevVars, Account, Due
<1>5. ASSUME NEW c \in Callers, Locked(c) PROVE Account'
  <2>1. \A d \in Callers : pc'[d] = "idle"
    BY <1>5, <1>t, <1>a DEF Locked, TypeOK, Account
  <2>2. Bytes(mine[c]) + credited <= Due(c)
    BY <1>t, <1>5 DEF Bytes, Due, Growth, TypeOK, Reading
  <2>3. Due(c) + Growth(mine[c].total, counter) <= carried
    BY <1>5, <1>a DEF Locked, Account
  <2>4. prev'.total = mine[c].total /\ credited' = credited + Bytes(mine[c]) /\ hasPrev'
        /\ counter' = counter /\ carried' = carried
    BY <1>5 DEF Locked, Leaves, hostVars
  <2>5. Growth(mine[c].total, counter) \in Nat /\ Due(c) \in Nat /\ Bytes(mine[c]) \in Nat
    BY <1>t DEF Growth, Due, Bytes, TypeOK, Reading
  <2>6. credited' + Growth(prev'.total, counter') <= carried'
    BY <1>t, <2>2, <2>3, <2>4, <2>5 DEF TypeOK
  <2>. QED
    BY <2>1, <2>4, <2>6 DEF Account, Growth
<1>6. CASE UNCHANGED vars
  BY <1>6, <1>a DEF vars, hostVars, prevVars, Account, Due
<1>. QED
  BY <1>1, <1>2, <1>3, <1>4, <1>5, <1>6 DEF Next

\* While calls do not overlap no byte is counted in two rates: what all rates were
\* computed from is no more than the interfaces carried, for any callers, any
\* traffic and any number of counters that start again.
THEOREM EachByteOnce == Spec => []CreditedOnce
<1>1. OnceInv => CreditedOnce
  BY DEF OnceInv, Account, CreditedOnce, TypeOK, Reading, Growth
<1>. QED
  BY OnceInit, OnceStep, <1>1, PTL DEF Spec
-----------------------------------------------------------------------------

\* What the interfaces carry at most in n units of time.
Capacity(n) == Peak * n

\* A capacity grows by the peak of each interval.
LEMMA CapacityAdds ==
  ASSUME NEW m \in Int, NEW n \in Int
  PROVE  /\ Capacity(m) \in Int /\ Capacity(n) \in Int
         /\ Capacity(n + 1) = Capacity(n) + Peak
         /\ m <= n => Capacity(m) <= Capacity(n)
         /\ 0 <= n => 0 <= Capacity(n)
<1>1. Peak \in Nat
  BY CollectorAssumption
<1>2. Capacity(m) \in Int /\ Capacity(n) \in Int /\ Capacity(n + 1) = Capacity(n) + Peak
  BY <1>1 DEF Capacity
<1>3. \A a, b \in Int : a <= b => Peak * a <= Peak * b
  BY <1>1, SMTT(30)
<1>4. 0 <= n => 0 <= Capacity(n)
  BY <1>1, <1>3 DEF Capacity
<1>. QED
  BY <1>2, <1>3, <1>4 DEF Capacity

\* The sum y was read when the interfaces could have carried the difference to
\* x since x was read, or y is the older and no larger of the two.
Plausible(x, y) ==
  \/ y.total - x.total <= Capacity(y.read - x.read)
  \/ y.read <= x.read /\ y.total <= x.total

\* A reading is not from the future, and the sum has not grown faster since.
Sound(x) ==
  /\ x.read <= x.time /\ x.time <= now
  /\ counter - x.total <= Capacity(now - x.read)
  /\ resets = 0 => x.total <= counter

Busy(c) == pc[c] # "idle"

\* Every reading that is kept or under way is sound and plausible next to those
\* it may be compared with: a call that overtakes another leaves its reading for
\* the one overtaken.
Readings ==
  /\ hasPrev => Sound(prev)
  /\ \A c \in Callers : Busy(c) => Sound(mine[c])
  /\ \A c \in Callers : hasPrev /\ Busy(c) => Plausible(prev, mine[c])
  /\ \A c, d \in Callers : Busy(c) /\ Busy(d) => c = d \/ Plausible(mine[c], mine[d])
  /\ ~overlapped => \A c, d \in Callers : Busy(c) /\ Busy(d) => c = d

Premise == ~overlapped \/ resets = 0
HonestInv == TypeOK /\ (Premise => Readings /\ RateHonest)

\* At the start there is no rate.
LEMMA HonestInit == Init => HonestInv
<1> SUFFICES ASSUME Init PROVE Readings /\ RateHonest
  BY TypeInit DEF HonestInv
<1>1. Readings
  BY DEF Init, Readings, Busy
<1>. QED
  BY <1>1 DEF Init, RateHonest

\* The clock and the counters move, the readings stay.
LEMMA SoundTick ==
  ASSUME TypeOK, NEW x \in Reading, Sound(x), Tick PROVE Sound(x)'
<1>1. PICK bytes \in 0 .. Peak : counter' = counter + bytes /\ now' = now + 1
  BY DEF Tick
<1>2. now - x.read \in Int /\ now' - x.read = (now - x.read) + 1
  BY <1>1, CollectorAssumption DEF TypeOK, Reading
<1>3. Capacity(now' - x.read) = Capacity(now - x.read) + Peak
      /\ Capacity(now - x.read) \in Int
  BY <1>2, CapacityAdds
<1>4. counter' - x.total <= Capacity(now' - x.read)
  BY <1>1, <1>3, CollectorAssumption DEF Sound, TypeOK, Reading
<1>. QED
  BY <1>1, <1>4, CollectorAssumption DEF Sound, Tick, TypeOK, Reading

\* A reading that is sound stays so when the counter starts again.
LEMMA SoundShrink ==
  ASSUME TypeOK, NEW x \in Reading, Sound(x), Shrink PROVE Sound(x)'
<1>1. now - x.read \in Int
  BY DEF TypeOK, Reading
<1>2. Capacity(now - x.read) \in Int
  BY <1>1, CapacityAdds
<1>. QED
  BY <1>2, CollectorAssumption DEF Sound, Shrink, TypeOK, Reading, Capacity

\* Every step but Locked leaves prev and the last rate alone.
LEMMA HonestStep == HonestInv /\ [Next]_vars => HonestInv'
<1> SUFFICES ASSUME HonestInv, [Next]_vars, Premise' PROVE Readings' /\ RateHonest'
  BY TypeStep DEF HonestInv
<1>t. TypeOK
  BY DEF HonestInv
<1>a. Premise /\ Readings /\ RateHonest
  <2>1. resets \in Nat /\ (resets' = resets \/ resets' = resets + 1)
        /\ (overlapped => overlapped')
    <3>1. resets \in Nat
      BY <1>t, CollectorAssumption DEF TypeOK
    <3>2. overlapped => overlapped'
      <4>1. ASSUME NEW c \in Callers, ReadCounters(c) \/ ReadClock(c) \/ Locked(c)
            PROVE  overlapped => overlapped'
        BY <4>1, Zenon DEF ReadCounters, ReadClock, Locked
      <4>2. CASE Tick \/ Shrink \/ UNCHANGED vars
        BY <4>2, Zenon DEF Tick, Shrink, vars
      <4>. QED
        BY <4>1, <4>2, Zenon DEF Next
    <3>3. resets' = resets \/ resets' = resets + 1
      <4>1. ASSUME NEW c \in Callers, ReadCounters(c) \/ ReadClock(c) \/ Locked(c)
            PROVE  resets' = resets
        BY <4>1, Zenon DEF ReadCounters, ReadClock, Locked, hostVars
      <4>2. CASE Tick \/ UNCHANGED vars
        BY <4>2, Zenon DEF Tick, vars, hostVars
      <4>3. CASE Shrink
        BY <4>3 DEF Shrink
      <4>. QED
        BY <4>1, <4>2, <4>3, Zenon DEF Next
    <3>. QED
      BY <3>1, <3>2, <3>3
  <2>2. Premise
    BY <2>1 DEF Premise
  <2>. QED
    BY <2>2 DEF HonestInv
<1>r. /\ prev \in Reading /\ \A c \in Callers : mine[c] \in Reading
      /\ now \in Nat /\ counter \in Nat
  BY <1>t, CollectorAssumption DEF TypeOK
<1>1. CASE Tick
  <2>1. RateHonest'
    BY <1>1, <1>a DEF Tick, prevVars, RateHonest
  <2>2. UNCHANGED <<prev, hasPrev, mine, pc, overlapped>>
    BY <1>1 DEF Tick, prevVars
  <2>3. /\ hasPrev => Sound(prev)'
        /\ \A c \in Callers : Busy(c) => Sound(mine[c])'
    BY <1>1, <1>t, <1>a, <1>r, <2>2, SoundTick DEF Readings, Sound
  <2>. QED
    BY <1>a, <2>1, <2>2, <2>3 DEF Readings, Busy, Plausible, Sound
<1>2. CASE Shrink
  <2>1. RateHonest'
    BY <1>2, <1>a DEF Shrink, prevVars, RateHonest, Premise
  <2>2. UNCHANGED <<prev, hasPrev, mine, pc, overlapped>>
    BY <1>2 DEF Shrink, prevVars
  <2>3. /\ hasPrev => Sound(prev)'
        /\ \A c \in Callers : Busy(c) => Sound(mine[c])'
    BY <1>2, <1>t, <1>a, <1>r, <2>2, SoundShrink DEF Readings, Sound
  <2>. QED
    BY <1>a, <2>1, <2>2, <2>3 DEF Readings, Busy, Plausible, Sound
<1>3. ASSUME NEW c \in Callers, ReadCounters(c) PROVE Readings' /\ RateHonest'
  <2> DEFINE y == [total |-> counter, time |-> now, read |-> now]
  <2>1. /\ mine'[c] = y /\ pc[c] = "idle"
        /\ \A d \in Callers \ {c} : mine'[d] = mine[d] /\ pc'[d] = pc[d]
        /\ UNCHANGED <<now, counter, resets, prev, hasPrev, rate>>
        /\ overlapped' <=> (overlapped \/ \E d \in Callers : Busy(d))
    BY <1>3, <1>t DEF ReadCounters, hostVars, prevVars, TypeOK, Busy
  <2>2. y.total = counter /\ y.time = now /\ y.read = now /\ y \in Reading
    BY <1>r DEF Reading
  <2> HIDE DEF y
  <2>3. RateHonest'
    BY <2>1, <1>a DEF RateHonest, Premise
  <2>4. now - now = 0 /\ 0 <= Capacity(0) /\ Capacity(0) \in Int /\ counter - counter = 0
    BY <1>r, CapacityAdds
  <2>5. Sound(y)
    BY <1>r, <2>2, <2>4 DEF Sound
  <2>6. \A x : Sound(x) => Plausible(x, y)
    BY <2>2 DEF Sound, Plausible
  <2>7. ASSUME resets = 0, NEW x \in Reading, Sound(x) PROVE Plausible(y, x)
    BY <1>r, <2>2, <2>7 DEF Sound, Plausible, Reading
  <2>8. hasPrev' => Sound(prev)'
    BY <1>a, <2>1 DEF Readings, Sound
  <2>9. ASSUME NEW d \in Callers, Busy(d)' PROVE Sound(mine[d])'
    BY <1>a, <2>1, <2>5, <2>9 DEF Readings, Sound, Busy
  <2>10. ASSUME NEW d \in Callers, hasPrev', Busy(d)' PROVE Plausible(prev, mine[d])'
    <3>1. CASE d = c
      BY <1>a, <2>1, <2>6, <2>10, <3>1 DEF Readings, Plausible
    <3>2. CASE d # c
      BY <1>a, <2>1, <2>10, <3>2 DEF Readings, Plausible, Busy
    <3>. QED
      BY <3>1, <3>2
  <2>11. ASSUME NEW d \in Callers, NEW e \in Callers, Busy(d)', Busy(e)', d # e
         PROVE  overlapped' /\ Plausible(mine[d], mine[e])'
    <3>1. overlapped'
      BY <1>a, <2>1, <2>11 DEF Busy
    <3>2. resets = 0
      BY <2>1, <3>1 DEF Premise
    <3>3. CASE d = c
      BY <1>a, <1>r, <2>1, <2>7, <2>11, <3>2, <3>3 DEF Readings, Plausible, Busy
    <3>4. CASE e = c
      BY <1>a, <2>1, <2>6, <2>11, <3>4 DEF Readings, Plausible, Busy
    <3>5. CASE d # c /\ e # c
      BY <1>a, <2>1, <2>11, <3>5 DEF Readings, Plausible, Busy
    <3>. QED
      BY <3>1, <3>3, <3>4, <3>5
  <2>. QED
    BY <2>3, <2>8, <2>9, <2>10, <2>11 DEF Readings
<1>4. ASSUME NEW c \in Callers, ReadClock(c) PROVE Readings' /\ RateHonest'
  <2>1. /\ mine'[c] = [mine[c] EXCEPT !.time = now] /\ Busy(c)
        /\ \A d \in Callers \ {c} : mine'[d] = mine[d]
        /\ \A d \in Callers : Busy(d)' <=> Busy(d)
        /\ UNCHANGED <<now, counter, resets, prev, hasPrev, rate, overlapped>>
    BY <1>4, <1>t DEF ReadClock, hostVars, prevVars, TypeOK, Busy
  <2>2. /\ mine'[c].total = mine[c].total /\ mine'[c].read = mine[c].read
        /\ mine'[c].time = now
    BY <1>r, <2>1 DEF Reading
  <2>3. RateHonest'
    BY <2>1, <1>a DEF RateHonest, Premise
  <2>4. Sound(mine[c])'
    BY <1>a, <1>r, <2>1, <2>2 DEF Readings, Sound, Reading
  <2>5. \A d \in Callers : mine'[d].total = mine[d].total /\ mine'[d].read = mine[d].read
    BY <2>1, <2>2
  <2>6. \A d \in Callers : Busy(d)' => Sound(mine[d])'
    BY <1>a, <2>1, <2>4 DEF Readings, Sound
  <2>. QED
    BY <1>a, <2>1, <2>3, <2>5, <2>6 DEF Readings, Plausible, Sound
<1>5. ASSUME NEW c \in Callers, Locked(c) PROVE Readings' /\ RateHonest'
  <2> DEFINE m == mine[c]
  <2>1. /\ prev' = m /\ Busy(c) /\ ~(Busy(c)') /\ m \in Reading
        /\ \A d \in Callers \ {c} : mine'[d] = mine[d] /\ (Busy(d)' <=> Busy(d))
        /\ UNCHANGED <<now, counter, resets, overlapped>>
        /\ rate' = [bytes |-> Bytes(m), elapsed |-> m.time - prev.time,
                     slack |-> prev.time - prev.read]
    BY <1>5, <1>t DEF Locked, Leaves, hostVars, TypeOK, Busy
  <2>2. Readings'
    BY <1>a, <2>1 DEF Readings, Plausible, Sound
  <2>3. ASSUME Bytes(m) = 0 PROVE RateHonest'
    BY <2>1, <2>3 DEF RateHonest
  <2>4. ASSUME Bytes(m) # 0 PROVE RateHonest'
    <3>1. /\ hasPrev /\ m.time > prev.time /\ m.total >= prev.total
          /\ Bytes(m) = m.total - prev.total
      BY <2>4 DEF Bytes
    <3>2. Plausible(prev, m) /\ Sound(prev) /\ Sound(m)
      BY <1>a, <2>1, <3>1 DEF Readings
    <3>3. Bytes(m) <= Capacity(m.read - prev.read)
      BY <1>r, <2>1, <2>4, <3>1, <3>2 DEF Plausible, Reading
    <3>4. /\ m.read - prev.read \in Int
          /\ (m.time - prev.time) + (prev.time - prev.read) \in Int
          /\ m.read - prev.read <= (m.time - prev.time) + (prev.time - prev.read)
      BY <1>r, <2>1, <3>2 DEF Sound, Reading
    <3>5. Capacity(m.read - prev.read)
            <= Capacity((m.time - prev.time) + (prev.time - prev.read))
      BY <3>4, CapacityAdds
    <3>6. Bytes(m) <= Capacity((m.time - prev.time) + (prev.time - prev.read))
      <4>1. Bytes(m) \in Int
        BY <1>r, <2>1, <3>1 DEF Reading
      <4>2. /\ Capacity(m.read - prev.read) \in Int
            /\ Capacity((m.time - prev.time) + (prev.time - prev.read)) \in Int
        BY <3>4, CapacityAdds
      <4>. QED
        BY <3>3, <3>5, <4>1, <4>2
    <3>7. rate'.bytes <= Peak * (rate'.elapsed + rate'.slack)
      BY <2>1, <3>6 DEF Capacity
    <3>. QED
      BY <3>7 DEF RateHonest
  <2>. QED
    BY <2>2, <2>3, <2>4
<1>6. CASE UNCHANGED vars
  BY <1>6, <1>a DEF vars, hostVars, prevVars, RateHonest, Readings, Sound, Plausible, Busy
<1>. QED
  BY <1>1, <1>2, <1>3, <1>4, <1>5, <1>6 DEF Next

\* A rate that is shown is one the interfaces could have carried, in its own
\* time and the time the previous call took between its two readings, for any
\* number of overlapping callers as long as no counter starts again, and for
\* calls that do not overlap whatever the counters do.
THEOREM RatesHonest == Spec => []RateHonest
<1>1. HonestInv => RateHonest
  BY DEF HonestInv, Premise, RateHonest
<1>. QED
  BY HonestInit, HonestStep, <1>1, PTL DEF Spec

-----------------------------------------------------------------------------
(* The history of samples: first that its lists are those of Lists.        *)

\* The sums of the ring are those of Lists.
LEMMA SameSums == \A s : Ring!SumList(s) = SumList(s)
<1>1. \A s : Ring!Sums(s) = Sums(s)
  BY DEF Ring!Sums, Sums
<1>. QED
  BY <1>1 DEF Ring!SumList, SumList

\* So are its sublists.
LEMMA SameAt == \A s, S : Ring!At(s, S) = At(s, S)
<1>0. \A S : Ring!Cardinality(S) = Cardinality(S)
  BY DEF Ring!Cardinality, Cardinality
<1>1. \A S, i : Ring!Rank(S, i) = Rank(S, i)
  BY <1>0 DEF Ring!Rank, Rank
<1>2. \A S, k : Ring!Nth(S, k) = Nth(S, k)
  BY <1>1 DEF Ring!Nth, Nth
<1>. QED
  BY <1>0, <1>2 DEF Ring!At, At

\* What the constants are.
RingSensible ==
  /\ RingRetain \in Nat /\ RingLen \in Nat \ {0} /\ RingValues \subseteq Nat
  /\ RingTime \in Nat /\ RingRecords \in Nat /\ RingBacks \in Nat
  /\ RingQueries \subseteq [dur : Int, points : Int]

\* Samples with any values: those of a ring, and those of a filled one.
AnySample == [t : Int, v : Nat]

\* The larger of two numbers, as Max gives it.
LEMMA MaxOfTwo ==
  ASSUME NEW a \in Int, NEW b \in Int
  PROVE  /\ Ring!Max({a, b}) \in {a, b} /\ a <= Ring!Max({a, b}) /\ b <= Ring!Max({a, b})
<1>1. \E x \in {a, b} : \A y \in {a, b} : x >= y
  OBVIOUS
<1>. QED
  BY <1>1 DEF Ring!Max

-----------------------------------------------------------------------------
(* Averaging.                                                              *)

\* The state of the loop over the samples of a window.
LoopState == [out : Seq(Ring!Bucket), acc : [t : Int, v : Nat, n : Nat], cur : Int]

\* The slice of a sample is a number.
LEMMA SliceType ==
  ASSUME NEW s \in AnySample, NEW start \in Int, NEW dur \in Nat \ {0}
  PROVE  Ring!Slice(s, start, dur) \in Int
<1>1. s.t - start \in Int
  BY DEF AnySample
<1>2. ASSUME NEW a \in Int PROVE Ring!GoDiv(a, dur) \in Int
  BY DEF Ring!GoDiv
<1>. QED
  BY <1>1, <1>2 DEF Ring!Slice

\* flush ends the bucket that has samples, and does nothing for one that has none.
LEMMA FlushProperties ==
  ASSUME NEW st \in LoopState
  PROVE  /\ Ring!Flush(st) \in LoopState /\ Ring!Flush(st).acc = Ring!EmptyAcc /\ Ring!Flush(st).cur = st.cur
         /\ st.acc.n = 0 => Ring!Flush(st).out = st.out
         /\ st.acc.n # 0 => Ring!Flush(st).out = Append(st.out, Ring!Average(st.acc))
         /\ st.acc.n # 0 => Ring!Average(st.acc) \in Ring!Bucket
<1>1. ASSUME st.acc.n # 0 PROVE Ring!Average(st.acc) \in Ring!Bucket
  <2>1. st.acc.t \in Int /\ st.acc.v \in Nat /\ st.acc.n \in Nat \ {0}
    BY <1>1 DEF LoopState
  <2>2. st.acc.t \div st.acc.n \in Int
    BY <2>1
  <2>. QED
    BY <2>1, <2>2 DEF Ring!Average, Ring!Bucket
<1>2. Ring!EmptyAcc \in [t : Int, v : Nat, n : Nat]
  BY DEF Ring!EmptyAcc
<1> DEFINE out == IF st.acc.n = 0 THEN st.out ELSE Append(st.out, Ring!Average(st.acc))
<1>3. out \in Seq(Ring!Bucket)
  BY <1>1 DEF LoopState
<1>4. Ring!Flush(st) = [st EXCEPT !.out = out, !.acc = Ring!EmptyAcc]
  BY DEF Ring!Flush, LoopState
<1> HIDE DEF out
<1>5. Ring!Flush(st) \in LoopState /\ Ring!Flush(st).acc = Ring!EmptyAcc /\ Ring!Flush(st).cur = st.cur
      /\ Ring!Flush(st).out = out
  BY <1>2, <1>3, <1>4 DEF LoopState
<1>. QED
  BY <1>1, <1>5 DEF out

\* A round of the loop, with or without a flush.
LEMMA ConsumeProperties ==
  ASSUME NEW st \in LoopState, NEW s \in AnySample, NEW start \in Int, NEW dur \in Nat \ {0}
  PROVE  LET idx  == Ring!Slice(s, start, dur)
             base == IF idx # st.cur THEN Ring!Flush(st) ELSE st
             next == Ring!Consume(st, s, start, dur)
         IN  /\ next \in LoopState /\ next.out = base.out /\ next.cur = idx
             /\ next.acc = [t |-> base.acc.t + s.t, v |-> base.acc.v + s.v, n |-> base.acc.n + 1]
<1> DEFINE idx  == Ring!Slice(s, start, dur)
           base == IF idx # st.cur THEN Ring!Flush(st) ELSE st
           st1  == [base EXCEPT !.cur = idx]
           acc  == [t |-> base.acc.t + s.t, v |-> base.acc.v + s.v, n |-> base.acc.n + 1]
<1>1. idx \in Int
  BY SliceType
<1>2. base \in LoopState
  BY FlushProperties
<1>3. Ring!Consume(st, s, start, dur) = [st1 EXCEPT !.acc = acc]
  <2>1. CASE idx # st.cur
    <3>1. base = Ring!Flush(st) /\ st1.acc = base.acc
      BY <2>1, <1>2 DEF LoopState
    <3>. QED
      BY <2>1, <3>1 DEF Ring!Consume
  <2>2. CASE idx = st.cur
    <3>1. base = st /\ st1 = st
      BY <2>2, <1>2 DEF LoopState
    <3>. QED
      BY <2>2, <3>1 DEF Ring!Consume
  <2>. QED
    BY <2>1, <2>2
<1> HIDE DEF idx, base
<1>4. acc \in [t : Int, v : Nat, n : Nat]
  BY <1>2, SMTT(30) DEF LoopState, AnySample
<1> HIDE DEF acc
<1>5. /\ [st1 EXCEPT !.acc = acc] \in LoopState
      /\ [st1 EXCEPT !.acc = acc].out = base.out
      /\ [st1 EXCEPT !.acc = acc].cur = idx
      /\ [st1 EXCEPT !.acc = acc].acc = acc
  BY <1>1, <1>2, <1>4 DEF LoopState
<1>. QED
  BY <1>3, <1>5 DEF idx, base, acc

\* The arguments of the loop.
LoopArgs(src, start, dur) == src \in Seq(AnySample) /\ start \in Int /\ dur \in Nat \ {0}

LoopStart == [out |-> <<>>, acc |-> Ring!EmptyAcc, cur |-> -1]

\* The loop goes from each state to the next by one round.
LEMMA LoopRecurs ==
  ASSUME NEW src, NEW start, NEW dur, LoopArgs(src, start, dur)
  PROVE  /\ Ring!Loop(src, start, dur)[0] = LoopStart
         /\ \A i \in 1 .. Len(src) :
              Ring!Loop(src, start, dur)[i] = Ring!Consume(Ring!Loop(src, start, dur)[i - 1], src[i], start, dur)
         /\ \A i \in 0 .. Len(src) : Ring!Loop(src, start, dur)[i] \in LoopState
<1>. src \in Seq(AnySample) /\ start \in Int /\ dur \in Nat \ {0}
  BY DEF LoopArgs
<1> DEFINE n == Len(src)
           step == [i \in 1 .. n |-> [st \in LoopState |-> Ring!Consume(st, src[i], start, dur)]]
           IsLoop(g) == g = [i \in 0 .. Len(src) |->
                          IF i = 0 THEN LoopStart ELSE Ring!Consume(g[i - 1], src[i], start, dur)]
<1>1. n \in Nat /\ \A i \in 1 .. n : src[i] \in AnySample
  OBVIOUS
<1>2. \A i \in 1 .. n : \A st \in LoopState : Ring!Consume(st, src[i], start, dur) \in LoopState
  BY <1>1, ConsumeProperties
<1>3. step \in [1 .. n -> [LoopState -> LoopState]]
  BY <1>2
<1>4. \A st \in LoopState : \A i \in 1 .. n : step[i][st] = Ring!Consume(st, src[i], start, dur)
  OBVIOUS
<1> HIDE DEF step
<1>5. LoopStart \in LoopState
  BY DEF LoopStart, LoopState, Ring!EmptyAcc
<1>6. PICK f \in [0 .. n -> LoopState] :
        f[0] = LoopStart /\ \A i \in 1 .. n : f[i] = step[i][f[i - 1]]
  <2> HIDE DEF n
  <2>1. Steps(LoopState, LoopStart, n, step)
    BY <1>1, <1>3, <1>5 DEF Steps
  <2>. QED
    BY <2>1, Recursion
<1>7. IsLoop(f)
  <2>1. ASSUME NEW i \in 0 .. n
        PROVE  f[i] = IF i = 0 THEN LoopStart ELSE Ring!Consume(f[i - 1], src[i], start, dur)
    <3>1. CASE i = 0
      BY <1>6, <3>1
    <3>2. CASE i # 0
      <4>1. i \in 1 .. n /\ i - 1 \in 0 .. n
        BY <1>1, <3>2
      <4>. QED
        BY <1>4, <1>6, <3>2, <4>1
    <3>. QED
      BY <3>1, <3>2
  <2>2. f = [i \in 0 .. n |-> f[i]]
    BY <1>6
  <2>. QED
    BY <2>1, <2>2
<1>8. Ring!Loop(src, start, dur) = CHOOSE g : IsLoop(g)
  BY DEF Ring!Loop, LoopStart
<1> DEFINE F == Ring!Loop(src, start, dur)
<1> HIDE DEF IsLoop, F
<1>9. IsLoop(F)
  BY <1>7, <1>8 DEF F
<1>10. F = [i \in 0 .. n |-> IF i = 0 THEN LoopStart ELSE Ring!Consume(F[i - 1], src[i], start, dur)]
  BY <1>9 DEF IsLoop
<1> HIDE DEF n
<1>11. F[0] = LoopStart
  BY <1>1, <1>10
<1>12. \A i \in 1 .. n : F[i] = Ring!Consume(F[i - 1], src[i], start, dur)
  BY <1>1, <1>10
<1> DEFINE T == {i \in Nat : i <= n => F[i] \in LoopState}
<1>13. 0 \in T
  BY <1>5, <1>11
<1>14. ASSUME NEW i \in Nat, i \in T PROVE i + 1 \in T
  <2>1. ASSUME i + 1 <= n PROVE F[i + 1] \in LoopState
    <3>1. i + 1 \in 1 .. n /\ (i + 1) - 1 = i /\ i <= n
      BY <1>1, <2>1
    <3>2. F[i] \in LoopState /\ F[i + 1] = Ring!Consume(F[i], src[i + 1], start, dur)
      BY <1>12, <1>14, <3>1
    <3>. QED
      BY <1>2, <3>1, <3>2
  <2>. QED
    BY <2>1
<1> HIDE DEF T
<1>15. \A i \in Nat : i \in T
  BY <1>13, <1>14, Induction
<1>16. \A i \in 0 .. n : F[i] \in LoopState
  BY <1>1, <1>15 DEF T
<1>. QED
  BY <1>11, <1>12, <1>16 DEF F, n

\* One more bucket adds its samples and its sum.
LEMMA CountAppend ==
  /\ Ring!Count(<<>>) = 0 /\ Ring!Total(<<>>) = 0
  /\ \A out \in Seq(Ring!Bucket) : Ring!Count(out) \in Int /\ Ring!Total(out) \in Int
  /\ \A out \in Seq(Ring!Bucket), b \in Ring!Bucket :
       /\ Ring!Count(Append(out, b)) = Ring!Count(out) + b.n
       /\ Ring!Total(Append(out, b)) = Ring!Total(out) + b.sum
<1>1. Ring!Count(<<>>) = 0 /\ Ring!Total(<<>>) = 0
  <2>1. [i \in DOMAIN <<>> |-> <<>>[i].n] = <<>> /\ [i \in DOMAIN <<>> |-> <<>>[i].sum] = <<>>
    OBVIOUS
  <2>. QED
    BY <2>1, SumListProperties, SameSums DEF Ring!Count, Ring!Total
<1>2. ASSUME NEW out \in Seq(Ring!Bucket)
      PROVE  /\ [i \in DOMAIN out |-> out[i].n] \in Seq(Int)
             /\ [i \in DOMAIN out |-> out[i].sum] \in Seq(Int)
  <2>0. \A i \in DOMAIN out : out[i] \in Ring!Bucket
    OBVIOUS
  <2>1. \A i \in DOMAIN out : out[i].n \in Int /\ out[i].sum \in Int
    BY <2>0 DEF Ring!Bucket
  <2>2. DOMAIN out = 1 .. Len(out) /\ Len(out) \in Nat
    OBVIOUS
  <2>. QED
    BY <2>1, <2>2
<1>3. \A out \in Seq(Ring!Bucket) : Ring!Count(out) \in Int /\ Ring!Total(out) \in Int
  BY <1>2, SumListProperties, SameSums DEF Ring!Count, Ring!Total
<1>4. ASSUME NEW out \in Seq(Ring!Bucket), NEW b \in Ring!Bucket
      PROVE  /\ Ring!Count(Append(out, b)) = Ring!Count(out) + b.n
             /\ Ring!Total(Append(out, b)) = Ring!Total(out) + b.sum
  <2> DEFINE ns == [i \in DOMAIN out |-> out[i].n]
             vs == [i \in DOMAIN out |-> out[i].sum]
             longer == Append(out, b)
  <2>1. b.n \in Int /\ b.sum \in Int
    BY DEF Ring!Bucket
  <2>2. /\ DOMAIN out = 1 .. Len(out) /\ Len(out) \in Nat
        /\ DOMAIN longer = 1 .. Len(out) + 1 /\ longer[Len(out) + 1] = b
        /\ \A i \in 1 .. Len(out) : longer[i] = out[i]
    OBVIOUS
  <2> HIDE DEF longer
  <2>3. [i \in DOMAIN longer |-> longer[i].n] = Append(ns, b.n)
    BY <2>1, <2>2, <1>2
  <2>4. [i \in DOMAIN longer |-> longer[i].sum] = Append(vs, b.sum)
    BY <2>1, <2>2, <1>2
  <2>5. ns \in Seq(Int) /\ vs \in Seq(Int)
    BY <1>2
  <2>6. Ring!Count(longer) = SumList(Append(ns, b.n)) /\ Ring!Total(longer) = SumList(Append(vs, b.sum))
    BY <2>3, <2>4, SameSums DEF Ring!Count, Ring!Total
  <2> HIDE DEF ns, vs
  <2>7. /\ SumList(Append(ns, b.n)) = SumList(ns) + b.n
        /\ SumList(Append(vs, b.sum)) = SumList(vs) + b.sum
    BY <2>1, <2>5, SumListProperties
  <2>. QED
    BY <2>6, <2>7, SameSums DEF Ring!Count, Ring!Total, longer, ns, vs
<1>. QED
  BY <1>1, <1>3, <1>4

\* The values of a list of samples.
ValuesOf(src) == [i \in DOMAIN src |-> src[i].v]

\* The values of samples are numbers, one for each.
LEMMA ValuesType ==
  ASSUME NEW src \in Seq(AnySample)
  PROVE  /\ ValuesOf(src) \in Seq(Int) /\ Len(ValuesOf(src)) = Len(src)
         /\ \A i \in 1 .. Len(src) : ValuesOf(src)[i] = src[i].v /\ src[i].v \in Nat
<1>0. \A i \in DOMAIN src : src[i] \in AnySample
  OBVIOUS
<1>1. \A i \in DOMAIN src : src[i].v \in Nat
  BY <1>0 DEF AnySample
<1>2. DOMAIN src = 1 .. Len(src) /\ Len(src) \in Nat
  OBVIOUS
<1>. QED
  BY <1>1, <1>2 DEF ValuesOf

\* After i rounds the buckets and the accumulator hold the first i samples.
Holds(src, st, i) ==
  /\ Ring!Count(st.out) + st.acc.n = i
  /\ Ring!Total(st.out) + st.acc.v = Sums(ValuesOf(src))[i]
  /\ st.acc.n = 0 => st.acc.v = 0

\* flush moves the samples of the accumulator to the buckets.
LEMMA FlushHolds ==
  ASSUME NEW src \in Seq(AnySample), NEW st \in LoopState, NEW i \in 0 .. Len(src),
         Holds(src, st, i)
  PROVE  Holds(src, Ring!Flush(st), i)
<1> DEFINE f == Ring!Flush(st)
<1>1. f \in LoopState /\ f.acc.n = 0 /\ f.acc.v = 0
  BY FlushProperties DEF Ring!EmptyAcc
<1>2. st.out \in Seq(Ring!Bucket) /\ st.acc.n \in Nat /\ st.acc.v \in Nat
  BY DEF LoopState
<1>3. CASE st.acc.n = 0
  <2>1. f.out = st.out
    BY <1>3, FlushProperties
  <2> HIDE DEF f
  <2>2. Ring!Count(st.out) \in Int /\ Ring!Total(st.out) \in Int
    BY <1>2, CountAppend
  <2>. QED
    BY <1>1, <1>3, <2>1, <2>2 DEF Holds, f
<1>4. CASE st.acc.n # 0
  <2>1. f.out = Append(st.out, Ring!Average(st.acc)) /\ Ring!Average(st.acc) \in Ring!Bucket
    BY <1>4, FlushProperties
  <2>2. Ring!Average(st.acc).n = st.acc.n /\ Ring!Average(st.acc).sum = st.acc.v
    BY DEF Ring!Average
  <2> HIDE DEF f
  <2>3. Ring!Count(f.out) = Ring!Count(st.out) + st.acc.n /\ Ring!Total(f.out) = Ring!Total(st.out) + st.acc.v
        /\ Ring!Count(st.out) \in Int /\ Ring!Total(st.out) \in Int
    BY <1>2, <2>1, <2>2, CountAppend
  <2>4. Ring!Count(f.out) \in Int /\ Ring!Total(f.out) \in Int
    BY <1>2, <2>3
  <2>5. Ring!Count(f.out) + 0 = Ring!Count(f.out) /\ Ring!Total(f.out) + 0 = Ring!Total(f.out)
    BY <2>4
  <2>. QED
    BY <1>1, <2>3, <2>5 DEF Holds, f
<1>. QED
  BY <1>3, <1>4

\* A round takes one sample in.
LEMMA ConsumeHolds ==
  ASSUME NEW src, NEW start, NEW dur, LoopArgs(src, start, dur), NEW st \in LoopState,
         NEW i \in 1 .. Len(src), Holds(src, st, i - 1)
  PROVE  Holds(src, Ring!Consume(st, src[i], start, dur), i) /\ Ring!Consume(st, src[i], start, dur).acc.n > 0
<1>. src \in Seq(AnySample) /\ start \in Int /\ dur \in Nat \ {0}
  BY DEF LoopArgs
<1> DEFINE s    == src[i]
           idx  == Ring!Slice(s, start, dur)
           base == IF idx # st.cur THEN Ring!Flush(st) ELSE st
           next == Ring!Consume(st, s, start, dur)
<1>1. s \in AnySample /\ i - 1 \in 0 .. Len(src) /\ i \in Nat
  OBVIOUS
<1>2. base \in LoopState /\ Holds(src, base, i - 1)
  <2>1. Ring!Flush(st) \in LoopState /\ Holds(src, Ring!Flush(st), i - 1)
    BY <1>1, FlushHolds, FlushProperties
  <2>. QED
    BY <2>1
<1>3. /\ next.out = base.out
      /\ next.acc = [t |-> base.acc.t + s.t, v |-> base.acc.v + s.v, n |-> base.acc.n + 1]
  BY <1>1, ConsumeProperties
<1> HIDE DEF next, base, idx
<1>4. next.acc.v = base.acc.v + s.v /\ next.acc.n = base.acc.n + 1
  BY <1>3
<1>5. /\ base.out \in Seq(Ring!Bucket) /\ base.acc.n \in Nat /\ base.acc.v \in Nat
  BY <1>2 DEF LoopState
<1>6. Ring!Count(base.out) \in Int /\ Ring!Total(base.out) \in Int
  BY <1>5, CountAppend
<1>7. Sums(ValuesOf(src))[i] = Sums(ValuesOf(src))[i - 1] + s.v /\ s.v \in Nat
      /\ Sums(ValuesOf(src))[i - 1] \in Int
  <2> DEFINE vs == ValuesOf(src)
  <2>1. vs \in Seq(Int) /\ Len(vs) = Len(src) /\ vs[i] = s.v /\ s.v \in Nat
    BY ValuesType
  <2> HIDE DEF vs
  <2>2. Sums(vs) \in [0 .. Len(vs) -> Int] /\ Sums(vs)[i] = Sums(vs)[i - 1] + vs[i]
    BY <2>1, SumsRecur
  <2>. QED
    BY <1>1, <2>1, <2>2 DEF vs
<1> HIDE DEF s
<1>8. Ring!Count(base.out) + base.acc.n = i - 1
      /\ Ring!Total(base.out) + base.acc.v = Sums(ValuesOf(src))[i - 1]
  BY <1>2 DEF Holds
<1>9. /\ Ring!Count(next.out) + next.acc.n = i /\ next.acc.n > 0
      /\ Ring!Total(next.out) + next.acc.v = Sums(ValuesOf(src))[i]
  <2>1. \A c, n \in Int : c + n = i - 1 => c + (n + 1) = i
    BY <1>1
  <2>2. \A c, v, w, x \in Int : c + v = x => c + (v + w) = x + w
    OBVIOUS
  <2>3. base.acc.n + 1 > 0
    BY <1>5
  <2>4. Ring!Count(next.out) = Ring!Count(base.out) /\ Ring!Total(next.out) = Ring!Total(base.out)
    BY <1>3
  <2>5. Ring!Count(base.out) + (base.acc.n + 1) = i
    BY <1>5, <1>6, <1>8, <2>1
  <2>6. Ring!Total(base.out) + (base.acc.v + s.v) = Sums(ValuesOf(src))[i - 1] + s.v
    BY <1>5, <1>6, <1>7, <1>8, <2>2
  <2>. QED
    BY <1>4, <1>7, <2>3, <2>4, <2>5, <2>6
<1>. QED
  BY <1>5, <1>4, <1>9 DEF Holds, next, s

HoldAll(src, L) == \A i \in 0 .. Len(src) : Holds(src, L[i], i) /\ (i > 0 => L[i].acc.n > 0)

\* ... until the loop holds them all.
LEMMA LoopHolds ==
  ASSUME NEW src, NEW start, NEW dur, LoopArgs(src, start, dur)
  PROVE  HoldAll(src, Ring!Loop(src, start, dur))
<1>. src \in Seq(AnySample) /\ start \in Int /\ dur \in Nat \ {0}
  BY DEF LoopArgs
<1> DEFINE L == Ring!Loop(src, start, dur)
           n == Len(src)
           Good(i) == Holds(src, L[i], i) /\ (i > 0 => L[i].acc.n > 0)
           T == {i \in Nat : i <= n => Good(i)}
<1>1. n \in Nat
  OBVIOUS
<1>2. L[0] = LoopStart /\ \A i \in 1 .. n : L[i] = Ring!Consume(L[i - 1], src[i], start, dur)
      /\ \A j \in 0 .. n : L[j] \in LoopState
  BY LoopRecurs
<1>3. Holds(src, LoopStart, 0)
  BY CountAppend, ValuesType, SumsRecur DEF LoopStart, Ring!EmptyAcc, Holds
<1> HIDE DEF L, n
<1>4. 0 \in T
  BY <1>2, <1>3
<1>5. ASSUME NEW i \in Nat, i \in T PROVE i + 1 \in T
  <2> SUFFICES ASSUME i + 1 <= n PROVE Good(i + 1)
    OBVIOUS
  <2>1. i + 1 \in 1 .. n /\ (i + 1) - 1 = i /\ i <= n /\ i \in 0 .. n
    BY <1>1
  <2>2. Holds(src, L[i], i) /\ L[i] \in LoopState
    BY <1>2, <1>5, <2>1
  <2>3. Holds(src, Ring!Consume(L[i], src[i + 1], start, dur), i + 1)
        /\ Ring!Consume(L[i], src[i + 1], start, dur).acc.n > 0
    BY <2>1, <2>2, ConsumeHolds DEF n
  <2>. QED
    BY <1>2, <2>1, <2>3
<1> HIDE DEF T
<1>6. \A i \in Nat : i \in T
  BY <1>4, <1>5, Induction
<1>7. \A i \in 0 .. n : Good(i)
  BY <1>1, <1>6 DEF T
<1>. QED
  BY <1>7 DEF L, n, HoldAll

\* The buckets hold every sample of the window once.
LEMMA BucketsConserve ==
  ASSUME NEW src, NEW start, NEW dur, LoopArgs(src, start, dur)
  PROVE  /\ Ring!Buckets(src, start, dur) \in Seq(Ring!Bucket)
         /\ Ring!Count(Ring!Buckets(src, start, dur)) = Len(src)
         /\ Ring!Total(Ring!Buckets(src, start, dur)) = SumList(ValuesOf(src))
<1>. src \in Seq(AnySample) /\ start \in Int /\ dur \in Nat \ {0}
  BY DEF LoopArgs
<1> DEFINE st == Ring!Loop(src, start, dur)[Len(src)]
           f  == Ring!Flush(st)
<1>1. Len(src) \in 0 .. Len(src)
  OBVIOUS
<1>2. st \in LoopState /\ Holds(src, st, Len(src))
  <2>1. \A i \in 0 .. Len(src) : Ring!Loop(src, start, dur)[i] \in LoopState
    BY LoopRecurs
  <2>2. HoldAll(src, Ring!Loop(src, start, dur))
    BY LoopHolds
  <2>. QED
    BY <1>1, <2>1, <2>2 DEF HoldAll
<1>3. f \in LoopState /\ f.acc = Ring!EmptyAcc /\ Holds(src, f, Len(src))
  BY <1>1, <1>2, FlushProperties, FlushHolds
<1>4. Ring!Buckets(src, start, dur) = f.out
  BY DEF Ring!Buckets
<1> HIDE DEF st, f
<1>5. f.out \in Seq(Ring!Bucket) /\ f.acc.n = 0 /\ f.acc.v = 0
  BY <1>3 DEF LoopState, Ring!EmptyAcc
<1>6. Ring!Count(f.out) \in Int /\ Ring!Total(f.out) \in Int
  BY <1>5, CountAppend
<1>7. Len(ValuesOf(src)) = Len(src)
  BY ValuesType
<1>. QED
  BY <1>3, <1>4, <1>5, <1>6, <1>7 DEF Holds, SumList

RawOf(src) == [i \in DOMAIN src |-> Ring!Raw(src[i])]

\* The samples as buckets of one.
LEMMA RawProperties ==
  ASSUME NEW src \in Seq(AnySample)
  PROVE  /\ RawOf(src) \in Seq(Ring!Bucket) /\ Len(RawOf(src)) = Len(src)
         /\ \A i \in 1 .. Len(src) : RawOf(src)[i] = Ring!Raw(src[i])
         /\ Ring!Count(RawOf(src)) = Len(src) /\ Ring!Total(RawOf(src)) = SumList(ValuesOf(src))
<1> DEFINE raw == RawOf(src)
           ns  == [i \in DOMAIN raw |-> raw[i].n]
           n   == Len(src)
<1>1. n \in Nat /\ DOMAIN src = 1 .. n /\ \A i \in 1 .. n : src[i] \in AnySample
  OBVIOUS
<1>2. \A i \in 1 .. n : Ring!Raw(src[i]) \in Ring!Bucket
  BY <1>1 DEF Ring!Raw, Ring!Bucket, AnySample
<1>3. raw \in Seq(Ring!Bucket) /\ Len(raw) = n /\ DOMAIN raw = 1 .. n
      /\ \A i \in 1 .. n : raw[i] = Ring!Raw(src[i])
  BY <1>1, <1>2 DEF RawOf
<1>4. \A i \in 1 .. n : raw[i].n = 1 /\ raw[i].sum = src[i].v
  BY <1>3 DEF Ring!Raw
<1>5. Ring!Total(raw) = SumList(ValuesOf(src))
  <2>1. [i \in DOMAIN raw |-> raw[i].sum] = ValuesOf(src)
    BY <1>1, <1>3, <1>4 DEF ValuesOf
  <2>. QED
    BY <2>1, SameSums DEF Ring!Total
<1> HIDE DEF raw
<1>6. ns \in Seq(Int) /\ Len(ns) = n /\ \A i \in 1 .. n : ns[i] = 1
  BY <1>1, <1>3, <1>4
<1> HIDE DEF ns, n
<1> DEFINE T == {i \in Nat : i <= n => Sums(ns)[i] = i}
<1>7. 0 \in T
  BY <1>6, SumsRecur
<1>8. ASSUME NEW i \in Nat, i \in T PROVE i + 1 \in T
  <2>1. ASSUME i + 1 <= n PROVE Sums(ns)[i + 1] = i + 1
    <3>1. i + 1 \in 1 .. Len(ns) /\ (i + 1) - 1 = i /\ i <= n
      BY <1>1, <1>6, <2>1
    <3>2. Sums(ns)[i + 1] = Sums(ns)[i] + ns[i + 1]
      BY <1>6, <3>1, SumsRecur
    <3>. QED
      BY <1>6, <1>8, <3>1, <3>2
  <2>. QED
    BY <2>1
<1> HIDE DEF T
<1>9. n \in T
  BY <1>1, <1>7, <1>8, Induction
<1>10. SumList(ns) = n
  BY <1>1, <1>6, <1>9 DEF T, SumList
<1>11. Ring!Count(raw) = n
  BY <1>10, SameSums DEF Ring!Count, ns
<1>. QED
  BY <1>3, <1>5, <1>11 DEF raw, n

\* The lengths of slices are positive.
LEMMA BucketDurType ==
  ASSUME NEW span \in Int, NEW points \in Nat \ {0}
  PROVE  Ring!BucketDur(span, points) \in Nat \ {0} /\ span \div points <= Ring!BucketDur(span, points)
<1> DEFINE len == span \div points
<1>1. len \in Int /\ 1 \in Int
  OBVIOUS
<1>2. Ring!BucketDur(span, points) = Ring!Max({1, len})
  BY DEF Ring!BucketDur
<1> HIDE DEF len
<1>3. Ring!Max({1, len}) \in {1, len} /\ 1 <= Ring!Max({1, len}) /\ len <= Ring!Max({1, len})
  BY <1>1, MaxOfTwo
<1>4. Ring!BucketDur(span, points) \in Nat \ {0} /\ len <= Ring!BucketDur(span, points)
  BY <1>1, <1>2, <1>3
<1>. QED
  BY <1>4 DEF len

\* A reply conserves the window it was made of.
Conserves(src, points, out) ==
  \/ Ring!Count(out) = Len(src) /\ Ring!Total(out) = Ring!Total(RawOf(src))
  \/ /\ Len(src) > points /\ Ring!Last(src).t <= Head(src).t /\ out = <<Ring!Last(RawOf(src))>>

\* Downsampling loses and invents nothing.
LEMMA DownsampleConserves ==
  ASSUME NEW src \in Seq(AnySample), NEW p \in Int
  PROVE  /\ Ring!Max({1, p}) \in Nat \ {0} /\ Ring!Downsample(src, p) \in Seq(Ring!Bucket)
         /\ Conserves(src, Ring!Max({1, p}), Ring!Downsample(src, p))
<1> DEFINE points == Ring!Max({1, p})
           start  == Head(src).t
           span   == Ring!Last(src).t - start
           dur    == Ring!BucketDur(span, points)
           out    == Ring!Downsample(src, p)
<1>1. points \in Nat \ {0}
  <2>1. 1 \in Int
    OBVIOUS
  <2>2. Ring!Max({1, p}) \in {1, p} /\ 1 <= Ring!Max({1, p}) /\ p <= Ring!Max({1, p})
    BY <2>1, MaxOfTwo
  <2>. QED
    BY <2>2
<1>2. /\ Len(src) <= points => out = RawOf(src)
      /\ Len(src) > points /\ span <= 0 => out = <<Ring!Last(RawOf(src))>>
      /\ Len(src) > points /\ ~(span <= 0) => out = Ring!Buckets(src, start, dur)
  <2>1. Len(src) > points => ~(Len(src) <= points)
    BY <1>1
  <2>. QED
    BY <2>1 DEF Ring!Downsample, RawOf
<1> HIDE DEF out, points
<1>0. Ring!Count(RawOf(src)) = Len(src) /\ RawOf(src) \in Seq(Ring!Bucket)
      /\ Ring!Total(RawOf(src)) = SumList(ValuesOf(src))
  BY RawProperties
<1> SUFFICES out \in Seq(Ring!Bucket) /\ Conserves(src, points, out)
  BY <1>1 DEF points, out
<1>3. CASE Len(src) <= points
  <2>1. out = RawOf(src)
    BY <1>2, <1>3
  <2>. QED
    BY <1>0, <2>1, Zenon DEF Conserves
<1>4. CASE Len(src) > points
  <2>1. /\ Len(src) \in Nat \ {0} /\ 1 \in 1 .. Len(src) /\ Len(src) \in 1 .. Len(src)
        /\ Head(src) = src[1] /\ Ring!Last(src) = src[Len(src)]
        /\ src[1] \in AnySample /\ src[Len(src)] \in AnySample
    BY <1>1, <1>4 DEF Ring!Last
  <2>2. start \in Int /\ Ring!Last(src).t \in Int /\ span \in Int
    BY <2>1 DEF AnySample
  <2>3. CASE span <= 0
    <3>1. Ring!Last(src).t <= Head(src).t
      BY <2>2, <2>3
    <3>2. Ring!Last(RawOf(src)) \in Ring!Bucket
      BY <2>1, RawProperties DEF Ring!Last
    <3>3. <<Ring!Last(RawOf(src))>> \in Seq(Ring!Bucket)
      BY <3>2
    <3>4. out = <<Ring!Last(RawOf(src))>>
      BY <1>2, <1>4, <2>3
    <3>. QED
      BY <1>4, <3>1, <3>3, <3>4, Zenon DEF Conserves
  <2>4. CASE ~(span <= 0)
    <3>1. dur \in Nat \ {0}
      BY <1>1, <2>2, BucketDurType
    <3>2. LoopArgs(src, start, dur)
      BY <2>2, <3>1 DEF LoopArgs
    <3> HIDE DEF dur, start
    <3>3. out = Ring!Buckets(src, start, dur)
      BY <1>2, <1>4, <2>4
    <3>4. out \in Seq(Ring!Bucket) /\ Ring!Count(out) = Len(src) /\ Ring!Total(out) = SumList(ValuesOf(src))
      BY <3>2, <3>3, BucketsConserve
    <3>. QED
      BY <1>0, <3>4, Zenon DEF Conserves
  <2>. QED
    BY <2>3, <2>4
<1>5. Len(src) \in Nat
  OBVIOUS
<1>. QED
  BY <1>1, <1>3, <1>4, <1>5

-----------------------------------------------------------------------------
(* The ring.                                                               *)

\* s is the newest part of r.
Suffix(s, r) == Len(s) <= Len(r) /\ \A j \in 1 .. Len(s) : s[j] = r[Len(r) - Len(s) + j]

\* The last k samples of a list.
LEMMA SuffixProperties ==
  ASSUME NEW T, NEW s \in Seq(T), NEW k \in 0 .. Len(s)
  PROVE  LET e == SubSeq(s, Len(s) - k + 1, Len(s))
         IN  e \in Seq(T) /\ Len(e) = k /\ Suffix(e, s)
<1> DEFINE n == Len(s)
           m == n - k + 1
           e == SubSeq(s, m, n)
<1>1. n \in Nat /\ k \in Nat /\ m \in Int /\ m \in 1 .. n + 1 /\ n - m + 1 = k
      /\ \A j \in 1 .. k : m + j - 1 = n - k + j
  OBVIOUS
<1>2. \A i \in m .. n : s[i] \in T
  OBVIOUS
<1> HIDE DEF m, n
<1>3. e \in Seq(T) /\ Len(e) = (IF m <= n THEN n - m + 1 ELSE 0)
      /\ \A i \in 1 .. n - m + 1 : e[i] = s[m + i - 1]
  BY <1>1, <1>2, SubSeqProperties
<1>4. Len(e) = k
  BY <1>1, <1>3
<1> HIDE DEF e
<1>5. \A j \in 1 .. k : e[j] = s[n - k + j]
  BY <1>1, <1>3
<1>. QED
  BY <1>1, <1>3, <1>4, <1>5 DEF Suffix, e, m, n

\* The only list of a length that is the newest part of a list.
LEMMA SuffixUnique ==
  ASSUME NEW T, NEW s \in Seq(T), NEW r \in Seq(T), Suffix(s, r)
  PROVE  s = SubSeq(r, Len(r) - Len(s) + 1, Len(r))
<1> DEFINE k == Len(s)
           e == SubSeq(r, Len(r) - k + 1, Len(r))
<1>1. k \in 0 .. Len(r)
  BY DEF Suffix
<1> HIDE DEF k
<1>2. e \in Seq(T) /\ Len(e) = k /\ Suffix(e, r)
  BY <1>1, SuffixProperties
<1> HIDE DEF e
<1>3. \A j \in 1 .. k : s[j] = e[j]
  BY <1>2 DEF Suffix, k
<1>4. s = e
  BY <1>2, <1>3, SeqEqual DEF k
<1>. QED
  BY <1>4 DEF e, k

\* A newest part of a newest part is one.
LEMMA SuffixTransitive ==
  ASSUME NEW T, NEW s \in Seq(T), NEW r \in Seq(T), NEW q \in Seq(T), Suffix(s, r), Suffix(r, q)
  PROVE  Suffix(s, q)
<1> DEFINE a == Len(s)
           b == Len(r)
           c == Len(q)
<1>1. a \in Nat /\ b \in Nat /\ c \in Nat /\ a <= b /\ b <= c
  BY DEF Suffix
<1>2. /\ \A j \in 1 .. a : s[j] = r[b - a + j]
      /\ \A j \in 1 .. b : r[j] = q[c - b + j]
  BY DEF Suffix
<1> HIDE DEF a, b, c
<1>3. \A j \in 1 .. a : b - a + j \in 1 .. b /\ c - b + (b - a + j) = c - a + j
  BY <1>1
<1>4. \A j \in 1 .. a : s[j] = q[c - a + j]
  BY <1>2, <1>3
<1>. QED
  BY <1>1, <1>4 DEF Suffix, a, b, c

\* Samples, whatever their values are taken from.
Stamped(T) == \A x \in T : x.t \in Int

\* The loop of Record that skips what is old.
LEMMA DropOldProperties ==
  ASSUME NEW T, Stamped(T), NEW s \in Seq(T), NEW cutoff \in Int
  PROVE  LET d == Ring!DropOld(s, cutoff)
         IN  /\ d \in Seq(T) /\ Suffix(d, s)
             /\ \A j \in 1 .. Len(s) - Len(d) : s[j].t < cutoff
             /\ Len(d) > 0 => d[1].t >= cutoff
<1> DEFINE young == {i \in DOMAIN s : s[i].t >= cutoff}
           n == Len(s)
<1>1. n \in Nat /\ DOMAIN s = 1 .. n /\ \A i \in 1 .. n : s[i].t \in Int
  BY DEF Stamped
<1>2. CASE young = {}
  <2>1. Ring!DropOld(s, cutoff) = <<>>
    BY <1>2 DEF Ring!DropOld
  <2>2. \A j \in 1 .. n : s[j].t < cutoff
    BY <1>1, <1>2
  <2>3. <<>> \in Seq(T) /\ Len(<<>>) = 0 /\ Suffix(<<>>, s)
    BY <1>1 DEF Suffix
  <2>. QED
    BY <1>1, <2>1, <2>2, <2>3
<1>3. CASE young # {}
  <2> DEFINE m == Ring!Min(young)
             k == n - m + 1
             d == Ring!DropOld(s, cutoff)
  <2>1. young \in SUBSET Nat
    BY <1>1
  <2>2. \E x \in young : \A y \in young : x <= y
    BY <1>3, <2>1, MinNat
  <2>3. m \in young /\ \A y \in young : m <= y
    BY <2>2 DEF Ring!Min
  <2>4. m \in 1 .. n /\ s[m].t >= cutoff
    BY <1>1, <2>3
  <2>5. d = SubSeq(s, m, n)
    BY <1>3 DEF Ring!DropOld
  <2>6. \A j \in 1 .. m - 1 : s[j].t < cutoff
    <3> SUFFICES ASSUME NEW j \in 1 .. m - 1 PROVE s[j].t < cutoff
      OBVIOUS
    <3> HIDE DEF m
    <3>1. j \in 1 .. n /\ ~(m <= j)
      BY <1>1, <2>4
    <3>2. j \notin young
      BY <2>3, <3>1
    <3>. QED
      BY <1>1, <3>1, <3>2
  <2> HIDE DEF m, young, d
  <2>7. k \in 0 .. n /\ n - k + 1 = m /\ n - k = m - 1 /\ k > 0
    BY <1>1, <2>4
  <2> HIDE DEF k
  <2>8. d = SubSeq(s, n - k + 1, n)
    BY <2>5, <2>7
  <2>9. d \in Seq(T) /\ Len(d) = k /\ Suffix(d, s)
    BY <2>7, <2>8, SuffixProperties
  <2>10. d[1] = s[n - k + 1]
    BY <1>1, <2>7, <2>9 DEF Suffix
  <2>. QED
    BY <1>1, <2>4, <2>6, <2>7, <2>9, <2>10 DEF d
<1>. QED
  BY <1>2, <1>3

\* The cap keeps the newest samples.
LEMMA CapProperties ==
  ASSUME NEW T, NEW s \in Seq(T), RingLen \in Nat \ {0}
  PROVE  /\ Ring!Cap(s, RingLen) \in Seq(T) /\ Suffix(Ring!Cap(s, RingLen), s) /\ Len(Ring!Cap(s, RingLen)) <= RingLen
         /\ Len(Ring!Cap(s, RingLen)) < Len(s) => Len(Ring!Cap(s, RingLen)) = RingLen
<1>1. CASE Len(s) > RingLen
  <2>1. RingLen \in 0 .. Len(s)
    BY <1>1
  <2>2. Ring!Cap(s, RingLen) = SubSeq(s, Len(s) - RingLen + 1, Len(s))
    BY <1>1 DEF Ring!Cap
  <2>3. Ring!Cap(s, RingLen) \in Seq(T) /\ Len(Ring!Cap(s, RingLen)) = RingLen /\ Suffix(Ring!Cap(s, RingLen), s)
    BY <2>1, <2>2, SuffixProperties
  <2>. QED
    BY <2>3
<1>2. CASE ~(Len(s) > RingLen)
  <2>1. Ring!Cap(s, RingLen) = s
    BY <1>2 DEF Ring!Cap
  <2>. QED
    BY <1>2, <2>1 DEF Suffix
<1>. QED
  BY <1>1, <1>2

\* Any sample of the ring is a sample of the proofs about averaging.
LEMMA SampleType ==
  ASSUME RingSensible
  PROVE  Ring!Sample \subseteq AnySample /\ AnySample \subseteq AnySample /\ Stamped(Ring!Sample)
BY DEF RingSensible, Ring!Sample, AnySample, Stamped

\* What a list of samples is worth is not changed by who looks at it.
LEMMA SeqOfSamples ==
  ASSUME NEW T, T \subseteq AnySample, NEW s \in Seq(T) PROVE s \in Seq(AnySample)
BY SeqMonotonic

RingTimes == \A i, j \in DOMAIN samples : i < j => samples[i].t <= samples[j].t

\* The ring is the newest part of what was recorded, and what is missing was too
\* old or has enough newer samples behind it.
Kept ==
  /\ Suffix(samples, recorded)
  /\ \A i \in 1 .. Len(recorded) - Len(samples) :
       recorded[i].t < latestNow - RingRetain \/ Len(recorded) - i >= RingLen

\* Until the clock is set back, stamps grow and none is from the future.
Timely ==
  backs = 0 =>
    /\ RingTimes
    /\ \A i \in DOMAIN samples : samples[i].t <= clock
    /\ \A j \in DOMAIN stamped :
         stamped[j].t <= clock /\ \A i \in DOMAIN samples : samples[i].t <= stamped[j].t

Replied == Conserves(reply.src, reply.points, reply.out)

RingInv == Ring!TypeOK /\ Kept /\ Timely /\ Replied

\* The reply to nobody.
LEMMA NoReplyConserves ==
  /\ Ring!NoReply.src = <<>> /\ Ring!NoReply.points \in Nat \ {0} /\ Ring!NoReply.out = <<>>
  /\ Conserves(Ring!NoReply.src, Ring!NoReply.points, Ring!NoReply.out)
<1>1. RawOf(<<>>) = <<>>
  BY DEF RawOf
<1>2. Ring!Count(<<>>) = Len(<<>>)
  BY CountAppend
<1>. QED
  BY <1>1, <1>2 DEF Ring!NoReply, Conserves

\* The inductive invariant of the ring holds at the start.
LEMMA RingInit == RingSensible /\ Ring!Init => RingInv
<1> SUFFICES ASSUME RingSensible, Ring!Init PROVE RingInv
  OBVIOUS
<1>1. /\ clock = 0 /\ latestNow = 0 /\ backs = 0 /\ asked = {}
      /\ samples = <<>> /\ stamped = <<>> /\ recorded = <<>> /\ reply = Ring!NoReply
  BY DEF Ring!Init
<1>2. /\ <<>> \in Seq(Ring!Sample) /\ <<>> \in Seq(Ring!Bucket) /\ Len(<<>>) = 0 /\ DOMAIN <<>> = {}
  OBVIOUS
<1>3. RingTime \in Nat /\ RingRecords \in Nat /\ RingBacks \in Nat /\ RingLen \in Nat
  BY DEF RingSensible
<1>4. Ring!TypeOK
  BY <1>1, <1>2, <1>3, NoReplyConserves DEF Ring!TypeOK
<1>5. Kept
  <2>1. Suffix(<<>>, <<>>)
    BY <1>2 DEF Suffix
  <2>2. \A i \in 1 .. Len(<<>>) - Len(<<>>) : FALSE
    BY <1>2
  <2>. QED
    BY <1>1, <2>1, <2>2 DEF Kept
<1>6. Timely
  BY <1>1, <1>2 DEF Timely, RingTimes
<1>. QED
  BY <1>1, <1>4, <1>5, <1>6, NoReplyConserves DEF RingInv, Replied

\* A request copies a part of the ring, and the reply conserves it.
LEMMA ReadsProperties ==
  ASSUME NEW T, T \subseteq AnySample, samples \in Seq(T),
         asked \in SUBSET [cutoff : Int, points : Int], Ring!RangeReads
  PROVE  /\ \E S \in SUBSET (DOMAIN samples) : reply'.src = At(samples, S)
         /\ reply'.src \in Seq(T) /\ reply'.points \in Nat \ {0}
         /\ reply'.out \in Seq(Ring!Bucket) /\ asked' \subseteq asked
         /\ Conserves(reply'.src, reply'.points, reply'.out)
         /\ UNCHANGED <<clock, latestNow, backs, samples, stamped, recorded>>
         /\ \E p \in Int : reply'.points = Ring!Max({1, p}) /\ reply'.out = Ring!Downsample(reply'.src, p)
<1>1. PICK q \in asked :
        LET src == Ring!Window(samples, q.cutoff)
        IN  /\ reply' = [src |-> src, points |-> Ring!Max({1, q.points}),
                         out |-> Ring!Downsample(src, q.points)]
            /\ asked' = asked \ {q}
  BY DEF Ring!RangeReads
<1> DEFINE src == Ring!Window(samples, q.cutoff)
           S == {i \in DOMAIN samples : samples[i].t >= q.cutoff}
<1>2. src = At(samples, S) /\ S \in SUBSET (DOMAIN samples)
  BY SameAt DEF Ring!Window, Ring!Filter
<1>3. /\ reply'.src = src /\ reply'.points = Ring!Max({1, q.points})
      /\ reply'.out = Ring!Downsample(src, q.points) /\ asked' = asked \ {q}
  BY <1>1
<1> HIDE DEF src, S
<1>4. src \in Seq(T)
  BY <1>2, AtProperties
<1>5. src \in Seq(AnySample)
  BY <1>4, SeqOfSamples
<1>6. q.points \in Int
  OBVIOUS
<1>7. /\ Ring!Max({1, q.points}) \in Nat \ {0} /\ Ring!Downsample(src, q.points) \in Seq(Ring!Bucket)
      /\ Conserves(src, Ring!Max({1, q.points}), Ring!Downsample(src, q.points))
  BY <1>5, <1>6, DownsampleConserves
<1>8. UNCHANGED <<clock, latestNow, backs, samples, stamped, recorded>>
  BY DEF Ring!RangeReads
<1>. QED
  BY <1>2, <1>3, <1>4, <1>6, <1>7, <1>8

\* Record keeps the ring, in any state.
LEMMA RecordKeeps ==
  ASSUME RingSensible, RingInv, Ring!Record
  PROVE  /\ samples' \in Seq(Ring!Sample) /\ Len(samples') <= RingLen /\ stamped' = <<>>
         /\ recorded' \in Seq(Ring!Sample) /\ Len(recorded') = Len(recorded) + Len(stamped)
         /\ Kept'
         /\ backs = 0 => /\ RingTimes'
                         /\ \A i \in DOMAIN samples' :
                              samples'[i].t <= clock /\ samples'[i].t >= clock - RingRetain
<1> DEFINE s == samples \o stamped
           d == Ring!DropOld(s, clock - RingRetain)
           a == Len(samples)
           r == Len(recorded)
<1>0. /\ samples \in Seq(Ring!Sample) /\ stamped \in Seq(Ring!Sample) /\ recorded \in Seq(Ring!Sample)
      /\ clock \in Int /\ latestNow \in Int /\ clock <= latestNow /\ RingRetain \in Nat
      /\ RingLen \in Nat \ {0} /\ Len(stamped) <= 1 /\ stamped # <<>>
  BY DEF RingInv, Ring!TypeOK, RingSensible, Ring!Record
<1>1. Len(stamped) = 1 /\ a \in Nat /\ r \in Nat /\ DOMAIN stamped = {1} /\ stamped[1] \in Ring!Sample
  <2>1. Len(stamped) \in Nat \ {0}
    BY <1>0, EmptySeq
  <2>5. \A n \in Nat \ {0} : n <= 1 => n = 1
    OBVIOUS
  <2>2. Len(stamped) = 1
    BY <1>0, <2>1, <2>5, Zenon
  <2>4. 1 .. 1 = {1}
    OBVIOUS
  <2>3. DOMAIN stamped = 1 .. 1 /\ 1 \in 1 .. 1
    BY <1>0, <2>2
  <2>. QED
    BY <1>0, <2>2, <2>3, <2>4
<1>2. /\ samples' = Ring!Cap(d, RingLen) /\ recorded' = recorded \o stamped /\ stamped' = <<>>
      /\ latestNow' = latestNow /\ clock' = clock /\ backs' = backs
  BY DEF Ring!Record
<1>3. /\ s \in Seq(Ring!Sample) /\ Len(s) = a + 1 /\ s[a + 1] = stamped[1]
      /\ \A j \in 1 .. a : s[j] = samples[j]
  <2>1. /\ s \in Seq(Ring!Sample) /\ Len(s) = a + Len(stamped)
        /\ \A j \in 1 .. a + Len(stamped) :
             s[j] = IF j <= a THEN samples[j] ELSE stamped[j - a]
    BY <1>0, ConcatProperties
  <2> HIDE DEF s, a
  <2>2. (a + 1) - a = 1 /\ ~(a + 1 <= a) /\ \A j \in 1 .. a : j \in 1 .. a + 1 /\ j <= a
    BY <1>1
  <2>. QED
    BY <1>1, <2>1, <2>2
<1>4. /\ recorded' \in Seq(Ring!Sample) /\ Len(recorded') = r + 1 /\ recorded'[r + 1] = stamped[1]
      /\ \A j \in 1 .. r : recorded'[j] = recorded[j]
  <2> DEFINE t == recorded \o stamped
  <2>1. /\ t \in Seq(Ring!Sample) /\ Len(t) = r + Len(stamped)
        /\ \A j \in 1 .. r + Len(stamped) :
             t[j] = IF j <= r THEN recorded[j] ELSE stamped[j - r]
    BY <1>0, ConcatProperties
  <2> HIDE DEF t, r
  <2>2. (r + 1) - r = 1 /\ ~(r + 1 <= r) /\ \A j \in 1 .. r : j \in 1 .. r + 1 /\ j <= r
    BY <1>1
  <2>3. recorded' = t
    BY <1>2 DEF t
  <2>. QED
    BY <1>1, <2>1, <2>2, <2>3
<1>5. Suffix(samples, recorded)
  BY DEF RingInv, Kept
<1> HIDE DEF s
<1>6. Suffix(s, recorded')
  <2>1. a <= r /\ \A j \in 1 .. a : samples[j] = recorded[r - a + j]
    BY <1>5 DEF Suffix
  <2> HIDE DEF a, r
  <2>2. ASSUME NEW j \in 1 .. a + 1 PROVE s[j] = recorded'[(r + 1) - (a + 1) + j]
    <3>1. CASE j = a + 1
      <4>1. (r + 1) - (a + 1) + j = r + 1
        BY <1>1, <3>1
      <4>. QED
        BY <1>3, <1>4, <3>1, <4>1
    <3>2. CASE j # a + 1
      <4>1. j \in 1 .. a /\ (r + 1) - (a + 1) + j = r - a + j /\ r - a + j \in 1 .. r
        BY <1>1, <2>1, <3>2
      <4>. QED
        BY <1>3, <1>4, <2>1, <4>1
    <3>. QED
      BY <3>1, <3>2
  <2>. QED
    BY <1>1, <1>3, <1>4, <2>1, <2>2 DEF Suffix
<1>7. /\ d \in Seq(Ring!Sample) /\ Suffix(d, s)
      /\ \A j \in 1 .. Len(s) - Len(d) : s[j].t < clock - RingRetain
      /\ Len(d) > 0 => d[1].t >= clock - RingRetain
  <2>1. clock - RingRetain \in Int /\ Stamped(Ring!Sample)
    BY <1>0, SampleType
  <2>. QED
    BY <1>3, <2>1, DropOldProperties
<1> HIDE DEF d
<1>8. /\ samples' \in Seq(Ring!Sample) /\ Suffix(samples', d) /\ Len(samples') <= RingLen
      /\ Len(samples') < Len(d) => Len(samples') = RingLen
  BY <1>0, <1>2, <1>7, CapProperties
<1>9. Suffix(samples', recorded') /\ Suffix(samples', s)
  <2>1. Suffix(samples', s)
    BY <1>3, <1>7, <1>8, SuffixTransitive
  <2>. QED
    BY <1>3, <1>4, <1>6, <1>8, <2>1, SuffixTransitive
<1>10. Kept'
  <2> DEFINE b == Len(samples')
             c == Len(d)
             x == Len(s)
  <2>1. b \in Nat /\ c \in Nat /\ x \in Nat /\ b <= c /\ c <= x /\ x = a + 1 /\ a <= r
    BY <1>1, <1>3, <1>5, <1>7, <1>8 DEF Suffix
  <2>2. ASSUME NEW i \in 1 .. (r + 1) - b
        PROVE  recorded'[i].t < latestNow - RingRetain \/ (r + 1) - i >= RingLen
    <3>1. CASE i <= r - a
      <4>1. i \in 1 .. r - a /\ i \in 1 .. r /\ r - i \in Int /\ (r + 1) - i >= r - i
        BY <1>1, <2>1, <3>1
      <4>2. recorded[i].t < latestNow - RingRetain \/ r - i >= RingLen
        BY <4>1 DEF RingInv, Kept
      <4>3. recorded'[i] = recorded[i]
        BY <1>4, <4>1
      <4>. QED
        BY <1>0, <1>1, <4>1, <4>2, <4>3
    <3>2. CASE i > r - a /\ i - (r - a) <= x - c
      <4> DEFINE j == i - (r - a)
      <4>1. j \in 1 .. x - c /\ j \in 1 .. x /\ (r + 1) - x + j = i
        BY <1>1, <2>1, <3>2
      <4>2. s[j].t < clock - RingRetain /\ s[j] = recorded'[(r + 1) - x + j]
        BY <1>4, <1>6, <1>7, <4>1 DEF Suffix
      <4> HIDE DEF j
      <4>3. recorded'[i].t < clock - RingRetain /\ recorded'[i] \in Ring!Sample
        <5>1. i \in 1 .. r + 1
          BY <1>1, <2>1
        <5>. QED
          BY <1>4, <4>1, <4>2, <5>1
      <4>4. recorded'[i].t \in Int
        BY <4>3 DEF Ring!Sample
      <4>. QED
        BY <1>0, <4>3, <4>4
    <3>3. CASE i - (r - a) > x - c
      <4> HIDE DEF b, c, x, a, r
      <4>1. b < c
        BY <1>1, <2>1, <3>3
      <4>2. b = RingLen
        BY <1>8, <4>1 DEF b, c
      <4>. QED
        BY <1>0, <1>1, <2>1, <4>2
    <3> HIDE DEF b, c, x, a, r
    <3>. QED
      BY <1>1, <2>1, <3>1, <3>2, <3>3
  <2>. QED
    BY <1>2, <1>4, <1>9, <2>2 DEF Kept
<1>11. ASSUME backs = 0
       PROVE  /\ RingTimes'
              /\ \A i \in DOMAIN samples' :
                   samples'[i].t <= clock /\ samples'[i].t >= clock - RingRetain
  <2>1. /\ \A i, j \in 1 .. a : i < j => samples[i].t <= samples[j].t
        /\ \A i \in 1 .. a : samples[i].t <= clock /\ samples[i].t <= stamped[1].t
        /\ stamped[1].t <= clock
    BY <1>0, <1>1, <1>11 DEF RingInv, Timely, RingTimes
  <2>2. \A j \in 1 .. a + 1 : s[j].t \in Int /\ s[j].t <= clock
    <3>1. \A j \in 1 .. a + 1 : s[j] \in Ring!Sample
      BY <1>3
    <3>2. \A j \in 1 .. a + 1 : j \in 1 .. a \/ j = a + 1
      BY <1>1
    <3>. QED
      BY <1>3, <2>1, <3>1, <3>2 DEF Ring!Sample
  <2>3. ASSUME NEW i \in 1 .. a + 1, NEW j \in 1 .. a + 1, i <= j PROVE s[i].t <= s[j].t
    <3>1. CASE i = j
      BY <2>2, <3>1
    <3>2. CASE i < j /\ j <= a
      <4>1. i \in 1 .. a /\ j \in 1 .. a
        BY <1>1, <3>2
      <4>. QED
        BY <1>3, <2>1, <3>2, <4>1
    <3>3. CASE i < j /\ j = a + 1
      <4>1. i \in 1 .. a
        BY <1>1, <3>3
      <4>. QED
        BY <1>3, <2>1, <3>3, <4>1
    <3>. QED
      BY <1>1, <2>3, <3>1, <3>2, <3>3
  <2> DEFINE b == Len(samples')
             e == a + 1 - b
  <2>4. /\ b \in Nat /\ e \in Nat /\ DOMAIN samples' = 1 .. b
        /\ \A i \in 1 .. b : e + i \in 1 .. a + 1 /\ samples'[i] = s[e + i]
    BY <1>1, <1>3, <1>8, <1>9 DEF Suffix
  <2>5. RingTimes'
    <3> SUFFICES ASSUME NEW i \in 1 .. b, NEW j \in 1 .. b, i < j
                 PROVE  samples'[i].t <= samples'[j].t
      BY <2>4 DEF RingTimes
    <3> HIDE DEF b, e, a
    <3>1. e + i <= e + j
      BY <2>4
    <3>. QED
      BY <2>3, <2>4, <3>1
  <2>6. ASSUME NEW i \in 1 .. b PROVE samples'[i].t >= clock - RingRetain
    <3> DEFINE n == Len(d)
               f == a + 1 - n
    <3>0. n \in Nat /\ n <= Len(s) /\ b <= n
      BY <1>7, <1>8 DEF Suffix
    <3>1. n \in Nat /\ f \in Nat /\ f <= e /\ n > 0 /\ 1 \in 1 .. n
      <4> HIDE DEF a, b, n
      <4>. QED
        BY <1>1, <1>3, <2>4, <3>0
    <3>2. d[1] = s[f + 1] /\ f + 1 \in 1 .. a + 1 /\ f + 1 <= e + i
      BY <1>1, <1>3, <1>7, <2>4, <3>1 DEF Suffix
    <3>3. s[f + 1].t >= clock - RingRetain
      BY <1>7, <3>1, <3>2
    <3>4. s[f + 1].t <= s[e + i].t /\ samples'[i] = s[e + i]
      BY <2>3, <2>4, <3>2
    <3>5. s[f + 1].t \in Int /\ s[e + i].t \in Int
      BY <2>2, <2>4, <3>2
    <3> HIDE DEF e, f
    <3>. QED
      BY <1>0, <3>3, <3>4, <3>5
  <2>7. \A i \in 1 .. b : samples'[i].t <= clock
    BY <2>2, <2>4
  <2>. QED
    BY <2>4, <2>5, <2>6, <2>7
<1>. QED
  BY <1>1, <1>2, <1>4, <1>8, <1>10, <1>11

\* Nothing but Record disturbs what is kept.
LEMMA KeptStays ==
  ASSUME RingSensible, RingInv, UNCHANGED <<samples, recorded>>, latestNow' \in Int,
         latestNow <= latestNow'
  PROVE  Kept'
<1>1. latestNow \in Int /\ RingRetain \in Int /\ recorded \in Seq(Ring!Sample) /\ Kept
  BY DEF RingInv, Ring!TypeOK, RingSensible
<1>2. ASSUME NEW i \in 1 .. Len(recorded) - Len(samples), recorded[i].t < latestNow - RingRetain
      PROVE  recorded[i].t < latestNow' - RingRetain
  <2>1. i \in 1 .. Len(recorded)
    BY <1>1 DEF RingInv, Ring!TypeOK
  <2>3. recorded[i] \in Ring!Sample
    BY <1>1, <2>1
  <2>2. recorded[i].t \in Int
    BY <2>3 DEF Ring!Sample
  <2>. QED
    BY <1>1, <1>2, <2>2
<1>. QED
  BY <1>1, <1>2 DEF Kept, Suffix

\* Every step keeps the ring and conserves what is replied.
LEMMA RingStep == RingSensible /\ RingInv /\ [Ring!Next]_historyVars => RingInv'
<1> SUFFICES ASSUME RingSensible, RingInv, [Ring!Next]_historyVars PROVE RingInv'
  OBVIOUS
<1>t. Ring!TypeOK /\ Kept /\ Timely /\ Replied
  BY DEF RingInv
<1>n. /\ clock \in Nat /\ latestNow \in Nat /\ clock <= latestNow /\ latestNow <= RingTime
      /\ RingTime \in Nat /\ backs \in Nat /\ RingBacks \in Nat /\ RingRecords \in Nat
      /\ samples \in Seq(Ring!Sample) /\ recorded \in Seq(Ring!Sample) /\ stamped \in Seq(Ring!Sample)
      /\ asked \in SUBSET [cutoff : Int, points : Int]
  BY <1>t DEF Ring!TypeOK, RingSensible
<1>s. \A i \in DOMAIN samples : samples[i].t \in Int
  <2>1. \A i \in DOMAIN samples : samples[i] \in Ring!Sample
    BY <1>n
  <2>. QED
    BY <2>1 DEF Ring!Sample
<1>u. \A i \in DOMAIN stamped : stamped[i].t \in Int
  <2>1. \A i \in DOMAIN stamped : stamped[i] \in Ring!Sample
    BY <1>n
  <2>. QED
    BY <2>1 DEF Ring!Sample
<1>1. CASE Ring!ClockAdvances
  <2> DEFINE late == Ring!Max({latestNow, clock + 1})
  <2>0. latestNow \in Int /\ clock + 1 \in Int
    BY <1>n
  <2>1. late \in {latestNow, clock + 1} /\ latestNow <= late /\ clock + 1 <= late
    BY <2>0, MaxOfTwo
  <2>2. /\ clock' = clock + 1 /\ latestNow' = late /\ clock < RingTime
        /\ UNCHANGED <<backs, samples, stamped, recorded, asked, reply>>
    BY <1>1 DEF Ring!ClockAdvances
  <2> HIDE DEF late
  <2>3. Ring!TypeOK'
    BY <1>t, <1>n, <2>1, <2>2 DEF Ring!TypeOK
  <2>4. Kept'
    BY <1>n, <2>1, <2>2, KeptStays
  <2>5. Timely'
    BY <1>t, <1>n, <1>s, <1>u, <2>2 DEF Timely, RingTimes
  <2>6. Replied'
    BY <1>t, <2>2 DEF Replied
  <2>. QED
    BY <2>3, <2>4, <2>5, <2>6 DEF RingInv
<1>2. CASE Ring!ClockSetBack
  <2>1. PICK t \in 0 .. clock - 1 : clock' = t
    BY <1>2 DEF Ring!ClockSetBack
  <2>2. /\ backs' = backs + 1 /\ backs < RingBacks
        /\ UNCHANGED <<latestNow, samples, stamped, recorded, asked, reply>>
    BY <1>2 DEF Ring!ClockSetBack
  <2>3. Ring!TypeOK'
    BY <1>t, <1>n, <2>1, <2>2 DEF Ring!TypeOK
  <2>4. Kept'
    BY <1>n, <2>2, KeptStays
  <2>5. Timely'
    BY <1>n, <2>2 DEF Timely
  <2>6. Replied'
    BY <1>t, <2>2 DEF Replied
  <2>. QED
    BY <2>3, <2>4, <2>5, <2>6 DEF RingInv
<1>3. ASSUME NEW v \in RingValues, Ring!Collect(v) PROVE RingInv'
  <2> DEFINE x == [t |-> clock, v |-> v]
  <2>1. x \in Ring!Sample /\ x.t = clock
    BY <1>n DEF Ring!Sample
  <2>2. /\ stamped = <<>> /\ stamped' = <<x>> /\ Len(recorded) < RingRecords
        /\ UNCHANGED <<clock, latestNow, backs, samples, recorded, asked, reply>>
    BY <1>3 DEF Ring!Collect
  <2> HIDE DEF x
  <2>3. /\ <<x>> \in Seq(Ring!Sample) /\ Len(<<x>>) = 1 /\ <<x>>[1] = x
        /\ \A j \in DOMAIN <<x>> : <<x>>[j] = x
    BY <2>1
  <2>4. Ring!TypeOK'
    <3>1. Len(recorded) + 1 <= RingRecords
      BY <1>n, <2>2
    <3>. QED
      BY <1>t, <1>n, <2>2, <2>3, <3>1 DEF Ring!TypeOK
  <2>5. Kept'
    BY <1>n, <2>2, KeptStays
  <2>6. Timely'
    BY <1>t, <1>n, <2>1, <2>2, <2>3 DEF Timely, RingTimes
  <2>7. Replied'
    BY <1>t, <2>2 DEF Replied
  <2>. QED
    BY <2>4, <2>5, <2>6, <2>7 DEF RingInv
<1>4. CASE Ring!Record
  <2>1. /\ samples' \in Seq(Ring!Sample) /\ Len(samples') <= RingLen /\ stamped' = <<>>
        /\ recorded' \in Seq(Ring!Sample) /\ Len(recorded') = Len(recorded) + Len(stamped)
        /\ Kept'
        /\ backs = 0 => /\ RingTimes'
                        /\ \A i \in DOMAIN samples' :
                             samples'[i].t <= clock /\ samples'[i].t >= clock - RingRetain
    BY <1>4, RecordKeeps
  <2>2. UNCHANGED <<clock, latestNow, backs, asked, reply>>
    BY <1>4 DEF Ring!Record
  <2>3. Ring!TypeOK'
    <3>1. /\ <<>> \in Seq(Ring!Sample) /\ Len(<<>>) = 0
          /\ Len(recorded') + 0 = Len(recorded) + Len(stamped)
      BY <1>n, <2>1
    <3>. QED
      BY <1>t, <1>n, <2>1, <2>2, <3>1 DEF Ring!TypeOK
  <2>4. Timely'
    BY <1>n, <2>1, <2>2 DEF Timely
  <2>5. Replied'
    BY <1>t, <2>2 DEF Replied
  <2>. QED
    BY <2>1, <2>3, <2>4, <2>5 DEF RingInv
<1>5. ASSUME NEW q \in RingQueries, Ring!RangeBegins(q) PROVE RingInv'
  <2>1. /\ asked' = {[cutoff |-> clock - q.dur, points |-> q.points]}
        /\ UNCHANGED <<clock, latestNow, backs, samples, stamped, recorded, reply>>
    BY <1>5 DEF Ring!RangeBegins
  <2>2. [cutoff |-> clock - q.dur, points |-> q.points] \in [cutoff : Int, points : Int]
    BY <1>n DEF RingSensible
  <2>3. Ring!TypeOK'
    BY <1>t, <1>n, <2>1, <2>2 DEF Ring!TypeOK
  <2>4. Kept'
    BY <1>n, <2>1, KeptStays
  <2>5. Timely' /\ Replied'
    BY <1>t, <2>1 DEF Timely, RingTimes, Replied
  <2>. QED
    BY <2>3, <2>4, <2>5 DEF RingInv
<1>6. CASE Ring!RangeReads
  <2>1. /\ reply'.src \in Seq(Ring!Sample) /\ reply'.points \in Nat \ {0}
        /\ reply'.out \in Seq(Ring!Bucket) /\ asked' \subseteq asked
        /\ Conserves(reply'.src, reply'.points, reply'.out)
        /\ UNCHANGED <<clock, latestNow, backs, samples, stamped, recorded>>
    BY <1>n, <1>6, SampleType, ReadsProperties
  <2>2. Ring!TypeOK'
    BY <1>t, <1>n, <2>1 DEF Ring!TypeOK
  <2>3. Kept'
    BY <1>n, <2>1, KeptStays
  <2>4. Timely' /\ Replied'
    BY <1>t, <2>1 DEF Timely, RingTimes, Replied
  <2>. QED
    BY <2>2, <2>3, <2>4 DEF RingInv
<1>7. CASE UNCHANGED historyVars
  <2>1. UNCHANGED <<clock, latestNow, backs, samples, stamped, recorded, asked, reply>>
    BY <1>7 DEF historyVars
  <2>. QED
    BY <1>t, <2>1 DEF RingInv, Ring!TypeOK, Kept, Suffix, Timely, RingTimes, Replied
<1>. QED
  BY <1>1, <1>2, <1>3, <1>4, <1>5, <1>6, <1>7 DEF Ring!Next

\* What the invariant says of the ring and of the reply.
LEMMA RingMeans ==
  RingSensible /\ RingInv
  => Ring!TypeOK /\ Ring!KeepsRecent /\ Ring!RingOrdered /\ Ring!ReplyConserves
<1> SUFFICES ASSUME RingSensible, RingInv
             PROVE Ring!KeepsRecent /\ Ring!RingOrdered /\ Ring!ReplyConserves
  BY DEF RingInv
<1>1. /\ samples \in Seq(Ring!Sample) /\ recorded \in Seq(Ring!Sample)
      /\ Suffix(samples, recorded) /\ Kept /\ Timely /\ Replied
  BY DEF RingInv, Ring!TypeOK, Kept
<1>2. samples = SubSeq(recorded, Len(recorded) - Len(samples) + 1, Len(recorded))
  BY <1>1, SuffixUnique
<1>3. Len(recorded) - Len(samples) >= 0
  BY <1>1 DEF Suffix
<1>4. Ring!KeepsRecent
  BY <1>1, <1>2, <1>3 DEF Ring!KeepsRecent, Kept
<1>5. Ring!RingOrdered
  BY <1>1 DEF Ring!RingOrdered, Timely, RingTimes
<1>6. Ring!ReplyConserves
  BY <1>1 DEF Ring!ReplyConserves, Replied, Conserves, RawOf
<1>. QED
  BY <1>4, <1>5, <1>6

\* A Record leaves nothing that is too old, until the clock is set back.
LEMMA RecordForgets ==
  RingSensible /\ RingInv =>
    (Ring!Record /\ backs = 0 => \A i \in DOMAIN samples' : samples'[i].t >= clock - RingRetain)
BY RecordKeeps

-----------------------------------------------------------------------------
(* The size of a reply.                                                    *)

\* A quotient is small when the dividend is.
LEMMA DivisionBound ==
  ASSUME NEW a \in Nat, NEW d \in Nat \ {0}, NEW q \in Nat, a < d * (q + 1)
  PROVE  a \div d <= q
<1> DEFINE k == a \div d
<1>1. k \in Nat /\ d * k <= a
  BY Division
<1> HIDE DEF k
<1>2. d * k < d * (q + 1)
  BY <1>1, SMTT(30)
<1>3. \A x, y \in Nat : x >= y => d * x >= d * y
  BY SMTT(30)
<1>4. ~(k >= q + 1)
  BY <1>1, <1>2, <1>3, SMTT(30)
<1>. QED
  BY <1>1, <1>4 DEF k

\* Later samples are in later slices.
LEMMA DivisionGrows ==
  ASSUME NEW a \in Nat, NEW b \in Nat, a <= b, NEW d \in Nat \ {0}
  PROVE  a \div d <= b \div d
<1> DEFINE q == b \div d
<1>1. q \in Nat /\ b < d * q + d
  BY Division
<1> HIDE DEF q
<1>2. d * q + d = d * (q + 1) /\ d * (q + 1) \in Nat
  BY <1>1, SMTT(30)
<1>3. a < d * (q + 1)
  BY <1>1, <1>2
<1>. QED
  BY <1>1, <1>3, DivisionBound DEF q

\* How many slices there are in a span.
LEMMA SlicesBound ==
  ASSUME NEW span \in Nat \ {0}, NEW p \in Nat \ {0}, NEW dur \in Nat \ {0},
         (dur = 1 /\ span \div p <= 1) \/ dur = span \div p
  PROVE  /\ (span \div dur) + 1 <= 2 * p
         /\ span >= p * p => (span \div dur) + 1 <= p + 1
<1> DEFINE k == span \div p
<1>1. k \in Nat /\ p * k <= span /\ span < p * k + p
  BY Division
<1> HIDE DEF k
<1>2. (dur = 1 /\ k = 0) \/ dur = k
  BY <1>1 DEF k
<1>3. CASE dur = 1 /\ k = 0
  <2>1. span < p /\ span < 1 * ((p - 1) + 1) /\ p - 1 \in Nat
    BY <1>1, <1>3
  <2>2. span \div dur <= p - 1
    BY <1>3, <2>1, DivisionBound
  <2>3. span \div dur \in Nat
    BY Division
  <2>. QED
    BY <2>2, <2>3
<1>4. CASE dur = k
  <2>1. span < k * ((2 * p - 1) + 1) /\ 2 * p - 1 \in Nat
    <3>1. \A x, y \in Nat : y >= 1 => x <= x * y
      BY SMTT(30)
    <3>2. p <= p * k
      BY <1>1, <1>4, <3>1
    <3>3. k * ((2 * p - 1) + 1) = p * k + p * k /\ p * k \in Nat
      BY <1>1, SMTT(30)
    <3>. QED
      BY <1>1, <3>2, <3>3
  <2>2. span \div dur <= 2 * p - 1
    BY <1>1, <1>4, <2>1, DivisionBound
  <2>3. ASSUME span >= p * p PROVE span \div dur <= p
    <3>1. p <= k
      <4>1. p * p \in Nat /\ p * k \in Nat /\ p * p < p * k + p
        BY <1>1, <2>3, SMTT(30)
      <4>2. p * k + p = p * (k + 1)
        BY <1>1, SMTT(30)
      <4>3. \A x, y \in Nat : x >= y => p * x >= p * y
        BY SMTT(30)
      <4>4. ~(p >= k + 1)
        BY <1>1, <4>1, <4>2, <4>3, SMTT(30)
      <4>. QED
        BY <1>1, <4>4
    <3>2. k * (p + 1) = p * k + k /\ p * k \in Nat
      BY <1>1, SMTT(30)
    <3>3. span < k * (p + 1)
      BY <1>1, <3>1, <3>2
    <3>. QED
      BY <1>1, <1>4, <3>3, DivisionBound
  <2>4. span \div dur \in Nat
    BY Division
  <2>. QED
    BY <2>2, <2>3, <2>4
<1>. QED
  BY <1>2, <1>3, <1>4

\* Samples in order of time.
Sorted(src) == \A i, j \in DOMAIN src : i < j => src[i].t <= src[j].t

\* The loop over a sorted window that begins at start.
SortedArgs(src, start, dur) ==
  LoopArgs(src, start, dur) /\ Sorted(src) /\ Len(src) > 0 /\ start = src[1].t

\* The slices of a sorted window come in order.
LEMMA SlicesGrow ==
  ASSUME NEW src, NEW start, NEW dur, SortedArgs(src, start, dur)
  PROVE  /\ \A i \in 1 .. Len(src) : /\ src[i].t - start \in Nat
                                      /\ Ring!Slice(src[i], start, dur) = (src[i].t - start) \div dur
                                      /\ Ring!Slice(src[i], start, dur) \in Nat
         /\ Ring!Slice(src[1], start, dur) = 0
         /\ \A i \in 1 .. Len(src) :
              i > 1 => Ring!Slice(src[i - 1], start, dur) <= Ring!Slice(src[i], start, dur)
<1>0. /\ src \in Seq(AnySample) /\ start \in Int /\ dur \in Nat \ {0}
      /\ Len(src) \in Nat \ {0} /\ DOMAIN src = 1 .. Len(src) /\ start = src[1].t
      /\ \A i, j \in 1 .. Len(src) : i < j => src[i].t <= src[j].t
  BY DEF SortedArgs, LoopArgs, Sorted
<1>1. \A i \in 1 .. Len(src) : src[i].t \in Int
  <2>1. \A i \in 1 .. Len(src) : src[i] \in AnySample
    BY <1>0
  <2>. QED
    BY <2>1 DEF AnySample
<1>2. ASSUME NEW i \in 1 .. Len(src) PROVE src[i].t - start \in Nat
  <2>1. i = 1 \/ 1 < i
    BY <1>0
  <2>2. 1 \in 1 .. Len(src)
    BY <1>0
  <2>3. src[1].t <= src[i].t
    BY <1>0, <1>1, <2>1, <2>2
  <2>. QED
    BY <1>0, <1>1, <2>2, <2>3
<1>3. ASSUME NEW i \in 1 .. Len(src)
      PROVE  /\ Ring!Slice(src[i], start, dur) = (src[i].t - start) \div dur
             /\ Ring!Slice(src[i], start, dur) \in Nat
  <2>1. src[i].t - start >= 0 /\ src[i].t - start \in Nat
    BY <1>2
  <2>2. (src[i].t - start) \div dur \in Nat
    BY <1>0, <2>1, Division
  <2>. QED
    BY <2>1, <2>2 DEF Ring!Slice, Ring!GoDiv
<1>4. Ring!Slice(src[1], start, dur) = 0
  <2>1. 1 \in 1 .. Len(src) /\ src[1].t - start = 0
    BY <1>0, <1>1
  <2>2. 0 \div dur = 0
    BY <1>0
  <2>. QED
    BY <1>3, <2>1, <2>2
<1>5. ASSUME NEW i \in 1 .. Len(src), i > 1
      PROVE  Ring!Slice(src[i - 1], start, dur) <= Ring!Slice(src[i], start, dur)
  <2>1. i - 1 \in 1 .. Len(src) /\ i - 1 < i
    BY <1>0, <1>5
  <2> DEFINE a == src[i - 1].t - start
             b == src[i].t - start
  <2>2. src[i - 1].t <= src[i].t
    BY <1>0, <2>1
  <2>3. a \in Nat /\ b \in Nat /\ a <= b
    <3>1. src[i - 1].t \in Int /\ src[i].t \in Int /\ start \in Int
      BY <1>0, <1>1, <2>1
    <3>2. a \in Nat /\ b \in Nat
      BY <1>2, <2>1
    <3>. QED
      BY <2>2, <3>1, <3>2, SMTT(30)
  <2>4. Ring!Slice(src[i - 1], start, dur) = a \div dur /\ Ring!Slice(src[i], start, dur) = b \div dur
    BY <1>3, <2>1
  <2> HIDE DEF a, b
  <2>. QED
    BY <1>0, <2>3, <2>4, DivisionGrows
<1>. QED
  BY <1>2, <1>3, <1>4, <1>5

\* In the slice of sample i there are at most as many buckets as slices before.
Few(src, start, dur, i, st) ==
  st.cur = Ring!Slice(src[i], start, dur) /\ Len(st.out) <= st.cur

\* The loop makes no more buckets than it has gone through slices.
LEMMA LoopFew ==
  ASSUME NEW src, NEW start, NEW dur, SortedArgs(src, start, dur)
  PROVE  \A i \in 1 .. Len(src) : Few(src, start, dur, i, Ring!Loop(src, start, dur)[i])
<1>0. /\ src \in Seq(AnySample) /\ start \in Int /\ dur \in Nat \ {0} /\ LoopArgs(src, start, dur)
      /\ Len(src) \in Nat \ {0}
  BY DEF SortedArgs, LoopArgs
<1> DEFINE n == Len(src)
           L == Ring!Loop(src, start, dur)
           Idx(i) == Ring!Slice(src[i], start, dur)
           Good(i) == Few(src, start, dur, i, L[i])
           T == {i \in Nat : 1 <= i /\ i <= n => Good(i)}
<1>1. /\ \A i \in 1 .. n : Idx(i) \in Nat
      /\ Idx(1) = 0 /\ \A i \in 1 .. n : i > 1 => Idx(i - 1) <= Idx(i)
  BY SlicesGrow
<1>2. L[0] = LoopStart /\ \A i \in 1 .. n : L[i] = Ring!Consume(L[i - 1], src[i], start, dur)
      /\ \A j \in 0 .. n : L[j] \in LoopState
  BY <1>0, LoopRecurs
<1>3. ASSUME NEW i \in 1 .. n
      PROVE  LET st == L[i - 1]
                 base == IF Idx(i) # st.cur THEN Ring!Flush(st) ELSE st
             IN  L[i].out = base.out /\ L[i].cur = Idx(i)
  <2>1. src[i] \in AnySample /\ i - 1 \in 0 .. n
    BY <1>0
  <2>2. L[i - 1] \in LoopState /\ L[i] = Ring!Consume(L[i - 1], src[i], start, dur)
    BY <1>2, <2>1
  <2> DEFINE st   == L[i - 1]
             idx  == Idx(i)
             base == IF idx # st.cur THEN Ring!Flush(st) ELSE st
             next == Ring!Consume(st, src[i], start, dur)
  <2>3. next.out = base.out /\ next.cur = idx
    <3> HIDE DEF L, st
    <3>1. st \in LoopState
      BY <2>2 DEF st
    <3>. QED
      BY <1>0, <2>1, <3>1, ConsumeProperties
  <2> HIDE DEF L
  <2>. QED
    BY <2>2, <2>3
<1> HIDE DEF L, n
<1>4. 0 \in T
  OBVIOUS
<1>5. ASSUME NEW i \in Nat, i \in T PROVE i + 1 \in T
  <2> SUFFICES ASSUME i + 1 <= n PROVE Good(i + 1)
    OBVIOUS
  <2>1. i + 1 \in 1 .. n /\ (i + 1) - 1 = i /\ i \in 0 .. n
    BY <1>0 DEF n
  <2> DEFINE st == L[i]
             base == IF Idx(i + 1) # st.cur THEN Ring!Flush(st) ELSE st
  <2>2. L[i + 1].out = base.out /\ L[i + 1].cur = Idx(i + 1) /\ st \in LoopState
    BY <1>2, <1>3, <2>1
  <2>3. Idx(i + 1) \in Nat
    BY <1>1, <2>1
  <2> HIDE DEF Idx
  <2>4. CASE i = 0
    <3>1. st = LoopStart /\ st.out = <<>> /\ st.acc.n = 0 /\ Len(st.out) = 0
      BY <1>2, <2>4 DEF LoopStart, Ring!EmptyAcc
    <3>2. base.out = <<>>
      BY <2>2, <3>1, FlushProperties
    <3>3. Len(L[i + 1].out) = 0
      BY <2>2, <3>2
    <3>. QED
      BY <2>2, <2>3, <3>3 DEF Few, Idx
  <2>5. CASE i # 0
    <3>1. i \in 1 .. n /\ i + 1 > 1
      BY <2>1, <2>5
    <3>2. st.cur = Idx(i) /\ Len(st.out) <= Idx(i) /\ Idx(i) <= Idx(i + 1) /\ Idx(i) \in Nat
      BY <1>1, <1>5, <2>1, <3>1 DEF Few, Idx
    <3>3. st.out \in Seq(Ring!Bucket) /\ Len(st.out) \in Nat
      BY <2>2 DEF LoopState
    <3>4. CASE Idx(i + 1) = st.cur
      <4>1. base = st
        BY <3>4
      <4>. QED
        BY <2>2, <2>3, <3>2, <3>3, <4>1 DEF Few, Idx
    <3>5. CASE Idx(i + 1) # st.cur
      <4>1. base = Ring!Flush(st)
        BY <3>5
      <4>2. base.out = st.out \/ base.out = Append(st.out, Ring!Average(st.acc))
        BY <2>2, <4>1, FlushProperties
      <4>3. Len(base.out) <= Len(st.out) + 1 /\ Len(base.out) \in Nat
        BY <3>3, <4>2
      <4>4. Idx(i) + 1 <= Idx(i + 1)
        BY <2>3, <3>2, <3>5
      <4> HIDE DEF st, base
      <4>5. Len(base.out) <= Idx(i + 1)
        BY <2>3, <3>2, <3>3, <4>3, <4>4
      <4>. QED
        BY <2>2, <4>5 DEF Few, Idx
    <3>. QED
      BY <3>4, <3>5
  <2>. QED
    BY <2>4, <2>5
<1> HIDE DEF T
<1>6. \A i \in Nat : i \in T
  BY <1>4, <1>5, Induction
<1>7. ASSUME NEW i \in 1 .. n PROVE Good(i)
  <2>1. i \in Nat /\ 1 <= i /\ i <= n
    BY <1>0 DEF n
  <2>. QED
    BY <1>6, <2>1 DEF T
<1>. QED
  BY <1>7 DEF L, n

\* What ReplyBounded says of a reply.
Bounded(src, points, out) ==
  LET span == Ring!Last(src).t - Head(src).t
  IN  /\ Len(out) <= 2 * points
      /\ (Len(src) > points /\ span >= points * points) => Len(out) <= points + 1

\* The buckets of a sorted window are few.
LEMMA DownsampleBounded ==
  ASSUME NEW src \in Seq(AnySample), Sorted(src), NEW p \in Int
  PROVE  Bounded(src, Ring!Max({1, p}), Ring!Downsample(src, p))
<1> DEFINE points == Ring!Max({1, p})
           start  == Head(src).t
           span   == Ring!Last(src).t - start
           dur    == Ring!BucketDur(span, points)
           out    == Ring!Downsample(src, p)
           n      == Len(src)
<1>1. points \in Nat \ {0} /\ n \in Nat
  <2>1. Ring!Max({1, p}) \in Nat \ {0}
    BY DownsampleConserves
  <2>. QED
    BY <2>1
<1>2. /\ n <= points => out = RawOf(src)
      /\ n > points /\ span <= 0 => out = <<Ring!Last(RawOf(src))>>
      /\ n > points /\ ~(span <= 0) => out = Ring!Buckets(src, start, dur)
  <2>1. n > points => ~(n <= points)
    BY <1>1
  <2>. QED
    BY <2>1 DEF Ring!Downsample, RawOf
<1>3. ASSUME n <= points PROVE Bounded(src, points, out)
  <2>1. Len(out) = n
    BY <1>2, <1>3, RawProperties
  <2> HIDE DEF n, points, out
  <2>2. ~(n > points) /\ n <= 2 * points
    BY <1>1, <1>3
  <2>. QED
    BY <2>1, <2>2 DEF Bounded, n
<1>4. ASSUME n > points PROVE Bounded(src, points, out)
  <2> HIDE DEF points, out
  <2>1. /\ 1 \in 1 .. n /\ n \in 1 .. n /\ n > 0
        /\ Head(src) = src[1] /\ Ring!Last(src) = src[n]
        /\ src[1] \in AnySample /\ src[n] \in AnySample
    BY <1>1, <1>4 DEF Ring!Last
  <2>2. start \in Int /\ Ring!Last(src).t \in Int /\ span \in Int /\ start = src[1].t
        /\ span = src[n].t - start
    BY <2>1 DEF AnySample
  <2>3. CASE span <= 0
    <3>1. Len(out) = 1
      BY <1>2, <1>4, <2>3
    <3> HIDE DEF span
    <3>2. 1 <= 2 * points /\ 1 <= points + 1
      BY <1>1
    <3>. QED
      BY <3>1, <3>2 DEF Bounded
  <2>4. CASE ~(span <= 0)
    <3>1. dur \in Nat \ {0} /\ span \in Nat \ {0}
      <4> HIDE DEF span
      <4>1. span \in Nat \ {0}
        BY <2>2, <2>4
      <4>2. dur \in Nat \ {0}
        BY <1>1, <2>2, BucketDurType
      <4>. QED
        BY <4>1, <4>2
    <3>2. SortedArgs(src, start, dur) /\ LoopArgs(src, start, dur)
      BY <2>1, <2>2, <3>1 DEF SortedArgs, LoopArgs
    <3>3. out = Ring!Buckets(src, start, dur)
      BY <1>2, <1>4, <2>4
    <3> DEFINE st == Ring!Loop(src, start, dur)[n]
               f  == Ring!Flush(st)
               k  == span \div dur
    <3>4. st \in LoopState
      <4>1. \A i \in 0 .. Len(src) : Ring!Loop(src, start, dur)[i] \in LoopState
        BY <3>2, LoopRecurs
      <4>. QED
        BY <1>1, <4>1
    <3>5. Few(src, start, dur, n, st)
      <4>1. \A i \in 1 .. Len(src) : Few(src, start, dur, i, Ring!Loop(src, start, dur)[i])
        BY <3>2, LoopFew
      <4>. QED
        BY <2>1, <4>1
    <3>6. Ring!Slice(src[n], start, dur) = k
      <4>1. \A i \in 1 .. Len(src) : /\ src[i].t - start \in Nat
                                      /\ Ring!Slice(src[i], start, dur) = (src[i].t - start) \div dur
                                      /\ Ring!Slice(src[i], start, dur) \in Nat
        BY <3>2, SlicesGrow
      <4>. QED
        BY <2>1, <2>2, <4>1
    <3>7. out = f.out
      BY <3>3 DEF Ring!Buckets
    <3>8. f.out = st.out \/ f.out = Append(st.out, Ring!Average(st.acc))
      BY <3>4, FlushProperties
    <3>9. (dur = 1 /\ span \div points <= 1) \/ dur = span \div points
      <4> DEFINE len == span \div points
      <4>1. len \in Int /\ 1 \in Int
        BY <1>1, <2>2
      <4>2. dur = Ring!Max({1, len})
        BY DEF Ring!BucketDur
      <4> HIDE DEF len, dur, span
      <4>3. Ring!Max({1, len}) \in {1, len} /\ 1 <= Ring!Max({1, len}) /\ len <= Ring!Max({1, len})
        BY <4>1, MaxOfTwo
      <4>4. (dur = 1 /\ len <= 1) \/ dur = len
        BY <4>2, <4>3
      <4>. QED
        BY <4>4 DEF len
    <3> HIDE DEF st, f, dur, span
    <3>10. k + 1 <= 2 * points /\ (span >= points * points => k + 1 <= points + 1)
      BY <1>1, <3>1, <3>9, SlicesBound
    <3>11. k \in Nat
      BY <3>1, Division
    <3> HIDE DEF k
    <3>12. st.out \in Seq(Ring!Bucket) /\ Len(st.out) <= k
      BY <3>4, <3>5, <3>6 DEF LoopState, Few
    <3>13. Len(out) <= k + 1 /\ Len(out) \in Nat
      BY <3>7, <3>8, <3>11, <3>12
    <3>14. Len(out) <= 2 * points /\ (span >= points * points => Len(out) <= points + 1)
      <4>1. points * points \in Nat
        BY <1>1
      <4>. QED
        BY <1>1, <3>1, <3>10, <3>11, <3>13
    <3>. QED
      BY <3>14 DEF Bounded, span
  <2>. QED
    BY <2>3, <2>4
<1>5. n <= points \/ n > points
  BY <1>1
<1>. QED
  BY <1>3, <1>4, <1>5

\* Sorted lists are numbered alike.
LEMMA SameNth == (\A S, k : Ring!Nth(S, k) = Nth(S, k)) /\ \A S : Ring!Cardinality(S) = Cardinality(S)
<1>0. \A S : Ring!Cardinality(S) = Cardinality(S)
  BY DEF Ring!Cardinality, Cardinality
<1>1. \A S, i : Ring!Rank(S, i) = Rank(S, i)
  BY <1>0 DEF Ring!Rank, Rank
<1>. QED
  BY <1>0, <1>1 DEF Ring!Nth, Nth

\* The times of a list of samples, and what the accumulator has of the list.
TimesOf(src) == [i \in DOMAIN src |-> src[i].t]
AccOf(src) == [t |-> SumList(TimesOf(src)), v |-> SumList(ValuesOf(src)), n |-> Len(src)]

\* The accumulator of one more sample.
LEMMA AccAppend ==
  /\ AccOf(<<>>) = Ring!EmptyAcc
  /\ \A src \in Seq(AnySample), s \in AnySample :
       /\ SumList(TimesOf(src)) \in Int
       /\ AccOf(Append(src, s)) = [t |-> AccOf(src).t + s.t, v |-> AccOf(src).v + s.v,
                                   n |-> AccOf(src).n + 1]
<1>1. AccOf(<<>>) = Ring!EmptyAcc
  <2>1. TimesOf(<<>>) = <<>> /\ ValuesOf(<<>>) = <<>> /\ Len(<<>>) = 0
    BY DEF TimesOf, ValuesOf
  <2>. QED
    BY <2>1, SumListProperties DEF AccOf, Ring!EmptyAcc
<1>2. ASSUME NEW src \in Seq(AnySample), NEW s \in AnySample
      PROVE  /\ SumList(TimesOf(src)) \in Int
             /\ AccOf(Append(src, s)) = [t |-> AccOf(src).t + s.t, v |-> AccOf(src).v + s.v,
                                         n |-> AccOf(src).n + 1]
  <2> DEFINE n == Len(src)
             more == Append(src, s)
  <2>1. s.t \in Int /\ s.v \in Int
    BY DEF AnySample
  <2>2. /\ n \in Nat /\ DOMAIN src = 1 .. n /\ Len(more) = n + 1 /\ DOMAIN more = 1 .. n + 1
        /\ \A i \in 1 .. n : more[i] = src[i] /\ src[i] \in AnySample
        /\ more[n + 1] = s
    OBVIOUS
  <2>3. \A i \in 1 .. n : src[i].t \in Int /\ src[i].v \in Int
    BY <2>2 DEF AnySample
  <2> HIDE DEF more, n
  <2>4. /\ TimesOf(src) \in Seq(Int) /\ Len(TimesOf(src)) = n
        /\ ValuesOf(src) \in Seq(Int) /\ Len(ValuesOf(src)) = n
    <3> DEFINE ts == [i \in 1 .. n |-> src[i].t]
               vs == [i \in 1 .. n |-> src[i].v]
    <3>1. ts \in Seq(Int) /\ Len(ts) = n /\ vs \in Seq(Int) /\ Len(vs) = n
      BY <2>2, <2>3
    <3>2. TimesOf(src) = ts /\ ValuesOf(src) = vs
      BY <2>2 DEF TimesOf, ValuesOf
    <3>. QED
      BY <3>1, <3>2
  <2>5. \A i \in 1 .. n + 1 : i \in 1 .. n \/ (i = n + 1 /\ i \notin 1 .. n)
    BY <2>2
  <2>6. TimesOf(more) = Append(TimesOf(src), s.t)
    <3>1. Append(TimesOf(src), s.t) =
            [k \in 1 .. n + 1 |-> IF k = n + 1 THEN s.t ELSE TimesOf(src)[k]]
      BY <2>1, <2>4, AppendIs
    <3>2. \A k \in 1 .. n + 1 : more[k].t = IF k = n + 1 THEN s.t ELSE TimesOf(src)[k]
      BY <2>2, <2>5 DEF TimesOf
    <3>. QED
      BY <2>2, <3>1, <3>2 DEF TimesOf
  <2>7. ValuesOf(more) = Append(ValuesOf(src), s.v)
    <3>1. Append(ValuesOf(src), s.v) =
            [k \in 1 .. n + 1 |-> IF k = n + 1 THEN s.v ELSE ValuesOf(src)[k]]
      BY <2>1, <2>4, AppendIs
    <3>2. \A k \in 1 .. n + 1 : more[k].v = IF k = n + 1 THEN s.v ELSE ValuesOf(src)[k]
      BY <2>2, <2>5 DEF ValuesOf
    <3>. QED
      BY <2>2, <3>1, <3>2 DEF ValuesOf
  <2>8. /\ SumList(TimesOf(more)) = SumList(TimesOf(src)) + s.t
        /\ SumList(ValuesOf(more)) = SumList(ValuesOf(src)) + s.v
        /\ SumList(TimesOf(src)) \in Int
    BY <2>1, <2>4, <2>6, <2>7, SumListProperties
  <2>. QED
    BY <2>2, <2>8 DEF AccOf, more, n
<1>. QED
  BY <1>1, <1>2

\* The reference's average is that of the accumulator.
LEMMA AverageOfAcc == \A src : Ring!AverageOf(src) = Ring!Average(AccOf(src))
BY SameSums DEF Ring!AverageOf, Ring!Average, AccOf, TimesOf, ValuesOf

-----------------------------------------------------------------------------
\* idx numbers n samples in order.
Numbers(idx, n) ==
  /\ n \in Nat /\ idx \in [1 .. n -> Nat]
  /\ \A i, j \in 1 .. n : i < j => idx[i] <= idx[j]

\* The places of the first i samples that have number k; the numbers used below x.
PartOf(idx, i, k) == {j \in 1 .. i : idx[j] = k}
UsedBelow(idx, n, x) == {k \in {idx[j] : j \in 1 .. n} : k < x}

\* The buckets for a set of slices.
BucketsOf(src, idx, U) ==
  [k \in 1 .. Cardinality(U) |-> Ring!Average(AccOf(At(src, PartOf(idx, Len(src), Nth(U, k)))))]

\* The numbers used are finitely many.
LEMMA UsedFinite ==
  ASSUME NEW n, NEW idx, Numbers(idx, n), NEW U \in SUBSET {idx[j] : j \in 1 .. n}
  PROVE  IsFiniteSet(U) /\ U \in SUBSET Nat /\ Cardinality(U) \in Nat
<1>1. n \in Nat /\ idx \in [1 .. n -> Nat]
  BY DEF Numbers
<1>2. IsFiniteSet(1 .. n)
  BY <1>1, FS_Interval
<1>3. idx \in Surjection(1 .. n, {idx[j] : j \in 1 .. n})
  BY <1>1 DEF Surjection
<1>4. IsFiniteSet({idx[j] : j \in 1 .. n})
  BY <1>2, <1>3, FS_Surjection
<1>5. IsFiniteSet(U) /\ U \in SUBSET Nat
  BY <1>1, <1>4, FS_Subset
<1>. QED
  BY <1>5, FS_CardinalityType

\* The bucket of a later slice comes last.
LEMMA AppendBucket ==
  ASSUME NEW src, NEW idx, NEW U \in SUBSET Nat, IsFiniteSet(U), NEW x \in Nat, \A k \in U : k < x
  PROVE  BucketsOf(src, idx, U \cup {x}) =
           Append(BucketsOf(src, idx, U), Ring!Average(AccOf(At(src, PartOf(idx, Len(src), x)))))
<1> DEFINE b(k) == Ring!Average(AccOf(At(src, PartOf(idx, Len(src), k))))
           n == Cardinality(U)
           a == [k \in 1 .. n |-> b(Nth(U, k))]
           W == U \cup {x}
           T == {b(Nth(U, k)) : k \in 1 .. n} \cup {b(x)}
<1>1. /\ Cardinality(W) = n + 1 /\ \A k \in 1 .. n : Nth(W, k) = Nth(U, k)
      /\ Nth(W, n + 1) = x
  BY AppendNth
<1>2. n \in Nat
  BY FS_CardinalityType
<1>3. BucketsOf(src, idx, U) = a /\ BucketsOf(src, idx, W) = [k \in 1 .. n + 1 |-> b(Nth(W, k))]
  BY <1>1 DEF BucketsOf
<1> HIDE DEF b, n, W
<1>4. a \in Seq(T) /\ Len(a) = n /\ b(x) \in T
  BY <1>2
<1> HIDE DEF T, a
<1>5. Append(a, b(x)) = [k \in 1 .. n + 1 |-> IF k = n + 1 THEN b(x) ELSE a[k]]
  BY <1>4, AppendIs
<1>6. \A k \in 1 .. n + 1 : b(Nth(W, k)) = IF k = n + 1 THEN b(x) ELSE a[k]
  <2> TAKE k \in 1 .. n + 1
  <2>1. k \in 1 .. n \/ k = n + 1
    BY <1>2
  <2>2. k \in 1 .. n => k # n + 1
    BY <1>2
  <2>. QED
    BY <1>1, <2>1, <2>2 DEF a
<1>. QED
  BY <1>3, <1>5, <1>6 DEF b, W

\* In the slice of sample i the buckets are those of the slices before, and the
\* accumulator has what came of this one.
Sliced(src, idx, i, st) ==
  /\ st.cur = idx[i]
  /\ st.acc = AccOf(At(src, PartOf(idx, i, idx[i])))
  /\ st.out = BucketsOf(src, idx, UsedBelow(idx, Len(src), idx[i]))

\* The numbers of the slices of a sorted window.
LEMMA SliceNumbers ==
  ASSUME NEW src, NEW start, NEW dur, SortedArgs(src, start, dur),
         NEW idx, idx = [i \in 1 .. Len(src) |-> Ring!Slice(src[i], start, dur)]
  PROVE  /\ Numbers(idx, Len(src)) /\ idx[1] = 0
         /\ \A i \in 1 .. Len(src) : idx[i] = (src[i].t - start) \div dur
<1> DEFINE n == Len(src)
<1>1. n \in Nat /\ 1 \in 1 .. n
  BY DEF SortedArgs, LoopArgs
<1>2. /\ \A i \in 1 .. n : idx[i] \in Nat /\ idx[i] = (src[i].t - start) \div dur
      /\ idx[1] = 0 /\ \A i \in 1 .. n : i > 1 => idx[i - 1] <= idx[i]
  <2>1. /\ \A i \in 1 .. n : /\ Ring!Slice(src[i], start, dur) = (src[i].t - start) \div dur
                             /\ Ring!Slice(src[i], start, dur) \in Nat
        /\ Ring!Slice(src[1], start, dur) = 0
        /\ \A i \in 1 .. n :
              i > 1 => Ring!Slice(src[i - 1], start, dur) <= Ring!Slice(src[i], start, dur)
    BY SlicesGrow
  <2>2. \A i \in 1 .. n : i > 1 => i - 1 \in 1 .. n
    BY <1>1
  <2>. QED
    BY <1>1, <2>1, <2>2
<1>3. idx \in [1 .. n -> Nat]
  BY <1>2
<1> HIDE DEF n
<1>4. \A i \in 1 .. n - 1 : idx[i] <= idx[i + 1]
  <2> TAKE i \in 1 .. n - 1
  <2>1. i + 1 \in 1 .. n /\ i + 1 > 1 /\ (i + 1) - 1 = i
    BY <1>1
  <2>. QED
    BY <1>2, <2>1
<1>5. idx \in [1 .. n -> Int]
  BY <1>3
<1>6. \A i, j \in 1 .. n : i < j => idx[i] <= idx[j]
  BY <1>1, <1>4, <1>5, GrowsThroughout
<1>. QED
  BY <1>1, <1>2, <1>3, <1>6 DEF Numbers, n

\* A round that found the buckets of the earlier slices, and what there is of its
\* own, adds its sample.
LEMMA ConsumeSliced ==
  ASSUME NEW src, NEW start, NEW dur, SortedArgs(src, start, dur),
         NEW idx, idx = [i \in 1 .. Len(src) |-> Ring!Slice(src[i], start, dur)],
         NEW i \in 1 .. Len(src), NEW st \in LoopState,
         LET base == IF idx[i] # st.cur THEN Ring!Flush(st) ELSE st
         IN  /\ base.acc = AccOf(At(src, PartOf(idx, i - 1, idx[i])))
             /\ base.out = BucketsOf(src, idx, UsedBelow(idx, Len(src), idx[i]))
  PROVE  Sliced(src, idx, i, Ring!Consume(st, src[i], start, dur))
<1> DEFINE s    == src[i]
           base == IF idx[i] # st.cur THEN Ring!Flush(st) ELSE st
           next == Ring!Consume(st, s, start, dur)
           part0 == PartOf(idx, i - 1, idx[i])
           l    == At(src, part0)
<1>1. /\ src \in Seq(AnySample) /\ start \in Int /\ dur \in Nat \ {0} /\ s \in AnySample
      /\ DOMAIN src = 1 .. Len(src) /\ Len(src) \in Nat
  BY DEF SortedArgs, LoopArgs
<1>2. idx[i] = Ring!Slice(s, start, dur)
  OBVIOUS
<1>3. /\ next.out = base.out /\ next.cur = idx[i]
      /\ next.acc = [t |-> base.acc.t + s.t, v |-> base.acc.v + s.v, n |-> base.acc.n + 1]
  BY <1>1, <1>2, ConsumeProperties
<1> HIDE DEF next
<1>4. base.acc = AccOf(l) /\ base.out = BucketsOf(src, idx, UsedBelow(idx, Len(src), idx[i]))
  OBVIOUS
<1> HIDE DEF base
<1>5. PartOf(idx, i, idx[i]) = part0 \cup {i}
  BY <1>1 DEF PartOf
<1>6. part0 \in SUBSET (DOMAIN src) /\ i \in DOMAIN src /\ \A j \in part0 : j < i
  BY <1>1 DEF PartOf
<1> HIDE DEF part0
<1>7. At(src, PartOf(idx, i, idx[i])) = Append(l, s)
  BY <1>1, <1>5, <1>6, AppendAt
<1>8. l \in Seq(AnySample)
  BY <1>1, <1>6, AtProperties
<1> HIDE DEF l
<1>9. AccOf(Append(l, s)) = [t |-> AccOf(l).t + s.t, v |-> AccOf(l).v + s.v, n |-> AccOf(l).n + 1]
  BY <1>1, <1>8, AccAppend
<1>. QED
  BY <1>3, <1>4, <1>7, <1>9 DEF Sliced, next

\* A sample of a later slice ends the bucket.
LEMMA FlushSliced ==
  ASSUME NEW src, NEW start, NEW dur, SortedArgs(src, start, dur),
         NEW idx, Numbers(idx, Len(src)),
         NEW i \in 1 .. Len(src), NEW st \in LoopState, Sliced(src, idx, i, st),
         NEW U, U = UsedBelow(idx, Len(src), idx[i]) \cup {idx[i]},
         \A j \in 1 .. Len(src) : idx[j] = idx[i] => j <= i
  PROVE  Ring!Flush(st).out = BucketsOf(src, idx, U) /\ Ring!Flush(st).acc = Ring!EmptyAcc
<1> DEFINE n == Len(src)
           x == idx[i]
           P == PartOf(idx, i, x)
           B == UsedBelow(idx, n, x)
<1>1. /\ src \in Seq(AnySample) /\ n \in Nat /\ DOMAIN src = 1 .. n
      /\ idx \in [1 .. n -> Nat]
  BY DEF SortedArgs, LoopArgs, Numbers
<1>2. PartOf(idx, n, x) = P
  BY <1>1 DEF PartOf
<1>3. P \in SUBSET (DOMAIN src) /\ i \in P
  BY <1>1 DEF PartOf
<1> HIDE DEF P
<1>4. Cardinality(P) \in Nat \ {0}
  <2>1. IsFiniteSet(P)
    BY <1>1, <1>3, AtProperties
  <2>. QED
    BY <1>3, <2>1, FS_CardinalityType, FS_EmptySet
<1>5. Len(At(src, P)) = Cardinality(P)
  BY <1>1, <1>3, AtProperties
<1>6. st.acc.n # 0
  BY <1>4, <1>5 DEF Sliced, AccOf, P
<1>7. /\ Ring!Flush(st).acc = Ring!EmptyAcc
      /\ Ring!Flush(st).out = Append(st.out, Ring!Average(st.acc))
  BY <1>6, FlushProperties
<1>8. B \in SUBSET {idx[j] : j \in 1 .. n} /\ x \in Nat /\ \A k \in B : k < x
  BY <1>1 DEF UsedBelow
<1>9. B \in SUBSET Nat /\ IsFiniteSet(B)
  BY <1>8, UsedFinite
<1> HIDE DEF B
<1>10. BucketsOf(src, idx, B \cup {x}) =
        Append(BucketsOf(src, idx, B), Ring!Average(AccOf(At(src, PartOf(idx, n, x)))))
  BY <1>8, <1>9, AppendBucket
<1>. QED
  BY <1>2, <1>7, <1>10 DEF Sliced, B, P

\* The loop goes through the slices in order.
LEMMA LoopSliced ==
  ASSUME NEW src, NEW start, NEW dur, SortedArgs(src, start, dur),
         NEW idx, idx = [i \in 1 .. Len(src) |-> Ring!Slice(src[i], start, dur)]
  PROVE  \A i \in 1 .. Len(src) : Sliced(src, idx, i, Ring!Loop(src, start, dur)[i])
<1> DEFINE n == Len(src)
           L == Ring!Loop(src, start, dur)
           T == {i \in Nat : 1 <= i /\ i <= n => Sliced(src, idx, i, L[i])}
<1>1. /\ LoopArgs(src, start, dur) /\ n \in Nat \ {0} /\ DOMAIN src = 1 .. n
  BY DEF SortedArgs, LoopArgs
<1>2. Numbers(idx, n) /\ idx[1] = 0
  BY SliceNumbers
<1>3. /\ idx \in [1 .. n -> Nat]
      /\ \A i, j \in 1 .. n : i < j => idx[i] <= idx[j]
  BY <1>2 DEF Numbers
<1>4. L[0] = LoopStart /\ \A i \in 1 .. n : L[i] = Ring!Consume(L[i - 1], src[i], start, dur)
      /\ \A j \in 0 .. n : L[j] \in LoopState
  BY <1>1, LoopRecurs
<1> HIDE DEF L
<1>5. 0 \in T
  OBVIOUS
<1>6. ASSUME NEW i \in Nat, i \in T PROVE i + 1 \in T
  <2> SUFFICES ASSUME i + 1 <= n PROVE Sliced(src, idx, i + 1, L[i + 1])
    OBVIOUS
  <2> DEFINE st == L[i]
             x == idx[i + 1]
             base == IF x # st.cur THEN Ring!Flush(st) ELSE st
  <2>1. i + 1 \in 1 .. n /\ (i + 1) - 1 = i /\ i \in 0 .. n
    BY <1>1
  <2>2. st \in LoopState /\ L[i + 1] = Ring!Consume(st, src[i + 1], start, dur) /\ x \in Nat
    BY <1>3, <1>4, <2>1
  <2>3. /\ base.acc = AccOf(At(src, PartOf(idx, i, x)))
        /\ base.out = BucketsOf(src, idx, UsedBelow(idx, n, x))
    <3>1. CASE i = 0
      <4>1. st.acc = Ring!EmptyAcc /\ st.out = <<>> /\ st.acc.n = 0 /\ x = 0
        BY <1>2, <1>4, <3>1 DEF LoopStart, Ring!EmptyAcc
      <4>2. base.acc = Ring!EmptyAcc /\ base.out = <<>>
        BY <2>2, <4>1, FlushProperties
      <4>3. PartOf(idx, i, x) = {} /\ UsedBelow(idx, n, x) = {}
        BY <1>3, <3>1, <4>1 DEF PartOf, UsedBelow
      <4>4. BucketsOf(src, idx, {}) = <<>>
        BY FS_EmptySet DEF BucketsOf
      <4>5. AccOf(At(src, {})) = Ring!EmptyAcc
        BY EmptyAt, AccAppend
      <4>. QED
        BY <4>2, <4>3, <4>4, <4>5
    <3>2. CASE i # 0
      <4>1. i \in 1 .. n /\ i < i + 1
        BY <2>1, <3>2
      <4>2. Sliced(src, idx, i, st)
        BY <1>6, <2>1, <4>1
      <4>3. idx[i] <= x /\ idx[i] \in Nat /\ st.cur = idx[i]
        BY <1>3, <2>1, <4>1, <4>2 DEF Sliced
      <4>4. CASE x = idx[i]
        <5>1. base = st
          BY <4>3, <4>4
        <5> HIDE DEF base, st
        <5>. QED
          BY <4>2, <4>4, <5>1 DEF Sliced
      <4>5. CASE x # idx[i]
        <5>1. base = Ring!Flush(st) /\ idx[i] < x
          BY <2>2, <4>3, <4>5
        <5>2. ASSUME NEW j \in 1 .. n PROVE idx[j] <= idx[i] \/ x <= idx[j]
          <6>1. j = i \/ j < i \/ j = i + 1 \/ i + 1 < j
            OBVIOUS
          <6>2. idx[j] \in Nat
            BY <1>3
          <6>. QED
            BY <1>3, <2>1, <4>1, <4>3, <6>1, <6>2
        <5>3. UsedBelow(idx, n, x) = UsedBelow(idx, n, idx[i]) \cup {idx[i]}
          <6>1. \A j \in 1 .. n : idx[j] \in Nat
            BY <1>3
          <6>2. \A j \in 1 .. n : idx[j] < x <=> idx[j] < idx[i] \/ idx[j] = idx[i]
            BY <2>2, <4>3, <5>1, <5>2, <6>1
          <6>. QED
            BY <4>1, <6>2, <5>1 DEF UsedBelow
        <5>4. \A j \in 1 .. n : idx[j] = idx[i] => j <= i
          <6> SUFFICES ASSUME NEW j \in 1 .. n, idx[j] = idx[i], ~(j <= i) PROVE FALSE
            OBVIOUS
          <6>1. j = i + 1 \/ i + 1 < j
            OBVIOUS
          <6>2. x <= idx[j]
            BY <1>3, <2>1, <2>2, <6>1
          <6>. QED
            BY <2>2, <4>3, <5>1, <6>2
        <5>5. PartOf(idx, i, x) = {}
          <6> SUFFICES ASSUME NEW j \in 1 .. i, idx[j] = x PROVE FALSE
            BY DEF PartOf
          <6>1. j \in 1 .. n /\ (j = i \/ j < i)
            BY <4>1
          <6>2. idx[j] <= idx[i]
            BY <1>3, <4>1, <4>3, <6>1
          <6>. QED
            BY <2>2, <4>3, <5>1, <6>2
        <5> HIDE DEF st, base, n
        <5>6. /\ Ring!Flush(st).out = BucketsOf(src, idx, UsedBelow(idx, n, x))
              /\ Ring!Flush(st).acc = Ring!EmptyAcc
          BY <1>2, <2>2, <4>1, <4>2, <5>3, <5>4, FlushSliced DEF n
        <5>7. AccOf(At(src, {})) = Ring!EmptyAcc
          BY EmptyAt, AccAppend
        <5>. QED
          BY <5>1, <5>5, <5>6, <5>7
      <4>. QED
        BY <4>4, <4>5
    <3>. QED
      BY <3>1, <3>2
  <2> HIDE DEF st, T, n
  <2>4. Sliced(src, idx, i + 1, Ring!Consume(st, src[i + 1], start, dur))
    BY <2>1, <2>2, <2>3, ConsumeSliced DEF n
  <2>. QED
    BY <2>2, <2>4
<1> HIDE DEF T
<1>7. \A i \in Nat : i \in T
  BY <1>5, <1>6, Induction
<1>8. ASSUME NEW i \in 1 .. n PROVE Sliced(src, idx, i, L[i])
  <2>1. i \in Nat /\ 1 <= i /\ i <= n
    BY <1>1
  <2>. QED
    BY <1>7, <2>1 DEF T
<1>. QED
  BY <1>8 DEF L

\* The last sample has the highest number.
LEMMA UsedUpToLast ==
  ASSUME NEW n, NEW idx, Numbers(idx, n), n \in 1 .. n
  PROVE  {idx[j] : j \in 1 .. n} = UsedBelow(idx, n, idx[n]) \cup {idx[n]}
<1>1. n \in Nat /\ idx \in [1 .. n -> Nat] /\ \A i, j \in 1 .. n : i < j => idx[i] <= idx[j]
  BY DEF Numbers
<1>2. \A j \in 1 .. n : idx[j] < idx[n] \/ idx[j] = idx[n]
  <2> TAKE j \in 1 .. n
  <2>1. j = n \/ j < n
    BY <1>1
  <2>2. idx[j] \in Nat /\ idx[n] \in Nat
    BY <1>1
  <2>. QED
    BY <1>1, <2>1, <2>2
<1>. QED
  BY <1>2 DEF UsedBelow

\* The last flush completes the buckets.
LEMMA LastFlush ==
  ASSUME NEW src, NEW start, NEW dur, SortedArgs(src, start, dur),
         NEW idx, Numbers(idx, Len(src)),
         NEW st \in LoopState, Sliced(src, idx, Len(src), st)
  PROVE  Ring!Flush(st).out = BucketsOf(src, idx, {idx[j] : j \in 1 .. Len(src)})
<1> DEFINE n == Len(src)
           used == {idx[j] : j \in 1 .. n}
<1>1. n \in 1 .. n /\ \A j \in 1 .. n : idx[j] = idx[n] => j <= n
  BY DEF SortedArgs, LoopArgs
<1>2. used = UsedBelow(idx, n, idx[n]) \cup {idx[n]}
  BY <1>1, UsedUpToLast
<1> HIDE DEF used
<1>3. Ring!Flush(st).out = BucketsOf(src, idx, used)
  BY <1>1, <1>2, FlushSliced
<1>. QED
  BY <1>3 DEF used

\* The loop and the last flush give the average of every slice that is used.
LEMMA BucketsAre ==
  ASSUME NEW src, NEW start, NEW dur, SortedArgs(src, start, dur),
         NEW idx, idx = [i \in 1 .. Len(src) |-> Ring!Slice(src[i], start, dur)]
  PROVE  Ring!Buckets(src, start, dur) = BucketsOf(src, idx, {idx[j] : j \in 1 .. Len(src)})
<1> DEFINE st == Ring!Loop(src, start, dur)[Len(src)]
<1>1. LoopArgs(src, start, dur) /\ Len(src) \in 1 .. Len(src) /\ Len(src) \in 0 .. Len(src)
  BY DEF SortedArgs, LoopArgs
<1>2. Numbers(idx, Len(src))
  BY SliceNumbers
<1>3. Sliced(src, idx, Len(src), st)
  BY <1>1, LoopSliced
<1>4. st \in LoopState
  BY <1>1, LoopRecurs
<1> HIDE DEF st
<1>5. Ring!Flush(st).out = BucketsOf(src, idx, {idx[j] : j \in 1 .. Len(src)})
  BY <1>2, <1>3, <1>4, LastFlush
<1>. QED
  BY <1>5 DEF Ring!Buckets, st

\* They are the reference's buckets.
LEMMA BucketsReference ==
  ASSUME NEW src, NEW start, NEW dur, SortedArgs(src, start, dur)
  PROVE  Ring!Buckets(src, start, dur) = Ring!Reference(src, dur)
<1> DEFINE n == Len(src)
           idx == [i \in 1 .. n |-> Ring!Slice(src[i], start, dur)]
           used == {idx[j] : j \in 1 .. n}
<1>1. DOMAIN src = 1 .. n /\ start = src[1].t
  BY DEF SortedArgs, LoopArgs
<1>2. Ring!Buckets(src, start, dur) = BucketsOf(src, idx, used)
  BY BucketsAre
<1>3. idx = [i \in DOMAIN src |-> (src[i].t - src[1].t) \div dur]
  <2>1. Numbers(idx, n) /\ \A i \in 1 .. n : idx[i] = (src[i].t - start) \div dur
    BY SliceNumbers
  <2>2. idx = [i \in 1 .. n |-> idx[i]]
    OBVIOUS
  <2> HIDE DEF idx
  <2>. QED
    BY <1>1, <2>1, <2>2
<1> HIDE DEF idx
<1>4. Ring!Reference(src, dur) = BucketsOf(src, idx, used)
  <2> DEFINE R(f) == LET U == {f[i] : i \in DOMAIN src}
                     IN  [k \in 1 .. Ring!Cardinality(U) |->
                            Ring!AverageOf(Ring!At(src, {i \in DOMAIN src : f[i] = Ring!Nth(U, k)}))]
  <2>1. Ring!Reference(src, dur) = R(idx)
    BY <1>3 DEF Ring!Reference
  <2>2. R(idx) = [k \in 1 .. Cardinality(used) |->
                    Ring!Average(AccOf(At(src, {i \in 1 .. n : idx[i] = Nth(used, k)})))]
    BY <1>1, SameNth, SameAt, AverageOfAcc
  <2>. QED
    BY <2>1, <2>2 DEF BucketsOf, PartOf
<1>. QED
  BY <1>2, <1>4

\* The average of samples is between their bounds.
LEMMA AverageBetween ==
  ASSUME NEW src \in Seq(AnySample), Len(src) > 0, NEW lo \in Int, NEW hi \in Int,
         \A i \in 1 .. Len(src) : lo <= src[i].t /\ src[i].t <= hi
  PROVE  /\ Ring!Average(AccOf(src)).t \in Int
         /\ lo <= Ring!Average(AccOf(src)).t /\ Ring!Average(AccOf(src)).t <= hi
<1> DEFINE n  == Len(src)
           ts == [i \in 1 .. n |-> src[i].t]
<1>1. n \in Nat \ {0} /\ DOMAIN src = 1 .. n /\ \A i \in 1 .. n : src[i] \in AnySample
  OBVIOUS
<1>2. \A i \in 1 .. n : src[i].t \in Int
  BY <1>1 DEF AnySample
<1>3. TimesOf(src) = ts
  BY <1>1 DEF TimesOf
<1>4. ts \in Seq(Int) /\ Len(ts) = n /\ \A i \in 1 .. n : lo <= ts[i] /\ ts[i] <= hi
  BY <1>1, <1>2
<1> HIDE DEF ts, n
<1>5. lo * n <= SumList(ts) /\ SumList(ts) <= hi * n
  BY <1>4, SumBetween
<1>6. SumList(ts) \in Int
  BY <1>4, SumListProperties
<1>7. Ring!Average(AccOf(src)).t = SumList(ts) \div n
  BY <1>3 DEF Ring!Average, AccOf, n
<1>. QED
  BY <1>1, <1>5, <1>6, <1>7, DivisionBetween

\* The averages of a sorted window are in order of time.
LEMMA ReferenceOrdered ==
  ASSUME NEW src, NEW start, NEW dur, SortedArgs(src, start, dur),
         NEW out, out = Ring!Buckets(src, start, dur)
  PROVE  \A i, j \in DOMAIN out : i < j => out[i].t < out[j].t
<1> DEFINE n == Len(src)
           idx == [i \in 1 .. n |-> Ring!Slice(src[i], start, dur)]
           used == {idx[j] : j \in 1 .. n}
           B(k) == Ring!Average(AccOf(At(src, PartOf(idx, n, k))))
<1>1. /\ src \in Seq(AnySample) /\ start \in Int /\ dur \in Nat \ {0}
      /\ DOMAIN src = 1 .. n /\ n \in Nat
  BY DEF SortedArgs, LoopArgs
<1>2. Numbers(idx, n) /\ \A i \in 1 .. n : idx[i] = (src[i].t - start) \div dur
  BY SliceNumbers
<1>3. \A i \in 1 .. n : src[i].t - start \in Nat
  BY SlicesGrow
<1>4. out = BucketsOf(src, idx, used)
  BY BucketsAre
<1> HIDE DEF idx
<1>5. idx \in [1 .. n -> Nat]
  BY <1>2 DEF Numbers
<1>6. /\ IsFiniteSet(used) /\ used \in SUBSET Nat /\ Cardinality(used) \in Nat
  BY <1>2, UsedFinite
<1>7. ASSUME NEW k \in used
      PROVE  B(k).t \in Int /\ start + dur * k <= B(k).t /\ B(k).t < start + dur * k + dur
  <2> DEFINE P == PartOf(idx, n, k)
             l == At(src, P)
             lo == start + dur * k
             hi == lo + dur - 1
  <2>1. P \in SUBSET (DOMAIN src) /\ P # {} /\ \A i \in P : i \in 1 .. n /\ idx[i] = k
    BY <1>1, <1>5 DEF PartOf
  <2> HIDE DEF P
  <2>2. /\ l \in Seq(AnySample) /\ IsFiniteSet(P) /\ Len(l) = Cardinality(P)
        /\ \A i \in 1 .. Len(l) : Nth(P, i) \in P /\ l[i] = src[Nth(P, i)]
    BY <1>1, <2>1, AtProperties
  <2>3. Len(l) > 0
    BY <2>1, <2>2, FS_CardinalityType, FS_EmptySet
  <2>4. k \in Nat /\ lo \in Int /\ hi \in Int
    <3>1. k \in Nat
      BY <1>6
    <3>2. dur * k \in Int
      BY <1>1, <3>1
    <3>. QED
      BY <1>1, <3>1, <3>2
  <2>5. ASSUME NEW i \in P PROVE lo <= src[i].t /\ src[i].t <= hi
    <3> DEFINE a == src[i].t - start
    <3>1. i \in 1 .. n /\ a \in Nat /\ k = a \div dur
      BY <1>2, <1>3, <2>1
    <3>2. src[i] \in AnySample
      BY <1>1, <3>1
    <3>3. src[i].t \in Int
      BY <3>2 DEF AnySample
    <3>4. src[i].t = start + a
      BY <1>1, <3>3
    <3> HIDE DEF a
    <3>5. dur * k <= a /\ a < dur * k + dur
      BY <1>1, <3>1, Division
    <3>6. dur * k \in Int
      BY <1>1, <2>4
    <3>. QED
      BY <1>1, <3>1, <3>4, <3>5, <3>6
  <2>6. \A i \in 1 .. Len(l) : lo <= l[i].t /\ l[i].t <= hi
    BY <2>2, <2>5
  <2> HIDE DEF l, lo, hi
  <2>7. Ring!Average(AccOf(l)).t \in Int /\ lo <= Ring!Average(AccOf(l)).t
        /\ Ring!Average(AccOf(l)).t <= hi
    BY <2>2, <2>3, <2>4, <2>6, AverageBetween
  <2>8. \A x \in Int : lo <= x /\ x <= hi => start + dur * k <= x /\ x < start + dur * k + dur
    <3>1. dur * k \in Int
      BY <1>1, <2>4
    <3>. QED
      BY <1>1, <3>1 DEF lo, hi
  <2>. QED
    BY <2>7, <2>8 DEF l, P
<1>8. DOMAIN out = 1 .. Cardinality(used) /\ \A i \in DOMAIN out : out[i] = B(Nth(used, i))
  BY <1>4 DEF BucketsOf
<1> HIDE DEF used, B, n
<1>9. ASSUME NEW i \in DOMAIN out, NEW j \in DOMAIN out, i < j PROVE out[i].t < out[j].t
  <2> DEFINE k == Nth(used, i)
             m == Nth(used, j)
  <2>1. k \in used /\ m \in used /\ k < m
    BY <1>6, <1>8, <1>9, NthLists
  <2> HIDE DEF k, m
  <2>2. k \in Nat /\ m \in Nat
    BY <1>6, <2>1
  <2>3. dur * k + dur <= dur * m /\ dur * k \in Int /\ dur * m \in Int
    <3>1. m - k - 1 \in Nat /\ dur * (m - k - 1) \in Nat
      BY <1>1, <2>1, <2>2
    <3>2. dur * (m - k - 1) = dur * m - dur * k - dur
      BY <1>1, <2>2, SMTT(30)
    <3>3. dur * k \in Int /\ dur * m \in Int
      BY <1>1, <2>2, SMTT(30)
    <3>. QED
      BY <1>1, <3>1, <3>2, <3>3
  <2>4. /\ B(k).t \in Int /\ B(k).t < start + dur * k + dur
        /\ B(m).t \in Int /\ start + dur * m <= B(m).t
    BY <1>7, <2>1
  <2>5. B(k).t < B(m).t
    BY <1>1, <2>3, <2>4
  <2>. QED
    BY <1>8, <2>5 DEF k, m
<1>. QED
  BY <1>9

\* What ReplyIsReference says of a reply.
Referenced(src, points, out) ==
  LET span == Ring!Last(src).t - Head(src).t
  IN  (Len(src) > points /\ span > 0) => out = Ring!Reference(src, Ring!BucketDur(span, points))

\* What ReplyChronological says of a reply.
Chronological(src, points, out) ==
  \A i, j \in DOMAIN out : i < j =>
    IF Len(src) > points THEN out[i].t < out[j].t ELSE out[i].t <= out[j].t

\* All that is said of the reply to a request that finds the samples in order.
Exact(src, points, out) ==
  Bounded(src, points, out) /\ Referenced(src, points, out) /\ Chronological(src, points, out)

\* What is returned of a sorted window is that.
LEMMA DownsampleExact ==
  ASSUME NEW src \in Seq(AnySample), Sorted(src), NEW p \in Int
  PROVE  Exact(src, Ring!Max({1, p}), Ring!Downsample(src, p))
<1> DEFINE points == Ring!Max({1, p})
           start  == Head(src).t
           span   == Ring!Last(src).t - start
           dur    == Ring!BucketDur(span, points)
           out    == Ring!Downsample(src, p)
           n      == Len(src)
<1>1. points \in Nat \ {0} /\ n \in Nat
  <2>1. Ring!Max({1, p}) \in Nat \ {0}
    BY DownsampleConserves
  <2>. QED
    BY <2>1
<1>2. /\ n <= points => out = RawOf(src)
      /\ n > points /\ span <= 0 => out = <<Ring!Last(RawOf(src))>>
      /\ n > points /\ ~(span <= 0) => out = Ring!Buckets(src, start, dur)
  <2>1. n > points => ~(n <= points)
    BY <1>1
  <2>. QED
    BY <2>1 DEF Ring!Downsample, RawOf
<1>3. Bounded(src, points, out)
  BY DownsampleBounded
<1> SUFFICES Referenced(src, points, out) /\ Chronological(src, points, out)
  BY <1>3 DEF Exact
<1>4. ASSUME n <= points PROVE Referenced(src, points, out) /\ Chronological(src, points, out)
  <2>1. out = RawOf(src) /\ ~(n > points)
    BY <1>1, <1>2, <1>4
  <2>2. \A i \in DOMAIN src : RawOf(src)[i].t = src[i].t
    BY DEF RawOf, Ring!Raw
  <2>3. DOMAIN RawOf(src) = DOMAIN src
    BY DEF RawOf
  <2> HIDE DEF points, out
  <2>. QED
    BY <2>1, <2>2, <2>3 DEF Referenced, Chronological, Sorted, n
<1>5. ASSUME n > points PROVE Referenced(src, points, out) /\ Chronological(src, points, out)
  <2> HIDE DEF points, out
  <2>1. /\ 1 \in 1 .. n /\ n \in 1 .. n /\ n > 0
        /\ Head(src) = src[1] /\ Ring!Last(src) = src[n]
        /\ src[1] \in AnySample /\ src[n] \in AnySample
    BY <1>1, <1>5 DEF Ring!Last
  <2>2. start \in Int /\ span \in Int /\ start = src[1].t
    BY <2>1 DEF AnySample
  <2>3. CASE span <= 0
    <3>1. DOMAIN out = {1}
      BY <1>2, <1>5, <2>3
    <3> HIDE DEF span
    <3>2. ~(span > 0) /\ \A i, j \in {1} : ~(i < j)
      BY <2>2, <2>3
    <3>. QED
      BY <3>1, <3>2 DEF Referenced, Chronological, span
  <2>4. CASE ~(span <= 0)
    <3>1. dur \in Nat \ {0}
      <4> HIDE DEF span
      <4>. QED
        BY <1>1, <2>2, BucketDurType
    <3>2. SortedArgs(src, start, dur)
      BY <2>1, <2>2, <3>1 DEF SortedArgs, LoopArgs
    <3>3. out = Ring!Buckets(src, start, dur)
      BY <1>2, <1>5, <2>4
    <3> HIDE DEF dur, start
    <3>4. out = Ring!Reference(src, dur)
      BY <3>2, <3>3, BucketsReference
    <3>5. \A i, j \in DOMAIN out : i < j => out[i].t < out[j].t
      BY <3>2, <3>3, ReferenceOrdered
    <3>. QED
      BY <1>5, <3>4, <3>5 DEF Referenced, Chronological, dur, start, n
  <2>. QED
    BY <2>3, <2>4
<1>6. n <= points \/ n > points
  BY <1>1
<1>. QED
  BY <1>4, <1>5, <1>6

\* A part of a sorted list is sorted.
LEMMA SortedAt ==
  ASSUME NEW s \in Seq(AnySample), Sorted(s), NEW S \in SUBSET (DOMAIN s)
  PROVE  Sorted(At(s, S))
<1> DEFINE n == Cardinality(S)
           e == At(s, S)
<1>1. /\ IsFiniteSet(S) /\ S \in SUBSET Nat /\ e \in Seq(AnySample) /\ Len(e) = n
      /\ \A k \in 1 .. n : Nth(S, k) \in S /\ e[k] = s[Nth(S, k)]
  BY AtProperties
<1>2. \A k, m \in 1 .. n : k < m => Nth(S, k) < Nth(S, m)
  BY <1>1, NthLists
<1>3. DOMAIN e = 1 .. n
  BY <1>1
<1> HIDE DEF n, e
<1>4. ASSUME NEW k \in 1 .. n, NEW m \in 1 .. n, k < m PROVE e[k].t <= e[m].t
  <2>1. Nth(S, k) < Nth(S, m) /\ Nth(S, k) \in DOMAIN s /\ Nth(S, m) \in DOMAIN s
    BY <1>1, <1>2, <1>4
  <2>. QED
    BY <1>1, <2>1 DEF Sorted
<1>. QED
  BY <1>3, <1>4 DEF Sorted, e

\* Nor is anything wrong with the reply to nobody.
LEMMA NoReplyExact == Exact(Ring!NoReply.src, Ring!NoReply.points, Ring!NoReply.out)
<1>1. Len(<<>>) = 0 /\ DOMAIN <<>> = {}
  OBVIOUS
<1>2. ~(Len(<<>>) > 1)
  BY <1>1
<1>. QED
  BY <1>1, <1>2 DEF Exact, Bounded, Referenced, Chronological, Ring!NoReply

\* A request that finds the samples in order is answered exactly.
LEMMA ReadsExactly ==
  ASSUME samples \in Seq(AnySample), Sorted(samples),
         asked \in SUBSET [cutoff : Int, points : Int], Ring!RangeReads
  PROVE  Exact(reply'.src, reply'.points, reply'.out)
<1>1. AnySample \subseteq AnySample
  OBVIOUS
<1>2. /\ \E S \in SUBSET (DOMAIN samples) : reply'.src = At(samples, S)
      /\ reply'.src \in Seq(AnySample)
      /\ \E p \in Int : reply'.points = Ring!Max({1, p}) /\ reply'.out = Ring!Downsample(reply'.src, p)
  BY <1>1, ReadsProperties
<1>3. Sorted(reply'.src)
  BY <1>2, SortedAt
<1>4. PICK p \in Int : reply'.points = Ring!Max({1, p}) /\ reply'.out = Ring!Downsample(reply'.src, p)
  BY <1>2
<1>5. Exact(reply'.src, Ring!Max({1, p}), Ring!Downsample(reply'.src, p))
  BY <1>2, <1>3, DownsampleExact
<1>. QED
  BY <1>4, <1>5

\* The ring answers exactly until the clock is set back.
Answered == backs = 0 => Exact(reply.src, reply.points, reply.out)

AnswerInv == RingInv /\ Answered

\* The invariant of the ring and of its replies holds at the start.
LEMMA AnswerInit == RingSensible /\ Ring!Init => AnswerInv
<1> SUFFICES ASSUME RingSensible, Ring!Init PROVE AnswerInv
  OBVIOUS
<1>1. reply = Ring!NoReply
  BY DEF Ring!Init
<1>. QED
  BY <1>1, RingInit, NoReplyExact DEF AnswerInv, Answered

\* Every step of the ring keeps it: the samples are in order, as long as the
\* clock has not been set back, when they are read.
LEMMA AnswerStep == RingSensible /\ AnswerInv /\ [Ring!Next]_historyVars => AnswerInv'
<1> SUFFICES ASSUME RingSensible, AnswerInv, [Ring!Next]_historyVars PROVE AnswerInv'
  OBVIOUS
<1>1. RingInv /\ Answered
  BY DEF AnswerInv
<1>2. RingInv'
  BY <1>1, RingStep
<1>3. ASSUME Ring!RangeReads, backs' = 0 PROVE Exact(reply'.src, reply'.points, reply'.out)
  <2>1. backs = 0
    BY <1>3 DEF Ring!RangeReads
  <2>2. /\ samples \in Seq(Ring!Sample) /\ asked \in SUBSET [cutoff : Int, points : Int]
        /\ RingTimes
    BY <1>1, <2>1 DEF RingInv, Ring!TypeOK, Timely
  <2>3. samples \in Seq(AnySample)
    BY <2>2, SampleType, SeqOfSamples
  <2>4. Sorted(samples)
    BY <2>2 DEF RingTimes, Sorted
  <2>. QED
    BY <1>3, <2>2, <2>3, <2>4, ReadsExactly
<1>4. ASSUME ~Ring!RangeReads, backs' = 0 PROVE backs = 0 /\ reply' = reply
  <2>1. CASE Ring!ClockSetBack
    <3>1. backs \in Nat /\ backs' = backs + 1
      BY <1>1, <2>1 DEF Ring!ClockSetBack, RingInv, Ring!TypeOK
    <3>. QED
      BY <1>4, <3>1
  <2>2. CASE ~Ring!ClockSetBack
    BY <1>4, <2>2 DEF Ring!Next, Ring!ClockAdvances, Ring!Collect, Ring!Record,
                      Ring!RangeBegins, historyVars
  <2>. QED
    BY <2>1, <2>2
<1>5. Answered'
  BY <1>1, <1>3, <1>4 DEF Answered
<1>. QED
  BY <1>2, <1>5 DEF AnswerInv

\* What is said of the replies is what the properties say.
LEMMA ExactMeans ==
  Exact(reply.src, reply.points, reply.out)
    => Ring!ReplyBounded /\ Ring!ReplyIsReference /\ Ring!ReplyChronological
BY DEF Exact, Bounded, Referenced, Chronological,
       Ring!ReplyBounded, Ring!ReplyIsReference, Ring!ReplyChronological

\* A filled ring, asked for parts of it: its replies conserve them and are exact.
WindowInv ==
  /\ clock \in Int /\ stamped = <<>> /\ samples \in Seq(AnySample) /\ Sorted(samples)
  /\ asked \in SUBSET [cutoff : Int, points : Int]
  /\ Replied /\ Exact(reply.src, reply.points, reply.out)

\* A full ring of any length is a window.
LEMMA WindowInit == ASSUME NEW len \in Nat, NEW last \in Nat, Ring!Filled(len, last) PROVE WindowInv
<1>1. PICK n \in 0 .. len : \E ts \in [1 .. n -> 0 .. last] :
        /\ \A i \in 1 .. n - 1 : ts[i] <= ts[i + 1]
        /\ samples = [i \in 1 .. n |-> [t |-> ts[i], v |-> i]]
  BY DEF Ring!Filled
<1>2. PICK ts \in [1 .. n -> 0 .. last] :
        /\ \A i \in 1 .. n - 1 : ts[i] <= ts[i + 1]
        /\ samples = [i \in 1 .. n |-> [t |-> ts[i], v |-> i]]
  BY <1>1
<1>3. n \in Nat /\ ts \in [1 .. n -> Int]
  OBVIOUS
<1>4. \A i, j \in 1 .. n : i < j => ts[i] <= ts[j]
  BY <1>2, <1>3, GrowsThroughout
<1>5. samples \in Seq(AnySample)
  <2>1. \A i \in 1 .. n : [t |-> ts[i], v |-> i] \in AnySample
    BY <1>3 DEF AnySample
  <2>. QED
    BY <1>2, <1>3, <2>1
<1>6. Sorted(samples)
  <2>1. DOMAIN samples = 1 .. n /\ \A i \in 1 .. n : samples[i].t = ts[i]
    BY <1>2
  <2>. QED
    BY <1>4, <2>1 DEF Sorted
<1>7. clock \in Int /\ stamped = <<>> /\ asked = {} /\ reply = Ring!NoReply
  BY DEF Ring!Filled
<1>. QED
  BY <1>5, <1>6, <1>7, NoReplyConserves, NoReplyExact DEF WindowInv, Replied

\* Requests leave the window as it is.
LEMMA WindowStep ==
  ASSUME WindowInv, NEW Q, Q \subseteq [dur : Int, points : Int],
         (\E q \in Q : Ring!RangeBegins(q)) \/ Ring!RangeReads \/ UNCHANGED historyVars
  PROVE  WindowInv'
<1>1. ASSUME NEW q \in Q, Ring!RangeBegins(q) PROVE WindowInv'
  <2>1. /\ asked' = {[cutoff |-> clock - q.dur, points |-> q.points]}
        /\ UNCHANGED <<clock, samples, stamped, reply>>
    BY <1>1 DEF Ring!RangeBegins
  <2>2. q.dur \in Int /\ q.points \in Int /\ clock \in Int
    BY DEF WindowInv
  <2>3. [cutoff |-> clock - q.dur, points |-> q.points] \in [cutoff : Int, points : Int]
    BY <2>2
  <2>. QED
    BY <2>1, <2>3 DEF WindowInv, Sorted, Replied
<1>2. CASE Ring!RangeReads
  <2>1. /\ samples \in Seq(AnySample) /\ Sorted(samples) /\ AnySample \subseteq AnySample
        /\ asked \in SUBSET [cutoff : Int, points : Int]
    BY DEF WindowInv
  <2>2. /\ asked' \subseteq asked
        /\ Conserves(reply'.src, reply'.points, reply'.out)
        /\ UNCHANGED <<clock, latestNow, backs, samples, stamped, recorded>>
    BY <1>2, <2>1, ReadsProperties
  <2>3. Exact(reply'.src, reply'.points, reply'.out)
    BY <1>2, <2>1, ReadsExactly
  <2>. QED
    BY <2>1, <2>2, <2>3 DEF WindowInv, Sorted, Replied
<1>3. CASE UNCHANGED historyVars
  BY <1>3 DEF historyVars, WindowInv, Sorted, Replied
<1>. QED
  BY <1>1, <1>2, <1>3

\* What is said of the window is what the properties say.
LEMMA WindowMeans ==
  WindowInv => /\ Ring!ReplyConserves /\ Ring!ReplyBounded
               /\ Ring!ReplyIsReference /\ Ring!ReplyChronological
<1>1. WindowInv => Ring!ReplyConserves
  BY DEF WindowInv, Replied, Conserves, RawOf, Ring!ReplyConserves
<1>. QED
  BY <1>1, ExactMeans DEF WindowInv

-----------------------------------------------------------------------------
(* The whole.                                                              *)

\* The constants are those the ring takes.
LEMMA RingConstants == RingSensible
BY HostAssumption DEF RingSensible

\* The ring while it is one, and the window while it is one.
HistoryInv ==
  /\ part \in {"collector", "ring", "window"}
  /\ part # "window" => AnswerInv
  /\ part = "window" => WindowInv

\* It holds at the start.
LEMMA HistoryInit == HostInit => HistoryInv
<1> SUFFICES ASSUME HostInit PROVE HistoryInv
  OBVIOUS
<1>1. CASE part \in {"collector", "ring"} /\ Ring!Init
  BY <1>1, RingConstants, AnswerInit DEF HistoryInv
<1>2. CASE part = "window" /\ Ring!Filled(WindowLen, WindowTime)
  BY <1>2, HostAssumption, WindowInit DEF HistoryInv
<1>. QED
  BY <1>1, <1>2 DEF HostInit

\* Every step keeps it.
LEMMA HistoryStep == HistoryInv /\ [HostNext]_allVars => HistoryInv'
<1> SUFFICES ASSUME HistoryInv, [HostNext]_allVars PROVE HistoryInv'
  OBVIOUS
<1>1. part' = part
  BY DEF HostNext, allVars
<1>2. part \in {"collector", "ring", "window"}
  BY DEF HistoryInv
<1>3. ASSUME part # "window" PROVE AnswerInv'
  <2>1. [Ring!Next]_historyVars
    BY <1>3 DEF HostNext, allVars
  <2>. QED
    BY <1>3, <2>1, RingConstants, AnswerStep DEF HistoryInv
<1>4. ASSUME part = "window" PROVE WindowInv'
  <2>1. (\E q \in WindowQueries : Ring!RangeBegins(q)) \/ Ring!RangeReads
        \/ UNCHANGED historyVars
    BY <1>4 DEF HostNext, allVars, WindowNext
  <2>. QED
    BY <1>4, <2>1, HostAssumption, WindowStep DEF HistoryInv
<1>. QED
  BY <1>1, <1>2, <1>3, <1>4 DEF HistoryInv

\* The collector of the whole is the collector: its theorems hold of the whole.
THEOREM HostCollects == HostSpec => Spec
<1>1. HostInit => Init
  BY DEF HostInit
<1>2. [HostNext]_allVars => [Next]_vars
  BY DEF HostNext, allVars
<1>. QED
  BY <1>1, <1>2, PTL DEF HostSpec, Spec

\* The ring has the newest samples that were recorded: one is missing only if it
\* was older than the retention window or has as many newer ones behind it as
\* the ring may hold, however often the clock was set back; and until it is, the
\* ring is in order of time.
THEOREM RingIsKept == HostSpec => []RingKept
<1>1. HistoryInv => RingKept
  BY RingConstants, RingMeans DEF HistoryInv, AnswerInv, RingKept
<1>. QED
  BY HistoryInit, HistoryStep, <1>1, PTL DEF HostSpec

\* Until the clock is set back, no Record leaves a sample older than the
\* retention window, however long the gap before it.
THEOREM RingForgets == HostSpec => ForgetsOld
<1>1. HistoryInv /\ [HostNext]_allVars =>
        [Ring!Record /\ backs = 0 =>
           \A i \in DOMAIN samples' : samples'[i].t >= clock - RingRetain]_(Ring!vars)
  <2> SUFFICES ASSUME HistoryInv, [HostNext]_allVars, Ring!Record, backs = 0
               PROVE  \A i \in DOMAIN samples' : samples'[i].t >= clock - RingRetain
    OBVIOUS
  <2>1. CASE part = "window"
    BY <2>1 DEF HistoryInv, WindowInv, Ring!Record
  <2>2. CASE part # "window"
    BY <2>2, RingConstants, RecordForgets DEF HistoryInv, AnswerInv
  <2>. QED
    BY <2>1, <2>2
<1>. QED
  BY HistoryInit, HistoryStep, <1>1, PTL DEF HostSpec, ForgetsOld, Ring!ForgetsOld

\* Every sample of the window is in one bucket of the reply, its value counted
\* once, whatever the clock did; only a window that appears to lie in one
\* instant is answered with its newest sample.
THEOREM AveragesConserve == HostSpec => []ReplyConserves
<1>1. HistoryInv => ReplyConserves
  BY RingConstants, RingMeans, WindowMeans DEF HistoryInv, AnswerInv, ReplyConserves
<1>. QED
  BY HistoryInit, HistoryStep, <1>1, PTL DEF HostSpec

\* Until the clock is set back, the reply has at most two buckets for each point
\* asked for, and one more than points at most if the window is long enough.
THEOREM ReplySize == HostSpec => []ReplyBounded
<1>1. HistoryInv => ReplyBounded
  BY WindowMeans, ExactMeans DEF HistoryInv, AnswerInv, Answered, ReplyBounded
<1>. QED
  BY HistoryInit, HistoryStep, <1>1, PTL DEF HostSpec

\* Until the clock is set back, the loop of downsample, which sees one sample at a
\* time and keeps one accumulator, returns what the reference definition says: the
\* average of every slice that has samples, in order of time.  A ring of any
\* length, any window of it and any number of points.
THEOREM RepliesAreReference == HostSpec => []ReplyIsReference
<1>1. HistoryInv => ReplyIsReference
  BY WindowMeans, ExactMeans DEF HistoryInv, AnswerInv, Answered, ReplyIsReference
<1>. QED
  BY HistoryInit, HistoryStep, <1>1, PTL DEF HostSpec
=============================================================================
