----------------------------- MODULE Collector -----------------------------
(***************************************************************************)
(* internal/host/metrics.go: Collector.Collect, called by the goroutine of *)
(* Collector.Run, by the broadcaster and by every GET /api/metrics, at the *)
(* same time.  A call reads the host's byte counters, then the clock, and  *)
(* only then takes the lock, under which it turns the difference to the    *)
(* previous call's readings into a rate and leaves its own for the next.   *)
(*                                                                         *)
(* The two directions are treated alike, one stands for both; processor,   *)
(* memory and disk are read and passed on, and are left out.  The clock is *)
(* the monotonic one that Go's time.Time carries.                          *)
(***************************************************************************)
EXTENDS Integers

CONSTANTS
  Callers,    \* goroutines that call Collect
  Peak,       \* bytes the interfaces carry at most per unit of time
  MaxTime,    \* bound: the latest clock reading
  MaxResets   \* bound: times the sum of the counters shrinks

ASSUME CollectorAssumption ==
  Peak \in Nat /\ MaxTime \in Nat /\ MaxResets \in Nat

VARIABLES
  now,         \* the monotonic clock
  counter,     \* the host: sum of the byte counters of its interfaces
  carried,     \* history: bytes carried since the process started
  resets,      \* history: times the sum shrank
  prev,        \* prevNetSent and prevTime; history: when the sum was read
  hasPrev,     \* hasPrevNet
  pc,          \* per caller: what Collect does next
  mine,        \* per caller: the readings prev will be replaced with
  rate,        \* the last Collect: the bytes and the time it divided, and how
               \* long before its clock reading prev had read the sum
  credited,    \* history: the bytes of all rates so far
  overlapped   \* history: two calls were reading at the same time

hostVars == <<now, counter, carried, resets>>
prevVars == <<prev, hasPrev, rate, credited>>
vars == <<hostVars, prevVars, pc, mine, overlapped>>

Reading == [total : Nat, time : Nat, read : Nat]
Zero == [total |-> 0, time |-> 0, read |-> 0]

TypeOK ==
  /\ now \in 0..MaxTime
  /\ counter \in Nat /\ carried \in Nat
  /\ resets \in 0..MaxResets
  /\ prev \in Reading /\ hasPrev \in BOOLEAN
  /\ pc \in [Callers -> {"idle", "clock", "lock"}]
  /\ mine \in [Callers -> Reading]
  /\ rate \in [bytes : Nat, elapsed : Int, slack : Int]
  /\ credited \in Nat
  /\ overlapped \in BOOLEAN

Init ==
  /\ now = 0 /\ counter \in 0..Peak /\ carried = 0 /\ resets = 0
  /\ prev = Zero /\ hasPrev = FALSE
  /\ pc = [c \in Callers |-> "idle"]
  /\ mine = [c \in Callers |-> Zero]
  /\ rate = [bytes |-> 0, elapsed |-> 0, slack |-> 0]
  /\ credited = 0 /\ overlapped = FALSE

\* Time passes; the interfaces carry up to Peak bytes.
Tick ==
  /\ now < MaxTime
  /\ now' = now + 1
  /\ \E bytes \in 0..Peak :
       counter' = counter + bytes /\ carried' = carried + bytes
  /\ UNCHANGED <<resets, prevVars, pc, mine, overlapped>>

\* An interface disappears with its counter, or a counter starts again.
Shrink ==
  /\ resets < MaxResets
  /\ resets' = resets + 1
  /\ \E bytes \in 1..counter : counter' = counter - bytes
  /\ UNCHANGED <<now, carried, prevVars, pc, mine, overlapped>>

\* Collect up to the sum of the interfaces' counters.  A call that fails before
\* changes nothing.
ReadCounters(c) ==
  /\ pc[c] = "idle"
  /\ pc' = [pc EXCEPT ![c] = "clock"]
  /\ mine' = [mine EXCEPT ![c] = [total |-> counter, time |-> now, read |-> now]]
  /\ overlapped' = (overlapped \/ \E d \in Callers : pc[d] # "idle")
  /\ UNCHANGED <<hostVars, prevVars>>

\* now := time.Now()
ReadClock(c) ==
  /\ pc[c] = "clock"
  /\ pc' = [pc EXCEPT ![c] = "lock"]
  /\ mine' = [mine EXCEPT ![c].time = now]
  /\ UNCHANGED <<hostVars, prevVars, overlapped>>

\* Mutant: the sum is never smaller than the previous one.
BytesUnguarded(m) ==
  IF hasPrev /\ m.time > prev.time THEN m.total - prev.total ELSE 0

\* Mutant: the difference is taken first, in unsigned arithmetic (of 8 bits).
BytesWrap(m) ==
  IF hasPrev /\ m.time > prev.time THEN (m.total - prev.total) % 256 ELSE 0

\* The bytes the rate of a call is computed from: none for the first call, for
\* one whose clock reading is not later, or when the sum has shrunk.
Bytes(m) ==
  IF hasPrev /\ m.time > prev.time /\ m.total >= prev.total
  THEN m.total - prev.total ELSE 0

\* Mutant: prev keeps its sum.
LeavesOldSum(m) == [m EXCEPT !.total = prev.total]

\* What the call leaves for the next one.
Leaves(m) == m

\* The part of Collect under the lock.
Locked(c) ==
  /\ pc[c] = "lock"
  /\ pc' = [pc EXCEPT ![c] = "idle"]
  /\ rate' = [bytes |-> Bytes(mine[c]), elapsed |-> mine[c].time - prev.time,
              slack |-> prev.time - prev.read]
  /\ credited' = credited + Bytes(mine[c])
  /\ prev' = Leaves(mine[c])
  /\ hasPrev' = TRUE
  /\ mine' = [mine EXCEPT ![c] = Zero]
  /\ UNCHANGED <<hostVars, overlapped>>

Next ==
  \/ Tick \/ Shrink
  \/ \E c \in Callers : ReadCounters(c) \/ ReadClock(c) \/ Locked(c)

Spec == Init /\ [][Next]_vars

-----------------------------------------------------------------------------

\* No byte is counted twice: the rates of successive calls, whoever makes them,
\* do not add up to more than the interfaces carried, counters that start again
\* included.  Of calls that read at the same time this does not hold: one that
\* takes the lock late leaves an older sum.  metrics.go:81-119.
CreditedOnce == ~overlapped => credited <= carried

\* A rate is physically possible: it is at most what the interfaces carry in its
\* time and in the time the previous call took between its two readings, even
\* when calls overlap; only overlapping calls together with counters that start
\* again can exceed it.  metrics.go:102-118.
RateHonest ==
  (~overlapped \/ resets = 0) =>
    rate.bytes <= Peak * (rate.elapsed + rate.slack) \/ rate.bytes = 0
=============================================================================
