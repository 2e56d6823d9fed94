--------------------------- MODULE ContainerStats ---------------------------
(***************************************************************************)
(* The statistics of the containers: Monitor.CollectStats (monitor.go) as  *)
(* the broadcaster calls it, and the figures of the last frame in the      *)
(* browser.  Docker is external: it is asked for the running containers,   *)
(* then for each one's statistics; it takes two samples of the counters,   *)
(* one second apart, for each of those answers.  Containers stop, come     *)
(* back with counters at zero, and disappear at any moment in between.     *)
(* The counters are unsigned: a difference is taken modulo 2^64, here Word. *)
(***************************************************************************)
EXTENDS Integers, FiniteSets

CONSTANTS
  Ids,        \* containers
  Word,       \* the number of values of a counter
  MaxTicks,   \* bound: time that passes, counted by the system's counter
  MaxChanges, \* bound: starts, stops and removals of containers
  MaxFaults   \* bound: calls of Docker that fail, and frames that are lost

VARIABLES
  state,   \* [Ids -> "running", "exited" or "gone"]
  used,    \* [Ids -> Nat]: CPU time of each
  system,  \* CPU time of the host
  todo,    \* CollectStats: what is left of its list
  asked,   \* the container Docker samples: {} or one [id, used, system, restarted]
  result,  \* rows so far: [id, cpu, system, restarted]
  working, \* CollectStats is under way
  stats,   \* the rows of the last frame the browser received
  changes, faults

world == <<state, used, system>>
call == <<todo, asked, result, working>>
vars == <<world, call, stats, changes, faults>>

Running == {id \in Ids : state[id] = "running"}

Init ==
  /\ state \in [Ids -> {"running", "exited"}]
  /\ used = [id \in Ids |-> 0] /\ system = 0
  /\ todo = {} /\ asked = {} /\ result = {} /\ working = FALSE
  /\ stats = {} /\ changes = 0 /\ faults = 0

-----------------------------------------------------------------------------
(* The host.                                                               *)

\* Some of the running containers use the CPU time that passes.
Tick ==
  /\ system < MaxTicks /\ system' = system + 1
  /\ \E busy \in SUBSET Running :
       used' = [id \in Ids |-> IF id \in busy THEN used[id] + 1 ELSE used[id]]
  /\ UNCHANGED <<state, call, stats, changes, faults>>

\* A container that stops and starts has new counters; a sample under way
\* remembers it, for the properties only.
Change(id, s) ==
  /\ changes < MaxChanges /\ changes' = changes + 1
  /\ state[id] # "gone" /\ (state[id] = s => s = "running")
  /\ state' = [state EXCEPT ![id] = s]
  /\ used' = [used EXCEPT ![id] = 0]
  /\ asked' = {IF a.id = id THEN [a EXCEPT !.restarted = TRUE] ELSE a : a \in asked}
  /\ UNCHANGED <<system, todo, result, working, stats, faults>>

-----------------------------------------------------------------------------
(* CollectStats                                                            *)

\* ContainerList, or its failure: a frame without containers.
List ==
  /\ ~working
  /\ \/ todo' = Running /\ working' = TRUE /\ UNCHANGED <<stats, faults>>
     \/ /\ faults < MaxFaults /\ faults' = faults + 1
        /\ stats' = {} /\ UNCHANGED <<todo, working>>
  /\ result' = {}
  /\ UNCHANGED <<world, asked, changes>>

\* ContainerStatsOneShot: the first sample, none of a container that stopped.
Ask(id) ==
  /\ id \in todo /\ asked = {} /\ state[id] # "gone"
  /\ asked' = {[id |-> id, used |-> used[id], system |-> system, restarted |-> FALSE]}
  /\ UNCHANGED <<world, todo, result, working, stats, changes, faults>>

\* Mutant: the two samples are taken for each other.
CPUDeltaSwapped(a) == (a.used - used[a.id]) % Word

CPUDelta(a) == (used[a.id] - a.used) % Word

\* calculateCPUPercent: cpu / system for each CPU, or zero.
Row(a) == [id |-> a.id, cpu |-> IF system = a.system THEN 0 ELSE CPUDelta(a),
           system |-> system - a.system, restarted |-> a.restarted]

\* The second sample, and the row; a container that is not running has zeros.
Answer ==
  /\ \E a \in asked :
       /\ state[a.id] # "gone"
       /\ todo' = todo \ {a.id}
       /\ result' = result \cup
            {IF state[a.id] = "running" THEN Row(a) ELSE [Row(a) EXCEPT !.cpu = 0]}
  /\ asked' = {}
  /\ UNCHANGED <<world, working, stats, changes, faults>>

\* An error, or an answer that cannot be decoded: the container is skipped.
Skip(id) ==
  /\ todo' = todo \ {id} /\ asked' = {}

StatsFail(id) ==
  /\ id \in todo /\ \A a \in asked : a.id = id
  /\ \/ state[id] = "gone" /\ UNCHANGED faults
     \/ state[id] # "gone" /\ faults < MaxFaults /\ faults' = faults + 1
  /\ Skip(id)
  /\ UNCHANGED <<world, result, working, stats, changes>>

\* The frame is sent; the browser receives it or a queue on the way is full.
Send ==
  /\ working /\ todo = {}
  /\ \/ stats' = result /\ UNCHANGED faults
     \/ faults < MaxFaults /\ faults' = faults + 1 /\ UNCHANGED stats
  /\ working' = FALSE /\ result' = {}
  /\ UNCHANGED <<world, todo, asked, changes>>

Next ==
  \/ Tick \/ List \/ Answer \/ Send
  \/ \E id \in Ids : Ask(id) \/ StatsFail(id)
                     \/ \E s \in {"running", "exited", "gone"} : Change(id, s)

\* The ticker of the broadcaster goes on and Docker answers, or fails.
Fairness ==
  WF_vars(List \/ Answer \/ Send \/ \E id \in Ids : Ask(id) \/ StatsFail(id))

Spec == Init /\ [][Next]_vars /\ Fairness

-----------------------------------------------------------------------------
Rows == [id : Ids, cpu : 0 .. Word - 1, system : 0 .. MaxTicks, restarted : BOOLEAN]

TypeOK ==
  /\ state \in [Ids -> {"running", "exited", "gone"}]
  /\ used \in [Ids -> 0 .. MaxTicks] /\ system \in 0 .. MaxTicks
  /\ todo \subseteq Ids /\ {a.id : a \in asked} \subseteq todo
  /\ result \subseteq Rows /\ stats \subseteq Rows /\ (todo # {} => working)
  /\ changes \in 0 .. MaxChanges /\ faults \in 0 .. MaxFaults

\* The percentage of a container is at most 100 for each CPU, whatever happens
\* between the samples of the others; but a container that restarts between its
\* own two samples shows nonsense: its counter shrank, the difference wraps.
PercentHonest ==
  \A row \in stats : row.cpu <= row.system \/ row.restarted

\* Once containers stay as they are (MaxChanges bounds their changes) and Docker
\* answers, the browser ends up with figures of every running container and of
\* no other one: those skipped in one frame are back in a later one.
StatsReturn == <>[]({row.id : row \in stats} = Running)
=============================================================================
