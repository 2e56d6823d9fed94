--------------------------- MODULE ContainerPolls ---------------------------
(***************************************************************************)
(* The list of containers: Monitor.ListContainers (monitor.go) behind      *)
(* GET /api/containers, polled by hooks/useContainers.ts, and what the     *)
(* list (ContainerList.tsx) and the summary of the home page (HomePage.tsx)*)
(* make of it.  A poll may take longer than the interval, and a change of  *)
(* the interval sends one at once: several are under way, and their        *)
(* answers arrive in any order.  Docker is external: each request lists    *)
(* the running containers, then inspects them one by one.                  *)
(***************************************************************************)
EXTENDS Naturals

CONSTANTS
  Ids,        \* containers; one that is recreated has another id
  Polls,      \* requests, used again: as many as are under way at a time
  MaxChanges, \* bound: starts, stops and removals of containers
  MaxFaults   \* bound: polls that fail

VARIABLES
  state,      \* [Ids -> "running", "exited" or "gone"]
  changes,
  polls,      \* [Polls -> ...]: the requests under way
  containers, loading, error, \* useContainers: rows [id, state]
  shown,      \* history: after which change the rows were listed, and what ran then
  pinned,     \* the pinned ids of the settings
  faults

world == <<state, changes>>
hook == <<containers, loading, error>>
vars == <<world, polls, hook, shown, pinned, faults>>

Running == {id \in Ids : state[id] = "running"}

\* A request: what ListContainers still has to inspect, the rows it has, when it
\* listed and what ran then; whether another answer was shown since it was sent.
Never == [at |-> 0, ran |-> {}]
Idle == [phase |-> "idle", todo |-> {}, rows |-> {}, listed |-> Never, overtaken |-> FALSE]

Init ==
  /\ state \in [Ids -> {"running", "exited"}]
  /\ changes = 1
  /\ polls = [p \in Polls |-> Idle]
  /\ containers = {} /\ loading = TRUE /\ error = FALSE /\ shown = Never
  /\ pinned \in SUBSET Ids /\ faults = 0

-----------------------------------------------------------------------------
Change(id, s) ==
  /\ changes <= MaxChanges /\ state[id] \notin {s, "gone"}
  /\ state' = [state EXCEPT ![id] = s]
  /\ changes' = changes + 1
  /\ UNCHANGED <<polls, hook, shown, pinned, faults>>

\* The effect of useContainers, its interval, or a new interval.
Poll(p) ==
  /\ polls[p].phase = "idle"
  /\ polls' = [polls EXCEPT ![p].phase = "asked"]
  /\ UNCHANGED <<world, hook, shown, pinned, faults>>

\* ContainerList
List(p) ==
  /\ polls[p].phase = "asked"
  /\ polls' = [polls EXCEPT ![p].phase = "listed", ![p].todo = Running,
                            ![p].listed = [at |-> changes, ran |-> Running]]
  /\ UNCHANGED <<world, hook, shown, pinned, faults>>

\* ContainerInspect of one of them: its state, or, when it fails, the listed one.
Inspect(p, id) ==
  /\ id \in polls[p].todo
  /\ LET s == IF state[id] = "gone" THEN "running" ELSE state[id] IN
     polls' = [polls EXCEPT ![p].todo = @ \ {id},
                            ![p].rows = @ \cup {[id |-> id, state |-> s]}]
  /\ UNCHANGED <<world, hook, shown, pinned, faults>>

\* Mutant: the error banner stays.
ResolveKeepsError(p) ==
  /\ polls[p].phase = "listed" /\ polls[p].todo = {}
  /\ polls' = [q \in Polls |-> IF q = p \/ polls[q] = Idle THEN Idle
                                ELSE [polls[q] EXCEPT !.overtaken = TRUE]]
  /\ containers' = polls[p].rows /\ shown' = polls[p].listed
  /\ loading' = FALSE
  /\ UNCHANGED <<world, error, pinned, faults>>

\* res.json() resolves: the rows replace those of whatever poll came before.
Resolve(p) ==
  /\ polls[p].phase = "listed" /\ polls[p].todo = {}
  /\ polls' = [q \in Polls |-> IF q = p \/ polls[q] = Idle THEN Idle
                                ELSE [polls[q] EXCEPT !.overtaken = TRUE]]
  /\ containers' = polls[p].rows /\ shown' = polls[p].listed
  /\ error' = FALSE /\ loading' = FALSE
  /\ UNCHANGED <<world, pinned, faults>>

\* Mutant: an error empties the list.
FailsEmpty(p) ==
  /\ polls[p] # Idle /\ faults < MaxFaults /\ faults' = faults + 1
  /\ polls' = [polls EXCEPT ![p] = Idle]
  /\ containers' = {} /\ shown' = Never
  /\ error' = TRUE /\ loading' = FALSE
  /\ UNCHANGED <<world, pinned>>

\* The list of Docker fails, the request is lost or its answer cannot be read.
Fails(p) ==
  /\ polls[p] # Idle /\ faults < MaxFaults /\ faults' = faults + 1
  /\ polls' = [polls EXCEPT ![p] = Idle]
  /\ error' = TRUE /\ loading' = FALSE
  /\ UNCHANGED <<world, containers, shown, pinned>>

-----------------------------------------------------------------------------
(* The pages.                                                              *)

\* ContainerList of some of the rows: what it shows.
View(rows) ==
  IF error THEN "error" ELSE IF loading /\ rows = {} THEN "skeletons"
  ELSE IF rows = {} THEN "No running containers" ELSE "rows"

\* The star of a row on the list of containers.
TogglePin(id) ==
  /\ View(containers) = "rows" /\ id \in {row.id : row \in containers}
  /\ pinned' = IF id \in pinned THEN pinned \ {id} ELSE pinned \cup {id}
  /\ UNCHANGED <<world, polls, hook, shown, faults>>

\* The rows of the home page when some container is pinned.
visible == {row \in containers : row.id \in pinned}

Next ==
  \/ \E id \in Ids : TogglePin(id) \/ \E s \in {"running", "exited", "gone"} : Change(id, s)
  \/ \E p \in Polls : Poll(p) \/ List(p) \/ Resolve(p) \/ Fails(p)
                       \/ \E id \in Ids : Inspect(p, id)

\* The interval fires; a request is answered in the end, Docker's answers being
\* bounded by the 60 s timeout of the router.
Fairness ==
  \A p \in Polls :
    WF_vars(Poll(p) \/ List(p) \/ Resolve(p) \/ \E id \in Ids : Inspect(p, id))

Spec == Init /\ [][Next]_vars /\ Fairness

-----------------------------------------------------------------------------
States == {"running", "exited", "gone"}
Rows == [id : Ids, state : States \ {"gone"}]

TypeOK ==
  /\ state \in [Ids -> States] /\ changes \in 1 .. MaxChanges + 1
  /\ \A p \in Polls : polls[p].todo \subseteq Ids /\ polls[p].rows \subseteq Rows
  /\ containers \subseteq Rows /\ loading \in BOOLEAN /\ error \in BOOLEAN
  /\ shown \in [at : 0 .. changes, ran : SUBSET Ids] /\ pinned \subseteq Ids /\ faults \in 0 .. MaxFaults

\* The list is what ran at one moment: it has a row for every container that
\* ran when Docker was asked, also for those gone before they were inspected,
\* and it says "No running containers" only if none ran.
ListComplete ==
  View(containers) \in {"rows", "No running containers"} =>
    {row.id : row \in containers} = shown.ran

\* The list goes back to an older one only by a poll that was still under way
\* when the newer one was shown: polls that do not overlap never do that.
Regress == shown'.at < shown.at
Overtaken == \E p \in Polls : polls[p].overtaken /\ polls[p].listed = shown'
NoRegress == [][Regress => Overtaken]_vars

\* Once containers stay as they are (MaxChanges bounds their changes) and Docker
\* answers, the list ends up with the running ones, as running and without an
\* error banner, whatever polls failed or were overtaken before; and the home
\* page says "No running containers" only if none of the pinned ones runs.
CatchesUp ==
  <>[](/\ ~error /\ ~loading
       /\ containers = [id : Running, state : {"running"}]
       /\ View(visible) = "rows" <=> pinned \cap Running # {})
=============================================================================
