-------------------------- MODULE ContainersProofs --------------------------
(* Theorems about Containers, for any containers, polls, streams and bounds:  *)
(* first the list, then the figures, the viewer of logs and the framing of    *)
(* logs, each with its inductive invariant; and what they make of the whole.  *)
EXTENDS Containers, ListProofs, SequenceTheorems, TLAPS

-----------------------------------------------------------------------------
(* The list of containers. *)

Listing == [at : Nat, ran : SUBSET Ids]
Request == [phase : {"idle", "asked", "listed"}, todo : SUBSET Ids,
            rows : SUBSET List!Rows,
            listed : Listing, overtaken : BOOLEAN]

\* What TypeOK says but for the bounds, and what the requests look like.
Shape ==
  /\ state \in [Ids -> List!States] /\ changes \in Nat
  /\ polls \in [Polls -> Request] /\ shown \in Listing
  /\ containers \in SUBSET List!Rows

\* A request that is inspecting has a row, or will have one, for each container
\* that ran when it listed; before it has none.  The rows shown were complete.
Gathered ==
  \A p \in Polls :
    /\ polls[p].phase = "listed" =>
         {row.id : row \in polls[p].rows} \cup polls[p].todo = polls[p].listed.ran
    /\ polls[p].phase # "listed" => polls[p].rows = {} /\ polls[p].todo = {}
AllShown == {row.id : row \in containers} = shown.ran

\* No listing is from the future, and one older than what is shown is known to
\* be overtaken.
Newer ==
  /\ shown.at <= changes
  /\ \A p \in Polls : polls[p].phase = "listed" =>
       /\ polls[p].listed.at <= changes
       /\ polls[p].overtaken \/ polls[p].listed.at >= shown.at

ListInv == Shape /\ Gathered /\ AllShown /\ Newer

-----------------------------------------------------------------------------
\* The first state: nothing is asked or shown.
LEMMA ListInit == List!Init => ListInv
<1> SUFFICES ASSUME List!Init PROVE ListInv
  OBVIOUS
<1>1. List!Never \in Listing /\ List!Never.at = 0 /\ List!Never.ran = {}
  BY DEF List!Never, Listing
<1>2. List!Idle \in Request /\ List!Idle.phase = "idle" /\ List!Idle.rows = {} /\ List!Idle.todo = {}
  BY <1>1 DEF List!Idle, Request
<1>3. Shape
  BY <1>1, <1>2 DEF List!Init, Shape, List!States
<1>4. Gathered /\ AllShown /\ Newer
  BY <1>1, <1>2 DEF List!Init, Gathered, AllShown, Newer
<1>. QED
  BY <1>3, <1>4 DEF ListInv

\* A container starts, stops or disappears.
LEMMA ListChange ==
  ASSUME ListInv, NEW id \in Ids, NEW s \in List!States, List!Change(id, s) PROVE ListInv'
<1>1. Shape'
  BY DEF ListInv, Shape, List!Change, List!hook
<1>2. Gathered' /\ AllShown'
  BY DEF ListInv, Gathered, AllShown, List!Change, List!hook
<1>3. Newer'
  BY DEF ListInv, Shape, Newer, List!Change, List!hook, Request, Listing
<1>. QED
  BY <1>1, <1>2, <1>3 DEF ListInv

\* A request is sent, lists, or inspects one container.
LEMMA ListPoll ==
  ASSUME ListInv, NEW p \in Polls, List!Poll(p) PROVE ListInv'
<1>1. polls'[p] = [polls[p] EXCEPT !.phase = "asked"]
      /\ \A q \in Polls \ {p} : polls'[q] = polls[q]
  BY DEF ListInv, Shape, List!Poll
<1>2. /\ polls'[p].phase = "asked" /\ polls'[p] \in Request
      /\ polls'[p].rows = {} /\ polls'[p].todo = {}
  BY <1>1 DEF ListInv, Shape, Request, Gathered, List!Poll, List!Idle
<1>3. Shape'
  BY <1>1, <1>2 DEF ListInv, Shape, List!Poll, List!world, List!hook
<1>4. Gathered' /\ AllShown' /\ Newer'
  BY <1>1, <1>2 DEF ListInv, Gathered, AllShown, Newer, List!Poll, List!world, List!hook
<1>. QED
  BY <1>3, <1>4 DEF ListInv

\* A poll that has its list has to inspect the containers that run.
LEMMA ListLists ==
  ASSUME ListInv, NEW p \in Polls, List!List(p) PROVE ListInv'
<1> DEFINE listing == [at |-> changes, ran |-> List!Running]
<1>1. listing \in Listing /\ List!Running \in SUBSET Ids
  BY DEF ListInv, Shape, Listing, List!Running
<1>2. polls'[p] = [polls[p] EXCEPT !.phase = "listed", !.todo = List!Running, !.listed = listing]
      /\ \A q \in Polls \ {p} : polls'[q] = polls[q]
  BY DEF ListInv, Shape, List!List
<1>3. polls'[p] \in Request
  BY <1>1, <1>2 DEF ListInv, Shape, Request
<1>4. /\ polls'[p].phase = "listed" /\ polls'[p].rows = {}
      /\ polls'[p].todo = List!Running /\ polls'[p].listed = listing
  BY <1>2 DEF ListInv, Shape, Request, Gathered, List!List
<1>5. Shape'
  BY <1>2, <1>3 DEF ListInv, Shape, List!List, List!world, List!hook
<1>6. Gathered'
  <2>1. {row.id : row \in polls'[p].rows} \cup polls'[p].todo = polls'[p].listed.ran
    BY <1>4
  <2>. QED
    BY <1>2, <1>4, <2>1 DEF ListInv, Gathered
<1>7. AllShown'
  BY DEF ListInv, AllShown, List!List, List!hook
<1>8. Newer'
  BY <1>2, <1>4 DEF ListInv, Shape, Listing, Newer, List!List, List!world, List!hook
<1>. QED
  BY <1>5, <1>6, <1>7, <1>8 DEF ListInv

\* An inspection adds the row of one of them.
LEMMA ListInspect ==
  ASSUME ListInv, NEW p \in Polls, NEW id \in Ids, List!Inspect(p, id) PROVE ListInv'
<1> DEFINE s == IF state[id] = "gone" THEN "running" ELSE state[id]
<1> DEFINE new == [id |-> id, state |-> s]
<1>0. /\ id \in polls[p].todo /\ polls[p].phase = "listed"
      /\ UNCHANGED <<state, changes, containers, shown>>
  BY DEF ListInv, Gathered, Shape, Request, List!Inspect, List!world, List!hook
<1>1. polls'[p] = [polls[p] EXCEPT !.todo = @ \ {id}, !.rows = @ \cup {new}]
      /\ \A q \in Polls \ {p} : polls'[q] = polls[q]
  BY DEF ListInv, Shape, List!Inspect
<1>2. /\ polls'[p].phase = polls[p].phase /\ polls'[p].listed = polls[p].listed
      /\ polls'[p].overtaken = polls[p].overtaken
      /\ polls'[p].todo = polls[p].todo \ {id}
      /\ polls'[p].rows = polls[p].rows \cup {new}
  BY <1>1 DEF ListInv, Shape, Request
<1>3. new \in List!Rows /\ new.id = id
  BY DEF ListInv, Shape, List!States, List!Rows
<1> HIDE DEF new
<1>4. polls'[p] \in Request
  <2>1. polls[p] \in Request
    BY DEF ListInv, Shape
  <2>2. polls[p].rows \cup {new} \in SUBSET List!Rows
        /\ polls[p].todo \ {id} \in SUBSET Ids
    BY <2>1, <1>3 DEF Request
  <2>. QED
    BY <1>1, <2>1, <2>2 DEF Request
<1>5. Shape'
  BY <1>0, <1>1, <1>4 DEF ListInv, Shape, List!Inspect
<1>6. Gathered'
  <2>1. {row.id : row \in polls'[p].rows} = {row.id : row \in polls[p].rows} \cup {id}
    BY <1>2, <1>3
  <2>2. {row.id : row \in polls[p].rows} \cup polls[p].todo = polls[p].listed.ran
    BY <1>0 DEF ListInv, Gathered
  <2>3. {row.id : row \in polls'[p].rows} \cup polls'[p].todo = polls'[p].listed.ran
    BY <1>0, <1>2, <2>1, <2>2
  <2>. QED
    BY <1>0, <1>1, <1>2, <2>3 DEF ListInv, Gathered
<1>7. AllShown'
  BY <1>0 DEF ListInv, AllShown
<1>8. Newer'
  BY <1>0, <1>1, <1>2 DEF ListInv, Newer
<1>. QED
  BY <1>5, <1>6, <1>7, <1>8 DEF ListInv

\* The answer of p is shown: every other request under way is overtaken, so
\* that none of them can be older without being known to be.
LEMMA ListResolve ==
  ASSUME ListInv, NEW p \in Polls, List!Resolve(p) PROVE ListInv'
<1>1. List!Idle \in Request /\ List!Idle.phase = "idle" /\ List!Idle.rows = {} /\ List!Idle.todo = {}
  BY DEF List!Idle, List!Never, Request, Listing
<1>2. polls[p].phase = "listed" /\ polls[p].todo = {} /\ polls[p] \in Request
  BY DEF ListInv, Shape, List!Resolve
<1>3. ASSUME NEW q \in Polls
      PROVE  \/ polls'[q] = List!Idle
             \/ /\ polls'[q] \in Request /\ polls'[q].phase = polls[q].phase
                /\ polls'[q].rows = polls[q].rows /\ polls'[q].todo = polls[q].todo
                /\ polls'[q].listed = polls[q].listed /\ polls'[q].overtaken = TRUE
  <2>1. polls'[q] = List!Idle \/ polls'[q] = [polls[q] EXCEPT !.overtaken = TRUE]
    BY DEF List!Resolve
  <2>. QED
    BY <2>1 DEF ListInv, Shape, Request
<1>4. Shape'
  <2>1. polls' \in [Polls -> Request]
    BY <1>1, <1>3 DEF List!Resolve
  <2>. QED
    BY <1>2, <2>1 DEF ListInv, Shape, List!Resolve, List!world, Request
<1>5. Gathered'
  BY <1>1, <1>3, ZenonT(60) DEF ListInv, Gathered
<1>6. AllShown'
  BY <1>2 DEF ListInv, AllShown, Gathered, List!Resolve
<1>7. Newer'
  <2>1. shown'.at <= changes'
    BY <1>2 DEF ListInv, Newer, List!Resolve, List!world
  <2>2. \A q \in Polls : polls'[q].phase = "listed" =>
          polls'[q].listed.at <= changes' /\ polls'[q].overtaken
    BY <1>1, <1>3 DEF ListInv, Newer, List!Resolve, List!world
  <2>. QED
    BY <2>1, <2>2 DEF Newer
<1>. QED
  BY <1>4, <1>5, <1>6, <1>7 DEF ListInv

\* A poll that fails starts again from nothing.
LEMMA ListFails ==
  ASSUME ListInv, NEW p \in Polls, List!Fails(p) PROVE ListInv'
<1>1. List!Idle \in Request /\ List!Idle.phase = "idle" /\ List!Idle.rows = {} /\ List!Idle.todo = {}
  BY DEF List!Idle, List!Never, Request, Listing
<1>2. polls'[p] = List!Idle /\ \A q \in Polls \ {p} : polls'[q] = polls[q]
  BY DEF ListInv, Shape, List!Fails
<1>3. Shape'
  BY <1>1 DEF ListInv, Shape, List!Fails, List!world
<1>4. Gathered' /\ AllShown' /\ Newer'
  BY <1>1, <1>2 DEF ListInv, Gathered, AllShown, Newer, List!Fails, List!world
<1>. QED
  BY <1>3, <1>4 DEF ListInv

\* Every step.
LEMMA ListStep == ListInv /\ [List!Next]_pollsVars => ListInv'
<1> SUFFICES ASSUME ListInv, [List!Next]_pollsVars PROVE ListInv'
  OBVIOUS
<1>1. ASSUME NEW id \in Ids, List!TogglePin(id) PROVE ListInv'
  BY <1>1 DEF List!TogglePin, ListInv, Shape, Gathered, AllShown, Newer, List!world, List!hook
<1>2. ASSUME NEW id \in Ids, NEW s \in {"running", "exited", "gone"}, List!Change(id, s)
      PROVE  ListInv'
  BY <1>2, ListChange DEF List!States
<1>3. ASSUME NEW p \in Polls, List!Poll(p) \/ List!List(p) \/ List!Resolve(p) \/ List!Fails(p)
      PROVE ListInv'
  BY <1>3, ListPoll, ListLists, ListResolve, ListFails
<1>4. ASSUME NEW p \in Polls, NEW id \in Ids, List!Inspect(p, id) PROVE ListInv'
  BY <1>4, ListInspect
<1>5. CASE UNCHANGED pollsVars
  BY <1>5 DEF pollsVars, ListInv, Shape, Gathered, AllShown, Newer, List!world, List!hook
<1>. QED
  BY <1>1, <1>2, <1>3, <1>4, <1>5 DEF List!Next

-----------------------------------------------------------------------------
\* The bounds, and the types of what no action reads with the rest.
ListBounded ==
  /\ MaxChanges \in Nat /\ MaxFaults \in Nat
  /\ changes \in 1 .. MaxChanges + 1 /\ faults \in 0 .. MaxFaults
  /\ loading \in BOOLEAN /\ error \in BOOLEAN /\ pinned \in SUBSET Ids

\* Every step keeps the counters within their bounds.
LEMMA ListBoundedStep == ListBounded /\ [List!Next]_pollsVars => ListBounded'
<1> SUFFICES ASSUME ListBounded, [List!Next]_pollsVars PROVE ListBounded'
  OBVIOUS
<1>1. ASSUME NEW id \in Ids, List!TogglePin(id) PROVE ListBounded'
  BY <1>1 DEF List!TogglePin, ListBounded, List!world, List!hook
<1>2. ASSUME NEW id \in Ids, NEW s \in {"running", "exited", "gone"}, List!Change(id, s)
      PROVE  ListBounded'
  BY <1>2 DEF List!Change, ListBounded, List!hook
<1>3. ASSUME NEW p \in Polls, List!Poll(p) \/ List!List(p) PROVE ListBounded'
  BY <1>3 DEF List!Poll, List!List, ListBounded, List!world, List!hook
<1>4. ASSUME NEW p \in Polls, List!Resolve(p) PROVE ListBounded'
  BY <1>4 DEF List!Resolve, ListBounded, List!world
<1>5. ASSUME NEW p \in Polls, List!Fails(p) PROVE ListBounded'
  <2>1. /\ faults < MaxFaults /\ faults' = faults + 1 /\ error' = TRUE /\ loading' = FALSE
        /\ changes' = changes /\ pinned' = pinned
    BY <1>5 DEF List!Fails, List!world
  <2>2. faults' \in 0 .. MaxFaults
    BY <2>1 DEF ListBounded
  <2>3. loading' \in BOOLEAN /\ error' \in BOOLEAN
    BY <2>1
  <2>. QED
    BY <2>1, <2>2, <2>3 DEF ListBounded
<1>6. ASSUME NEW p \in Polls, NEW id \in Ids, List!Inspect(p, id) PROVE ListBounded'
  BY <1>6 DEF List!Inspect, ListBounded, List!world, List!hook
<1>7. CASE UNCHANGED pollsVars
  BY <1>7 DEF pollsVars, ListBounded, List!world, List!hook
<1>. QED
  BY <1>1, <1>2, <1>3, <1>4, <1>5, <1>6, <1>7 DEF List!Next

\* The invariants give the types and the completeness of the list.
LEMMA ListFacts == ListInv /\ ListBounded => List!TypeOK /\ List!ListComplete
<1> SUFFICES ASSUME ListInv, ListBounded PROVE List!TypeOK /\ List!ListComplete
  OBVIOUS
<1>1. shown \in [at : 0 .. changes, ran : SUBSET Ids]
  BY DEF ListInv, Shape, Newer, Listing
<1>2. \A p \in Polls : polls[p].todo \subseteq Ids /\ polls[p].rows \subseteq List!Rows
  BY DEF ListInv, Shape, Request
<1>. QED
  BY <1>1, <1>2 DEF ListInv, Shape, ListBounded, List!TypeOK, AllShown, List!ListComplete

-----------------------------------------------------------------------------

-----------------------------------------------------------------------------
(* The figures in the rows. *)

FiguresSensible ==
  /\ MaxTicks \in Nat /\ MaxChanges \in Nat /\ MaxFaults \in Nat
  /\ Word \in Nat \ {0}

\* A remainder is below its divisor, and no more than what is divided.
LEMMA Remainder ==
  ASSUME NEW n \in Int, NEW w \in Nat \ {0}
  PROVE  n % w \in 0 .. w - 1 /\ (n >= 0 => n % w <= n)
<1>1. n % w \in 0 .. w - 1
  OBVIOUS
<1>2. ASSUME n >= 0 PROVE n % w <= n
  <2>1. CASE n < w
    BY <2>1, <1>2, <1>1
  <2>2. CASE n >= w
    BY <2>2, <1>1
  <2>. QED
    BY <2>1, <2>2
<1>. QED
  BY <1>1, <1>2

\* What a sample under way remembers: a container that was not restarted since
\* used no more time than passed.
SampleInv ==
  \A a \in asked :
    /\ a \in [id : Ids, used : 0 .. MaxTicks, system : 0 .. MaxTicks, restarted : BOOLEAN]
    /\ a.system <= system
    /\ ~a.restarted => a.used <= used[a.id] /\ used[a.id] - a.used <= system - a.system

\* Rows of containers not restarted are honest, sent or not.
RowsInv == \A row \in result \cup stats : row.cpu <= row.system \/ row.restarted

StatsInv ==
  /\ FiguresSensible /\ Figures!TypeOK /\ SampleInv /\ RowsInv
  /\ \A id \in Ids : used[id] <= system

\* The inductive invariant of the figures holds at the start.
LEMMA StatsInit == FiguresSensible /\ Figures!Init => StatsInv
BY DEF FiguresSensible, Figures!Init, StatsInv, Figures!TypeOK, SampleInv, RowsInv

\* A row worked out from two readings of one container is honest.
LEMMA RowHonest ==
  ASSUME StatsInv, NEW a \in asked
  PROVE  /\ Figures!Row(a) \in Figures!Rows /\ [Figures!Row(a) EXCEPT !.cpu = 0] \in Figures!Rows
         /\ Figures!Row(a).cpu <= Figures!Row(a).system \/ Figures!Row(a).restarted
<1>1. /\ a \in [id : Ids, used : 0 .. MaxTicks, system : 0 .. MaxTicks, restarted : BOOLEAN]
      /\ a.system <= system
      /\ ~a.restarted => a.used <= used[a.id] /\ used[a.id] - a.used <= system - a.system
  BY DEF StatsInv, SampleInv
<1>2. system \in 0 .. MaxTicks /\ used[a.id] \in 0 .. MaxTicks /\ MaxTicks \in Nat /\ Word \in Nat \ {0}
  BY <1>1 DEF StatsInv, Figures!TypeOK, FiguresSensible
<1>3. /\ Figures!CPUDelta(a) \in 0 .. Word - 1
      /\ used[a.id] - a.used >= 0 => Figures!CPUDelta(a) <= used[a.id] - a.used
  <2>1. used[a.id] - a.used \in Int
    BY <1>1, <1>2
  <2>. QED
    BY <2>1, <1>2, Remainder DEF Figures!CPUDelta
<1>4. Figures!Row(a) \in Figures!Rows /\ [Figures!Row(a) EXCEPT !.cpu = 0] \in Figures!Rows
  BY <1>1, <1>2, <1>3 DEF Figures!Row, Figures!Rows
<1>5. Figures!Row(a).cpu <= Figures!Row(a).system \/ Figures!Row(a).restarted
  BY <1>1, <1>2, <1>3 DEF Figures!Row
<1>. QED
  BY <1>4, <1>5

\* Every step keeps the inductive invariant of the figures.
LEMMA StatsStep == StatsInv /\ [Figures!Next]_statsVars => StatsInv'
<1>. SUFFICES ASSUME StatsInv, [Figures!Next]_statsVars PROVE StatsInv'
  OBVIOUS
<1>. USE DEF StatsInv
<1>s. FiguresSensible' 
  BY DEF FiguresSensible
<1>1. CASE Figures!Tick
  <2>1. PICK busy \in SUBSET Figures!Running :
          used' = [id \in Ids |-> IF id \in busy THEN used[id] + 1 ELSE used[id]]
    BY <1>1 DEF Figures!Tick
  <2>2. system' = system + 1 /\ system' \in 0 .. MaxTicks /\ system \in Nat
    BY <1>1 DEF Figures!Tick, Figures!TypeOK, FiguresSensible
  <2>3. \A id \in Ids : used'[id] \in {used[id], used[id] + 1} /\ used[id] \in Nat
    BY <2>1 DEF Figures!TypeOK
  <2>4. \A id \in Ids : used'[id] <= system' /\ used'[id] \in 0 .. MaxTicks
    BY <2>2, <2>3 DEF FiguresSensible
  <2>5. Figures!TypeOK'
    BY <1>1, <2>1, <2>2, <2>4 DEF Figures!Tick, Figures!call, Figures!TypeOK
  <2>6. SampleInv'
    BY <1>1, <2>2, <2>3 DEF Figures!Tick, Figures!call, SampleInv, FiguresSensible
  <2>7. RowsInv'
    BY <1>1 DEF Figures!Tick, Figures!call, RowsInv
  <2>. QED
    BY <1>s, <2>4, <2>5, <2>6, <2>7
<1>2. CASE Figures!List
  <2>1. asked = {} \/ working
    BY DEF Figures!TypeOK
  <2>2. Figures!TypeOK'
    BY <1>2, <2>1 DEF Figures!List, Figures!world, Figures!Running, Figures!TypeOK, FiguresSensible
  <2>3. SampleInv' /\ RowsInv' /\ \A id \in Ids : used'[id] <= system'
    BY <1>2 DEF Figures!List, Figures!world, SampleInv, RowsInv
  <2>. QED
    BY <1>s, <2>2, <2>3
<1>3. CASE Figures!Answer
  <2>1. PICK a \in asked :
          /\ todo' = todo \ {a.id}
          /\ result' = result \cup
               {IF host[a.id] = "running" THEN Figures!Row(a) ELSE [Figures!Row(a) EXCEPT !.cpu = 0]}
    BY <1>3 DEF Figures!Answer
  <2>2. /\ Figures!Row(a) \in Figures!Rows /\ [Figures!Row(a) EXCEPT !.cpu = 0] \in Figures!Rows
        /\ Figures!Row(a).cpu <= Figures!Row(a).system \/ Figures!Row(a).restarted
    BY RowHonest
  <2>3. LET z == [Figures!Row(a) EXCEPT !.cpu = 0] IN z.cpu <= z.system \/ z.restarted
    BY <2>2 DEF Figures!Rows, Figures!Row, FiguresSensible
  <2>4. Figures!TypeOK'
    BY <1>3, <2>1, <2>2 DEF Figures!Answer, Figures!world, Figures!TypeOK
  <2>5. RowsInv'
    BY <1>3, <2>1, <2>2, <2>3 DEF Figures!Answer, RowsInv
  <2>6. SampleInv' /\ \A id \in Ids : used'[id] <= system'
    BY <1>3 DEF Figures!Answer, Figures!world, SampleInv
  <2>. QED
    BY <1>s, <2>4, <2>5, <2>6
<1>4. CASE Figures!Send
  <2>1. RowsInv' /\ result' \subseteq Figures!Rows /\ stats' \subseteq Figures!Rows /\ losses' \in 0 .. MaxFaults
    BY <1>4 DEF Figures!Send, RowsInv, Figures!TypeOK, FiguresSensible
  <2>2. todo' = {} /\ UNCHANGED <<todo, asked, host, used, system, moves>>
    BY <1>4 DEF Figures!Send, Figures!world
  <2>3. Figures!TypeOK'
    BY <2>1, <2>2 DEF Figures!TypeOK
  <2>4. SampleInv' /\ \A id \in Ids : used'[id] <= system'
    BY <2>2 DEF SampleInv
  <2>. QED
    BY <1>s, <2>1, <2>3, <2>4
<1>5. ASSUME NEW id \in Ids, Figures!Ask(id) PROVE StatsInv'
  BY <1>5, <1>s DEF Figures!Ask, Figures!world, Figures!TypeOK, SampleInv, RowsInv, FiguresSensible
<1>6. ASSUME NEW id \in Ids, Figures!StatsFail(id) PROVE StatsInv'
  BY <1>6, <1>s DEF Figures!StatsFail, Figures!Skip, Figures!world, Figures!TypeOK, SampleInv,
       RowsInv, FiguresSensible
<1>7. ASSUME NEW id \in Ids, NEW s \in {"running", "exited", "gone"}, Figures!Change(id, s)
      PROVE  StatsInv'
  <2>1. \A x \in Ids : used'[x] = IF x = id THEN 0 ELSE used[x]
    BY <1>7 DEF Figures!Change, Figures!TypeOK
  <2>2. \A b \in asked' : \E a \in asked :
          b = IF a.id = id THEN [a EXCEPT !.restarted = TRUE] ELSE a
    BY <1>7 DEF Figures!Change
  <2>3. \A b \in asked' :
          /\ b \in [id : Ids, used : 0 .. MaxTicks, system : 0 .. MaxTicks, restarted : BOOLEAN]
          /\ \E a \in asked :
               /\ a.id = b.id /\ a.system = b.system /\ a.used = b.used
               /\ ~b.restarted => b.id # id /\ ~a.restarted
    BY <2>2 DEF SampleInv
  <2>4. SampleInv'
    BY <1>7, <2>1, <2>3 DEF Figures!Change, SampleInv
  <2>5. {b.id : b \in asked'} \subseteq todo
    <3>1. \A a \in asked : a.id \in todo
      BY DEF Figures!TypeOK
    <3>2. \A b \in asked' : b.id \in todo
      BY <2>3, <3>1
    <3>. QED
      BY <3>2
  <2>6. Figures!TypeOK'
    BY <1>7, <2>5 DEF Figures!Change, Figures!TypeOK, FiguresSensible
  <2>7. RowsInv' /\ \A x \in Ids : used'[x] <= system'
    BY <1>7, <2>1 DEF Figures!Change, RowsInv, Figures!TypeOK, FiguresSensible
  <2>. QED
    BY <1>s, <2>4, <2>6, <2>7
<1>8. CASE UNCHANGED statsVars
  BY <1>8, <1>s DEF statsVars, Figures!world, Figures!call, Figures!TypeOK, SampleInv, RowsInv
<1>. QED
  BY <1>1, <1>2, <1>3, <1>4, <1>5, <1>6, <1>7, <1>8 DEF Figures!Next

-----------------------------------------------------------------------------
(* The viewer of logs. *)

ViewerSensible ==
  /\ None \notin Ids /\ None \notin Streams
  /\ Cap \in Nat \ {0} /\ MaxFaults \in Nat /\ MaxLog \in [Ids -> Nat]

Cells == [id : Ids, n : Nat, end : BOOLEAN]
StreamRecords ==
  [id : Ids \cup {None}, client : {"fetching", "reading", "over"},
   server : {"asked", "serving", "refused", "over"}, sent : Nat,
   wire : Seq(Cells), buffer : Seq(Cells)]

StreamsOK ==
  /\ st \in [Streams -> StreamRecords]
  /\ \A s \in Streams :
       st[s].id = None => st[s].client = "over" /\ st[s].server = "over"

\* abortRef is the stream of the container in the viewer, and the only one that
\* is open.
RefInv ==
  /\ abortRef # None <=> tab = "logs" /\ selected # None
  /\ abortRef # None => st[abortRef].id = selected
  /\ \A s \in Streams : st[s].client # "over" => s = abortRef
  /\ streaming <=> abortRef # None /\ st[abortRef].client # "over"
  /\ selected = None => lines = <<>>

\* The viewer shows the last of the first m lines of the container.
Showing(m) ==
  /\ Len(lines) = IF m <= Cap THEN m ELSE Cap
  /\ \A i \in 1 .. Len(lines) : lines[i].id = selected /\ lines[i].n = m - Len(lines) + i

\* c is the j-th cell of the container: the data or the end of a line.
IsCell(c, id, j) == c.id = id /\ c.n = (j + 1) \div 2 /\ (c.end <=> j % 2 = 0)

\* After the first m lines the buffer and the wire hold all the cells that were
\* sent, in order, at most one of them in the buffer.
InFlight(s, m) ==
  /\ Len(st[s].buffer) \in 0 .. 1
  /\ Len(st[s].buffer) + Len(st[s].wire) = 2 * (st[s].sent - m)
  /\ \A i \in 1 .. Len(st[s].buffer) : IsCell(st[s].buffer[i], st[s].id, 2 * m + i)
  /\ \A i \in 1 .. Len(st[s].wire) :
       IsCell(st[s].wire[i], st[s].id, 2 * m + Len(st[s].buffer) + i)

FollowedBy(m) ==
  /\ m <= st[abortRef].sent /\ Showing(m)
  /\ st[abortRef].client # "over" => InFlight(abortRef, m)
  /\ ~streaming /\ ~broken => st[abortRef].server = "over" /\ m = st[abortRef].sent

FlowInv == abortRef # None => \E m \in Nat : FollowedBy(m)

LogInv == ViewerSensible /\ Viewer!TypeOK /\ StreamsOK /\ RefInv /\ FlowInv

-----------------------------------------------------------------------------
\* The inductive invariant of the viewer holds at the start.
LEMMA LogInit == ViewerSensible /\ Viewer!Init => LogInv
<1>. SUFFICES ASSUME ViewerSensible, Viewer!Init PROVE LogInv
  OBVIOUS
<1>1. Viewer!TypeOK
  <2>1. \A c \in Ids : log[c] = 0 /\ 0 \in 0 .. MaxLog[c]
    BY DEF Viewer!Init, ViewerSensible
  <2>2. <<>> \in Seq([id : Ids, n : Nat]) /\ Len(<<>>) = 0 /\ 0 <= Cap /\ 0 \in 0 .. MaxFaults
    BY DEF ViewerSensible
  <2>. QED
    BY <2>1, <2>2 DEF Viewer!Init, Viewer!TypeOK, Viewer!Tabs
<1>2. Viewer!NoStream \in StreamRecords
  BY DEF Viewer!NoStream, StreamRecords
<1>3. StreamsOK
  BY <1>2 DEF Viewer!Init, StreamsOK, Viewer!NoStream
<1>4. RefInv
  BY DEF Viewer!Init, RefInv, Viewer!NoStream
<1>. QED
  BY <1>1, <1>3, <1>4 DEF Viewer!Init, LogInv, FlowInv

\* A step that leaves the viewer, and what its stream is seen through, as they
\* are, keeps the flow.
LEMMA FlowUntouched ==
  ASSUME FlowInv, UNCHANGED <<lines, streaming, broken, abortRef, selected>>,
         abortRef # None => st'[abortRef] = st[abortRef]
  PROVE  FlowInv'
<1>. SUFFICES ASSUME abortRef # None PROVE FlowInv'
  BY DEF FlowInv
<1>1. PICK m \in Nat : FollowedBy(m)
  BY DEF FlowInv
<1>2. (FollowedBy(m))'
  BY <1>1 DEF FollowedBy, Showing, InFlight
<1>. QED
  BY <1>2 DEF FlowInv

\* Following another container, or none.
LEMMA FollowStep ==
  ASSUME LogInv, NEW t \in Viewer!Tabs, NEW c \in Ids \cup {None},
         tab' = t, selected' = c, t # tab,
         t = "containers" => c = selected,
         tab = "logs" => c = selected,
         tab = "containers" => (selected # None => c # None),
         Viewer!Follow(Viewer!Followed(tab, selected), Viewer!Followed(t, c)),
         UNCHANGED <<log, cuts>>
  PROVE  LogInv'
<1>. USE DEF LogInv
<1>s. ViewerSensible'
  BY DEF ViewerSensible
<1>1. CASE Viewer!Followed(tab, selected) = Viewer!Followed(t, c)
  <2>1. UNCHANGED <<lines, streaming, broken, abortRef, st>>
    BY <1>1 DEF Viewer!Follow, Viewer!hook
  <2>2. c = None /\ selected = None
    BY <1>1 DEF Viewer!Followed, Viewer!Tabs, Viewer!TypeOK, ViewerSensible
  <2>3. Viewer!TypeOK'
    BY <2>1 DEF Viewer!TypeOK
  <2>4. StreamsOK'
    BY <2>1 DEF StreamsOK
  <2>5. RefInv'
    BY <2>1, <2>2 DEF RefInv
  <2>6. FlowInv'
    BY <2>1, <2>2, FlowUntouched
  <2>. QED
    BY <1>s, <2>3, <2>4, <2>5, <2>6
<1>2. CASE Viewer!Followed(tab, selected) # Viewer!Followed(t, c) /\ Viewer!Followed(t, c) = None
  <2>1. /\ tab = "logs" /\ t = "containers" /\ selected # None /\ c = selected
        /\ abortRef \in Streams
    BY <1>2 DEF Viewer!Followed, Viewer!Tabs, RefInv, Viewer!TypeOK
  <2>2. /\ st' = [st EXCEPT ![abortRef].client = "over", ![abortRef].wire = <<>>,
                            ![abortRef].buffer = <<>>]
        /\ abortRef' = None /\ streaming' = FALSE /\ UNCHANGED <<lines, broken>>
    BY <1>2, <2>1 DEF Viewer!Follow, Viewer!Aborted, ViewerSensible
  <2>3. Viewer!TypeOK'
    BY <2>2 DEF Viewer!TypeOK
  <2>4. st[abortRef] \in StreamRecords /\ <<>> \in Seq(Cells)
    BY <2>1 DEF StreamsOK
  <2>5. [st[abortRef] EXCEPT !.client = "over", !.wire = <<>>, !.buffer = <<>>] \in StreamRecords
    BY <2>4 DEF StreamRecords
  <2>6. StreamsOK'
    BY <2>1, <2>2, <2>5 DEF StreamsOK
  <2>7. \A s \in Streams : st'[s].client = "over"
    BY <2>1, <2>2 DEF RefInv, StreamsOK
  <2>8. RefInv'
    BY <2>1, <2>2, <2>7 DEF RefInv
  <2>9. FlowInv'
    BY <2>2 DEF FlowInv
  <2>. QED
    BY <1>s, <2>3, <2>6, <2>8, <2>9
<1>3. CASE Viewer!Followed(tab, selected) # Viewer!Followed(t, c) /\ Viewer!Followed(t, c) # None
  <2>1. t = "logs" /\ tab = "containers" /\ c \in Ids /\ abortRef = None
    BY <1>3 DEF Viewer!Followed, Viewer!Tabs, RefInv, Viewer!TypeOK
  <2>2. PICK s \in Streams :
          /\ st[s].client = "over" /\ st[s].server = "over"
          /\ st' = [Viewer!Aborted(st, abortRef) EXCEPT ![s] = Viewer!NewStream(c)] /\ abortRef' = s
          /\ lines' = <<>> /\ broken' = FALSE /\ streaming' = TRUE
    BY <1>3, <2>1 DEF Viewer!Follow, Viewer!Free, Viewer!Followed
  <2>3. st' = [st EXCEPT ![s] = Viewer!NewStream(c)]
    BY <2>1, <2>2 DEF Viewer!Aborted
  <2>4. /\ Viewer!NewStream(c) \in StreamRecords
        /\ Viewer!NewStream(c).id = c /\ Viewer!NewStream(c).client = "fetching" /\ Viewer!NewStream(c).server = "asked"
        /\ Viewer!NewStream(c).sent = 0 /\ Viewer!NewStream(c).wire = <<>> /\ Viewer!NewStream(c).buffer = <<>>
    <3>1. <<>> \in Seq(Cells)
      OBVIOUS
    <3>. QED
      BY <2>1, <3>1 DEF Viewer!NewStream, Viewer!NoStream, StreamRecords
  <2>5. Viewer!TypeOK'
    <3>1. <<>> \in Seq([id : Ids, n : Nat]) /\ Len(<<>>) = 0 /\ 0 <= Cap
      BY DEF ViewerSensible
    <3>. QED
      BY <2>1, <2>2, <3>1 DEF Viewer!TypeOK
  <2>6. st'[s] = Viewer!NewStream(c) /\ \A r \in Streams \ {s} : st'[r] = st[r]
    BY <2>3 DEF StreamsOK
  <2>7. StreamsOK'
    BY <2>1, <2>3, <2>4, <2>6 DEF StreamsOK, ViewerSensible
  <2>8. RefInv'
    BY <2>1, <2>2, <2>4, <2>6 DEF RefInv, ViewerSensible
  <2>9. FlowInv'
    <3>1. (FollowedBy(0))'
      <4>1. Len(<<>>) = 0 /\ 0 <= Cap /\ 0 \in Nat
        BY DEF ViewerSensible
      <4>2. (Showing(0))'
        BY <2>2, <4>1 DEF Showing
      <4>3. (InFlight(s, 0))'
        <5>1. st'[s].buffer = <<>> /\ st'[s].wire = <<>> /\ st'[s].sent = 0
          BY <2>4, <2>6
        <5>2. Len(st'[s].buffer) = 0 /\ Len(st'[s].wire) = 0
          BY <5>1, <4>1
        <5>. QED
          BY <5>1, <5>2 DEF InFlight
      <4>. QED
        BY <2>2, <2>4, <2>6, <4>2, <4>3 DEF FollowedBy
    <3>. QED
      BY <3>1 DEF FlowInv
  <2>. QED
    BY <1>s, <2>5, <2>7, <2>8, <2>9
<1>. QED
  BY <1>1, <1>2, <1>3

-----------------------------------------------------------------------------
\* That stays true when a container writes a line.
LEMMA ContainerWritesStep ==
  ASSUME LogInv, NEW c \in Ids, Viewer!ContainerWrites(c)
  PROVE  LogInv'
<1>. USE DEF LogInv
<1>1. UNCHANGED <<tab, selected, lines, streaming, broken, abortRef, st, cuts>>
  BY DEF Viewer!ContainerWrites, Viewer!ui, Viewer!hook
<1>2. \A d \in Ids : log'[d] \in 0 .. MaxLog[d]
  <2> TAKE d \in Ids
  <2>1. log[d] \in 0 .. MaxLog[d] /\ MaxLog[d] \in Nat /\ log[c] < MaxLog[c]
    BY DEF Viewer!TypeOK, ViewerSensible, Viewer!ContainerWrites
  <2>2. CASE d = c
    BY <2>1, <2>2 DEF Viewer!ContainerWrites
  <2>3. CASE d # c
    BY <2>1, <2>3 DEF Viewer!ContainerWrites
  <2>. QED
    BY <2>2, <2>3
<1>. QED
  BY <1>1, <1>2, FlowUntouched DEF Viewer!TypeOK, ViewerSensible, StreamsOK, RefInv

\* A change of what the server does for a stream that it does not serve yet, or
\* not any more.
LEMMA ServerStep ==
  ASSUME LogInv, NEW s \in Streams, NEW v \in {"serving", "refused", "over"},
         st' = [st EXCEPT ![s].server = v], st[s].server \in {"asked", "serving", "refused"},
         v = "over" \/ st[s].server = "asked",
         cuts' \in 0 .. MaxFaults,
         UNCHANGED <<tab, selected, lines, streaming, broken, abortRef, log>>
  PROVE  LogInv'
<1>. USE DEF LogInv
<1>1. /\ st'[s] = [st[s] EXCEPT !.server = v] /\ \A r \in Streams \ {s} : st'[r] = st[r]
      /\ st' \in [Streams -> StreamRecords]
  <2>1. st[s] \in StreamRecords
    BY DEF StreamsOK
  <2>2. [st[s] EXCEPT !.server = v] \in StreamRecords
    BY <2>1 DEF StreamRecords
  <2>. QED
    BY <2>2 DEF StreamsOK
<1>2. /\ st'[s].id = st[s].id /\ st'[s].client = st[s].client /\ st'[s].sent = st[s].sent
      /\ st'[s].wire = st[s].wire /\ st'[s].buffer = st[s].buffer /\ st'[s].server = v
  BY <1>1 DEF StreamsOK, StreamRecords
<1>3. Viewer!TypeOK'
  BY DEF Viewer!TypeOK
<1>4. StreamsOK'
  BY <1>1, <1>2 DEF StreamsOK
<1>5. RefInv'
  BY <1>1, <1>2 DEF RefInv, Viewer!TypeOK
<1>6. FlowInv'
  <2>1. CASE abortRef # s
    BY <2>1, <1>1, FlowUntouched DEF Viewer!TypeOK
  <2>2. CASE abortRef = s
    <3>1. s # None
      BY DEF ViewerSensible
    <3>2. PICK m \in Nat : FollowedBy(m)
      BY <2>2, <3>1 DEF FlowInv
    <3>3. (Showing(m))' /\ (InFlight(s, m) => (InFlight(s, m))')
      BY <2>2, <3>2, <1>2 DEF FollowedBy, Showing, InFlight
    <3>4. (FollowedBy(m))'
      BY <2>2, <3>2, <3>3, <1>2 DEF FollowedBy
    <3>. QED
      BY <3>4 DEF FlowInv
  <2>. QED
    BY <2>1, <2>2
<1>. QED
  BY <1>3, <1>4, <1>5, <1>6 DEF ViewerSensible

\* That stays true when the server answers the viewer.
LEMMA RespondsStep ==
  ASSUME LogInv, NEW s \in Streams, Viewer!Responds(s)
  PROVE  LogInv'
<1>. USE DEF LogInv
<1>0. UNCHANGED <<tab, selected, lines, streaming, broken, abortRef, log, cuts>>
  BY DEF Viewer!Responds, Viewer!ui, Viewer!hook
<1>1. /\ st'[s] = [st[s] EXCEPT !.client = "reading"] /\ \A r \in Streams \ {s} : st'[r] = st[r]
      /\ st' \in [Streams -> StreamRecords] /\ st[s].client = "fetching"
  <2>1. st[s] \in StreamRecords
    BY DEF StreamsOK
  <2>2. [st[s] EXCEPT !.client = "reading"] \in StreamRecords
    BY <2>1 DEF StreamRecords
  <2>. QED
    BY <2>2 DEF StreamsOK, Viewer!Responds
<1>2. /\ st'[s].id = st[s].id /\ st'[s].client = "reading" /\ st'[s].sent = st[s].sent
      /\ st'[s].wire = st[s].wire /\ st'[s].buffer = st[s].buffer /\ st'[s].server = st[s].server
  BY <1>1 DEF StreamsOK, StreamRecords
<1>3. abortRef = s /\ s # None
  BY <1>1 DEF RefInv, ViewerSensible
<1>t. Viewer!TypeOK'
  BY <1>0 DEF Viewer!TypeOK
<1>u. st[s].id # None
  BY <1>1 DEF StreamsOK
<1>4. StreamsOK'
  <2>1. \A r \in Streams : st'[r].id = None => r # s /\ st'[r] = st[r]
    BY <1>1, <1>2, <1>u
  <2>2. \A r \in Streams : st[r].id = None => st[r].client = "over" /\ st[r].server = "over"
    BY DEF StreamsOK
  <2>. QED
    BY <1>1, <2>1, <2>2 DEF StreamsOK
<1>5. RefInv'
  BY <1>0, <1>1, <1>2, <1>3 DEF RefInv
<1>6. PICK m \in Nat : FollowedBy(m)
  BY <1>3 DEF FlowInv
<1>7. (Showing(m))' /\ (InFlight(s, m) => (InFlight(s, m))')
  BY <1>0, <1>6, <1>2 DEF FollowedBy, Showing, InFlight
<1>8. (FollowedBy(m))'
  BY <1>0, <1>1, <1>2, <1>3, <1>6, <1>7 DEF FollowedBy
<1>. QED
  BY <1>0, <1>t, <1>4, <1>5, <1>8 DEF FlowInv, ViewerSensible

\* That stays true when a stream ends.
LEMMA DoneStep ==
  ASSUME LogInv, NEW s \in Streams, Viewer!Done(s)
  PROVE  LogInv'
<1>. USE DEF LogInv
<1>0. UNCHANGED <<tab, selected, lines, broken, abortRef, log, cuts>> /\ streaming' = FALSE
  BY DEF Viewer!Done, Viewer!ui
<1>1. /\ st'[s] = [st[s] EXCEPT !.client = "over", !.buffer = <<>>]
      /\ \A r \in Streams \ {s} : st'[r] = st[r]
      /\ st' \in [Streams -> StreamRecords]
      /\ st[s].client = "reading" /\ st[s].server = "over" /\ st[s].wire = <<>>
  <2>1. st[s] \in StreamRecords /\ <<>> \in Seq(Cells)
    BY DEF StreamsOK
  <2>2. [st[s] EXCEPT !.client = "over", !.buffer = <<>>] \in StreamRecords
    BY <2>1 DEF StreamRecords
  <2>. QED
    BY <2>2 DEF StreamsOK, Viewer!Done
<1>2. /\ st'[s].id = st[s].id /\ st'[s].client = "over" /\ st'[s].sent = st[s].sent
      /\ st'[s].server = "over"
  BY <1>1 DEF StreamsOK, StreamRecords
<1>3. abortRef = s /\ s # None
  BY <1>1 DEF RefInv, ViewerSensible
<1>t. Viewer!TypeOK'
  BY <1>0 DEF Viewer!TypeOK
<1>u. st[s].id # None
  BY <1>1 DEF StreamsOK
<1>4. StreamsOK'
  <2>1. \A r \in Streams : st'[r].id = None => r # s /\ st'[r] = st[r]
    BY <1>1, <1>2, <1>u
  <2>2. \A r \in Streams : st[r].id = None => st[r].client = "over" /\ st[r].server = "over"
    BY DEF StreamsOK
  <2>. QED
    BY <1>1, <2>1, <2>2 DEF StreamsOK
<1>5. RefInv'
  BY <1>0, <1>1, <1>2, <1>3 DEF RefInv
<1>6. PICK m \in Nat : FollowedBy(m)
  BY <1>3 DEF FlowInv
<1>7. m = st[s].sent
  <2>1. InFlight(s, m) /\ m <= st[s].sent
    BY <1>6, <1>3, <1>1 DEF FollowedBy
  <2>2. Len(st[s].wire) = 0 /\ st[s].sent \in Nat
    BY <1>1 DEF StreamsOK, StreamRecords
  <2>3. Len(st[s].buffer) \in 0 .. 1 /\ Len(st[s].buffer) + 0 = 2 * (st[s].sent - m)
    BY <2>1, <2>2 DEF InFlight
  <2>4. \A a, b \in Nat : \A i \in 0 .. 1 : i + 0 = 2 * (a - b) => b = a
    OBVIOUS
  <2>. QED
    BY <2>2, <2>3, <2>4
<1>8. (Showing(m))'
  BY <1>0, <1>6 DEF FollowedBy, Showing
<1>9. (FollowedBy(m))'
  BY <1>0, <1>2, <1>3, <1>6, <1>7, <1>8 DEF FollowedBy
<1>. QED
  BY <1>0, <1>t, <1>4, <1>5, <1>9 DEF FlowInv, ViewerSensible

\* That stays true when a stream fails.
LEMMA ThrowsStep ==
  ASSUME LogInv, NEW s \in Streams, st[s].client # "over", Viewer!Throws(s),
         cuts' \in 0 .. MaxFaults
  PROVE  LogInv'
<1>. USE DEF LogInv
<1>0. /\ UNCHANGED <<tab, selected, lines, abortRef, log>>
      /\ streaming' = FALSE /\ broken' = TRUE
  BY DEF Viewer!Throws, Viewer!ui
<1>1. abortRef = s /\ s # None
  BY DEF RefInv, ViewerSensible
<1>2. PICK v \in {"asked", "serving", "over"} :
        st' = [Viewer!Aborted(st, s) EXCEPT ![s].server = v]
  <2>1. st[s] \in StreamRecords
    BY DEF StreamsOK
  <2>2. st[s].server \in {"asked", "serving", "refused", "over"}
    BY <2>1 DEF StreamRecords
  <2>3. Viewer!Aborted(st, s)[s].server = st[s].server
    BY <1>1, <2>1 DEF Viewer!Aborted, StreamsOK, StreamRecords
  <2>. QED
    BY <2>2, <2>3 DEF Viewer!Throws
<1>3. /\ st'[s] = [st[s] EXCEPT !.client = "over", !.wire = <<>>, !.buffer = <<>>, !.server = v]
      /\ \A r \in Streams \ {s} : st'[r] = st[r]
      /\ st' \in [Streams -> StreamRecords]
  <2>1. st[s] \in StreamRecords /\ <<>> \in Seq(Cells)
    BY DEF StreamsOK
  <2>2. [st[s] EXCEPT !.client = "over", !.wire = <<>>, !.buffer = <<>>, !.server = v]
          \in StreamRecords
    BY <2>1 DEF StreamRecords
  <2>. QED
    BY <1>1, <1>2, <2>2 DEF StreamsOK, Viewer!Aborted
<1>4. st'[s].id = st[s].id /\ st'[s].client = "over" /\ st'[s].sent = st[s].sent
  BY <1>3 DEF StreamsOK, StreamRecords
<1>5. Viewer!TypeOK'
  BY <1>0 DEF Viewer!TypeOK
<1>6. StreamsOK'
  <2>1. st[s].id # None
    BY DEF StreamsOK
  <2>2. \A r \in Streams : st'[r].id = None => r # s /\ st'[r] = st[r]
    BY <1>3, <1>4, <2>1
  <2>3. \A r \in Streams : st[r].id = None => st[r].client = "over" /\ st[r].server = "over"
    BY DEF StreamsOK
  <2>. QED
    BY <1>3, <2>2, <2>3 DEF StreamsOK
<1>7. RefInv'
  BY <1>0, <1>1, <1>3, <1>4 DEF RefInv
<1>8. PICK m \in Nat : FollowedBy(m)
  BY <1>1 DEF FlowInv
<1>9. (Showing(m))'
  BY <1>0, <1>8 DEF FollowedBy, Showing
<1>10. (FollowedBy(m))'
  BY <1>0, <1>1, <1>4, <1>8, <1>9 DEF FollowedBy
<1>. QED
  BY <1>0, <1>5, <1>6, <1>7, <1>10 DEF FlowInv, ViewerSensible

-----------------------------------------------------------------------------
\* Two more cells after the n on the wire are those of the next line.
LEMMA NextCells ==
  ASSUME NEW x \in Nat, NEW m \in Nat, NEW b \in 0 .. 1, NEW n \in Nat, b + n = 2 * (x - m)
  PROVE  /\ 2 * m + b + (n + 1) = 2 * x + 1 /\ 2 * m + b + (n + 2) = 2 * x + 2
         /\ (2 * x + 1 + 1) \div 2 = x + 1 /\ (2 * x + 1) % 2 = 1
         /\ (2 * x + 2 + 1) \div 2 = x + 1 /\ (2 * x + 2) % 2 = 0
         /\ b + (n + 2) = 2 * (x + 1 - m)
OBVIOUS

\* That stays true when the handler passes bytes on.
LEMMA HandlerWritesStep ==
  ASSUME LogInv, NEW s \in Streams, Viewer!HandlerWrites(s)
  PROVE  LogInv'
<1>. USE DEF LogInv
<1> DEFINE q == st[s].sent + 1
           c1 == [id |-> st[s].id, n |-> q, end |-> FALSE]
           c2 == [id |-> st[s].id, n |-> q, end |-> TRUE]
           w == IF st[s].client = "over" THEN <<>> ELSE st[s].wire \o <<c1, c2>>
<1>0. UNCHANGED <<tab, selected, lines, streaming, broken, abortRef, log, cuts>>
  BY DEF Viewer!HandlerWrites, Viewer!ui, Viewer!hook
<1>1. /\ st[s] \in StreamRecords /\ st[s].server = "serving" /\ st[s].id \in Ids
      /\ st[s].sent \in Nat /\ st[s].wire \in Seq(Cells) /\ st[s].buffer \in Seq(Cells)
  BY DEF StreamsOK, StreamRecords, Viewer!HandlerWrites
<1>2. c1 \in Cells /\ c2 \in Cells
  BY <1>1 DEF Cells
<1>3. <<c1, c2>> \in Seq(Cells) /\ <<>> \in Seq(Cells)
  BY <1>2
<1>4. w \in Seq(Cells)
  BY <1>1, <1>3
<1>5. st' = [st EXCEPT ![s].sent = q, ![s].wire = w]
  BY DEF Viewer!HandlerWrites
<1>. HIDE DEF w, c1, c2
<1>6. /\ st'[s] = [st[s] EXCEPT !.sent = q, !.wire = w]
      /\ \A r \in Streams \ {s} : st'[r] = st[r]
      /\ st' \in [Streams -> StreamRecords]
  <2>1. q \in Nat
    BY <1>1
  <2>2. [st[s] EXCEPT !.sent = q, !.wire = w] \in StreamRecords
    BY <1>1, <1>4, <2>1 DEF StreamRecords
  <2>. QED
    BY <1>5, <2>2 DEF StreamsOK
<1>7. /\ st'[s].id = st[s].id /\ st'[s].client = st[s].client /\ st'[s].server = st[s].server
      /\ st'[s].sent = q /\ st'[s].wire = w /\ st'[s].buffer = st[s].buffer
  BY <1>1, <1>6 DEF StreamRecords
<1>t. Viewer!TypeOK'
  BY <1>0 DEF Viewer!TypeOK
<1>8. StreamsOK'
  <2>1. st[s].id # None
    BY <1>1 DEF ViewerSensible
  <2>2. \A r \in Streams : st'[r].id = None => r # s /\ st'[r] = st[r]
    BY <1>6, <1>7, <2>1
  <2>3. \A r \in Streams : st[r].id = None => st[r].client = "over" /\ st[r].server = "over"
    BY DEF StreamsOK
  <2>. QED
    BY <1>6, <2>2, <2>3 DEF StreamsOK
<1>9. RefInv'
  BY <1>0, <1>6, <1>7 DEF RefInv, Viewer!TypeOK
<1>10. FlowInv'
  <2>1. CASE abortRef # s
    BY <2>1, <1>0, <1>6, FlowUntouched DEF Viewer!TypeOK
  <2>2. CASE abortRef = s
    <3>1. PICK m \in Nat : FollowedBy(m)
      BY <2>2 DEF FlowInv, ViewerSensible
    <3>2. (Showing(m))'
      BY <1>0, <3>1 DEF FollowedBy, Showing
    <3>3. ASSUME st[s].client # "over" PROVE (InFlight(s, m))'
      <4>1. w = st[s].wire \o <<c1, c2>>
        BY <3>3 DEF w
      <4>2. InFlight(s, m) /\ m <= st[s].sent
        BY <2>2, <3>1, <3>3 DEF FollowedBy
      <4> DEFINE b == Len(st[s].buffer)
                 n == Len(st[s].wire)
      <4>3. b \in 0 .. 1 /\ n \in Nat /\ b + n = 2 * (st[s].sent - m)
        <5>1. Len(st[s].wire) \in Nat
          BY <1>1
        <5>. QED
          BY <5>1, <4>2 DEF InFlight
      <4>4. /\ Len(w) = n + 2 /\ \A i \in 1 .. n : w[i] = st[s].wire[i]
            /\ w[n + 1] = c1 /\ w[n + 2] = c2
        BY <1>1, <1>3, <4>1
      <4>5. \A i \in 1 .. n : IsCell(st[s].wire[i], st[s].id, 2 * m + b + i)
        BY <4>2 DEF InFlight
      <4> DEFINE x == st[s].sent
      <4>6. x \in Nat /\ b \in 0 .. 1 /\ n \in Nat /\ b + n = 2 * (x - m)
        BY <1>1, <4>3
      <4>. HIDE DEF b, n, x
      <4>7. /\ 2 * m + b + (n + 1) = 2 * x + 1 /\ 2 * m + b + (n + 2) = 2 * x + 2
            /\ (2 * x + 1 + 1) \div 2 = x + 1 /\ (2 * x + 1) % 2 = 1
            /\ (2 * x + 2 + 1) \div 2 = x + 1 /\ (2 * x + 2) % 2 = 0
            /\ b + (n + 2) = 2 * (x + 1 - m)
        BY <4>6, NextCells
      <4>8. /\ IsCell(c1, st[s].id, 2 * m + b + (n + 1))
            /\ IsCell(c2, st[s].id, 2 * m + b + (n + 2))
        <5> DEFINE j1 == 2 * m + b + (n + 1)
                   j2 == 2 * m + b + (n + 2)
        <5>1. (j1 + 1) \div 2 = q /\ j1 % 2 = 1 /\ (j2 + 1) \div 2 = q /\ j2 % 2 = 0
          BY <4>7 DEF x
        <5>2. c1.id = st[s].id /\ c1.n = q /\ ~c1.end /\ c2.id = st[s].id /\ c2.n = q /\ c2.end
          BY DEF c1, c2
        <5>. HIDE DEF j1, j2, q
        <5>3. IsCell(c1, st[s].id, j1) /\ IsCell(c2, st[s].id, j2)
          BY <5>1, <5>2 DEF IsCell
        <5>. QED
          BY <5>3 DEF j1, j2
      <4>9. \A i \in 1 .. n + 2 : IsCell(w[i], st[s].id, 2 * m + b + i)
        <5>1. \A i \in 1 .. n + 2 : i \in 1 .. n \/ i = n + 1 \/ i = n + 2
          BY <4>3
        <5>. QED
          BY <5>1, <4>4, <4>5, <4>8
      <4>10. b + (n + 2) = 2 * (q - m)
        <5>1. q = x + 1
          BY DEF x
        <5>. HIDE DEF q
        <5>. QED
          BY <4>6, <4>7, <5>1
      <4>11. \A i \in 1 .. b : IsCell(st[s].buffer[i], st[s].id, 2 * m + i)
        BY <4>2 DEF InFlight, b
      <4>. HIDE DEF q
      <4>. QED
        BY <1>7, <4>6, <4>3, <4>4, <4>9, <4>10, <4>11 DEF InFlight, b, n
    <3>4. m <= q
      BY <1>1, <2>2, <3>1 DEF FollowedBy
    <3>5. (FollowedBy(m))'
      BY <1>0, <1>1, <1>7, <2>2, <3>1, <3>2, <3>3, <3>4 DEF FollowedBy
    <3>. QED
      BY <3>5 DEF FlowInv
  <2>. QED
    BY <2>1, <2>2
<1>. QED
  BY <1>0, <1>t, <1>8, <1>9, <1>10 DEF ViewerSensible

-----------------------------------------------------------------------------
(* read() returns some of the wire. *)

\* The instance's items of a sequence are those of Lists.
LEMMA SameAt == \A s, S : Viewer!At(s, S) = At(s, S)
<1>0. \A S : Viewer!Cardinality(S) = Cardinality(S)
  BY DEF Viewer!Cardinality, Cardinality
<1>1. \A S, i : Viewer!Rank(S, i) = Rank(S, i)
  BY <1>0 DEF Viewer!Rank, Rank
<1>2. \A S, k : Viewer!Nth(S, k) = Nth(S, k)
  BY <1>1 DEF Viewer!Nth, Nth
<1>. QED
  BY <1>0, <1>2 DEF Viewer!At, At

\* The cells that end a line.
Ended(cells) == Viewer!Filter(cells, LAMBDA x : x.end)

\* The cells that end a line, of l consecutive ones from an odd one on.
LEMMA EndsAreEven ==
  ASSUME NEW l \in Nat, NEW p \in Nat, l = 2 * p \/ l = 2 * p + 1, NEW cells \in Seq(Cells)
  PROVE  Len(cells) = l /\ (\A i \in 1 .. l : cells[i].end <=> i % 2 = 0) =>
           /\ Ended(cells) \in Seq(Cells)
           /\ Len(Ended(cells)) = p
           /\ \A j \in 1 .. p : Ended(cells)[j] = cells[2 * j]
<1> DEFINE S == {i \in DOMAIN cells : cells[i].end}
           e == [j \in 1 .. p |-> 2 * j]
<1>h. SUFFICES ASSUME Len(cells) = l, \A i \in 1 .. l : cells[i].end <=> i % 2 = 0
      PROVE  /\ Ended(cells) \in Seq(Cells)
             /\ Len(Ended(cells)) = p
             /\ \A j \in 1 .. p : Ended(cells)[j] = cells[2 * j]
  OBVIOUS
<1>1. e \in [1 .. p -> Nat] /\ \A k, m \in 1 .. p : k < m => e[k] < e[m]
  OBVIOUS
<1>2. DOMAIN cells = 1 .. l
  BY <1>h
<1>3. \A i : i \in S <=> \E k \in 1 .. p : i = e[k]
  <2>1. \A i \in 1 .. l : i % 2 = 0 => i \div 2 \in 1 .. p /\ i = 2 * (i \div 2)
    OBVIOUS
  <2>2. \A i \in S : \E k \in 1 .. p : i = e[k]
    BY <1>h, <1>2, <2>1
  <2>3. \A k \in 1 .. p : 2 * k \in 1 .. l /\ (2 * k) % 2 = 0
    OBVIOUS
  <2>4. \A k \in 1 .. p : e[k] \in S
    BY <1>h, <1>2, <2>3
  <2>. QED
    BY <2>2, <2>4
<1>5. S \in SUBSET (DOMAIN cells)
  OBVIOUS
<1>. HIDE DEF e, S
<1>4. /\ S \in SUBSET Nat /\ IsFiniteSet(S) /\ Cardinality(S) = p
      /\ \A k \in 1 .. p : Nth(S, k) = e[k]
  BY <1>1, <1>3, ListOfMembers, ZenonT(30)
<1>6. At(cells, S) \in Seq(Cells) /\ Len(At(cells, S)) = p
  BY <1>4, <1>5, AtProperties
<1>7. \A j \in 1 .. p : At(cells, S)[j] = cells[2 * j]
  BY <1>4 DEF At, e
<1>. QED
  BY <1>6, <1>7, SameAt DEF Ended, Viewer!Filter, S

\* The arithmetic of a read that completes p lines.
LEMMA ReadArithmetic ==
  ASSUME NEW x \in Nat, NEW m \in Nat, NEW b \in 0 .. 1, NEW n \in Nat, NEW k \in 1 .. n,
         NEW p \in Nat, b + n = 2 * (x - m), b + k = 2 * p \/ b + k = 2 * p + 1
  PROVE  /\ m + p <= x /\ m + p \in Nat
         /\ b + k - 2 * p \in 0 .. 1
         /\ b + k - 2 * p + (n - k) = 2 * (x - (m + p))
         /\ \A j \in 1 .. b + k : (2 * m + j) % 2 = j % 2
         /\ \A j \in 1 .. p : (2 * m + 2 * j + 1) \div 2 = m + j
         /\ \A i \in 1 .. n - k : 2 * m + b + (k + i) = 2 * (m + p) + (b + k - 2 * p) + i
OBVIOUS

\* With the first m of x lines shown, a read finds cells: the buffer and k more
\* from the wire, p whole lines and perhaps the data of one more.
Reads(id, m, x, buf, wire, b, n, k, cells, p) ==
  /\ m \in Nat /\ x \in Nat /\ p \in Nat /\ b \in 0 .. 1 /\ n \in Nat /\ k \in 1 .. n
  /\ buf \in Seq(Cells) /\ wire \in Seq(Cells) /\ b = Len(buf) /\ n = Len(wire)
  /\ b + n = 2 * (x - m) /\ (b + k = 2 * p \/ b + k = 2 * p + 1)
  /\ \A i \in 1 .. b : IsCell(buf[i], id, 2 * m + i)
  /\ \A i \in 1 .. n : IsCell(wire[i], id, 2 * m + b + i)
  /\ cells = buf \o SubSeq(wire, 1, k)

\* The lines a read completes are the next ones of the container.
LEMMA ReadLines ==
  ASSUME NEW id, NEW m, NEW x, NEW buf, NEW wire, NEW b, NEW n, NEW k, NEW cells, NEW p,
         Reads(id, m, x, buf, wire, b, n, k, cells, p)
  PROVE  /\ cells \in Seq(Cells) /\ Len(cells) = b + k
         /\ cells[Len(cells)].end <=> b + k = 2 * p
         /\ Ended(cells) \in Seq(Cells) /\ Len(Ended(cells)) = p
         /\ \A j \in 1 .. p : Ended(cells)[j].id = id /\ Ended(cells)[j].n = m + j
         /\ \A i \in 1 .. b + k : IsCell(cells[i], id, 2 * m + i)
<1>. SUFFICES ASSUME m \in Nat, x \in Nat, p \in Nat, b \in 0 .. 1, n \in Nat, k \in 1 .. n,
                     buf \in Seq(Cells), wire \in Seq(Cells),
                     b + n = 2 * (x - m), b + k = 2 * p \/ b + k = 2 * p + 1
              PROVE  /\ cells \in Seq(Cells) /\ Len(cells) = b + k
                     /\ cells[Len(cells)].end <=> b + k = 2 * p
                     /\ Ended(cells) \in Seq(Cells) /\ Len(Ended(cells)) = p
                     /\ \A j \in 1 .. p : Ended(cells)[j].id = id /\ Ended(cells)[j].n = m + j
                     /\ \A i \in 1 .. b + k : IsCell(cells[i], id, 2 * m + i)
  BY DEF Reads
<1>h. /\ b = Len(buf) /\ n = Len(wire)
      /\ \A i \in 1 .. b : IsCell(buf[i], id, 2 * m + i)
      /\ \A i \in 1 .. n : IsCell(wire[i], id, 2 * m + b + i)
      /\ cells = buf \o SubSeq(wire, 1, k)
  BY DEF Reads
<1> DEFINE l == b + k
<1>1. k \in 1 .. n /\ l \in Nat /\ l >= 1
  OBVIOUS
<1>2. /\ cells \in Seq(Cells) /\ Len(cells) = l
      /\ \A i \in 1 .. b : cells[i] = buf[i]
      /\ \A i \in 1 .. k : cells[b + i] = wire[i]
  <2>1. SubSeq(wire, 1, k) \in Seq(Cells) /\ Len(SubSeq(wire, 1, k)) = k
        /\ \A i \in 1 .. k : SubSeq(wire, 1, k)[i] = wire[i]
    <3>1. \A i \in 1 .. k : i \in 1 .. Len(wire)
      BY <1>h
    <3>2. \A i \in 1 .. k : wire[i] \in Cells
      BY <3>1
    <3>. QED
      BY <3>2, SubSeqProperties
  <2>2. b \in Nat /\ k \in Nat
    OBVIOUS
  <2> DEFINE c == SubSeq(wire, 1, k)
  <2>3. buf \in Seq(Cells) /\ c \in Seq(Cells) /\ Len(buf) = b /\ Len(c) = k /\ cells = buf \o c
    BY <1>h, <2>1
  <2>4. \A i \in 1 .. b : i \in 1 .. l /\ i <= b
    BY <2>2
  <2>5. \A i \in 1 .. k : b + i \in 1 .. l /\ ~(b + i <= b) /\ (b + i) - b = i
    BY <2>2
  <2>. HIDE DEF c, l
  <2>6. /\ cells \in Seq(Cells) /\ Len(cells) = b + k
        /\ \A i \in 1 .. b + k : cells[i] = IF i <= b THEN buf[i] ELSE c[i - b]
    BY <2>3, ConcatProperties
  <2>7. /\ Len(cells) = l
        /\ \A i \in 1 .. l : cells[i] = IF i <= b THEN buf[i] ELSE c[i - b]
    BY <2>6 DEF l
  <2>8. \A i \in 1 .. b : cells[i] = buf[i]
    BY <2>4, <2>7
  <2>9. \A i \in 1 .. k : cells[b + i] = c[i]
    BY <2>5, <2>7
  <2>10. \A i \in 1 .. k : c[i] = wire[i]
    BY <2>1 DEF c
  <2>. QED
    BY <2>6, <2>7, <2>8, <2>9, <2>10
<1>3. \A i \in 1 .. l : IsCell(cells[i], id, 2 * m + i)
  <2> TAKE i \in 1 .. l
  <2>1. CASE i \in 1 .. b
    BY <1>h, <1>2, <2>1
  <2>2. CASE i \notin 1 .. b
    <3> DEFINE j == i - b
    <3>1. j \in 1 .. k /\ b + j = i
      BY <2>2
    <3>4. j \in 1 .. n /\ 2 * m + b + j = 2 * m + i
      BY <3>1
    <3>. HIDE DEF j
    <3>2. IsCell(wire[j], id, 2 * m + b + j) /\ cells[b + j] = wire[j]
      BY <1>h, <1>2, <3>1, <3>4
    <3>. QED
      BY <3>1, <3>2, <3>4
  <2>. QED
    BY <2>1, <2>2
<1>4. /\ \A j \in 1 .. l : (2 * m + j) % 2 = j % 2
      /\ \A j \in 1 .. p : (2 * m + 2 * j + 1) \div 2 = m + j
  BY <1>1, ReadArithmetic
<1>5. \A i \in 1 .. l : cells[i].end <=> i % 2 = 0
  BY <1>3, <1>4 DEF IsCell
<1>6. /\ Ended(cells) \in Seq(Cells)
      /\ Len(Ended(cells)) = p
      /\ \A j \in 1 .. p : Ended(cells)[j] = cells[2 * j]
  <2>. HIDE DEF l
  <2>1. l = 2 * p \/ l = 2 * p + 1
    BY DEF l
  <2>. QED
    BY <1>1, <1>2, <1>5, <2>1, EndsAreEven, ZenonT(60)
<1>7. \A j \in 1 .. p : /\ Ended(cells)[j].id = id
                        /\ Ended(cells)[j].n = m + j
  <2> TAKE j \in 1 .. p
  <2>1. 2 * j \in 1 .. l
    OBVIOUS
  <2>2. IsCell(cells[2 * j], id, 2 * m + 2 * j)
    BY <2>1, <1>3
  <2>. QED
    BY <2>2, <1>4, <1>6 DEF IsCell
<1>8. cells[l].end <=> l = 2 * p
  <2>1. l \in 1 .. l /\ (l % 2 = 0 <=> l = 2 * p)
    <3>1. \A q \in Nat : (2 * q) % 2 = 0 /\ (2 * q + 1) % 2 = 1
      OBVIOUS
    <3>2. l = 2 * p => l % 2 = 0
      BY <3>1
    <3>3. l = 2 * p + 1 => l % 2 = 1
      BY <3>1
    <3>. QED
      BY <1>1, <3>2, <3>3
  <2>. QED
    BY <2>1, <1>5
<1>. QED
  BY <1>2, <1>3, <1>6, <1>7, <1>8

\* The viewer takes the p lines ended after the last of the first m.
Takes(id, m, p, old, ended, next, new) ==
  /\ m \in Nat /\ p \in Nat /\ id \in Ids
  /\ old \in Seq([id : Ids, n : Nat]) /\ ended \in Seq(Cells) /\ Len(ended) = p
  /\ \A j \in 1 .. p : ended[j].id = id /\ ended[j].n = m + j
  /\ Len(old) = IF m <= Cap THEN m ELSE Cap
  /\ \A i \in 1 .. Len(old) : old[i].id = id /\ old[i].n = m - Len(old) + i
  /\ next = old \o [i \in DOMAIN ended |-> [id |-> ended[i].id, n |-> ended[i].n]]
  /\ new = IF Len(next) > Cap THEN SubSeq(next, Len(next) - Cap + 1, Len(next)) ELSE next

\* These are the last of the first m lines of a container, at most Cap.
LastOf(new, id, m) ==
  /\ new \in Seq([id : Ids, n : Nat]) /\ Len(new) <= Cap
  /\ Len(new) = IF m <= Cap THEN m ELSE Cap
  /\ \A i \in 1 .. Len(new) : new[i].id = id /\ new[i].n = m - Len(new) + i

\* It shows the last of the first m + p then.
LEMMA Shown ==
  ASSUME Cap \in Nat \ {0}, NEW id, NEW m, NEW p, NEW old, NEW ended, NEW next, NEW new,
         Takes(id, m, p, old, ended, next, new)
  PROVE  LastOf(new, id, m + p)
<1>. SUFFICES ASSUME m \in Nat, p \in Nat, id \in Ids, ended \in Seq(Cells),
                     old \in Seq([id : Ids, n : Nat])
              PROVE  LastOf(new, id, m + p)
  BY DEF Takes
<1>h. /\ Len(ended) = p
      /\ \A j \in 1 .. p : ended[j].id = id /\ ended[j].n = m + j
      /\ Len(old) = IF m <= Cap THEN m ELSE Cap
      /\ \A i \in 1 .. Len(old) : old[i].id = id /\ old[i].n = m - Len(old) + i
      /\ next = old \o [i \in DOMAIN ended |-> [id |-> ended[i].id, n |-> ended[i].n]]
      /\ new = IF Len(next) > Cap THEN SubSeq(next, Len(next) - Cap + 1, Len(next)) ELSE next
  BY DEF Takes
<1> DEFINE L == [id : Ids, n : Nat]
           more == [i \in DOMAIN ended |-> [id |-> ended[i].id, n |-> ended[i].n]]
           a == Len(old)
<1>0. DOMAIN ended = 1 .. p /\ a \in Nat /\ (m <= Cap => a = m) /\ (m > Cap => a = Cap)
  BY <1>h
<1>1. /\ more \in Seq(L) /\ Len(more) = p
      /\ \A i \in 1 .. p : more[i].id = id /\ more[i].n = m + i
  <2>1. \A i \in 1 .. p : [id |-> ended[i].id, n |-> ended[i].n] \in L
    BY <1>h
  <2>2. more = [i \in 1 .. p |-> [id |-> ended[i].id, n |-> ended[i].n]]
    BY <1>0
  <2>. HIDE DEF L, more
  <2>3. more \in [1 .. p -> L]
    BY <2>1, <2>2
  <2>4. more \in Seq(L) /\ Len(more) = p
    BY <2>3
  <2>. QED
    BY <1>h, <2>2, <2>4
<1>2. next = old \o more
  BY <1>h
<1>. HIDE DEF L, more, a
<1>3. /\ next \in Seq(L) /\ Len(next) = a + p
      /\ \A i \in 1 .. a : next[i] = old[i]
      /\ \A i \in 1 .. p : next[a + i] = more[i]
  <2>1. old \in Seq(L) /\ a = Len(old)
    BY DEF L, a
  <2>2. /\ next \in Seq(L) /\ Len(next) = a + p
        /\ \A i \in 1 .. a + p : next[i] = IF i <= a THEN old[i] ELSE more[i - a]
    BY <1>1, <1>2, <2>1, ConcatProperties
  <2>3. \A i \in 1 .. a : i \in 1 .. a + p /\ i <= a
    BY <1>0
  <2>4. \A i \in 1 .. p : a + i \in 1 .. a + p /\ ~(a + i <= a) /\ (a + i) - a = i
    BY <1>0
  <2>. QED
    BY <2>2, <2>3, <2>4
<1>4. \A i \in 1 .. a + p : next[i].id = id /\ next[i].n = (m + p) - (a + p) + i
  <2> TAKE i \in 1 .. a + p
  <2>1. CASE i \in 1 .. a
    <3>2. old[i].id = id /\ old[i].n = m - a + i
      BY <1>h, <2>1 DEF a
    <3>3. m - a + i = (m + p) - (a + p) + i
      BY <1>0, <2>1
    <3>1. old[i].id = id /\ old[i].n = (m + p) - (a + p) + i
      BY <3>2, <3>3
    <3>. QED
      BY <2>1, <3>1, <1>3
  <2>2. CASE i \notin 1 .. a
    <3> DEFINE j == i - a
    <3>1. j \in 1 .. p /\ a + j = i
      BY <2>2, <1>0
    <3>2. m + j = (m + p) - (a + p) + i
      BY <1>0
    <3>. HIDE DEF j
    <3>3. next[a + j] = more[j] /\ more[j].id = id /\ more[j].n = m + j
      BY <1>1, <1>3, <3>1
    <3>. QED
      BY <3>1, <3>2, <3>3
  <2>. QED
    BY <2>1, <2>2
<1> DEFINE q == Len(next)
           t == m + p
<1>5. q \in Nat /\ q = a + p /\ t \in Nat /\ (t <= Cap => q = t) /\ (t > Cap => q >= Cap)
  <2>1. Len(next) \in Nat /\ Len(next) = a + p
    BY <1>0, <1>3
  <2>. HIDE DEF q
  <2>2. q = a + p
    BY <2>1 DEF q
  <2>. QED
    BY <1>0, <2>2
<1>8. new = IF q > Cap THEN SubSeq(next, q - Cap + 1, q) ELSE next
  BY <1>h
<1>9. \A i \in 1 .. q : next[i].id = id /\ next[i].n = t - q + i
  BY <1>4, <1>5
<1>10. next \in Seq(L) /\ Len(next) = q
  BY <1>3
<1>. HIDE DEF q, t
<1>6. CASE q > Cap
  <2>6. q - Cap + 1 \in 1 .. q
    BY <1>6, <1>5
  <2>1. new = SubSeq(next, q - Cap + 1, q)
    BY <1>6, <1>8
  <2>2. /\ new \in Seq(L) /\ Len(new) = Cap
        /\ \A i \in 1 .. Cap : new[i] = next[(q - Cap + 1) + i - 1]
    <3>1. q - Cap + 1 \in Int /\ q \in Int /\ q - Cap + 1 <= q /\ q - (q - Cap + 1) + 1 = Cap
      BY <1>5, <1>6
    <3>2. \A i \in q - Cap + 1 .. q : next[i] \in L
      BY <1>10, <1>5, <1>6
    <3> DEFINE f == q - Cap + 1
    <3>3. f \in Int /\ f <= q /\ q - f + 1 = Cap /\ \A i \in f .. q : next[i] \in L
      BY <3>1, <3>2
    <3>. HIDE DEF f
    <3>4. /\ SubSeq(next, f, q) \in Seq(L) /\ Len(SubSeq(next, f, q)) = Cap
          /\ \A i \in 1 .. Cap : SubSeq(next, f, q)[i] = next[f + i - 1]
      BY <3>1, <3>3, SubSeqProperties
    <3>. QED
      BY <2>1, <3>4 DEF f
  <2>3. t > Cap
    BY <1>5, <1>6
  <2>4. \A i \in 1 .. Cap : new[i].id = id /\ new[i].n = t - Cap + i
    <3> TAKE i \in 1 .. Cap
    <3> DEFINE j == (q - Cap + 1) + i - 1
    <3>1. j \in 1 .. q /\ t - q + j = t - Cap + i
      BY <1>5, <1>6
    <3>. HIDE DEF j
    <3>2. new[i] = next[j]
      BY <2>2 DEF j
    <3>. QED
      BY <1>9, <3>1, <3>2
  <2>5. Len(new) <= Cap /\ ~(t <= Cap)
    BY <1>5, <2>2, <2>3
  <2>. QED
    BY <2>2, <2>4, <2>5 DEF L, t, LastOf
<1>7. CASE ~(q > Cap)
  <2>1. new = next
    BY <1>7, <1>8
  <2>2. q <= Cap /\ q = IF t <= Cap THEN t ELSE Cap
    BY <1>5, <1>7
  <2>. QED
    BY <2>1, <2>2, <1>9, <1>10, <1>5 DEF L, t, LastOf
<1>. QED
  BY <1>6, <1>7

\* That stays true when a chunk is read: its complete lines are added, and the
\* rest stays in the buffer.
LEMMA ChunkStep ==
  ASSUME LogInv, NEW s \in Streams, Viewer!Chunk(s)
  PROVE  LogInv'
<1>. USE DEF LogInv
<1> DEFINE id == st[s].id
           x == st[s].sent
           buf == st[s].buffer
           wire == st[s].wire
           b == Len(buf)
           n == Len(wire)
           cellsOf(k) == buf \o SubSeq(wire, 1, k)
           endedOf(k) == Viewer!Filter(cellsOf(k), LAMBDA cell : cell.end)
           wholeOf(k) == IF cellsOf(k)[Len(cellsOf(k))].end THEN Len(cellsOf(k))
                         ELSE Len(cellsOf(k)) - 1
           nextOf(k) == lines \o [i \in DOMAIN endedOf(k) |->
                                    [id |-> endedOf(k)[i].id, n |-> endedOf(k)[i].n]]
<1>0. UNCHANGED <<tab, selected, streaming, broken, abortRef, log, cuts>>
  BY DEF Viewer!Chunk, Viewer!ui
<1>1. /\ st[s] \in StreamRecords /\ st[s].client = "reading" /\ id \in Ids
      /\ x \in Nat /\ wire \in Seq(Cells) /\ buf \in Seq(Cells) /\ n \in Nat /\ b \in Nat
  <2>1. st[s].client = "reading" /\ st[s] \in StreamRecords /\ id # None
    BY DEF StreamsOK, Viewer!Chunk
  <2>2. /\ id \in Ids /\ x \in Nat /\ wire \in Seq(Cells) /\ buf \in Seq(Cells)
    BY <2>1 DEF StreamRecords
  <2>. HIDE DEF wire, buf
  <2>. QED
    BY <2>1, <2>2
<1>2. abortRef = s /\ s # None /\ selected = id
  BY <1>1 DEF RefInv, ViewerSensible
<1>3. PICK m \in Nat : FollowedBy(m)
  BY <1>2 DEF FlowInv
<1>4. Showing(m) /\ InFlight(s, m) /\ m <= x
  BY <1>1, <1>2, <1>3 DEF FollowedBy
<1>5. /\ b \in 0 .. 1 /\ b + n = 2 * (x - m)
      /\ \A i \in 1 .. b : IsCell(buf[i], id, 2 * m + i)
      /\ \A i \in 1 .. n : IsCell(wire[i], id, 2 * m + b + i)
  BY <1>4 DEF InFlight
<1>6. PICK k \in 1 .. n :
        /\ lines' = IF Len(nextOf(k)) > Cap
                    THEN SubSeq(nextOf(k), Len(nextOf(k)) - Cap + 1, Len(nextOf(k)))
                    ELSE nextOf(k)
        /\ st' = [st EXCEPT ![s].wire = SubSeq(wire, k + 1, n),
                            ![s].buffer = SubSeq(cellsOf(k), wholeOf(k) + 1, Len(cellsOf(k)))]
  BY DEF Viewer!Chunk
<1> DEFINE cells == cellsOf(k)
           ended == endedOf(k)
           whole == wholeOf(k)
           next == nextOf(k)
           l == b + k
           p == l \div 2
<1>7. l \in Nat /\ p \in Nat /\ (l = 2 * p \/ l = 2 * p + 1)
  <2>1. \A i \in Nat : i \div 2 \in Nat /\ (i = 2 * (i \div 2) \/ i = 2 * (i \div 2) + 1)
    OBVIOUS
  <2>2. l \in Nat
    BY <1>1
  <2>. QED
    BY <2>1, <2>2
<1>8. /\ cells \in Seq(Cells) /\ Len(cells) = l
      /\ cells[Len(cells)].end <=> l = 2 * p
      /\ ended \in Seq(Cells) /\ Len(ended) = p
      /\ \A j \in 1 .. p : ended[j].id = id /\ ended[j].n = m + j
      /\ \A i \in 1 .. l : IsCell(cells[i], id, 2 * m + i)
  <2>1. b = Len(buf) /\ n = Len(wire) /\ cells = buf \o SubSeq(wire, 1, k)
    OBVIOUS
  <2>2. ended = Ended(cells)
    BY DEF Ended
  <2>. HIDE DEF b, n, buf, wire, cells, ended, p, l, x, id
  <2>3. b + k = l
    BY DEF l
  <2>4. /\ m \in Nat /\ x \in Nat /\ buf \in Seq(Cells) /\ wire \in Seq(Cells)
        /\ b \in 0 .. 1 /\ n \in Nat /\ b + n = 2 * (x - m) /\ k \in 1 .. n
        /\ p \in Nat /\ (b + k = 2 * p \/ b + k = 2 * p + 1)
    BY <1>1, <1>5, <1>7, <2>3
  <2>5. /\ b = Len(buf) /\ n = Len(wire)
        /\ \A i \in 1 .. b : IsCell(buf[i], id, 2 * m + i)
        /\ \A i \in 1 .. n : IsCell(wire[i], id, 2 * m + b + i)
        /\ cells = buf \o SubSeq(wire, 1, k)
    BY <1>5, <2>1
  <2>6. /\ cells \in Seq(Cells) /\ Len(cells) = b + k
        /\ cells[Len(cells)].end <=> b + k = 2 * p
        /\ ended \in Seq(Cells) /\ Len(ended) = p
        /\ \A j \in 1 .. p : ended[j].id = id /\ ended[j].n = m + j
        /\ \A i \in 1 .. b + k : IsCell(cells[i], id, 2 * m + i)
    <3>1. /\ cells \in Seq(Cells) /\ Len(cells) = b + k
          /\ cells[Len(cells)].end <=> b + k = 2 * p
          /\ Ended(cells) \in Seq(Cells) /\ Len(Ended(cells)) = p
          /\ \A j \in 1 .. p : Ended(cells)[j].id = id /\ Ended(cells)[j].n = m + j
          /\ \A i \in 1 .. b + k : IsCell(cells[i], id, 2 * m + i)
      <4>1. Reads(id, m, x, buf, wire, b, n, k, cells, p)
        BY <2>4, <2>5 DEF Reads
      <4>. QED
        BY <4>1, ReadLines
    <3>. QED
      BY <3>1, <2>2
  <2>. QED
    BY <2>3, <2>6
<1>9. whole = 2 * p /\ 2 * p \in Nat /\ 2 * p <= l
  <2>. HIDE DEF cells, l, p
  <2>1. whole = IF cells[Len(cells)].end THEN Len(cells) ELSE Len(cells) - 1
    BY DEF cells
  <2>. HIDE DEF whole
  <2>. QED
    BY <1>7, <1>8, <2>1
<1>10. /\ m + p <= x /\ m + p \in Nat /\ l - 2 * p \in 0 .. 1
       /\ l - 2 * p + (n - k) = 2 * (x - (m + p))
       /\ \A i \in 1 .. n - k : 2 * m + b + (k + i) = 2 * (m + p) + (l - 2 * p) + i
  <2>. HIDE DEF x, b, n, p
  <2>. QED
    BY <1>1, <1>5, <1>7, ReadArithmetic
<1>11. LastOf(lines', id, m + p)
  <2>1. lines' = IF Len(next) > Cap THEN SubSeq(next, Len(next) - Cap + 1, Len(next)) ELSE next
    BY <1>6
  <2>2. next = lines \o [i \in DOMAIN ended |-> [id |-> ended[i].id, n |-> ended[i].n]]
    OBVIOUS
  <2>3. Len(lines) = IF m <= Cap THEN m ELSE Cap
    BY <1>4 DEF Showing
  <2>4. \A i \in 1 .. Len(lines) : lines[i].id = id /\ lines[i].n = m - Len(lines) + i
    BY <1>2, <1>4 DEF Showing
  <2>5. lines \in Seq([id : Ids, n : Nat]) /\ Cap \in Nat \ {0}
    BY DEF Viewer!TypeOK, ViewerSensible
  <2>6. ended \in Seq(Cells) /\ p \in Nat /\ id \in Ids
    BY <1>1, <1>7, <1>8
  <2>. HIDE DEF ended, next, p, id
  <2>7. /\ Len(ended) = p
        /\ \A j \in 1 .. p : ended[j].id = id /\ ended[j].n = m + j
        /\ Len(lines) = IF m <= Cap THEN m ELSE Cap
        /\ \A i \in 1 .. Len(lines) : lines[i].id = id /\ lines[i].n = m - Len(lines) + i
        /\ next = lines \o [i \in DOMAIN ended |-> [id |-> ended[i].id, n |-> ended[i].n]]
        /\ lines' = IF Len(next) > Cap THEN SubSeq(next, Len(next) - Cap + 1, Len(next))
                    ELSE next
    BY <1>8, <2>1, <2>2, <2>3, <2>4
  <2>. QED
    <3>1. Takes(id, m, p, lines, ended, next, lines')
      BY <2>5, <2>6, <2>7 DEF Takes
    <3>. QED
      BY <2>5, <3>1, Shown
<1> DEFINE left == SubSeq(cells, whole + 1, Len(cells))
           rest == SubSeq(wire, k + 1, n)
<1>12. /\ left \in Seq(Cells) /\ Len(left) = l - 2 * p
       /\ \A i \in 1 .. l - 2 * p : IsCell(left[i], id, 2 * (m + p) + i)
  <2> DEFINE f == 2 * p + 1
  <2>1. left = SubSeq(cells, f, l)
    BY <1>8, <1>9
  <2>. HIDE DEF cells, l, p, left, id
  <2>2. f \in Int /\ l \in Int /\ f >= 1 /\ l - f + 1 = l - 2 * p /\ (f <= l \/ l - 2 * p = 0)
    BY <1>7
  <2>3. \A i \in 1 .. l - f + 1 : f + i - 1 \in 1 .. l /\ 2 * m + (f + i - 1) = 2 * (m + p) + i
    BY <1>7
  <2>4. \A i \in f .. l : cells[i] \in Cells
    BY <1>7, <1>8, <2>2
  <2>. HIDE DEF f
  <2>5. /\ left \in Seq(Cells) /\ Len(left) = IF f <= l THEN l - f + 1 ELSE 0
        /\ \A i \in 1 .. l - f + 1 : left[i] = cells[f + i - 1]
    BY <2>1, <2>2, <2>4, SubSeqProperties
  <2>6. \A i \in 1 .. l - f + 1 : IsCell(left[i], id, 2 * (m + p) + i)
    BY <1>8, <2>3, <2>5
  <2>. QED
    BY <2>2, <2>5, <2>6
<1>13. /\ rest \in Seq(Cells) /\ Len(rest) = n - k
       /\ \A i \in 1 .. n - k : IsCell(rest[i], id, 2 * (m + p) + (l - 2 * p) + i)
  <2>1. wire \in Seq(Cells) /\ Len(wire) = n
    BY <1>1
  <2>. HIDE DEF wire, n, b, p, l, id
  <2>2. k + 1 \in Int /\ n \in Int /\ n - (k + 1) + 1 = n - k /\ (k + 1 <= n \/ n - k = 0)
    BY <1>1
  <2>3. \A i \in 1 .. n - k : (k + 1) + i - 1 = k + i /\ k + i \in 1 .. n
    BY <1>1
  <2>4. \A i \in k + 1 .. n : wire[i] \in Cells
    BY <1>1, <2>1
  <2>5. /\ rest \in Seq(Cells) /\ Len(rest) = n - k
        /\ \A i \in 1 .. n - k : rest[i] = wire[(k + 1) + i - 1]
    BY <2>2, <2>4, SubSeqProperties
  <2>6. \A i \in 1 .. n - k : IsCell(rest[i], id, 2 * m + b + (k + i))
    BY <1>5, <2>3, <2>5
  <2>. QED
    BY <1>10, <2>5, <2>6
<1>14. /\ st'[s] = [st[s] EXCEPT !.wire = rest, !.buffer = left]
       /\ \A r \in Streams \ {s} : st'[r] = st[r]
       /\ st' \in [Streams -> StreamRecords]
  <2>1. st' = [st EXCEPT ![s].wire = rest, ![s].buffer = left]
    BY <1>6
  <2>. HIDE DEF rest, left
  <2>2. [st[s] EXCEPT !.wire = rest, !.buffer = left] \in StreamRecords
    BY <1>1, <1>12, <1>13 DEF StreamRecords
  <2>. QED
    BY <2>1, <2>2 DEF StreamsOK
<1>. HIDE DEF rest, left, whole, cells, ended, next, cellsOf, wholeOf, endedOf, nextOf
<1>15. /\ st'[s].id = id /\ st'[s].client = "reading" /\ st'[s].server = st[s].server
       /\ st'[s].sent = x /\ st'[s].wire = rest /\ st'[s].buffer = left
  BY <1>1, <1>14 DEF StreamRecords
<1>16. Viewer!TypeOK'
  BY <1>0, <1>11 DEF Viewer!TypeOK, LastOf
<1>17. StreamsOK'
  <2>1. st[s].id # None
    BY <1>1 DEF ViewerSensible
  <2>2. \A r \in Streams : st'[r].id = None => r # s /\ st'[r] = st[r]
    BY <1>14, <1>15, <2>1
  <2>3. \A r \in Streams : st[r].id = None => st[r].client = "over" /\ st[r].server = "over"
    BY DEF StreamsOK
  <2>. QED
    BY <1>14, <2>2, <2>3 DEF StreamsOK
<1>18. RefInv'
  <2>1. selected # None
    BY <1>1, <1>2 DEF ViewerSensible
  <2>. QED
    BY <1>0, <1>1, <1>2, <1>14, <1>15, <2>1 DEF RefInv
<1>19. FlowInv'
  <2>. HIDE DEF p, l, x, b, n, id, buf, wire
  <2>0. PICK M \in Nat : M = m + p
    BY <1>10
  <2>1. (Showing(M))'
    <3>1. /\ Len(lines') = IF M <= Cap THEN M ELSE Cap
          /\ \A i \in 1 .. Len(lines') : lines'[i].id = id /\ lines'[i].n = M - Len(lines') + i
      BY <1>11, <2>0 DEF LastOf
    <3>2. selected' = id
      BY <1>0, <1>2
    <3>. QED
      BY <3>1, <3>2 DEF Showing
  <2>2. (InFlight(s, M))'
    <3>1. /\ Len(left) \in 0 .. 1 /\ Len(left) + Len(rest) = 2 * (x - M)
          /\ \A i \in 1 .. Len(left) : IsCell(left[i], id, 2 * M + i)
          /\ \A i \in 1 .. Len(rest) : IsCell(rest[i], id, 2 * M + Len(left) + i)
      BY <1>10, <1>12, <1>13, <2>0
    <3>. QED
      BY <1>15, <3>1 DEF InFlight
  <2>3. streaming /\ M <= x
    BY <1>1, <1>2, <1>10, <2>0 DEF RefInv
  <2>4. (FollowedBy(M))'
    BY <1>0, <1>2, <1>15, <2>1, <2>2, <2>3 DEF FollowedBy
  <2>. QED
    BY <2>4 DEF FlowInv
<1>. QED
  BY <1>0, <1>16, <1>17, <1>18, <1>19 DEF ViewerSensible

-----------------------------------------------------------------------------
\* Every action keeps the invariant.
LEMMA LogStep == LogInv /\ [Viewer!Next]_logsVars => LogInv'
<1>. SUFFICES ASSUME LogInv, [Viewer!Next]_logsVars PROVE LogInv'
  OBVIOUS
<1>f. cuts \in 0 .. MaxFaults /\ MaxFaults \in Nat
  BY DEF LogInv, Viewer!TypeOK, ViewerSensible
<1>1. ASSUME NEW t \in Viewer!Tabs, Viewer!ClickTab(t) PROVE LogInv'
  <2>1. selected \in Ids \cup {None} /\ selected' = selected /\ tab' = t
        /\ t # tab /\ UNCHANGED <<log, cuts>>
        /\ Viewer!Follow(Viewer!Followed(tab, selected), Viewer!Followed(t, selected))
    BY <1>1 DEF Viewer!ClickTab, LogInv, Viewer!TypeOK
  <2>. QED
    BY <2>1, FollowStep
<1>2. ASSUME NEW c \in Ids, Viewer!SelectContainer(c) PROVE LogInv'
  <2>1. /\ tab = "containers" /\ tab' = "logs" /\ selected' = c /\ "logs" \in Viewer!Tabs
        /\ Viewer!Followed(tab, selected) = None /\ Viewer!Followed("logs", c) = c /\ c # None
        /\ Viewer!Follow(None, c) /\ UNCHANGED <<log, cuts>>
    BY <1>2 DEF Viewer!SelectContainer, Viewer!Followed, Viewer!Tabs, LogInv, ViewerSensible
  <2>2. Viewer!Follow(Viewer!Followed(tab, selected), Viewer!Followed("logs", c))
    BY <2>1
  <2>. QED
    BY <2>1, <2>2, FollowStep
<1>3. ASSUME NEW c \in Ids, Viewer!ContainerWrites(c) PROVE LogInv'
  BY <1>3, ContainerWritesStep
<1>4. ASSUME NEW s \in Streams, Viewer!HandlerBegins(s) PROVE LogInv'
  <2>1. PICK v \in {"serving", "refused"} :
          /\ st' = [st EXCEPT ![s].server = v]
          /\ cuts' = cuts \/ (cuts' = cuts + 1 /\ cuts < MaxFaults)
    BY <1>4 DEF Viewer!HandlerBegins
  <2>2. cuts' \in 0 .. MaxFaults
    BY <1>f, <2>1
  <2>3. /\ UNCHANGED <<tab, selected, lines, streaming, broken, abortRef, log>>
        /\ st[s].server = "asked"
    BY <1>4 DEF Viewer!HandlerBegins, Viewer!ui, Viewer!hook
  <2>. QED
    BY <2>1, <2>2, <2>3, ServerStep
<1>5. ASSUME NEW s \in Streams, Viewer!HandlerWrites(s) PROVE LogInv'
  BY <1>5, HandlerWritesStep
<1>6. ASSUME NEW s \in Streams, Viewer!HandlerReturns(s) PROVE LogInv'
  <2>1. /\ UNCHANGED <<tab, selected, lines, streaming, broken, abortRef, log, cuts>>
        /\ st[s].server = "serving" /\ st' = [st EXCEPT ![s].server = "over"]
    BY <1>6 DEF Viewer!HandlerReturns, Viewer!ui, Viewer!hook
  <2>. QED
    BY <1>f, <2>1, ServerStep
<1>7. ASSUME NEW s \in Streams, Viewer!ReplyIgnored(s) PROVE LogInv'
  <2>1. /\ UNCHANGED <<tab, selected, lines, streaming, broken, abortRef, log, cuts>>
        /\ st[s].server = "refused" /\ st' = [st EXCEPT ![s].server = "over"]
    BY <1>7 DEF Viewer!ReplyIgnored, Viewer!ui, Viewer!hook
  <2>. QED
    BY <1>f, <2>1, ServerStep
<1>8. ASSUME NEW s \in Streams, Viewer!Refused(s) \/ Viewer!ConnectionLost(s) PROVE LogInv'
  <2>1. st[s].client # "over" /\ Viewer!Throws(s) /\ cuts' \in 0 .. MaxFaults
    BY <1>8, <1>f DEF Viewer!Refused, Viewer!ConnectionLost
  <2>. QED
    BY <2>1, ThrowsStep
<1>9. CASE UNCHANGED logsVars
  <2>1. UNCHANGED <<tab, selected, lines, streaming, broken, abortRef, log, cuts, st>>
    BY <1>9 DEF logsVars, Viewer!ui, Viewer!hook
  <2>2. FlowInv'
    BY <2>1, FlowUntouched DEF LogInv
  <2>. QED
    BY <2>1, <2>2 DEF LogInv, ViewerSensible, Viewer!TypeOK, StreamsOK, RefInv
<1>. QED
  BY <1>1, <1>2, <1>3, <1>4, <1>5, <1>6, <1>7, <1>8, <1>9,
     RespondsStep, ChunkStep, DoneStep DEF Viewer!Next

\* What the invariant says of the viewer.
LEMMA LogFaithful == LogInv => Viewer!LinesFaithful /\ Viewer!BadgeHonest /\ Viewer!EndComplete
<1>. SUFFICES ASSUME LogInv PROVE Viewer!LinesFaithful /\ Viewer!BadgeHonest /\ Viewer!EndComplete
  OBVIOUS
<1>. USE DEF LogInv
<1>1. Viewer!BadgeHonest
  BY DEF Viewer!BadgeHonest, RefInv
<1>2. Viewer!LinesFaithful
  <2>. SUFFICES ASSUME tab = "logs", NEW i \in DOMAIN lines
       PROVE /\ lines[i].id = selected /\ lines[i].n = lines[1].n + i - 1
             /\ lines[1].n > 1 => Len(lines) = Cap
    BY DEF Viewer!LinesFaithful
  <2>1. Len(lines) \in Nat /\ i \in 1 .. Len(lines) /\ 1 \in 1 .. Len(lines) /\ Cap \in Nat
    BY DEF Viewer!TypeOK, ViewerSensible
  <2>2. selected # None
    <3>1. lines # <<>>
      BY <2>1
    <3>. QED
      BY <3>1 DEF RefInv
  <2>3. PICK m \in Nat : Showing(m)
    BY <2>2 DEF RefInv, FlowInv, FollowedBy
  <2>4. /\ lines[i].id = selected /\ lines[i].n = m - Len(lines) + i
        /\ lines[1].n = m - Len(lines) + 1
        /\ Len(lines) = IF m <= Cap THEN m ELSE Cap
    BY <2>1, <2>3 DEF Showing
  <2>. QED
    BY <2>1, <2>4
<1>3. Viewer!EndComplete
  <2>. SUFFICES ASSUME tab = "logs", abortRef # None, ~streaming, ~broken,
                       st[abortRef].sent > 0
       PROVE lines # <<>> /\ lines[Len(lines)].n = st[abortRef].sent
    BY DEF Viewer!EndComplete
  <2>1. PICK m \in Nat : Showing(m) /\ m = st[abortRef].sent
    BY DEF FlowInv, FollowedBy
  <2>2. Len(lines) \in Nat /\ Len(lines) = (IF m <= Cap THEN m ELSE Cap) /\ Cap \in Nat \ {0}
    BY <2>1 DEF Showing, Viewer!TypeOK, ViewerSensible
  <2>3. Len(lines) >= 1 /\ Len(lines) \in 1 .. Len(lines)
    BY <2>1, <2>2
  <2>5. lines # <<>>
    BY <2>3
  <2>4. lines[Len(lines)].n = m - Len(lines) + Len(lines) /\ lines # <<>>
    BY <2>1, <2>3, <2>5 DEF Showing
  <2>. QED
    BY <2>1, <2>2, <2>4
<1>. QED
  BY <1>1, <1>2, <1>3

-----------------------------------------------------------------------------
(* The framing of logs: what is read, cut at newlines and stripped of headers. *)

\* Its lists are those of Lists.
LEMMA SameLists ==
  /\ \A S : Framing!Cardinality(S) = Cardinality(S)
  /\ \A S, k : Framing!Nth(S, k) = Nth(S, k)
  /\ \A s : Framing!Sums(s) = Sums(s)
<1>0. \A S : Framing!Cardinality(S) = Cardinality(S)
  BY DEF Framing!Cardinality, Cardinality
<1>1. \A S, i : Framing!Rank(S, i) = Rank(S, i)
  BY <1>0 DEF Framing!Rank, Rank
<1>2. \A S, k : Framing!Nth(S, k) = Nth(S, k)
  BY <1>1 DEF Framing!Nth, Nth
<1>3. \A s : Framing!Sums(s) = Sums(s)
  BY DEF Framing!Sums, Sums
<1>. QED
  BY <1>0, <1>2, <1>3

\* The cells a log is made of.
Byte == {Framing!NL, Framing!Low, Framing!Size}
AnyCell == Byte \cup {Framing!Text(p) : p \in Nat}

\* What tells them apart.
LEMMA CellsDiffer ==
  /\ Framing!NL # Framing!Low /\ Framing!NL # Framing!Size
  /\ \A p : Framing!Text(p) # Framing!NL /\ Framing!Text(p) # Framing!Low /\ Framing!Text(p).at = p
  /\ \A p : Framing!IsText(Framing!Text(p))
  /\ \A c \in Byte : ~Framing!IsText(c)
BY DEF Framing!NL, Framing!Low, Framing!Size, Framing!Text, Framing!IsText, Byte

\* Where a piece of s that begins at i ends.
Piece(s, i, j) ==
  j \in i .. Len(s) /\ (j = Len(s) \/ s[j + 1] = Framing!NL) /\ \A m \in i .. j : s[m] # Framing!NL

\* A piece ends at one place.
LEMMA PieceEnds ==
  ASSUME NEW s \in Seq(AnyCell), NEW i \in 1 .. Len(s), s[i] # Framing!NL
  PROVE  /\ Piece(s, i, Framing!LastOf(s, i))
         /\ \A j : Piece(s, i, j) => j = Framing!LastOf(s, i)
<1> DEFINE n == Len(s)
           E == {j \in i .. n : j = n \/ s[j + 1] = Framing!NL}
<1>1. n \in Nat /\ E \in SUBSET Nat
  OBVIOUS
<1>2. n \in E
  OBVIOUS
<1>3. PICK e \in E : \A j \in E : e <= j
  BY <1>1, <1>2, MinNat
<1>4. ASSUME NEW m \in i .. e, s[m] = Framing!NL PROVE FALSE
  <2>1. i < m
    BY <1>4
  <2>2. m - 1 \in i .. n /\ (m - 1) + 1 = m /\ m - 1 < e
    BY <1>1, <1>3, <1>4, <2>1
  <2>3. m - 1 \in E
    BY <1>4, <2>2
  <2>4. e <= m - 1 /\ e \in Nat
    BY <1>1, <1>3, <2>3
  <2> HIDE DEF E
  <2>. QED
    BY <2>2, <2>4
<1>5. Piece(s, i, e)
  BY <1>3, <1>4 DEF Piece
<1>6. ASSUME NEW j, NEW k, Piece(s, i, j), Piece(s, i, k), j < k PROVE FALSE
  <2>1. j \in i .. n /\ k \in i .. n /\ j + 1 \in i .. k /\ j # n
    BY <1>1, <1>6 DEF Piece
  <2>. QED
    BY <1>6, <2>1 DEF Piece
<1>7. \A j, k : Piece(s, i, j) /\ Piece(s, i, k) => j = k
  <2>1. \A j, k : Piece(s, i, j) /\ Piece(s, i, k) => j \in Nat /\ k \in Nat
    BY <1>1 DEF Piece
  <2>2. \A j, k \in Nat : j = k \/ j < k \/ k < j
    OBVIOUS
  <2>. QED
    BY <1>6, <2>1, <2>2, Zenon
<1>8. Framing!LastOf(s, i) = CHOOSE j \in i .. n : Piece(s, i, j)
  BY DEF Framing!LastOf, Piece
<1>9. Piece(s, i, Framing!LastOf(s, i))
  <2>1. e \in i .. n
    BY <1>3
  <2>. QED
    BY <1>5, <1>8, <2>1
<1>. QED
  BY <1>7, <1>9

\* Every place that is not a newline is in a piece.
LEMMA PieceAround ==
  ASSUME NEW s \in Seq(AnyCell), NEW q \in 1 .. Len(s), s[q] # Framing!NL
  PROVE  \E i \in Framing!Firsts(s) : i <= q /\ q <= Framing!LastOf(s, i)
<1> DEFINE n == Len(s)
           B == {i \in 1 .. q : \A m \in i .. q : s[m] # Framing!NL}
<1>1. n \in Nat /\ B \in SUBSET Nat /\ q \in B
  OBVIOUS
<1>2. PICK i \in B : \A j \in B : i <= j
  BY <1>1, MinNat
<1>3. i \in 1 .. n /\ i <= q /\ i \in 1 .. q /\ \A m \in i .. q : s[m] # Framing!NL
  BY <1>1, <1>2
<1>4. i = 1 \/ s[i - 1] = Framing!NL
  <2> SUFFICES ASSUME i # 1, s[i - 1] # Framing!NL PROVE FALSE
    OBVIOUS
  <2>1. i - 1 \in 1 .. q /\ \A m \in i - 1 .. q : m = i - 1 \/ m \in i .. q
    BY <1>3
  <2>2. i - 1 \in B
    BY <1>3, <2>1
  <2>. QED
    BY <1>2, <1>3, <2>2
<1>5. i \in Framing!Firsts(s) /\ s[i] # Framing!NL
  BY <1>3, <1>4 DEF Framing!Firsts
<1> DEFINE e == Framing!LastOf(s, i)
<1>6. Piece(s, i, e)
  BY <1>3, <1>5, PieceEnds
<1> HIDE DEF e
<1>7. ~(e < q)
  <2> SUFFICES ASSUME e < q PROVE FALSE
    OBVIOUS
  <2>1. e \in i .. n /\ e # n /\ s[e + 1] = Framing!NL /\ e + 1 \in i .. q
    BY <1>1, <1>3, <1>6 DEF Piece
  <2>. QED
    BY <1>3, <2>1
<1>8. e \in Int
  BY <1>6 DEF Piece
<1>. QED
  BY <1>3, <1>5, <1>7, <1>8 DEF e

\* What is left of a piece begins behind what looks like a header.
Begins(s, i) ==
  IF Framing!LastOf(s, i) - i + 1 > HeaderLen /\ s[i] = Framing!Low THEN i + HeaderLen ELSE i

\* What the loop over the pieces writes.
LEMMA StrippedIs ==
  ASSUME NEW s \in Seq(AnyCell)
  PROVE  LET F == Framing!Firsts(s)
         IN  /\ F \in SUBSET (1 .. Len(s)) /\ F \in SUBSET Nat /\ IsFiniteSet(F) /\ Cardinality(F) \in Nat
             /\ \A i \in F : /\ Framing!LastOf(s, i) \in i .. Len(s)
                             /\ Begins(s, i) \in i .. Framing!LastOf(s, i)
             /\ Framing!Stripped(s) =
                  [k \in 1 .. Cardinality(F) |->
                     SubSeq(s, Begins(s, Nth(F, k)), Framing!LastOf(s, Nth(F, k)))]
<1> DEFINE F == Framing!Firsts(s)
           n == Len(s)
           c == Cardinality(F)
<1>1. n \in Nat /\ DOMAIN s = 1 .. n /\ HeaderLen \in Nat
  BY ContainersAssumption
<1>2. F \in SUBSET (1 .. n) /\ \A i \in F : s[i] # Framing!NL
  BY <1>1 DEF Framing!Firsts
<1>3. F \in SUBSET Nat /\ IsFiniteSet(F) /\ c \in Nat
  <2>1. F \in SUBSET (1 .. n) /\ IsFiniteSet(1 .. n) /\ 1 .. n \subseteq Nat
    BY <1>1, <1>2, FS_Interval, SMTT(30)
  <2> HIDE DEF F
  <2>2. IsFiniteSet(F)
    BY <2>1, FS_Subset
  <2>. QED
    BY <2>1, <2>2, FS_CardinalityType
<1>4. ASSUME NEW i \in F
      PROVE  /\ Framing!LastOf(s, i) \in i .. n
             /\ Begins(s, i) \in i .. Framing!LastOf(s, i)
             /\ Framing!stripDockerLogHeader(SubSeq(s, i, Framing!LastOf(s, i)))
                  = SubSeq(s, Begins(s, i), Framing!LastOf(s, i))
  <2> DEFINE e == Framing!LastOf(s, i)
             p == SubSeq(s, i, e)
             b == Begins(s, i)
  <2>1. i \in 1 .. n /\ e \in i .. n
    BY <1>2, PieceEnds DEF Piece
  <2>b. b = IF e - i + 1 > HeaderLen /\ s[i] = Framing!Low THEN i + HeaderLen ELSE i
    BY DEF Begins
  <2> HIDE DEF e, b
  <2>2. p \in Seq(AnyCell) /\ Len(p) = e - i + 1 /\ p[1] = s[i] /\ \A k \in 1 .. e - i + 1 : p[k] = s[i + k - 1]
    <3>1. \A k \in i .. e : s[k] \in AnyCell
      BY <1>1, <2>1
    <3>2. i \in Int /\ e \in Int /\ i <= e
      BY <1>1, <2>1
    <3>3. /\ p \in Seq(AnyCell) /\ Len(p) = e - i + 1
          /\ \A k \in 1 .. e - i + 1 : p[k] = s[i + k - 1]
      BY <3>1, <3>2, SubSeqProperties
    <3>4. 1 \in 1 .. e - i + 1 /\ i + 1 - 1 = i
      BY <1>1, <2>1
    <3>. QED
      BY <3>3, <3>4
  <2> HIDE DEF p
  <2>3. b \in i .. e
    BY <1>1, <2>1, <2>b
  <2>4. CASE e - i + 1 > HeaderLen /\ s[i] = Framing!Low
    <3>1. Framing!stripDockerLogHeader(p) = SubSeq(p, HeaderLen + 1, Len(p))
      BY <2>2, <2>4 DEF Framing!stripDockerLogHeader
    <3>2. SubSeq(p, HeaderLen + 1, Len(p)) = SubSeq(s, b, e)
      <4>1. b = i + HeaderLen
        BY <2>4, <2>b
      <4>2. \A k \in HeaderLen + 1 .. e - i + 1 : p[k] = s[k + i - 1]
        <5> TAKE k \in HeaderLen + 1 .. e - i + 1
        <5>1. k \in 1 .. e - i + 1 /\ i + k - 1 = k + i - 1
          BY <1>1, <2>1
        <5>. QED
          BY <2>2, <5>1
      <4>. QED
        BY <1>1, <2>1, <2>2, <2>4, <4>1, <4>2
    <3>. QED
      BY <2>1, <2>3, <3>1, <3>2 DEF p, e, b
  <2>5. CASE ~(e - i + 1 > HeaderLen /\ s[i] = Framing!Low)
    <3>1. Framing!stripDockerLogHeader(p) = p
      BY <2>2, <2>5 DEF Framing!stripDockerLogHeader
    <3>2. b = i
      BY <2>5, <2>b
    <3>. QED
      BY <2>1, <2>3, <3>1, <3>2 DEF p, e, b
  <2>. QED
    BY <2>4, <2>5
<1>5. \A k \in 1 .. c : Nth(F, k) \in F
  BY <1>3, NthLists
<1> DEFINE P == Framing!Pieces(s)
<1>6. P = [k \in 1 .. c |-> SubSeq(s, Nth(F, k), Framing!LastOf(s, Nth(F, k)))]
  BY SameLists DEF Framing!Pieces
<1> HIDE DEF F, c, P, n
<1>7. DOMAIN P = 1 .. c
  BY <1>6
<1>8. Framing!Stripped(s) = [k \in 1 .. c |-> Framing!stripDockerLogHeader(P[k])]
  BY <1>7 DEF Framing!Stripped, P
<1>9. \A k \in 1 .. c : Framing!stripDockerLogHeader(P[k])
                         = SubSeq(s, Begins(s, Nth(F, k)), Framing!LastOf(s, Nth(F, k)))
  BY <1>4, <1>5, <1>6
<1>10. Framing!Stripped(s) =
         [k \in 1 .. c |-> SubSeq(s, Begins(s, Nth(F, k)), Framing!LastOf(s, Nth(F, k)))]
  BY <1>8, <1>9
<1>. QED
  BY <1>2, <1>3, <1>4, <1>10 DEF F, c, n

\* The places where the lines of a log end.
LEMMA EndsProperties ==
  ASSUME NEW l \in Logs
  PROVE  LET E == Framing!Ends(l)
         IN  /\ Len(l) \in Nat /\ DOMAIN l = 1 .. Len(l) /\ E \in [0 .. Len(l) -> Nat] /\ E[0] = 0
             /\ \A k \in 1 .. Len(l) :
                  /\ l[k] \in Nat \ {0} /\ k - 1 \in 0 .. Len(l) /\ k \in 0 .. Len(l)
                  /\ E[k] = E[k - 1] + HeaderLen + l[k]
             /\ \A j, k \in 0 .. Len(l) : j < k => E[j] < E[k]
<1> DEFINE n == Len(l)
           E == Framing!Ends(l)
           w == [k \in DOMAIN l |-> HeaderLen + l[k]]
<1>1. n \in Nat /\ DOMAIN l = 1 .. n /\ (\A k \in 1 .. n : l[k] \in Nat \ {0}) /\ HeaderLen \in Nat
  BY ContainersAssumption
<1>2. w \in Seq(Int) /\ Len(w) = n /\ \A k \in 1 .. n : w[k] = HeaderLen + l[k]
  BY <1>1
<1>3. E = Sums(w)
  BY SameLists DEF Framing!Ends
<1> HIDE DEF E, w, n
<1>4. /\ E \in [0 .. n -> Int] /\ E[0] = 0
      /\ \A k \in 1 .. n : E[k] = E[k - 1] + (HeaderLen + l[k])
  BY <1>2, <1>3, SumsRecur
<1> DEFINE ts == [i \in 1 .. n + 1 |-> E[i - 1] - i]
           T == {k \in Nat : k <= n => E[k] \in Nat}
<1>5. \A k \in 1 .. n : k - 1 \in 0 .. n /\ k \in 0 .. n /\ l[k] \in Nat /\ l[k] # 0
                        /\ E[k] = E[k - 1] + HeaderLen + l[k]
  BY <1>1, <1>4, SMTT(30)
<1>6. \A j, k \in 0 .. n : j < k => E[j] < E[k]
  <2>1. ts \in [1 .. n + 1 -> Int]
    <3>1. \A i \in 1 .. n + 1 : i - 1 \in 0 .. n
      BY <1>1
    <3>. QED
      BY <1>4, <3>1
  <2>2. \A i \in 1 .. (n + 1) - 1 : ts[i] <= ts[i + 1]
    <3> TAKE i \in 1 .. (n + 1) - 1
    <3>1. i \in 1 .. n /\ i \in 1 .. n + 1 /\ i + 1 \in 1 .. n + 1 /\ (i + 1) - 1 = i
      BY <1>1
    <3>2. E[i] = E[i - 1] + HeaderLen + l[i] /\ E[i - 1] \in Int /\ E[i] \in Int /\ l[i] \in Nat /\ l[i] # 0
      BY <1>4, <1>5, <3>1
    <3>. QED
      BY <1>1, <3>1, <3>2
  <2>3. \A i \in 0 .. n : i + 1 \in 1 .. n + 1 /\ ts[i + 1] = E[i] - (i + 1) /\ E[i] \in Int
    BY <1>1, <1>4
  <2> HIDE DEF ts
  <2>4. n + 1 \in Nat
    BY <1>1
  <2>5. \A i, j \in 1 .. n + 1 : i < j => ts[i] <= ts[j]
    BY <2>1, <2>2, <2>4, GrowsThroughout
  <2> TAKE j \in 0 .. n, k \in 0 .. n
  <2>6. ASSUME j < k PROVE E[j] < E[k]
    <3>1. ts[j + 1] <= ts[k + 1]
      BY <2>3, <2>5, <2>6
    <3>. QED
      BY <2>3, <2>6, <3>1
  <2>. QED
    BY <2>6
<1>7. E \in [0 .. n -> Nat]
  <2>1. ASSUME NEW k \in 0 .. n PROVE E[k] >= 0 /\ E[k] \in Int
    <3>1. 0 \in 0 .. n /\ (k = 0 \/ 0 < k) /\ E[k] \in Int
      BY <1>1, <1>4
    <3>. QED
      BY <1>4, <1>6, <3>1
  <2>2. \A k \in 0 .. n : E[k] \in Nat
    BY <2>1
  <2>. QED
    BY <1>4, <2>2
<1>. QED
  BY <1>1, <1>4, <1>5, <1>6, <1>7 DEF n, E

\* A header begins with a low byte, and has no text.
LEMMA HeaderCells ==
  ASSUME NEW n
  PROVE  Framing!Header(n) \in [1 .. HeaderLen -> Byte] /\ Framing!Header(n)[1] = Framing!Low
         /\ 1 \in 1 .. HeaderLen /\ HeaderLen \in Nat
<1>1. HeaderLen \in Nat /\ SizeLen \in 1 .. HeaderLen - 1
  BY ContainersAssumption
<1>2. 1 \in 1 .. HeaderLen /\ 1 <= HeaderLen - SizeLen
  BY <1>1
<1>3. \A b : Framing!Cell(b) \in Byte
  BY DEF Framing!Cell, Byte
<1>. QED
  BY <1>1, <1>2, <1>3 DEF Framing!Header, Byte

\* What is at a place of the k-th line.
CellOf(l, k, p) ==
  IF p - Framing!Ends(l)[k - 1] <= HeaderLen
  THEN Framing!Header(l[k])[p - Framing!Ends(l)[k - 1]]
  ELSE IF p < Framing!Ends(l)[k] THEN Framing!Text(p) ELSE Framing!NL

\* The cells of a log, line by line.
LEMMA CellsAre ==
  ASSUME NEW l \in Logs
  PROVE  LET E == Framing!Ends(l)
             C == Framing!Cells(l)
         IN  /\ C \in Seq(AnyCell) /\ Len(C) = E[Len(l)] /\ Len(C) \in Nat
             /\ \A k \in 1 .. Len(l) : \A p \in E[k - 1] + 1 .. E[k] :
                  p \in 1 .. Len(C) /\ C[p] = CellOf(l, k, p)
             /\ \A p \in 1 .. Len(C) : \E k \in 1 .. Len(l) : p \in E[k - 1] + 1 .. E[k]
<1> DEFINE n == Len(l)
           E == Framing!Ends(l)
           C == Framing!Cells(l)
<1>1. /\ n \in Nat /\ DOMAIN l = 1 .. n /\ E \in [0 .. n -> Nat] /\ E[0] = 0
      /\ \A k \in 1 .. n : /\ l[k] \in Nat \ {0} /\ k - 1 \in 0 .. n /\ k \in 0 .. n
                           /\ E[k] = E[k - 1] + HeaderLen + l[k]
      /\ \A j, k \in 0 .. n : j < k => E[j] < E[k]
  BY EndsProperties
<1>2. C = [p \in 1 .. E[n] |-> CellOf(l, Framing!LineAt(l, p), p)]
  BY DEF Framing!Cells, CellOf
<1>3. \A p : Framing!LineAt(l, p) = CHOOSE k \in 1 .. n : E[k - 1] < p /\ p <= E[k]
  BY <1>1 DEF Framing!LineAt
<1> HIDE DEF E, C, n
<1>4. n \in 0 .. n /\ E[n] \in Nat
  BY <1>1
<1>5. ASSUME NEW p \in 1 .. E[n] PROVE \E k \in 1 .. n : E[k - 1] < p /\ p <= E[k]
  <2> DEFINE K == {k \in 0 .. n : p <= E[k]}
  <2>1. K \in SUBSET Nat /\ n \in K
    BY <1>4
  <2>2. PICK k \in K : \A j \in K : k <= j
    BY <2>1, MinNat
  <2>3. k \in 0 .. n /\ p <= E[k] /\ k # 0
    BY <1>1, <2>2
  <2>4. k \in 1 .. n /\ k - 1 \in 0 .. n /\ k - 1 < k
    BY <1>1, <2>3
  <2>5. k - 1 \notin K
    BY <2>2, <2>4
  <2>6. E[k - 1] < p
    BY <1>1, <2>4, <2>5
  <2>. QED
    BY <2>3, <2>4, <2>6
<1>6. ASSUME NEW p \in Int, NEW j \in 1 .. n, NEW k \in 1 .. n,
             E[j - 1] < p, p <= E[j], E[k - 1] < p, p <= E[k], j < k
      PROVE  FALSE
  <2>1. j <= k - 1 /\ j \in 0 .. n /\ k - 1 \in 0 .. n
    BY <1>1, <1>6
  <2>2. j = k - 1 \/ E[j] < E[k - 1]
    BY <1>1, <2>1
  <2>3. E[j] \in Nat /\ E[k - 1] \in Nat
    BY <1>1, <2>1
  <2>. QED
    BY <1>6, <2>2, <2>3
<1>7. ASSUME NEW k \in 1 .. n, NEW p \in E[k - 1] + 1 .. E[k]
      PROVE  p \in 1 .. E[n] /\ Framing!LineAt(l, p) = k
  <2>1. k - 1 \in 0 .. n /\ k \in 0 .. n /\ E[k - 1] \in Nat /\ E[k] \in Nat
    BY <1>1
  <2>2. k = n \/ E[k] < E[n]
    <3>1. k = n \/ k < n
      BY <1>1
    <3>. QED
      BY <1>1, <1>4, <2>1, <3>1
  <2>3. p \in 1 .. E[n]
    BY <1>4, <2>1, <2>2
  <2>4. E[k - 1] < p /\ p <= E[k] /\ p \in Int
    BY <2>1
  <2> DEFINE j == Framing!LineAt(l, p)
  <2>5. j \in 1 .. n /\ E[j - 1] < p /\ p <= E[j]
    BY <1>3, <2>4
  <2> HIDE DEF j
  <2>6. j < k \/ j = k \/ k < j
    BY <2>5
  <2>. QED
    BY <1>6, <2>3, <2>4, <2>5, <2>6 DEF j
<1>8. ASSUME NEW k \in 1 .. n, NEW p \in E[k - 1] + 1 .. E[k] PROVE CellOf(l, k, p) \in AnyCell
  <2>1. k - 1 \in 0 .. n /\ k \in 0 .. n /\ E[k - 1] \in Nat /\ E[k] \in Nat /\ p \in Nat
        /\ p - E[k - 1] >= 1 /\ p - E[k - 1] \in Int
    BY <1>1
  <2>2. p - E[k - 1] <= HeaderLen => Framing!Header(l[k])[p - E[k - 1]] \in Byte
    BY <2>1, HeaderCells
  <2>. QED
    BY <2>1, <2>2 DEF CellOf, AnyCell, Byte, E
<1>9. ASSUME NEW p \in 1 .. E[n] PROVE \E k \in 1 .. n : p \in E[k - 1] + 1 .. E[k]
  <2>1. PICK k \in 1 .. n : E[k - 1] < p /\ p <= E[k]
    BY <1>5
  <2>2. E[k - 1] \in Nat /\ E[k] \in Nat
    BY <1>1
  <2>. QED
    BY <2>1, <2>2
<1>10. \A p \in 1 .. E[n] : C[p] \in AnyCell
  <2> TAKE p \in 1 .. E[n]
  <2>1. PICK k \in 1 .. n : p \in E[k - 1] + 1 .. E[k]
    BY <1>9
  <2>. QED
    BY <1>2, <1>7, <1>8, <2>1
<1>11. C \in Seq(AnyCell) /\ Len(C) = E[n] /\ Len(C) \in Nat
  BY <1>2, <1>4, <1>10
<1>12. \A k \in 1 .. n : \A p \in E[k - 1] + 1 .. E[k] : p \in 1 .. Len(C) /\ C[p] = CellOf(l, k, p)
  BY <1>2, <1>7, <1>11
<1>. QED
  BY <1>9, <1>11, <1>12 DEF E, C, n

\* A part of a part of a list is a part of it.
LEMMA PartOfPart ==
  ASSUME NEW T, NEW c \in Seq(T), NEW a \in Nat, NEW n \in Nat, a + n <= Len(c),
         NEW s, s = SubSeq(c, a + 1, a + n)
  PROVE  /\ s \in Seq(T) /\ Len(s) = n /\ \A q \in 1 .. n : a + q \in 1 .. Len(c) /\ s[q] = c[a + q]
         /\ \A b \in 1 .. n : \A e \in b .. n : SubSeq(s, b, e) = SubSeq(c, a + b, a + e)
<1>1. Len(c) \in Nat /\ \A i \in 1 .. Len(c) : c[i] \in T
  OBVIOUS
<1>2. /\ s \in Seq(T) /\ Len(s) = n
      /\ \A q \in 1 .. n : s[q] = c[(a + 1) + q - 1]
  <2>1. \A i \in a + 1 .. a + n : c[i] \in T
    BY <1>1
  <2>2. a + 1 \in Int /\ a + n \in Int /\ (a + n) - (a + 1) + 1 = n
    OBVIOUS
  <2>3. /\ s \in Seq(T) /\ Len(s) = IF a + 1 <= a + n THEN (a + n) - (a + 1) + 1 ELSE 0
        /\ \A q \in 1 .. (a + n) - (a + 1) + 1 : s[q] = c[(a + 1) + q - 1]
    BY <2>1, <2>2, SubSeqProperties
  <2>. QED
    BY <2>2, <2>3
<1>3. \A q \in 1 .. n : a + q \in 1 .. Len(c) /\ s[q] = c[a + q]
  <2> TAKE q \in 1 .. n
  <2>1. (a + 1) + q - 1 = a + q /\ a + q \in 1 .. Len(c)
    BY <1>1
  <2>. QED
    BY <1>2, <2>1
<1>4. ASSUME NEW b \in 1 .. n, NEW e \in b .. n PROVE SubSeq(s, b, e) = SubSeq(c, a + b, a + e)
  <2>1. /\ e - b + 1 \in Nat /\ (a + e) - (a + b) + 1 = e - b + 1 /\ a + b <= a + e
        /\ b \in Int /\ e \in Int /\ a + b \in Int /\ a + e \in Int /\ b <= e
    OBVIOUS
  <2>2. \A i \in b .. e : s[i] \in T
    <3> TAKE i \in b .. e
    <3>1. i \in 1 .. n
      OBVIOUS
    <3>2. a + i \in 1 .. Len(c) /\ s[i] = c[a + i]
      BY <1>3, <3>1
    <3>. QED
      BY <1>1, <3>2
  <2>3. \A i \in a + b .. a + e : c[i] \in T
    BY <1>1
  <2>4. /\ SubSeq(s, b, e) \in Seq(T) /\ Len(SubSeq(s, b, e)) = e - b + 1
        /\ \A i \in 1 .. e - b + 1 : SubSeq(s, b, e)[i] = s[b + i - 1]
    BY <2>1, <2>2, SubSeqProperties
  <2>5. /\ SubSeq(c, a + b, a + e) \in Seq(T) /\ Len(SubSeq(c, a + b, a + e)) = e - b + 1
        /\ \A i \in 1 .. e - b + 1 : SubSeq(c, a + b, a + e)[i] = c[(a + b) + i - 1]
    BY <2>1, <2>3, SubSeqProperties
  <2>6. \A i \in 1 .. e - b + 1 : s[b + i - 1] = c[(a + b) + i - 1]
    <3> TAKE i \in 1 .. e - b + 1
    <3>1. b + i - 1 \in 1 .. n /\ a + (b + i - 1) = (a + b) + i - 1
      OBVIOUS
    <3>. QED
      BY <1>3, <3>1
  <2> DEFINE u == SubSeq(s, b, e)
             v == SubSeq(c, a + b, a + e)
  <2>7. /\ u \in Seq(T) /\ v \in Seq(T) /\ Len(u) = Len(v)
        /\ \A i \in 1 .. Len(u) : u[i] = v[i]
    BY <2>4, <2>5, <2>6
  <2> HIDE DEF u, v
  <2>8. u = v
    BY <2>7, SeqEqual
  <2>. QED
    BY <2>8 DEF u, v
<1>. QED
  BY <1>2, <1>3, <1>4

\* A piece ends before the next begins.
LEMMA PiecesApart ==
  ASSUME NEW s \in Seq(AnyCell), NEW i \in Framing!Firsts(s), NEW j \in Framing!Firsts(s), i < j
  PROVE  Framing!LastOf(s, i) < j
<1> DEFINE e == Framing!LastOf(s, i)
<1>1. i \in 1 .. Len(s) /\ j \in 1 .. Len(s) /\ s[i] # Framing!NL /\ s[j - 1] = Framing!NL
  BY DEF Framing!Firsts
<1>2. Piece(s, i, e)
  BY <1>1, PieceEnds
<1> HIDE DEF e
<1>3. e \in i .. Len(s) /\ \A m \in i .. e : s[m] # Framing!NL
  BY <1>2 DEF Piece
<1>4. ~(j <= e)
  <2> SUFFICES ASSUME j <= e PROVE FALSE
    OBVIOUS
  <2>1. j - 1 \in i .. e
    BY <1>1, <1>3
  <2>. QED
    BY <1>1, <1>3, <2>1
<1>. QED
  BY <1>1, <1>3, <1>4 DEF e

\* A stretch of the log, from first to last.
Stretch == [first : Nat, last : Nat]

\* The stretches of the log that the strings of a list are.
Stretches(list, l, spans, lo, hi) ==
  /\ spans \in Seq(Stretch)
  /\ list = [i \in 1 .. Len(spans) |-> SubSeq(Framing!Cells(l), spans[i].first, spans[i].last)]
  /\ \A i \in 1 .. Len(spans) : lo < spans[i].first /\ spans[i].first <= spans[i].last /\ spans[i].last <= hi
  /\ \A i, j \in 1 .. Len(spans) : i < j => spans[i].last < spans[j].first

\* They have all the text behind lo, up to hi.
Covers(l, spans, lo, hi) ==
  \A p \in lo + 1 .. hi : Framing!IsText(Framing!Cells(l)[p]) =>
    \E i \in 1 .. Len(spans) : spans[i].first <= p /\ p <= spans[i].last

\* Each begins and ends beside what is no text, or where a read ended.
Edges(l, spans, places) ==
  \A i \in 1 .. Len(spans) :
    /\ \/ spans[i].first - 1 \in places
       \/ ~Framing!IsText(Framing!Cells(l)[spans[i].first - 1])
    /\ \/ spans[i].last \in places
       \/ ~Framing!IsText(Framing!Cells(l)[spans[i].last + 1])

\* Whether a place of a log is in a header, and whether none of its headers deceives.
Inside(l, p) ==
  \E k \in 1 .. Len(l) : p > Framing!Ends(l)[k - 1] /\ p < Framing!Ends(l)[k - 1] + HeaderLen
Honest(l) == \A k \in 1 .. Len(l) : ~Framing!Deceives(l[k])

\* A piece that begins with a low byte, where no read ended in a header, is a header
\* and what follows it: what is stripped holds no text.
LEMMA StripsHeaders ==
  ASSUME NEW l \in Logs, Honest(l), NEW f \in 1 .. Len(Framing!Cells(l)),
         Framing!Cells(l)[f] = Framing!Low,
         f = 1 \/ Framing!Cells(l)[f - 1] = Framing!NL \/ ~Inside(l, f - 1),
         NEW q \in f .. f + HeaderLen - 1, q \in 1 .. Len(Framing!Cells(l))
  PROVE  ~Framing!IsText(Framing!Cells(l)[q])
<1> DEFINE E == Framing!Ends(l)
           C == Framing!Cells(l)
<1>1. /\ \A k \in 1 .. Len(l) : \A p \in E[k - 1] + 1 .. E[k] : C[p] = CellOf(l, k, p)
      /\ \A p \in 1 .. Len(C) : \E k \in 1 .. Len(l) : p \in E[k - 1] + 1 .. E[k]
  BY CellsAre
<1>2. PICK k \in 1 .. Len(l) : f \in E[k - 1] + 1 .. E[k]
  BY <1>1
<1> DEFINE a == E[k - 1]
           H == Framing!Header(l[k])
<1>3. a \in Nat /\ E[k] \in Nat /\ E[k] = a + HeaderLen + l[k] /\ l[k] \in Nat \ {0}
  BY EndsProperties
<1>4. H \in [1 .. HeaderLen -> Byte] /\ HeaderLen \in Nat /\ 1 \in 1 .. HeaderLen
  BY HeaderCells
<1>5. \A p \in a + 1 .. E[k] : C[p] = IF p - a <= HeaderLen THEN H[p - a]
                                       ELSE IF p < E[k] THEN Framing!Text(p) ELSE Framing!NL
  BY <1>1 DEF CellOf
<1>e. (\A kk \in 1 .. Len(l) : E[kk - 1] \in Nat) /\ ~Framing!Deceives(l[k])
  BY EndsProperties DEF Honest
<1>i. Inside(l, f - 1) <=> \E kk \in 1 .. Len(l) : f - 1 > E[kk - 1] /\ f - 1 < E[kk - 1] + HeaderLen
  BY DEF Inside
<1>d. \A i \in 2 .. HeaderLen : ~(H[i - 1] = Framing!NL /\ H[i] = Framing!Low)
  BY <1>e DEF Framing!Deceives
<1> HIDE DEF a, H, E, C
<1>6. f \in a + 1 .. E[k] /\ C[f] = Framing!Low
  BY <1>2 DEF a, C
<1>7. f - a <= HeaderLen
  <2>1. C[f] # Framing!NL /\ C[f] # Framing!Text(f)
    BY <1>6, CellsDiffer
  <2>. QED
    BY <1>5, <1>6, <2>1
<1>8. f = a + 1
  <2> SUFFICES ASSUME f # a + 1 PROVE FALSE
    OBVIOUS
  <2>1. /\ f - 1 \in a + 1 .. E[k] /\ f # 1 /\ (f - 1) - a <= HeaderLen /\ (f - 1) - a = (f - a) - 1
        /\ f - a \in 2 .. HeaderLen
    BY <1>3, <1>4, <1>6, <1>7
  <2>2. C[f - 1] = H[(f - a) - 1] /\ C[f] = H[f - a]
    BY <1>5, <1>6, <1>7, <2>1
  <2>3. C[f - 1] # Framing!NL
    BY <1>6, <1>d, <2>1, <2>2
  <2>4. f - 1 > a /\ f - 1 < a + HeaderLen
    BY <1>3, <1>4, <1>6, <1>7, <2>1
  <2>5. Inside(l, f - 1)
    BY <1>i, <2>4 DEF a
  <2>. QED
    BY <2>1, <2>3, <2>5 DEF C
<1>9. q \in a + 1 .. E[k] /\ q - a \in 1 .. HeaderLen
  BY <1>3, <1>4, <1>8
<1>10. C[q] \in Byte
  BY <1>4, <1>5, <1>9
<1>. QED
  BY <1>10, CellsDiffer DEF C

\* What is written of the part of a log that was read at once.
LEMMA ReadStretches ==
  ASSUME NEW l \in Logs, NEW a \in Nat, NEW n \in Nat, a + n <= Len(Framing!Cells(l)),
         NEW s, s = SubSeq(Framing!Cells(l), a + 1, a + n)
  PROVE  \E spans : /\ Stretches(Framing!Stripped(s), l, spans, a, a + n)
                    /\ Honest(l) /\ ~Inside(l, a) =>
                         Covers(l, spans, a, a + n) /\ Edges(l, spans, {a, a + n})
<1> DEFINE C == Framing!Cells(l)
           F == Framing!Firsts(s)
           c == Cardinality(F)
           L(i) == Framing!LastOf(s, i)
           B(i) == Begins(s, i)
           span(k) == [first |-> a + B(Nth(F, k)), last |-> a + L(Nth(F, k))]
           spans == [k \in 1 .. c |-> span(k)]
<1>1. C \in Seq(AnyCell)
  BY CellsAre
<1>2. /\ s \in Seq(AnyCell) /\ Len(s) = n /\ \A q \in 1 .. n : a + q \in 1 .. Len(C) /\ s[q] = C[a + q]
      /\ \A b \in 1 .. n : \A e \in b .. n : SubSeq(s, b, e) = SubSeq(C, a + b, a + e)
  <2>1. s = SubSeq(C, a + 1, a + n) /\ a + n <= Len(C)
    OBVIOUS
  <2> HIDE DEF C, F, c, L, B, span, spans
  <2>2. Len(s) = n
    BY <1>1, <2>1, PartOfPart, SMTT(30)
  <2>3. s \in Seq(AnyCell)
    BY <1>1, <2>1, PartOfPart, ZenonT(60)
  <2>4. \A q \in 1 .. n : a + q \in 1 .. Len(C) /\ s[q] = C[a + q]
    BY <1>1, <2>1, PartOfPart
  <2>5. \A b \in 1 .. n : \A e \in b .. n : SubSeq(s, b, e) = SubSeq(C, a + b, a + e)
    BY <1>1, <2>1, PartOfPart
  <2>. QED
    BY <2>2, <2>3, <2>4, <2>5
<1>3. /\ F \in SUBSET (1 .. n) /\ F \in SUBSET Nat /\ IsFiniteSet(F) /\ c \in Nat
      /\ \A i \in F : L(i) \in i .. n /\ B(i) \in i .. L(i)
      /\ Framing!Stripped(s) = [k \in 1 .. c |-> SubSeq(s, B(Nth(F, k)), L(Nth(F, k)))]
  BY <1>2, StrippedIs
<1>4. /\ \A k \in 1 .. c : Nth(F, k) \in F
      /\ \A k, m \in 1 .. c : k < m => Nth(F, k) < Nth(F, m)
      /\ \A i \in F : \E k \in 1 .. c : Nth(F, k) = i
  BY <1>3, NthLists
<1>5. \A i, j \in F : i < j => L(i) < j
  BY <1>2, PiecesApart
<1>f. \A i \in F : i = 1 \/ s[i - 1] = Framing!NL
  BY DEF Framing!Firsts
<1>b. \A i : B(i) = IF L(i) - i + 1 > HeaderLen /\ s[i] = Framing!Low THEN i + HeaderLen ELSE i
  BY DEF Begins
<1>p. \A q \in 1 .. n : s[q] # Framing!NL => \E i \in F : i <= q /\ q <= L(i)
  BY <1>2, PieceAround
<1> HIDE DEF C, F, c, L, B
<1>i. ASSUME NEW i \in F
      PROVE  /\ i \in 1 .. n /\ i \in Nat /\ B(i) \in Nat /\ L(i) \in Nat
             /\ i <= B(i) /\ B(i) <= L(i) /\ L(i) <= n /\ 1 <= i
  <2>1. i \in 1 .. n /\ L(i) \in i .. n /\ B(i) \in i .. L(i)
    BY <1>3
  <2>. QED
    BY <2>1
<1>6. ASSUME NEW k \in 1 .. c
      PROVE  /\ B(Nth(F, k)) \in 1 .. n /\ L(Nth(F, k)) \in B(Nth(F, k)) .. n
             /\ span(k) \in Stretch
             /\ a < span(k).first /\ span(k).first <= span(k).last /\ span(k).last <= a + n
  <2> DEFINE i == Nth(F, k)
             b == B(i)
             e == L(i)
  <2>1. b \in Nat /\ e \in Nat /\ b <= e /\ e <= n /\ 1 <= b
    <3>1. i \in F
      BY <1>4
    <3> HIDE DEF i
    <3>. QED
      BY <1>i, <3>1
  <2>2. span(k) = [first |-> a + b, last |-> a + e]
    OBVIOUS
  <2> HIDE DEF i, b, e, span
  <2>3. span(k) \in Stretch /\ span(k).first = a + b /\ span(k).last = a + e
    BY <2>1, <2>2 DEF Stretch
  <2>4. b \in 1 .. n /\ e \in b .. n
    BY <2>1
  <2>5. a < span(k).first /\ span(k).first <= span(k).last /\ span(k).last <= a + n
    BY <2>1, <2>3
  <2>. QED
    BY <2>3, <2>4, <2>5 DEF i, b, e
<1>7. Stretches(Framing!Stripped(s), l, spans, a, a + n)
  <2>1. spans \in Seq(Stretch) /\ Len(spans) = c /\ \A k \in 1 .. c : spans[k] = span(k)
    BY <1>3, <1>6
  <2>2. Framing!Stripped(s) = [k \in 1 .. c |-> SubSeq(C, span(k).first, span(k).last)]
    <3>1. \A k \in 1 .. c : SubSeq(s, B(Nth(F, k)), L(Nth(F, k))) = SubSeq(C, span(k).first, span(k).last)
      BY <1>2, <1>6
    <3>. QED
      BY <1>3, <3>1
  <2>3. \A k \in 1 .. c : a < span(k).first /\ span(k).first <= span(k).last /\ span(k).last <= a + n
    BY <1>6
  <2>4. ASSUME NEW k \in 1 .. c, NEW m \in 1 .. c, k < m PROVE span(k).last < span(m).first
    <3>1. Nth(F, k) \in F /\ Nth(F, m) \in F /\ Nth(F, k) < Nth(F, m)
      BY <1>4, <2>4
    <3>2. \A i, j \in F : i < j => a + L(i) < a + B(j)
      <4> TAKE i \in F, j \in F
      <4>1. i < j => L(i) < j
        BY <1>5
      <4>2. L(i) \in Nat /\ j \in Nat /\ B(j) \in Nat /\ j <= B(j)
        BY <1>i
      <4>. QED
        BY <4>1, <4>2
    <3>. QED
      BY <3>1, <3>2
  <2> HIDE DEF spans
  <2>5. Framing!Stripped(s) = [k \in 1 .. Len(spans) |-> SubSeq(C, spans[k].first, spans[k].last)]
    BY <2>1, <2>2
  <2> HIDE DEF span
  <2>. QED
    BY <2>1, <2>3, <2>4, <2>5 DEF Stretches, C
<1>8. ASSUME Honest(l), ~Inside(l, a) PROVE Covers(l, spans, a, a + n)
  <2>1. ASSUME NEW p \in a + 1 .. a + n, Framing!IsText(C[p])
        PROVE  \E k \in 1 .. c : span(k).first <= p /\ p <= span(k).last
    <3> DEFINE q == p - a
    <3>1. q \in 1 .. n /\ p = a + q
      OBVIOUS
    <3> HIDE DEF q
    <3>2. p \in 1 .. Len(C) /\ s[q] = C[p]
      BY <1>2, <3>1
    <3>3. s[q] # Framing!NL
      BY <2>1, <3>2, CellsDiffer DEF Byte
    <3>4. PICK i \in F : i <= q /\ q <= L(i)
      BY <1>p, <3>1, <3>3
    <3>5. PICK k \in 1 .. c : Nth(F, k) = i
      BY <1>4
    <3>6. i \in 1 .. n /\ L(i) \in i .. n /\ HeaderLen \in Nat
      BY <1>3, ContainersAssumption
    <3>7. B(i) <= q
      <4>1. CASE B(i) = i
        BY <3>4, <4>1
      <4>2. CASE B(i) # i
        <5>1. s[i] = Framing!Low /\ B(i) = i + HeaderLen
          BY <1>b, <4>2
        <5>2. ASSUME q < i + HeaderLen PROVE FALSE
          <6>1. a + i \in 1 .. Len(C) /\ C[a + i] = Framing!Low
            BY <1>2, <3>6, <5>1
          <6>2. a + i = 1 \/ C[(a + i) - 1] = Framing!NL \/ ~Inside(l, (a + i) - 1)
            <7>1. CASE i = 1
              <8>1. (a + i) - 1 = a
                BY <7>1
              <8>. QED
                BY <1>8, <8>1
            <7>2. CASE i # 1
              <8>1. i - 1 \in 1 .. n /\ a + (i - 1) = (a + i) - 1
                BY <3>6, <7>2
              <8>2. C[a + (i - 1)] = s[i - 1] /\ s[i - 1] = Framing!NL
                BY <1>2, <1>f, <7>2, <8>1
              <8>. QED
                BY <8>1, <8>2
            <7>. QED
              BY <7>1, <7>2
          <6>3. p \in a + i .. (a + i) + HeaderLen - 1
            BY <3>1, <3>4, <3>6, <5>2
          <6>4. ~Framing!IsText(C[p])
            BY <1>8, <3>2, <6>1, <6>2, <6>3, StripsHeaders DEF C
          <6>. QED
            BY <2>1, <6>4
        <5>3. q \in Int /\ i + HeaderLen \in Int
          BY <3>1, <3>6
        <5>. QED
          BY <5>1, <5>2, <5>3
      <4>. QED
        BY <4>1, <4>2
    <3>8. B(i) \in Nat /\ L(i) \in Nat /\ q \in Nat
      BY <1>i, <3>1
    <3>9. span(k).first <= p /\ p <= span(k).last
      <4>1. span(k).first = a + B(i) /\ span(k).last = a + L(i)
        BY <3>5
      <4>. QED
        BY <3>1, <3>4, <3>7, <3>8, <4>1
    <3>. QED
      BY <3>9
  <2>2. Len(spans) = c /\ \A k \in 1 .. c : spans[k] = span(k)
    BY <1>3
  <2> HIDE DEF spans, span
  <2>. QED
    BY <2>1, <2>2 DEF Covers, C
<1>9. ASSUME Honest(l), ~Inside(l, a) PROVE Edges(l, spans, {a, a + n})
  <2>1. ASSUME NEW i \in F PROVE (a + B(i)) - 1 = a \/ ~Framing!IsText(C[(a + B(i)) - 1])
    <3>1. /\ i \in 1 .. n /\ i \in Nat /\ B(i) \in Nat /\ B(i) <= n /\ HeaderLen \in Nat
      BY <1>i, ContainersAssumption
    <3>2. CASE B(i) = i
      <4>1. CASE i = 1
        BY <3>2, <4>1
      <4>2. CASE i # 1
        <5>1. i - 1 \in 1 .. n /\ a + (i - 1) = (a + B(i)) - 1
          BY <3>1, <3>2, <4>2
        <5>2. C[a + (i - 1)] = Framing!NL
          BY <1>2, <1>f, <4>2, <5>1
        <5>. QED
          BY <5>1, <5>2, CellsDiffer DEF Byte
      <4>. QED
        BY <4>1, <4>2
    <3>3. CASE B(i) # i
      <4>1. s[i] = Framing!Low /\ B(i) = i + HeaderLen
        BY <1>b, <3>3
      <4>2. a + i \in 1 .. Len(C) /\ C[a + i] = Framing!Low
        BY <1>2, <3>1, <4>1
      <4>3. a + i = 1 \/ C[(a + i) - 1] = Framing!NL \/ ~Inside(l, (a + i) - 1)
        <5>1. CASE i = 1
          <6>1. (a + i) - 1 = a
            BY <5>1
          <6>. QED
            BY <1>9, <6>1
        <5>2. CASE i # 1
          <6>1. i - 1 \in 1 .. n /\ a + (i - 1) = (a + i) - 1
            BY <3>1, <5>2
          <6>2. C[a + (i - 1)] = s[i - 1] /\ s[i - 1] = Framing!NL
            BY <1>2, <1>f, <5>2, <6>1
          <6>. QED
            BY <6>1, <6>2
        <5>. QED
          BY <5>1, <5>2
      <4>4. B(i) - 1 \in 1 .. n /\ a + (B(i) - 1) = (a + B(i)) - 1
        <5>1. HeaderLen # 0
          BY <3>1, <3>3, <4>1
        <5>. QED
          BY <3>1, <4>1, <5>1
      <4>5. (a + B(i)) - 1 \in a + i .. (a + i) + HeaderLen - 1 /\ (a + B(i)) - 1 \in 1 .. Len(C)
        <5>1. (a + B(i)) - 1 \in 1 .. Len(C)
          BY <1>2, <4>4
        <5>2. HeaderLen # 0
          BY <3>1, <3>3, <4>1
        <5>. QED
          BY <3>1, <4>1, <5>1, <5>2
      <4>. QED
        BY <1>9, <4>2, <4>3, <4>5, StripsHeaders DEF C
    <3>. QED
      BY <3>2, <3>3
  <2>2. ASSUME NEW i \in F PROVE a + L(i) = a + n \/ ~Framing!IsText(C[(a + L(i)) + 1])
    <3>1. i \in 1 .. Len(s) /\ s[i] # Framing!NL
      BY DEF F, Framing!Firsts
    <3>2. L(i) \in i .. n /\ (L(i) = n \/ s[L(i) + 1] = Framing!NL)
      BY <1>2, <3>1, PieceEnds DEF Piece, L
    <3>3. CASE L(i) # n
      <4>1. L(i) + 1 \in 1 .. n /\ a + (L(i) + 1) = (a + L(i)) + 1
        BY <1>i, <3>3
      <4>2. C[a + (L(i) + 1)] = Framing!NL
        BY <1>2, <3>2, <3>3, <4>1
      <4>. QED
        BY <4>1, <4>2, CellsDiffer DEF Byte
    <3>. QED
      BY <3>3
  <2>3. ASSUME NEW k \in 1 .. c
        PROVE  /\ span(k).first - 1 \in {a, a + n} \/ ~Framing!IsText(C[span(k).first - 1])
               /\ span(k).last \in {a, a + n} \/ ~Framing!IsText(C[span(k).last + 1])
    <3>1. Nth(F, k) \in F
      BY <1>4
    <3>2. span(k).first = a + B(Nth(F, k)) /\ span(k).last = a + L(Nth(F, k))
      OBVIOUS
    <3>. QED
      BY <2>1, <2>2, <3>1, <3>2
  <2>4. Len(spans) = c /\ \A k \in 1 .. c : spans[k] = span(k)
    BY <1>3
  <2> HIDE DEF spans, span
  <2>. QED
    BY <2>3, <2>4 DEF Edges, C
<1>. QED
  BY <1>7, <1>8, <1>9

\* The stretches of one read after those of the earlier ones.
LEMMA JoinStretches ==
  ASSUME NEW l, NEW e1, NEW e2, NEW sp1, NEW sp2, NEW lo \in Nat, NEW mid \in Nat, NEW hi \in Nat,
         lo <= mid, mid <= hi,
         Stretches(e1, l, sp1, lo, mid), Stretches(e2, l, sp2, mid, hi)
  PROVE  /\ Stretches(e1 \o e2, l, sp1 \o sp2, lo, hi)
         /\ Covers(l, sp1, lo, mid) /\ Covers(l, sp2, mid, hi) => Covers(l, sp1 \o sp2, lo, hi)
<1> DEFINE C == Framing!Cells(l)
           S == {SubSeq(C, x, y) : x \in Nat, y \in Nat}
           sp == sp1 \o sp2
           n == Len(sp1)
           m == Len(sp2)
           e == e1 \o e2
<1>1. /\ sp1 \in Seq(Stretch) /\ sp2 \in Seq(Stretch)
      /\ e1 = [i \in 1 .. n |-> SubSeq(C, sp1[i].first, sp1[i].last)]
      /\ e2 = [i \in 1 .. m |-> SubSeq(C, sp2[i].first, sp2[i].last)]
      /\ \A i \in 1 .. n : lo < sp1[i].first /\ sp1[i].first <= sp1[i].last /\ sp1[i].last <= mid
      /\ \A i \in 1 .. m : mid < sp2[i].first /\ sp2[i].first <= sp2[i].last /\ sp2[i].last <= hi
      /\ \A i, j \in 1 .. n : i < j => sp1[i].last < sp1[j].first
      /\ \A i, j \in 1 .. m : i < j => sp2[i].last < sp2[j].first
  BY DEF Stretches
<1>2. n \in Nat /\ m \in Nat
  BY <1>1
<1>3. /\ \A i \in 1 .. n : sp1[i].first \in Nat /\ sp1[i].last \in Nat
      /\ \A i \in 1 .. m : sp2[i].first \in Nat /\ sp2[i].last \in Nat
  <2>1. (\A i \in 1 .. n : sp1[i] \in Stretch) /\ \A i \in 1 .. m : sp2[i] \in Stretch
    BY <1>1
  <2>. QED
    BY <2>1 DEF Stretch
<1>4. e1 \in Seq(S) /\ e2 \in Seq(S) /\ Len(e1) = n /\ Len(e2) = m
  <2> HIDE DEF n, m, C
  <2>0. \A x, y \in Nat : SubSeq(C, x, y) \in S
    OBVIOUS
  <2> HIDE DEF S
  <2>1. (\A i \in 1 .. n : SubSeq(C, sp1[i].first, sp1[i].last) \in S)
        /\ \A i \in 1 .. m : SubSeq(C, sp2[i].first, sp2[i].last) \in S
    BY <1>3, <2>0
  <2>. QED
    BY <1>1, <1>2, <2>1
<1>5. /\ e \in Seq(S) /\ Len(e) = n + m
      /\ \A i \in 1 .. n + m : e[i] = IF i <= n THEN e1[i] ELSE e2[i - n]
  <2> HIDE DEF S, n, m
  <2>1. /\ e \in Seq(S) /\ Len(e) = Len(e1) + Len(e2)
        /\ \A i \in 1 .. Len(e1) + Len(e2) : e[i] = IF i <= Len(e1) THEN e1[i] ELSE e2[i - Len(e1)]
    BY <1>4, ConcatProperties
  <2>. QED
    BY <1>4, <2>1
<1>6. /\ sp \in Seq(Stretch) /\ Len(sp) = n + m
      /\ \A i \in 1 .. n + m : sp[i] = IF i <= n THEN sp1[i] ELSE sp2[i - n]
  BY <1>1, ConcatProperties
<1> HIDE DEF e, sp, n, m, C, S
<1>7. \A i \in 1 .. n + m : i \in 1 .. n \/ (i - n \in 1 .. m /\ ~(i <= n))
  BY <1>2
<1>8. \A i \in 1 .. n + m : e[i] = SubSeq(C, sp[i].first, sp[i].last)
  <2> TAKE i \in 1 .. n + m
  <2>1. CASE i \in 1 .. n
    <3>1. e[i] = e1[i] /\ sp[i] = sp1[i]
      BY <1>2, <1>5, <1>6, <2>1
    <3>2. e1[i] = SubSeq(C, sp1[i].first, sp1[i].last)
      BY <1>1, <2>1
    <3>. QED
      BY <3>1, <3>2
  <2>2. CASE i - n \in 1 .. m /\ ~(i <= n)
    <3>1. e[i] = e2[i - n] /\ sp[i] = sp2[i - n]
      BY <1>5, <1>6, <2>2
    <3>2. e2[i - n] = SubSeq(C, sp2[i - n].first, sp2[i - n].last)
      BY <1>1, <2>2
    <3>. QED
      BY <3>1, <3>2
  <2>. QED
    BY <1>7, <2>1, <2>2
<1>9. e = [i \in 1 .. Len(sp) |-> SubSeq(C, sp[i].first, sp[i].last)]
  <2>1. e = [i \in 1 .. n + m |-> e[i]]
    BY <1>5
  <2>. QED
    BY <1>6, <1>8, <2>1
<1>10. \A i \in 1 .. n + m : lo < sp[i].first /\ sp[i].first <= sp[i].last /\ sp[i].last <= hi
  <2> TAKE i \in 1 .. n + m
  <2>1. CASE i \in 1 .. n
    <3>1. sp[i] = sp1[i]
      BY <1>2, <1>6, <2>1
    <3>. QED
      BY <1>1, <1>3, <2>1, <3>1
  <2>2. CASE i - n \in 1 .. m /\ ~(i <= n)
    <3>1. sp[i] = sp2[i - n]
      BY <1>6, <2>2
    <3>. QED
      BY <1>1, <1>3, <2>2, <3>1
  <2>. QED
    BY <1>7, <2>1, <2>2
<1>11. ASSUME NEW i \in 1 .. n + m, NEW j \in 1 .. n + m, i < j PROVE sp[i].last < sp[j].first
  <2>1. CASE j \in 1 .. n
    <3>1. i \in 1 .. n /\ sp[i] = sp1[i] /\ sp[j] = sp1[j]
      BY <1>2, <1>6, <1>11, <2>1
    <3>. QED
      BY <1>1, <1>11, <2>1, <3>1
  <2>2. CASE i \in 1 .. n /\ j - n \in 1 .. m /\ ~(j <= n)
    <3>1. sp[i] = sp1[i] /\ sp[j] = sp2[j - n]
      BY <1>2, <1>6, <2>2
    <3>2. sp1[i].last <= mid /\ mid < sp2[j - n].first /\ sp1[i].last \in Nat /\ sp2[j - n].first \in Nat
      BY <1>1, <1>3, <2>2
    <3>. QED
      BY <3>1, <3>2
  <2>3. CASE i - n \in 1 .. m /\ ~(i <= n) /\ j - n \in 1 .. m /\ ~(j <= n)
    <3>1. sp[i] = sp2[i - n] /\ sp[j] = sp2[j - n] /\ i - n < j - n
      BY <1>2, <1>6, <1>11, <2>3
    <3>. QED
      BY <1>1, <2>3, <3>1
  <2>. QED
    BY <1>2, <1>7, <1>11, <2>1, <2>2, <2>3
<1>12. Stretches(e, l, sp, lo, hi)
  BY <1>6, <1>9, <1>10, <1>11 DEF Stretches, C
<1>13. ASSUME Covers(l, sp1, lo, mid), Covers(l, sp2, mid, hi) PROVE Covers(l, sp, lo, hi)
  <2> SUFFICES ASSUME NEW p \in lo + 1 .. hi, Framing!IsText(C[p])
               PROVE  \E i \in 1 .. n + m : sp[i].first <= p /\ p <= sp[i].last
    BY <1>6 DEF Covers, C
  <2>1. CASE p <= mid
    <3>0. p \in lo + 1 .. mid
      BY <2>1
    <3>1. PICK i \in 1 .. n : sp1[i].first <= p /\ p <= sp1[i].last
      BY <1>13, <3>0 DEF Covers, C, n
    <3>2. i \in 1 .. n + m /\ sp[i] = sp1[i]
      BY <1>2, <1>6
    <3>. QED
      BY <3>1, <3>2
  <2>2. CASE ~(p <= mid)
    <3>0. p \in mid + 1 .. hi
      BY <2>2
    <3>1. PICK i \in 1 .. m : sp2[i].first <= p /\ p <= sp2[i].last
      BY <1>13, <3>0 DEF Covers, C, m
    <3>2. i + n \in 1 .. n + m /\ ~(i + n <= n) /\ (i + n) - n = i
      BY <1>2
    <3>3. sp[i + n] = sp2[i]
      BY <1>6, <3>2
    <3>. QED
      BY <3>1, <3>2, <3>3
  <2>. QED
    BY <2>1, <2>2
<1>. QED
  BY <1>12, <1>13 DEF e, sp

\* Nor do their ends change.
LEMMA JoinEdges ==
  ASSUME NEW l, NEW sp1 \in Seq(Stretch), NEW sp2 \in Seq(Stretch), NEW P, NEW R,
         Edges(l, sp1, P), Edges(l, sp2, R)
  PROVE  Edges(l, sp1 \o sp2, P \cup R)
<1> DEFINE n == Len(sp1)
           m == Len(sp2)
           sp == sp1 \o sp2
<1>1. n \in Nat /\ m \in Nat /\ Len(sp) = n + m
      /\ \A i \in 1 .. n + m : sp[i] = IF i <= n THEN sp1[i] ELSE sp2[i - n]
  BY ConcatProperties
<1> HIDE DEF n, m, sp
<1>2. ASSUME NEW i \in 1 .. n + m
      PROVE  \/ i \in 1 .. n /\ sp[i] = sp1[i]
             \/ i - n \in 1 .. m /\ sp[i] = sp2[i - n]
  BY <1>1
<1>. QED
  BY <1>1, <1>2 DEF Edges, n, m, sp

\* A list of n items that are all in R.
LEMMA ListOf ==
  ASSUME NEW R, NEW n \in Nat, NEW x, x = [k \in 1 .. n |-> x[k]], \A k \in 1 .. n : x[k] \in R
  PROVE  x \in Seq(R) /\ Len(x) = n
<1>1. x \in [1 .. n -> R]
  <2>1. [k \in 1 .. n |-> x[k]] \in [1 .. n -> R]
    OBVIOUS
  <2>. QED
    BY <2>1, Zenon
<1>2. x \in Seq(R)
  BY <1>1, SeqDef, Zenon
<1>. QED
  BY <1>1, <1>2, LenProperties

\* u is s up to a, where it is cut, and v the rest.
Halves(s, a, n, u, v) ==
  /\ s \in Seq(AnyCell) /\ a \in Nat /\ n \in Nat /\ Len(s) = a + n
  /\ a = 0 \/ s[a] = Framing!NL
  /\ u \in Seq(AnyCell) /\ Len(u) = a /\ \A q \in 1 .. a : u[q] = s[q]
  /\ \A b \in 1 .. a : \A e \in b .. a : SubSeq(u, b, e) = SubSeq(s, b, e)
  /\ v \in Seq(AnyCell) /\ Len(v) = n /\ \A q \in 1 .. n : v[q] = s[a + q]
  /\ \A b \in 1 .. n : \A e \in b .. n : SubSeq(v, b, e) = SubSeq(s, a + b, a + e)

\* A list cut in two behind a newline has the pieces of both parts.
LEMMA StrippedJoins ==
  ASSUME NEW s, NEW a, NEW n, NEW u, NEW v, Halves(s, a, n, u, v)
  PROVE  Framing!Stripped(s) = Framing!Stripped(u) \o Framing!Stripped(v)
<1> DEFINE F == Framing!Firsts(s)
           G == Framing!Firsts(u)
           H == Framing!Firsts(v)
           c == Cardinality(G)
           d == Cardinality(H)
           en == [k \in 1 .. c + d |-> IF k <= c THEN Nth(G, k) ELSE a + Nth(H, k - c)]
           X == Framing!Stripped(s)
           Y == Framing!Stripped(u)
           Z == Framing!Stripped(v)
<1>0. a \in Nat /\ n \in Nat /\ Len(s) = a + n /\ Len(s) \in Nat /\ a <= Len(s)
  BY DEF Halves
<1>s. /\ s \in Seq(AnyCell) /\ u \in Seq(AnyCell) /\ v \in Seq(AnyCell)
      /\ Len(u) = a /\ Len(v) = n
  BY DEF Halves
<1>q. /\ \A q \in 1 .. a : u[q] = s[q]
      /\ \A q \in 1 .. n : v[q] = s[a + q]
      /\ a = 0 \/ s[a] = Framing!NL
  BY DEF Halves
<1>r. /\ \A b \in 1 .. a : \A e \in b .. a : SubSeq(u, b, e) = SubSeq(s, b, e)
      /\ \A b \in 1 .. n : \A e \in b .. n : SubSeq(v, b, e) = SubSeq(s, a + b, a + e)
  BY DEF Halves
<1>1. /\ F \in SUBSET (1 .. Len(s)) /\ F \in SUBSET Nat /\ IsFiniteSet(F) /\ Cardinality(F) \in Nat
      /\ X = [k \in 1 .. Cardinality(F) |-> SubSeq(s, Begins(s, Nth(F, k)), Framing!LastOf(s, Nth(F, k)))]
  BY <1>s, StrippedIs
<1>2. /\ G \in SUBSET (1 .. a) /\ G \in SUBSET Nat /\ IsFiniteSet(G) /\ c \in Nat
      /\ \A i \in G : Framing!LastOf(u, i) \in i .. a /\ Begins(u, i) \in i .. Framing!LastOf(u, i)
      /\ Y = [k \in 1 .. c |-> SubSeq(u, Begins(u, Nth(G, k)), Framing!LastOf(u, Nth(G, k)))]
  BY <1>s, StrippedIs
<1>3. /\ H \in SUBSET (1 .. n) /\ H \in SUBSET Nat /\ IsFiniteSet(H) /\ d \in Nat
      /\ \A i \in H : Framing!LastOf(v, i) \in i .. n /\ Begins(v, i) \in i .. Framing!LastOf(v, i)
      /\ Z = [k \in 1 .. d |-> SubSeq(v, Begins(v, Nth(H, k)), Framing!LastOf(v, Nth(H, k)))]
  BY <1>s, StrippedIs
<1>f. /\ \A i : i \in F <=> i \in 1 .. Len(s) /\ s[i] # Framing!NL /\ (i = 1 \/ s[i - 1] = Framing!NL)
      /\ \A i : i \in G <=> i \in 1 .. a /\ u[i] # Framing!NL /\ (i = 1 \/ u[i - 1] = Framing!NL)
      /\ \A i : i \in H <=> i \in 1 .. n /\ v[i] # Framing!NL /\ (i = 1 \/ v[i - 1] = Framing!NL)
  <2>1. DOMAIN s = 1 .. Len(s) /\ DOMAIN u = 1 .. a /\ DOMAIN v = 1 .. n
    BY <1>s
  <2>. QED
    BY <2>1 DEF Framing!Firsts
<1>14. \A k \in 1 .. c + d : en[k] = IF k <= c THEN Nth(G, k) ELSE a + Nth(H, k - c)
  OBVIOUS
<1>u. en = [k \in 1 .. c + d |-> en[k]]
  OBVIOUS
<1> HIDE DEF F, G, H, c, d, en, X, Y, Z
<1>4. \A i \in 1 .. a : i \in F <=> i \in G
  <2> TAKE i \in 1 .. a
  <2>1. i \in 1 .. Len(s) /\ u[i] = s[i] /\ (i = 1 \/ u[i - 1] = s[i - 1])
    <3>1. i = 1 \/ i - 1 \in 1 .. a
      BY <1>0
    <3>. QED
      BY <1>0, <1>q, <3>1
  <2>. QED
    BY <1>f, <2>1
<1>5. \A i \in 1 .. n : a + i \in F <=> i \in H
  <2> TAKE i \in 1 .. n
  <2>1. a + i \in 1 .. Len(s) /\ v[i] = s[a + i]
    BY <1>0, <1>q
  <2>2. (a + i = 1 \/ s[(a + i) - 1] = Framing!NL) <=> (i = 1 \/ v[i - 1] = Framing!NL)
    <3>1. CASE i = 1
      <4>1. (a + i) - 1 = a /\ (a = 0 => a + i = 1)
        BY <1>0, <3>1
      <4>. QED
        BY <1>q, <3>1, <4>1
    <3>2. CASE i # 1
      <4>1. i - 1 \in 1 .. n /\ (a + i) - 1 = a + (i - 1) /\ a + i # 1
        BY <1>0, <3>2
      <4>. QED
        BY <1>q, <3>2, <4>1
    <3>. QED
      BY <3>1, <3>2
  <2>. QED
    BY <1>f, <2>1, <2>2
<1>6. ASSUME NEW i \in G
      PROVE  /\ i \in F /\ i \in 1 .. a /\ Framing!LastOf(s, i) = Framing!LastOf(u, i)
             /\ Begins(s, i) = Begins(u, i)
  <2> DEFINE j == Framing!LastOf(u, i)
  <2>1. i \in 1 .. a /\ u[i] # Framing!NL /\ s[i] = u[i] /\ i \in F /\ i \in 1 .. Len(s)
    BY <1>0, <1>4, <1>f, <1>q
  <2>2. Piece(u, i, j)
    BY <1>s, <2>1, PieceEnds
  <2> HIDE DEF j
  <2>3. j \in i .. a /\ (j = a \/ u[j + 1] = Framing!NL) /\ \A m \in i .. j : u[m] # Framing!NL
    BY <1>s, <2>2 DEF Piece
  <2>4. j # a
    <3> SUFFICES ASSUME j = a PROVE FALSE
      OBVIOUS
    <3>1. a \in i .. j /\ a \in 1 .. a /\ a # 0
      BY <1>0, <2>1, <2>3
    <3>. QED
      BY <1>q, <2>3, <3>1
  <2>5. j + 1 \in 1 .. a /\ s[j + 1] = Framing!NL /\ \A m \in i .. j : m \in 1 .. a /\ s[m] = u[m]
    BY <1>0, <1>q, <2>1, <2>3, <2>4
  <2>6. Piece(s, i, j)
    BY <1>0, <2>1, <2>3, <2>5 DEF Piece
  <2>7. j = Framing!LastOf(s, i)
    BY <1>s, <2>1, <2>6, PieceEnds
  <2>8. Begins(s, i) = Begins(u, i)
    BY <2>1, <2>7 DEF Begins, j
  <2>. QED
    BY <2>1, <2>7, <2>8 DEF j
<1>7. ASSUME NEW i \in H
      PROVE  /\ a + i \in F /\ i \in 1 .. n /\ Framing!LastOf(s, a + i) = a + Framing!LastOf(v, i)
             /\ Begins(s, a + i) = a + Begins(v, i)
  <2> DEFINE j == Framing!LastOf(v, i)
  <2>1. i \in 1 .. n /\ v[i] # Framing!NL /\ s[a + i] = v[i] /\ a + i \in F /\ a + i \in 1 .. Len(s)
    BY <1>0, <1>5, <1>f, <1>q
  <2>2. Piece(v, i, j)
    BY <1>s, <2>1, PieceEnds
  <2> HIDE DEF j
  <2>3. j \in i .. n /\ (j = n \/ v[j + 1] = Framing!NL) /\ \A m \in i .. j : v[m] # Framing!NL
    BY <1>s, <2>2 DEF Piece
  <2>4. a + j = Len(s) \/ s[(a + j) + 1] = Framing!NL
    <3>1. CASE j = n
      BY <1>0, <3>1
    <3>2. CASE j # n
      <4>1. j + 1 \in 1 .. n /\ a + (j + 1) = (a + j) + 1
        BY <1>0, <2>1, <2>3, <3>2
      <4>. QED
        BY <1>q, <2>3, <3>2, <4>1
    <3>. QED
      BY <3>1, <3>2
  <2>5. ASSUME NEW m \in a + i .. a + j PROVE s[m] # Framing!NL
    <3>1. m - a \in i .. j /\ m - a \in 1 .. n /\ a + (m - a) = m
      BY <1>0, <2>1, <2>3
    <3>. QED
      BY <1>q, <2>3, <3>1
  <2>6. a + j \in a + i .. Len(s)
    BY <1>0, <2>1, <2>3
  <2>7. Piece(s, a + i, a + j)
    BY <2>4, <2>5, <2>6 DEF Piece
  <2>8. a + j = Framing!LastOf(s, a + i)
    BY <1>s, <2>1, <2>7, PieceEnds
  <2>9. Begins(s, a + i) = a + Begins(v, i)
    <3>1. HeaderLen \in Nat /\ (a + j) - (a + i) + 1 = j - i + 1 /\ (a + i) + HeaderLen = a + (i + HeaderLen)
      BY <1>0, <2>1, <2>3, ContainersAssumption
    <3>2. Begins(s, a + i) = IF (a + j) - (a + i) + 1 > HeaderLen /\ s[a + i] = Framing!Low
                             THEN (a + i) + HeaderLen ELSE a + i
      BY <2>8 DEF Begins
    <3>3. Begins(v, i) = IF j - i + 1 > HeaderLen /\ v[i] = Framing!Low THEN i + HeaderLen ELSE i
      BY DEF Begins, j
    <3>. QED
      BY <2>1, <3>1, <3>2, <3>3
  <2>. QED
    BY <2>1, <2>8, <2>9 DEF j
<1>8. /\ \A k \in 1 .. c : Nth(G, k) \in G
      /\ \A k, m \in 1 .. c : k < m => Nth(G, k) < Nth(G, m)
      /\ \A i \in G : \E k \in 1 .. c : Nth(G, k) = i
  BY <1>2, NthLists DEF c
<1>9. /\ \A k \in 1 .. d : Nth(H, k) \in H
      /\ \A k, m \in 1 .. d : k < m => Nth(H, k) < Nth(H, m)
      /\ \A i \in H : \E k \in 1 .. d : Nth(H, k) = i
  BY <1>3, NthLists DEF d
<1>k. \A k \in 1 .. c + d : (k \in 1 .. c /\ k <= c) \/ (k - c \in 1 .. d /\ ~(k <= c))
  BY <1>2, <1>3
<1>10. Cardinality(F) = c + d /\ \A k \in 1 .. c + d : Nth(F, k) = en[k]
  <2>1. c + d \in Nat /\ en \in [1 .. c + d -> Nat]
    <3>1. \A k \in 1 .. c + d : (IF k <= c THEN Nth(G, k) ELSE a + Nth(H, k - c)) \in Nat
      <4> TAKE k \in 1 .. c + d
      <4>1. CASE k \in 1 .. c /\ k <= c
        BY <1>2, <1>8, <4>1
      <4>2. CASE k - c \in 1 .. d /\ ~(k <= c)
        <5>1. Nth(H, k - c) \in Nat
          BY <1>3, <1>9, <4>2
        <5>. QED
          BY <1>0, <4>2, <5>1
      <4>. QED
        BY <1>k, <4>1, <4>2
    <3>. QED
      BY <1>2, <1>3, <1>14, <1>u, <3>1
  <2>e. \A k \in 1 .. c + d : en[k] = IF k <= c THEN Nth(G, k) ELSE a + Nth(H, k - c)
    BY <1>14
  <2>2. ASSUME NEW k \in 1 .. c + d, NEW m \in 1 .. c + d, k < m PROVE en[k] < en[m]
    <3>1. CASE m \in 1 .. c /\ m <= c
      <4>1. k \in 1 .. c /\ k <= c
        BY <1>2, <2>2, <3>1
      <4>. QED
        BY <1>8, <2>2, <2>e, <3>1, <4>1
    <3>2. CASE k \in 1 .. c /\ k <= c /\ m - c \in 1 .. d /\ ~(m <= c)
      <4>1. en[k] = Nth(G, k) /\ en[m] = a + Nth(H, m - c)
        BY <2>e, <3>2
      <4>2. Nth(G, k) \in 1 .. a /\ Nth(H, m - c) \in 1 .. n
        BY <1>2, <1>3, <1>8, <1>9, <3>2
      <4>. QED
        BY <1>0, <4>1, <4>2
    <3>3. CASE k - c \in 1 .. d /\ ~(k <= c)
      <4>1. m - c \in 1 .. d /\ ~(m <= c) /\ k - c < m - c
        BY <1>2, <1>3, <2>2, <3>3
      <4>2. en[k] = a + Nth(H, k - c) /\ en[m] = a + Nth(H, m - c)
        BY <2>e, <3>3, <4>1
      <4>3. Nth(H, k - c) < Nth(H, m - c) /\ Nth(H, k - c) \in Nat /\ Nth(H, m - c) \in Nat
        BY <1>3, <1>9, <3>3, <4>1
      <4>. QED
        BY <1>0, <4>2, <4>3
    <3>. QED
      BY <1>k, <3>1, <3>2, <3>3
  <2>3. ASSUME NEW i, i \in F PROVE \E k \in 1 .. c + d : i = en[k]
    <3>1. i \in 1 .. Len(s)
      BY <1>1, <2>3
    <3>2. CASE i <= a
      <4>1. i \in G
        BY <1>0, <1>4, <2>3, <3>1, <3>2
      <4>2. PICK k \in 1 .. c : Nth(G, k) = i
        BY <1>8, <4>1
      <4>3. k \in 1 .. c + d /\ k <= c
        BY <1>2, <1>3
      <4>. QED
        BY <2>e, <4>2, <4>3
    <3>3. CASE ~(i <= a)
      <4>1. i - a \in 1 .. n /\ a + (i - a) = i
        BY <1>0, <3>1, <3>3
      <4>2. i - a \in H
        BY <1>5, <2>3, <4>1
      <4>3. PICK k \in 1 .. d : Nth(H, k) = i - a
        BY <1>9, <4>2
      <4>4. k + c \in 1 .. c + d /\ ~(k + c <= c) /\ (k + c) - c = k
        BY <1>2, <1>3
      <4>5. en[k + c] = a + (i - a)
        BY <2>e, <4>3, <4>4
      <4>. QED
        BY <4>1, <4>4, <4>5
    <3>. QED
      BY <3>2, <3>3
  <2>4. ASSUME NEW i, NEW k \in 1 .. c + d, i = en[k] PROVE i \in F
    <3>1. CASE k \in 1 .. c /\ k <= c
      BY <1>6, <1>8, <2>4, <2>e, <3>1
    <3>2. CASE k - c \in 1 .. d /\ ~(k <= c)
      BY <1>7, <1>9, <2>4, <2>e, <3>2
    <3>. QED
      BY <1>k, <3>1, <3>2
  <2>5. \A i : i \in F <=> \E k \in 1 .. c + d : i = en[k]
    BY <2>3, <2>4
  <2>. QED
    BY <2>1, <2>2, <2>5, ListOfMembers, ZenonT(60)
<1>11. /\ X = [k \in 1 .. c + d |-> SubSeq(s, Begins(s, en[k]), Framing!LastOf(s, en[k]))]
  BY <1>1, <1>10
<1>12. \A i \in G : SubSeq(s, Begins(s, i), Framing!LastOf(s, i)) = SubSeq(u, Begins(u, i), Framing!LastOf(u, i))
  <2> TAKE i \in G
  <2>1. Begins(u, i) \in 1 .. a /\ Framing!LastOf(u, i) \in Begins(u, i) .. a
    <3>1. i \in 1 .. a /\ Framing!LastOf(u, i) \in i .. a /\ Begins(u, i) \in i .. Framing!LastOf(u, i)
      BY <1>2
    <3>. QED
      BY <1>0, <3>1
  <2>. QED
    BY <1>6, <1>r, <2>1
<1>13. \A i \in H : SubSeq(s, Begins(s, a + i), Framing!LastOf(s, a + i))
                     = SubSeq(v, Begins(v, i), Framing!LastOf(v, i))
  <2> TAKE i \in H
  <2>1. Begins(v, i) \in 1 .. n /\ Framing!LastOf(v, i) \in Begins(v, i) .. n
    <3>1. i \in 1 .. n /\ Framing!LastOf(v, i) \in i .. n /\ Begins(v, i) \in i .. Framing!LastOf(v, i)
      BY <1>3
    <3>2. Framing!LastOf(v, i) \in Nat /\ i \in Nat /\ n \in Nat /\ 1 <= i
      BY <1>0, <3>1
    <3>. QED
      BY <3>1, <3>2
  <2>. QED
    BY <1>7, <1>r, <2>1
<1>15. \A k \in 1 .. c + d : X[k] = IF k <= c THEN Y[k] ELSE Z[k - c]
  <2> TAKE k \in 1 .. c + d
  <2>1. X[k] = SubSeq(s, Begins(s, en[k]), Framing!LastOf(s, en[k]))
    BY <1>11
  <2>2. CASE k \in 1 .. c /\ k <= c
    <3>1. Nth(G, k) \in G /\ en[k] = Nth(G, k)
      BY <1>8, <1>14, <2>2
    <3>2. Y[k] = SubSeq(u, Begins(u, Nth(G, k)), Framing!LastOf(u, Nth(G, k)))
      BY <1>2, <2>2
    <3>. QED
      BY <1>12, <2>1, <2>2, <3>1, <3>2
  <2>3. CASE k - c \in 1 .. d /\ ~(k <= c)
    <3>1. Nth(H, k - c) \in H /\ en[k] = a + Nth(H, k - c)
      BY <1>9, <1>14, <2>3
    <3>2. Z[k - c] = SubSeq(v, Begins(v, Nth(H, k - c)), Framing!LastOf(v, Nth(H, k - c)))
      BY <1>3, <2>3
    <3>. QED
      BY <1>13, <2>1, <2>3, <3>1, <3>2
  <2>. QED
    BY <1>k, <2>2, <2>3
<1> DEFINE R == {X[k] : k \in 1 .. c + d} \cup {Y[k] : k \in 1 .. c} \cup {Z[k] : k \in 1 .. d}
<1>16. /\ X \in Seq(R) /\ Len(X) = c + d /\ Y \in Seq(R) /\ Len(Y) = c /\ Z \in Seq(R) /\ Len(Z) = d
  <2>1. /\ X = [k \in 1 .. c + d |-> X[k]] /\ Y = [k \in 1 .. c |-> Y[k]] /\ Z = [k \in 1 .. d |-> Z[k]]
    BY <1>2, <1>3, <1>11
  <2>2. /\ \A k \in 1 .. c + d : X[k] \in R
        /\ \A k \in 1 .. c : Y[k] \in R
        /\ \A k \in 1 .. d : Z[k] \in R
    OBVIOUS
  <2>3. c + d \in Nat /\ c \in Nat /\ d \in Nat
    BY <1>2, <1>3
  <2> HIDE DEF R
  <2>4. X \in Seq(R) /\ Len(X) = c + d
    BY <2>1, <2>2, <2>3, ListOf
  <2>5. Y \in Seq(R) /\ Len(Y) = c
    BY <2>1, <2>2, <2>3, ListOf
  <2>6. Z \in Seq(R) /\ Len(Z) = d
    BY <2>1, <2>2, <2>3, ListOf
  <2>. QED
    BY <2>4, <2>5, <2>6
<1> HIDE DEF R
<1>17. /\ Y \o Z \in Seq(R) /\ Len(Y \o Z) = Len(Y) + Len(Z)
       /\ \A k \in 1 .. Len(Y) + Len(Z) : (Y \o Z)[k] = IF k <= Len(Y) THEN Y[k] ELSE Z[k - Len(Y)]
  BY <1>16, ConcatProperties
<1>18. X = Y \o Z
  <2> DEFINE W == Y \o Z
  <2>1. W \in Seq(R) /\ Len(W) = Len(X) /\ \A k \in 1 .. Len(X) : X[k] = W[k]
    BY <1>15, <1>16, <1>17
  <2> HIDE DEF W
  <2>2. X = W
    BY <1>16, <2>1, SeqEqual
  <2>. QED
    BY <2>2 DEF W
<1>. QED
  BY <1>18 DEF X, Y, Z

\* Where a line ends there is a newline.
LEMMA NewlineEnds ==
  ASSUME NEW l \in Logs, NEW k \in 1 .. Len(l)
  PROVE  /\ Framing!Ends(l)[k] \in 1 .. Len(Framing!Cells(l))
         /\ Framing!Cells(l)[Framing!Ends(l)[k]] = Framing!NL
<1> DEFINE E == Framing!Ends(l)
           C == Framing!Cells(l)
           p == E[k]
           a == E[k - 1]
<1>1. a \in Nat /\ p \in Nat /\ p = a + HeaderLen + l[k] /\ l[k] \in Nat \ {0} /\ HeaderLen \in Nat
  BY EndsProperties, ContainersAssumption
<1>2. \A q \in a + 1 .. p : q \in 1 .. Len(C) /\ C[q] = CellOf(l, k, q)
  BY CellsAre
<1>3. CellOf(l, k, p) = IF p - a <= HeaderLen THEN Framing!Header(l[k])[p - a]
                        ELSE IF p < p THEN Framing!Text(p) ELSE Framing!NL
  BY DEF CellOf
<1> HIDE DEF p, a, C
<1>4. p \in a + 1 .. p /\ ~(p - a <= HeaderLen) /\ ~(p < p)
  BY <1>1
<1>5. p \in 1 .. Len(C) /\ C[p] = Framing!NL
  BY <1>2, <1>3, <1>4
<1>. QED
  BY <1>5 DEF p, C

\* No line is blank, and no header has a newline in it.
Plain(l) ==
  \A k \in 1 .. Len(l) : l[k] # 1 /\ \A i \in 1 .. HeaderLen : Framing!Header(l[k])[i] # Framing!NL

\* s is the first m lines of such a log.
FirstLines(l, m, s) == Plain(l) /\ s = SubSeq(Framing!Cells(l), 1, Framing!Ends(l)[m])

\* Where the first and the last character of such a line are.
LEMMA LineSpan ==
  ASSUME NEW a \in Nat, NEW h \in Nat, NEW w \in Nat, NEW n \in Nat, h >= 2, w # 0, w # 1
  PROVE  /\ w > 1 /\ a + 1 \in Nat /\ (a + h + w) - 1 \in Nat /\ ((a + h + w) - 1) + 1 = a + h + w
         /\ ((a + h + w) - 1) - (a + 1) + 1 > h /\ (a + 1) + h = a + h + 1
         /\ a + 1 \in a + 1 .. a + h + w /\ a + h + w \in a + 1 .. a + h + w
         /\ \A q \in a + 1 .. (a + h + w) - 1 : q \in a + 1 .. a + h + w /\ q # a + h + w
         /\ a + h + w <= n =>
              /\ (a + h + w) - 1 \in a + 1 .. n /\ (a + 1) + h \in 1 .. n
              /\ (a + h + w) - 1 \in (a + 1) + h .. n /\ a + 1 \in 1 .. n
OBVIOUS

\* Read as a whole, they give their texts.
LEMMA LinesAre ==
  ASSUME NEW l \in Logs, NEW m \in 0 .. Len(l), NEW s, FirstLines(l, m, s)
  PROVE  Framing!Stripped(s) =
           [k \in 1 .. m |-> SubSeq(Framing!Cells(l), Framing!Ends(l)[k - 1] + HeaderLen + 1,
                                    Framing!Ends(l)[k] - 1)]
<1> DEFINE E == Framing!Ends(l)
           C == Framing!Cells(l)
           n == E[m]
           F == Framing!Firsts(s)
           en == [k \in 1 .. m |-> E[k - 1] + 1]
<1>1. /\ Len(l) \in Nat /\ E \in [0 .. Len(l) -> Nat] /\ E[0] = 0
      /\ \A k \in 1 .. Len(l) : /\ l[k] \in Nat \ {0} /\ k - 1 \in 0 .. Len(l) /\ k \in 0 .. Len(l)
                                /\ E[k] = E[k - 1] + HeaderLen + l[k]
      /\ \A j, k \in 0 .. Len(l) : j < k => E[j] < E[k]
  BY EndsProperties
<1>2. /\ C \in Seq(AnyCell) /\ Len(C) = E[Len(l)] /\ Len(C) \in Nat
      /\ \A k \in 1 .. Len(l) : \A p \in E[k - 1] + 1 .. E[k] :
           p \in 1 .. Len(C) /\ C[p] = CellOf(l, k, p)
      /\ \A p \in 1 .. Len(C) : \E k \in 1 .. Len(l) : p \in E[k - 1] + 1 .. E[k]
  BY CellsAre
<1>c. \A k \in 1 .. Len(l) : \A p \in E[k - 1] + 1 .. E[k] :
        C[p] = IF p - E[k - 1] <= HeaderLen THEN Framing!Header(l[k])[p - E[k - 1]]
               ELSE IF p < E[k] THEN Framing!Text(p) ELSE Framing!NL
  BY <1>2 DEF CellOf
<1>e. s = SubSeq(C, 1, n) /\ n = E[m]
  BY DEF FirstLines
<1>p. \A k \in 1 .. Len(l) : l[k] # 1 /\ \A i \in 1 .. HeaderLen : Framing!Header(l[k])[i] # Framing!NL
  BY DEF FirstLines, Plain
<1>d. /\ F = Framing!Firsts(s) /\ \A k \in 1 .. m : en[k] = E[k - 1] + 1
      /\ en = [k \in 1 .. m |-> E[k - 1] + 1]
  OBVIOUS
<1>h. \A k \in 1 .. Len(l) : /\ E[k] \in 1 .. Len(C) /\ C[E[k]] = Framing!NL
  BY NewlineEnds
<1> HIDE DEF E, C, n, F, en
<1>l. \A k \in 1 .. m : k \in 1 .. Len(l) /\ k \in Nat /\ k - 1 \in 0 .. Len(l) /\ k \in 0 .. Len(l)
  BY <1>1
<1>3. n \in Nat /\ n <= Len(C)
  <2>1. m = Len(l) \/ m < Len(l)
    BY <1>1
  <2>2. m \in 0 .. Len(l) /\ Len(l) \in 0 .. Len(l) /\ E[m] \in Nat /\ E[Len(l)] \in Nat
    BY <1>1
  <2>3. E[m] <= E[Len(l)]
    BY <1>1, <2>1, <2>2
  <2>. QED
    BY <1>2, <1>e, <2>2, <2>3
<1>4. /\ s \in Seq(AnyCell) /\ Len(s) = n /\ \A q \in 1 .. n : q \in 1 .. Len(C) /\ s[q] = C[q]
      /\ \A b \in 1 .. n : \A e \in b .. n : SubSeq(s, b, e) = SubSeq(C, b, e)
  <2>1. 0 \in Nat /\ 0 + n <= Len(C) /\ s = SubSeq(C, 0 + 1, 0 + n)
    BY <1>3, <1>e
  <2>2. /\ s \in Seq(AnyCell) /\ Len(s) = n /\ \A q \in 1 .. n : 0 + q \in 1 .. Len(C) /\ s[q] = C[0 + q]
        /\ \A b \in 1 .. n : \A e \in b .. n : SubSeq(s, b, e) = SubSeq(C, 0 + b, 0 + e)
    BY <1>2, <1>3, <2>1, PartOfPart
  <2>3. \A b \in 1 .. n : 0 + b = b /\ \A e \in b .. n : 0 + e = e
    BY <1>3
  <2>. QED
    BY <2>2, <2>3
<1>5. ASSUME NEW k \in 1 .. m
      PROVE  /\ E[k - 1] \in Nat /\ E[k] \in Nat /\ E[k] = E[k - 1] + HeaderLen + l[k] /\ E[k] <= n
             /\ l[k] \in Nat /\ l[k] > 1 /\ HeaderLen \in Nat /\ HeaderLen >= 2
  <2>1. k \in 1 .. Len(l) /\ k \in 0 .. Len(l) /\ (k = m \/ k < m) /\ m \in 0 .. Len(l)
    BY <1>1, <1>l
  <2>2. E[k] <= n
    <3>1. E[k] \in Nat
      BY <1>1, <2>1
    <3>. QED
      BY <1>1, <1>3, <1>e, <2>1, <3>1
  <2>3. HeaderLen \in Nat /\ HeaderLen >= 2
    <3>1. HeaderLen \in Nat /\ SizeLen \in 1 .. HeaderLen - 1
      BY ContainersAssumption
    <3>. QED
      BY <3>1
  <2>4. l[k] \in Nat /\ l[k] # 0 /\ l[k] # 1
    BY <1>1, <1>p, <2>1
  <2>5. E[k - 1] \in Nat /\ E[k] \in Nat /\ E[k] = E[k - 1] + HeaderLen + l[k]
    BY <1>1, <2>1
  <2>6. l[k] > 1
    BY <2>3, <2>4, LineSpan
  <2>. QED
    BY <2>2, <2>3, <2>4, <2>5, <2>6
<1>s. ASSUME NEW k \in 1 .. m
      PROVE  LET i == E[k - 1] + 1
                 j == E[k] - 1
             IN  /\ i \in Nat /\ j \in Nat /\ j + 1 = E[k] /\ j - i + 1 > HeaderLen
                 /\ i + HeaderLen = E[k - 1] + HeaderLen + 1
                 /\ i \in E[k - 1] + 1 .. E[k] /\ E[k] \in E[k - 1] + 1 .. E[k]
                 /\ \A q \in i .. j : q \in E[k - 1] + 1 .. E[k] /\ q # E[k]
                 /\ j \in i .. n /\ i + HeaderLen \in 1 .. n
                 /\ j \in i + HeaderLen .. n /\ i \in 1 .. n
  <2>1. /\ E[k - 1] \in Nat /\ HeaderLen \in Nat /\ l[k] \in Nat /\ l[k] # 0 /\ l[k] # 1
        /\ HeaderLen >= 2 /\ n \in Nat
    BY <1>3, <1>5, <1>l, <1>p, <1>1
  <2>2. E[k] = E[k - 1] + HeaderLen + l[k] /\ E[k] <= n
    BY <1>5
  <2> DEFINE a == E[k - 1]
             w == l[k]
             z == E[k]
  <2>3. a \in Nat /\ w \in Nat /\ w # 0 /\ w # 1 /\ z = a + HeaderLen + w /\ z <= n
    BY <2>1, <2>2
  <2> HIDE DEF a, w, z
  <2>4. LET i == a + 1
            j == z - 1
        IN  /\ i \in Nat /\ j \in Nat /\ j + 1 = z /\ j - i + 1 > HeaderLen
            /\ i + HeaderLen = a + HeaderLen + 1
            /\ i \in a + 1 .. z /\ z \in a + 1 .. z
            /\ \A q \in i .. j : q \in a + 1 .. z /\ q # z
            /\ j \in i .. n /\ i + HeaderLen \in 1 .. n
            /\ j \in i + HeaderLen .. n /\ i \in 1 .. n
    BY <2>1, <2>3, LineSpan
  <2>. QED
    BY <2>4 DEF a, z
<1>6. ASSUME NEW k \in 1 .. m, NEW q \in E[k - 1] + 1 .. E[k]
      PROVE  /\ q \in 1 .. n
             /\ q = E[k] <=> s[q] = Framing!NL
             /\ q = E[k - 1] + 1 => s[q] = Framing!Low
  <2>1. k \in 1 .. Len(l)
    BY <1>l
  <2>2. q \in 1 .. n /\ q \in Nat
    BY <1>3, <1>5, SMTT(30)
  <2>3. s[q] = IF q - E[k - 1] <= HeaderLen THEN Framing!Header(l[k])[q - E[k - 1]]
               ELSE IF q < E[k] THEN Framing!Text(q) ELSE Framing!NL
    BY <1>4, <1>c, <2>1, <2>2
  <2>4. q = E[k] => s[q] = Framing!NL
    BY <1>4, <1>h, <2>1, <2>2
  <2>5. ASSUME q # E[k] PROVE s[q] # Framing!NL
    <3>1. CASE q - E[k - 1] <= HeaderLen
      <4>1. q - E[k - 1] \in 1 .. HeaderLen
        BY <1>5, <3>1, SMTT(30)
      <4>. QED
        BY <1>p, <2>1, <2>3, <3>1, <4>1
    <3>2. CASE ~(q - E[k - 1] <= HeaderLen)
      <4>1. q < E[k]
        BY <1>5, <2>5
      <4>. QED
        BY <2>3, <3>2, <4>1, CellsDiffer
    <3>. QED
      BY <3>1, <3>2
  <2>6. ASSUME q = E[k - 1] + 1 PROVE s[q] = Framing!Low
    <3>1. q - E[k - 1] = 1 /\ 1 <= HeaderLen
      BY <1>5, <2>6
    <3>. QED
      BY <2>3, <3>1, HeaderCells
  <2>. QED
    BY <2>2, <2>4, <2>5, <2>6
<1>7. ASSUME NEW k \in 1 .. m PROVE en[k] \in F /\ en[k] \in E[k - 1] + 1 .. E[k]
  <2>0. en[k] = E[k - 1] + 1 /\ en[k] \in Nat
    BY <1>5, <1>d
  <2>1. en[k] \in E[k - 1] + 1 .. E[k]
    BY <1>s, <2>0
  <2>2. en[k] \in 1 .. n /\ s[en[k]] = Framing!Low
    BY <1>6, <2>0, <2>1
  <2>3. en[k] = 1 \/ s[en[k] - 1] = Framing!NL
    <3>1. CASE k = 1
      BY <1>1, <2>0, <3>1
    <3>2. CASE k # 1
      <4>1. k - 1 \in 1 .. m /\ k - 1 \in 1 .. Len(l) /\ en[k] - 1 = E[k - 1]
        BY <1>5, <1>l, <2>0, <3>2
      <4>2. E[k - 1] \in 1 .. n
        BY <1>5, <1>h, <4>1
      <4>. QED
        BY <1>4, <1>h, <4>1, <4>2
    <3>. QED
      BY <3>1, <3>2
  <2>4. DOMAIN s = 1 .. n
    BY <1>4
  <2>. QED
    BY <1>d, <2>1, <2>2, <2>3, <2>4, CellsDiffer DEF Framing!Firsts
<1>8. ASSUME NEW i \in F PROVE \E k \in 1 .. m : i = en[k]
  <2>1. DOMAIN s = 1 .. n
    BY <1>4
  <2>2. i \in 1 .. n /\ s[i] # Framing!NL /\ (i = 1 \/ s[i - 1] = Framing!NL)
    BY <1>d, <2>1 DEF Framing!Firsts
  <2>3. PICK k \in 1 .. Len(l) : i \in E[k - 1] + 1 .. E[k]
    BY <1>2, <1>4, <2>2
  <2>4. k \in 1 .. m
    <3> SUFFICES ASSUME ~(k <= m) PROVE FALSE
      BY <1>1
    <3>1. m <= k - 1 /\ k - 1 \in 0 .. Len(l) /\ m \in 0 .. Len(l)
      BY <1>1
    <3>2. E[m] \in Nat /\ E[k - 1] \in Nat
      BY <1>1, <3>1
    <3>4. m = k - 1 \/ m < k - 1
      BY <3>1
    <3>3. E[m] <= E[k - 1]
      BY <1>1, <3>1, <3>2, <3>4
    <3>. QED
      BY <1>e, <2>2, <2>3, <3>2, <3>3
  <2>5. E[k - 1] \in Nat /\ E[k] \in Nat
    BY <1>5, <2>4
  <2>6. i = E[k - 1] + 1
    <3> SUFFICES ASSUME i # E[k - 1] + 1 PROVE FALSE
      OBVIOUS
    <3>1. i - 1 \in E[k - 1] + 1 .. E[k] /\ i # 1 /\ i - 1 # E[k]
      BY <2>3, <2>5
    <3>. QED
      BY <1>6, <2>2, <2>4, <3>1
  <2>. QED
    BY <1>d, <2>4, <2>6
<1>9. Cardinality(F) = m /\ \A k \in 1 .. m : Nth(F, k) = en[k]
  <2>1. m \in Nat
    BY <1>1
  <2>2. en \in [1 .. m -> Nat]
    <3>1. \A k \in 1 .. m : E[k - 1] + 1 \in Nat
      BY <1>5, SMTT(30)
    <3>. QED
      BY <1>d, <3>1
  <2>3. ASSUME NEW k \in 1 .. m, NEW j \in 1 .. m, k < j PROVE en[k] < en[j]
    <3>1. k - 1 \in 0 .. Len(l) /\ j - 1 \in 0 .. Len(l) /\ k - 1 < j - 1
      BY <1>l, <2>1, <2>3
    <3>2. E[k - 1] < E[j - 1] /\ E[k - 1] \in Nat /\ E[j - 1] \in Nat
      BY <1>1, <3>1
    <3>. QED
      BY <1>d, <3>2
  <2>4. \A i : i \in F <=> \E k \in 1 .. m : i = en[k]
    BY <1>7, <1>8
  <2>. QED
    BY <2>1, <2>2, <2>3, <2>4, ListOfMembers
<1>10. ASSUME NEW k \in 1 .. m
       PROVE  SubSeq(s, Begins(s, en[k]), Framing!LastOf(s, en[k]))
                = SubSeq(C, E[k - 1] + HeaderLen + 1, E[k] - 1)
  <2> DEFINE i == en[k]
             j == E[k] - 1
  <2>1. i \in Nat /\ i = E[k - 1] + 1 /\ j \in Nat /\ j + 1 = E[k] /\ j - i + 1 > HeaderLen
        /\ i + HeaderLen = E[k - 1] + HeaderLen + 1 /\ j \in i .. n /\ i + HeaderLen \in 1 .. n
        /\ j \in i + HeaderLen .. n /\ i \in 1 .. n
    <3>1. i = E[k - 1] + 1
      BY <1>d
    <3> HIDE DEF i
    <3>. QED
      BY <1>s, <3>1
  <2>2. s[i] = Framing!Low /\ s[j + 1] = Framing!NL
    <3>1. i \in E[k - 1] + 1 .. E[k] /\ E[k] \in E[k - 1] + 1 .. E[k]
      BY <1>s, <2>1
    <3>. QED
      BY <1>6, <2>1, <3>1
  <2>3. \A q \in i .. j : s[q] # Framing!NL
    <3> TAKE q \in i .. j
    <3>1. q \in E[k - 1] + 1 .. E[k] /\ q # E[k]
      BY <1>s, <2>1
    <3>. QED
      BY <1>6, <3>1
  <2> HIDE DEF i, j
  <2>4. Piece(s, i, j)
    BY <1>4, <2>1, <2>2, <2>3 DEF Piece
  <2>5. j = Framing!LastOf(s, i)
    BY <1>4, <2>1, <2>2, <2>4, CellsDiffer, PieceEnds
  <2>6. Begins(s, i) = i + HeaderLen
    BY <2>1, <2>2, <2>5 DEF Begins
  <2>7. SubSeq(s, i + HeaderLen, j) = SubSeq(C, i + HeaderLen, j)
    BY <1>4, <2>1
  <2>. QED
    BY <2>1, <2>5, <2>6, <2>7 DEF i, j
<1>11. Framing!Stripped(s) =
         [k \in 1 .. Cardinality(F) |-> SubSeq(s, Begins(s, Nth(F, k)), Framing!LastOf(s, Nth(F, k)))]
  BY <1>4, <1>d, StrippedIs
<1>12. Framing!Stripped(s) = [k \in 1 .. m |-> SubSeq(C, E[k - 1] + HeaderLen + 1, E[k] - 1)]
  <2>1. Framing!Stripped(s) = [k \in 1 .. m |-> SubSeq(s, Begins(s, en[k]), Framing!LastOf(s, en[k]))]
    BY <1>9, <1>11
  <2>. QED
    BY <1>10, <2>1
<1>. QED
  BY <1>12 DEF E, C

\* What has been sent is stretches of what was read, with all its text where no
\* header deceives and no read ended in one; and what would be sent of it all at
\* once, where every read ended with a line.
Kept(l, p, places, written) ==
  \E spans : /\ Stretches(written, l, spans, 0, p)
             /\ Honest(l) /\ (\A q \in places : ~Inside(l, q)) =>
                  Covers(l, spans, 0, p) /\ Edges(l, spans, places \cup {0})
Whole(l, p, places, written) ==
  (\A q \in places : \E k \in 1 .. Len(l) : q = Framing!Ends(l)[k]) =>
    written = Framing!Stripped(SubSeq(Framing!Cells(l), 1, p))

\* The inductive invariant.  What is written next begins where a read ended; what
\* was written is what was sent, as JSON.
FrameInv ==
  /\ text \in Logs /\ octet \in Framing!Encodings(text)
  /\ pos \in 0 .. Len(Framing!Cells(text)) /\ reads \subseteq 0 .. pos
  /\ pos = 0 \/ pos \in reads
  /\ \E sent : /\ events = Framing!Escaped(sent)
               /\ Kept(text, pos, reads, sent)
               /\ Whole(text, pos, reads, sent)

\* Of nothing, nothing is written.
LEMMA StrippedNothing == Framing!Stripped(<<>>) = <<>>
<1>1. <<>> \in Seq(AnyCell) /\ Len(<<>>) = 0
  BY EmptySeq
<1> DEFINE F == Framing!Firsts(<<>>)
           X == Framing!Stripped(<<>>)
           item(k) == SubSeq(<<>>, Begins(<<>>, Nth(F, k)), Framing!LastOf(<<>>, Nth(F, k)))
<1>2. F \in SUBSET (1 .. Len(<<>>)) /\ X = [k \in 1 .. Cardinality(F) |-> item(k)]
  BY <1>1, StrippedIs
<1> HIDE DEF item, X, F
<1>3. 1 .. Len(<<>>) = {}
  BY <1>1
<1>4. F = {} /\ Cardinality({}) = 0
  BY <1>2, <1>3, FS_EmptySet
<1>5. 1 .. 0 = {}
  OBVIOUS
<1>6. X = [k \in {} |-> item(k)]
  BY <1>2, <1>4, <1>5
<1>7. X \in [1 .. 0 -> Nat]
  BY <1>5, <1>6
<1>8. X \in Seq(Nat) /\ Len(X) = 0
  BY <1>7, SeqDef, LenProperties
<1>. QED
  BY <1>8, EmptySeq DEF X

\* It holds before the first read.
LEMMA FrameInit == Framing!Init => FrameInv
<1> SUFFICES ASSUME Framing!Init PROVE FrameInv
  OBVIOUS
<1>1. text \in Logs /\ pos = 0 /\ events = <<>> /\ reads = {} /\ octet \in Framing!Encodings(text)
  BY DEF Framing!Init
<1>2. Len(Framing!Cells(text)) \in Nat
  BY <1>1, CellsAre
<1>3. Stretches(<<>>, text, <<>>, 0, 0)
  <2>1. <<>> \in Seq(Stretch) /\ Len(<<>>) = 0 /\ 1 .. 0 = {}
    BY EmptySeq
  <2>2. <<>> = [i \in 1 .. Len(<<>>) |-> SubSeq(Framing!Cells(text), <<>>[i].first, <<>>[i].last)]
    BY <2>1
  <2>. QED
    BY <2>1, <2>2 DEF Stretches
<1>4. Covers(text, <<>>, 0, 0)
  BY DEF Covers
<1>5. Framing!Stripped(SubSeq(Framing!Cells(text), 1, 0)) = <<>>
  <2>1. 1 \in Int /\ 0 \in Int /\ 0 < 1
    OBVIOUS
  <2>2. SubSeq(Framing!Cells(text), 1, 0) = <<>>
    BY <2>1, SubSeqEmpty
  <2>. QED
    BY <2>2, StrippedNothing
<1>6. Kept(text, 0, {}, <<>>)
  <2>1. Len(<<>>) = 0 /\ 1 .. 0 = {}
    BY EmptySeq
  <2>2. Edges(text, <<>>, {} \cup {0})
    BY <2>1 DEF Edges
  <2>. QED
    BY <1>3, <1>4, <2>2 DEF Kept
<1>7. Whole(text, 0, {}, <<>>)
  BY <1>5 DEF Whole
<1>8. Framing!Escaped(<<>>) = <<>>
  BY DEF Framing!Escaped
<1>. QED
  BY <1>1, <1>2, <1>6, <1>7, <1>8 DEF FrameInv

\* A read adds its stretches to those before.
LEMMA ReadKeeps ==
  ASSUME NEW l \in Logs, NEW a \in Nat, NEW n \in Nat, a + n <= Len(Framing!Cells(l)),
         NEW R, a = 0 \/ a \in R, NEW e, Kept(l, a, R, e)
  PROVE  Kept(l, a + n, R \cup {a + n}, e \o Framing!Stripped(SubSeq(Framing!Cells(l), a + 1, a + n)))
<1> DEFINE w == Framing!Stripped(SubSeq(Framing!Cells(l), a + 1, a + n))
<1>1. PICK sp1 : /\ Stretches(e, l, sp1, 0, a)
                 /\ Honest(l) /\ (\A q \in R : ~Inside(l, q)) =>
                      Covers(l, sp1, 0, a) /\ Edges(l, sp1, R \cup {0})
  BY DEF Kept
<1>2. PICK sp2 : /\ Stretches(w, l, sp2, a, a + n)
                 /\ Honest(l) /\ ~Inside(l, a) =>
                      Covers(l, sp2, a, a + n) /\ Edges(l, sp2, {a, a + n})
  BY ReadStretches
<1> HIDE DEF w
<1>3. ~Inside(l, 0)
  <2>1. \A k \in 1 .. Len(l) : Framing!Ends(l)[k - 1] \in Nat
    BY EndsProperties
  <2>2. \A x \in Nat : ~(0 > x)
    OBVIOUS
  <2>. QED
    BY <2>1, <2>2 DEF Inside
<1>4. 0 \in Nat /\ a + n \in Nat /\ 0 <= a /\ a <= a + n
  OBVIOUS
<1>5. /\ Stretches(e \o w, l, sp1 \o sp2, 0, a + n)
      /\ Covers(l, sp1, 0, a) /\ Covers(l, sp2, a, a + n) => Covers(l, sp1 \o sp2, 0, a + n)
  BY <1>1, <1>2, <1>4, JoinStretches
<1>6. ASSUME Honest(l), \A q \in R \cup {a + n} : ~Inside(l, q)
      PROVE  Covers(l, sp1 \o sp2, 0, a + n) /\ Edges(l, sp1 \o sp2, (R \cup {a + n}) \cup {0})
  <2>1. ~Inside(l, a) /\ \A q \in R : ~Inside(l, q)
    BY <1>3, <1>6
  <2>2. sp1 \in Seq(Stretch) /\ sp2 \in Seq(Stretch)
    BY <1>1, <1>2 DEF Stretches
  <2>3. Edges(l, sp1 \o sp2, (R \cup {0}) \cup {a, a + n})
    BY <1>1, <1>2, <1>6, <2>1, <2>2, JoinEdges
  <2>4. (R \cup {0}) \cup {a, a + n} = (R \cup {a + n}) \cup {0}
    OBVIOUS
  <2>. QED
    BY <1>1, <1>2, <1>5, <1>6, <2>1, <2>3, <2>4
<1>7. Kept(l, a + n, R \cup {a + n}, e \o w)
  BY <1>5, <1>6 DEF Kept
<1>. QED
  BY <1>7 DEF w

\* A read behind a line adds the pieces it has.
LEMMA ReadWhole ==
  ASSUME NEW l \in Logs, NEW a \in Nat, NEW n \in Nat, a + n <= Len(Framing!Cells(l)),
         NEW R, a = 0 \/ a \in R, NEW e, Whole(l, a, R, e)
  PROVE  Whole(l, a + n, R \cup {a + n}, e \o Framing!Stripped(SubSeq(Framing!Cells(l), a + 1, a + n)))
<1> SUFFICES ASSUME \A q \in R \cup {a + n} : \E k \in 1 .. Len(l) : q = Framing!Ends(l)[k]
             PROVE  e \o Framing!Stripped(SubSeq(Framing!Cells(l), a + 1, a + n))
                      = Framing!Stripped(SubSeq(Framing!Cells(l), 1, a + n))
  BY DEF Whole
<1> DEFINE C == Framing!Cells(l)
           s == SubSeq(C, 1, a + n)
           u == SubSeq(C, 1, a)
           v == SubSeq(C, a + 1, a + n)
<1>1. C \in Seq(AnyCell) /\ a + n <= Len(C) /\ Len(C) \in Nat
  BY CellsAre
<1>2. e = Framing!Stripped(u)
  BY DEF Whole
<1>3. a = 0 \/ C[a] = Framing!NL
  BY NewlineEnds
<1>e. s = SubSeq(C, 1, a + n) /\ u = SubSeq(C, 1, a) /\ v = SubSeq(C, a + 1, a + n)
  OBVIOUS
<1> HIDE DEF C, s, u, v
<1>4. ASSUME NEW m \in Nat, m <= Len(C), NEW x, x = SubSeq(C, 1, m)
      PROVE  /\ x \in Seq(AnyCell) /\ Len(x) = m
             /\ \A q \in 1 .. m : x[q] = C[q]
             /\ \A b \in 1 .. m : \A d \in b .. m : SubSeq(x, b, d) = SubSeq(C, b, d)
  <2>1. 0 \in Nat /\ 0 + m <= Len(C) /\ x = SubSeq(C, 0 + 1, 0 + m)
    BY <1>4
  <2>2. \A b \in 1 .. m : 0 + b = b /\ \A d \in b .. m : 0 + d = d
    OBVIOUS
  <2>3. x \in Seq(AnyCell)
    BY <1>1, <2>1, PartOfPart
  <2>4. Len(x) = m
    BY <1>1, <2>1, PartOfPart
  <2>5. \A q \in 1 .. m : x[q] = C[0 + q]
    BY <1>1, <2>1, PartOfPart
  <2>6. \A b \in 1 .. m : \A d \in b .. m : SubSeq(x, b, d) = SubSeq(C, 0 + b, 0 + d)
    BY <1>1, <2>1, PartOfPart
  <2>. QED
    BY <2>2, <2>3, <2>4, <2>5, <2>6
<1>5. a + n \in Nat /\ a <= Len(C) /\ a <= a + n
  BY <1>1
<1>6. /\ s \in Seq(AnyCell) /\ Len(s) = a + n
      /\ \A q \in 1 .. a + n : s[q] = C[q]
      /\ \A b \in 1 .. a + n : \A d \in b .. a + n : SubSeq(s, b, d) = SubSeq(C, b, d)
  BY <1>1, <1>4, <1>5, <1>e
<1>7. /\ u \in Seq(AnyCell) /\ Len(u) = a
      /\ \A q \in 1 .. a : u[q] = C[q]
      /\ \A b \in 1 .. a : \A d \in b .. a : SubSeq(u, b, d) = SubSeq(C, b, d)
  BY <1>4, <1>5, <1>e
<1>8. /\ v \in Seq(AnyCell) /\ Len(v) = n
      /\ \A q \in 1 .. n : a + q \in 1 .. Len(C) /\ v[q] = C[a + q]
      /\ \A b \in 1 .. n : \A d \in b .. n : SubSeq(v, b, d) = SubSeq(C, a + b, a + d)
  <2>1. v \in Seq(AnyCell) /\ Len(v) = n
    BY <1>1, <1>e, PartOfPart
  <2>2. \A q \in 1 .. n : a + q \in 1 .. Len(C) /\ v[q] = C[a + q]
    BY <1>1, <1>e, PartOfPart
  <2>3. \A b \in 1 .. n : \A d \in b .. n : SubSeq(v, b, d) = SubSeq(C, a + b, a + d)
    BY <1>1, <1>e, PartOfPart
  <2>. QED
    BY <2>1, <2>2, <2>3
<1>9. Halves(s, a, n, u, v)
  <2>1. a = 0 \/ s[a] = Framing!NL
    <3>1. a = 0 \/ a \in 1 .. a + n
      OBVIOUS
    <3>. QED
      BY <1>3, <1>6, <3>1
  <2>2. \A q \in 1 .. a : q \in 1 .. a + n
    OBVIOUS
  <2>3. \A b \in 1 .. a : b \in 1 .. a + n /\ \A d \in b .. a : d \in b .. a + n
    OBVIOUS
  <2>4. \A q \in 1 .. n : a + q \in 1 .. a + n
    OBVIOUS
  <2>5. \A b \in 1 .. n : a + b \in 1 .. a + n /\ \A d \in b .. n : a + d \in a + b .. a + n
    OBVIOUS
  <2>6. \A q \in 1 .. a : u[q] = s[q]
    BY <1>6, <1>7, <2>2
  <2>7. \A b \in 1 .. a : \A d \in b .. a : SubSeq(u, b, d) = SubSeq(s, b, d)
    BY <1>6, <1>7, <2>3
  <2>8. \A q \in 1 .. n : v[q] = s[a + q]
    BY <1>6, <1>8, <2>4
  <2>9. \A b \in 1 .. n : \A d \in b .. n : SubSeq(v, b, d) = SubSeq(s, a + b, a + d)
    <3> TAKE b \in 1 .. n
    <3> TAKE d \in b .. n
    <3>1. a + b \in 1 .. a + n /\ a + d \in a + b .. a + n
      BY <2>5
    <3>2. SubSeq(s, a + b, a + d) = SubSeq(C, a + b, a + d)
      BY <1>6, <3>1
    <3>3. SubSeq(v, b, d) = SubSeq(C, a + b, a + d)
      BY <1>8
    <3>. QED
      BY <3>2, <3>3
  <2>. QED
    BY <1>6, <1>7, <1>8, <2>1, <2>6, <2>7, <2>8, <2>9 DEF Halves
<1>10. Framing!Stripped(s) = Framing!Stripped(u) \o Framing!Stripped(v)
  BY <1>9, StrippedJoins
<1>. QED
  BY <1>2, <1>10 DEF s, u, v, C

\* One list after another is written so.
LEMMA EscapedJoins ==
  ASSUME NEW x, NEW y, NEW n \in Nat, NEW m \in Nat, NEW S, x \in Seq(S), y \in Seq(S),
         Len(x) = n, Len(y) = m
  PROVE  Framing!Escaped(x \o y) = Framing!Escaped(x) \o Framing!Escaped(y)
<1> DEFINE e(k) == Framing!jsonEscapeSSE(k)
           T == {e(k) : k \in S}
           u == Framing!Escaped(x)
           v == Framing!Escaped(y)
           z == x \o y
           w == Framing!Escaped(z)
<1>1. /\ z \in Seq(S) /\ Len(z) = n + m
      /\ \A i \in 1 .. n + m : z[i] = IF i <= n THEN x[i] ELSE y[i - n]
  BY ConcatProperties
<1>2. /\ u = [k \in 1 .. n |-> e(x[k])] /\ v = [k \in 1 .. m |-> e(y[k])]
  BY DEF Framing!Escaped
<1>3. \A k \in 1 .. n : x[k] \in S
  OBVIOUS
<1>4. \A k \in 1 .. m : y[k] \in S
  OBVIOUS
<1> HIDE DEF z
<1>5. w = [k \in 1 .. n + m |-> e(z[k])]
  <2>1. DOMAIN z = 1 .. n + m
    BY <1>1
  <2>. QED
    BY <2>1 DEF Framing!Escaped
<1> HIDE DEF e, u, v, w
<1>t. \A k \in S : e(k) \in T
  OBVIOUS
<1> HIDE DEF T
<1>6. /\ u \in Seq(T) /\ Len(u) = n /\ v \in Seq(T) /\ Len(v) = m
  <2>1. (\A k \in 1 .. n : e(x[k]) \in T) /\ \A k \in 1 .. m : e(y[k]) \in T
    BY <1>3, <1>4, <1>t
  <2>. QED
    BY <1>2, <2>1
<1>7. /\ u \o v \in Seq(T) /\ Len(u \o v) = n + m
      /\ \A i \in 1 .. n + m : (u \o v)[i] = IF i <= n THEN u[i] ELSE v[i - n]
  BY <1>6, ConcatProperties
<1>8. w \in Seq(T) /\ Len(w) = n + m
  <2>1. \A k \in 1 .. n + m : z[k] \in S
    BY <1>1
  <2>2. n + m \in Nat /\ \A k \in 1 .. n + m : e(z[k]) \in T
    BY <1>t, <2>1
  <2>. QED
    BY <1>5, <2>2
<1>9. \A i \in 1 .. n + m : w[i] = (u \o v)[i]
  <2> TAKE i \in 1 .. n + m
  <2>1. CASE i <= n
    <3>1. i \in 1 .. n
      BY <2>1
    <3>. QED
      BY <1>1, <1>2, <1>5, <1>7, <2>1, <3>1
  <2>2. CASE ~(i <= n)
    <3>1. i - n \in 1 .. m
      BY <2>2
    <3>. QED
      BY <1>1, <1>2, <1>5, <1>7, <2>2, <3>1
  <2>. QED
    BY <2>1, <2>2
<1> DEFINE t == u \o v
<1>10. t \in Seq(T) /\ Len(t) = n + m /\ \A i \in 1 .. n + m : w[i] = t[i]
  BY <1>7, <1>9
<1> HIDE DEF t
<1>11. w = t
  BY <1>8, <1>10, SeqEqual
<1>. QED
  BY <1>11 DEF t, u, v, w, z

\* Every read keeps it.
LEMMA FrameStep == FrameInv /\ [Framing!Next]_framesVars => FrameInv'
<1> SUFFICES ASSUME FrameInv, [Framing!Next]_framesVars PROVE FrameInv'
  OBVIOUS
<1>0. PICK sent : /\ events = Framing!Escaped(sent)
                  /\ Kept(text, pos, reads, sent) /\ Whole(text, pos, reads, sent)
  BY DEF FrameInv
<1>e. ASSUME octet' = octet, NEW x PROVE Framing!Escaped(x)' = Framing!Escaped(x)
  BY <1>e DEF Framing!Escaped, Framing!jsonEscapeSSE, Framing!CharOf
<1>1. CASE UNCHANGED framesVars
  <2>1. UNCHANGED <<text, octet, pos, events, reads>>
    BY <1>1 DEF framesVars
  <2>2. Framing!Escaped(sent)' = Framing!Escaped(sent)
    BY <1>e, <2>1
  <2>3. events' = Framing!Escaped(sent)'
    BY <1>0, <2>1, <2>2
  <2>. QED
    BY <1>0, <2>1, <2>3 DEF FrameInv
<1>2. CASE Framing!Read
  <2> DEFINE C == Framing!Cells(text)
  <2>1. PICK n \in 1 .. BufLen :
          /\ pos + n <= Len(C)
          /\ events' = events \o Framing!Escaped(Framing!Stripped(SubSeq(C, pos + 1, pos + n)))
          /\ pos' = pos + n /\ reads' = reads \cup {pos + n} /\ text' = text /\ octet' = octet
    BY <1>2 DEF Framing!Read
  <2>2. /\ text \in Logs /\ pos \in Nat /\ n \in Nat /\ reads \subseteq 0 .. pos
        /\ pos = 0 \/ pos \in reads
    BY ContainersAssumption DEF FrameInv
  <2>3. text \in Logs /\ Len(C) \in Nat /\ C \in Seq(AnyCell)
    BY CellsAre DEF FrameInv
  <2>c. pos + n <= Len(C) /\ C = Framing!Cells(text)
    BY <2>1
  <2> DEFINE s == SubSeq(C, pos + 1, pos + n)
             more == Framing!Stripped(s)
  <2> HIDE DEF C
  <2>4. Kept(text, pos + n, reads \cup {pos + n}, sent \o more)
    BY <1>0, <2>2, <2>3, <2>c, ReadKeeps
  <2>5. Whole(text, pos + n, reads \cup {pos + n}, sent \o more)
    BY <1>0, <2>2, <2>3, <2>c, ReadWhole
  <2>6. pos' \in 0 .. Len(C) /\ reads' \subseteq 0 .. pos' /\ pos' \in reads'
    <3>1. pos + n \in 0 .. Len(C) /\ 0 .. pos \subseteq 0 .. pos + n /\ pos + n \in 0 .. pos + n
      BY <2>2, <2>3, <2>c
    <3>. QED
      BY <2>1, <2>2, <3>1
  <2>7. Framing!Escaped(sent \o more) = Framing!Escaped(sent) \o Framing!Escaped(more)
    <3> DEFINE S == {SubSeq(C, x, y) : x \in Nat, y \in Nat}
    <3>0. ASSUME NEW e, NEW lo, NEW hi, NEW spans, Stretches(e, text, spans, lo, hi)
          PROVE  e \in Seq(S) /\ Len(e) \in Nat
      <4>1. /\ spans \in Seq(Stretch) /\ Len(spans) \in Nat
            /\ e = [i \in 1 .. Len(spans) |-> SubSeq(C, spans[i].first, spans[i].last)]
        BY <3>0 DEF Stretches, C
      <4>2. \A i \in 1 .. Len(spans) : spans[i].first \in Nat /\ spans[i].last \in Nat
        <5>1. \A i \in 1 .. Len(spans) : spans[i] \in Stretch
          BY <4>1, ElementOfSeq
        <5>. QED
          BY <5>1 DEF Stretch
      <4> DEFINE m == Len(spans)
                 item(i) == SubSeq(C, spans[i].first, spans[i].last)
      <4>s. \A x, y \in Nat : SubSeq(C, x, y) \in S
        OBVIOUS
      <4> HIDE DEF S
      <4>3. \A i \in 1 .. m : item(i) \in S
        BY <4>2, <4>s
      <4>7. e = [i \in 1 .. m |-> item(i)]
        BY <4>1, Zenon
      <4>4. m \in Nat /\ e = [i \in 1 .. m |-> item(i)] /\ \A i \in 1 .. m : item(i) \in S
        BY <4>1, <4>3, <4>7
      <4> HIDE DEF m, item
      <4>5. e \in [1 .. m -> S]
        BY <4>4
      <4>6. e \in Seq(S)
        BY <4>4, <4>5, SeqDef
      <4>. QED
        BY <4>6
    <3>1. sent \in Seq(S) /\ Len(sent) \in Nat
      BY <1>0, <3>0 DEF Kept
    <3>2. \E spans : Stretches(more, text, spans, pos, pos + n)
      BY <2>2, <2>c, ReadStretches
    <3>3. more \in Seq(S) /\ Len(more) \in Nat
      BY <3>0, <3>2
    <3> HIDE DEF S, more
    <3>. QED
      BY <3>1, <3>3, EscapedJoins
  <2>8. PICK z : z = sent \o more
    OBVIOUS
  <2>9. events' = Framing!Escaped(sent) \o Framing!Escaped(more)
    BY <1>0, <2>1
  <2>10. octet' \in Framing!Encodings(text)'
    BY <2>1 DEF FrameInv
  <2> HIDE DEF more
  <2>11. events' = Framing!Escaped(z)'
    <3>1. Framing!Escaped(z)' = Framing!Escaped(z)
      BY <1>e, <2>1
    <3>. QED
      BY <2>7, <2>8, <2>9, <3>1
  <2>12. Kept(text, pos, reads, z)' /\ Whole(text, pos, reads, z)'
    BY <2>1, <2>4, <2>5, <2>8 DEF Kept, Whole
  <2>. QED
    BY <2>1, <2>3, <2>6, <2>10, <2>11, <2>12 DEF FrameInv, C
<1>. QED
  BY <1>1, <1>2 DEF Framing!Next

\* A character tells its place.
LEMMA TextAt ==
  ASSUME NEW l \in Logs, NEW p \in 1 .. Len(Framing!Cells(l)), Framing!IsText(Framing!Cells(l)[p])
  PROVE  Framing!Cells(l)[p].at = p
<1> DEFINE E == Framing!Ends(l)
           C == Framing!Cells(l)
<1>1. PICK k \in 1 .. Len(l) : p \in E[k - 1] + 1 .. E[k] /\ C[p] = CellOf(l, k, p)
  BY CellsAre
<1>2. E[k - 1] \in Nat /\ E[k] \in Nat /\ HeaderLen \in Nat
  BY EndsProperties, ContainersAssumption
<1>3. CASE p - E[k - 1] <= HeaderLen
  <2>1. p - E[k - 1] \in 1 .. HeaderLen
    BY <1>1, <1>2, <1>3
  <2>2. C[p] \in Byte
    BY <1>1, <1>3, <2>1, HeaderCells DEF CellOf
  <2>. QED
    BY <2>2, CellsDiffer
<1>4. CASE ~(p - E[k - 1] <= HeaderLen)
  <2>1. C[p] = Framing!Text(p) \/ C[p] = Framing!NL
    BY <1>1, <1>4 DEF CellOf
  <2>. QED
    BY <2>1, CellsDiffer DEF Byte
<1>. QED
  BY <1>3, <1>4

\* The cells of what was written are cells of the log.
LEMMA CellsWritten ==
  ASSUME NEW l \in Logs, NEW hi \in 0 .. Len(Framing!Cells(l)), NEW e, NEW spans,
         Stretches(e, l, spans, 0, hi)
  PROVE  /\ DOMAIN e = 1 .. Len(spans) /\ Len(spans) \in Nat
         /\ \A i \in 1 .. Len(spans) :
              /\ spans[i].first \in 1 .. hi /\ spans[i].last \in spans[i].first .. hi
              /\ DOMAIN e[i] = 1 .. spans[i].last - spans[i].first + 1
              /\ \A a \in 1 .. spans[i].last - spans[i].first + 1 :
                   /\ (spans[i].first + a) - 1 \in spans[i].first .. spans[i].last
                   /\ e[i][a] = Framing!Cells(l)[(spans[i].first + a) - 1]
<1> DEFINE C == Framing!Cells(l)
           N == Len(spans)
<1>1. /\ spans \in Seq(Stretch) /\ N \in Nat /\ \A i \in 1 .. N : spans[i] \in Stretch
      /\ e = [i \in 1 .. N |-> SubSeq(C, spans[i].first, spans[i].last)]
      /\ \A i \in 1 .. N : 0 < spans[i].first /\ spans[i].first <= spans[i].last /\ spans[i].last <= hi
  BY DEF Stretches
<1>2. C \in Seq(AnyCell) /\ Len(C) \in Nat /\ hi \in Nat /\ hi <= Len(C)
      /\ \A q \in 1 .. Len(C) : C[q] \in AnyCell
  BY CellsAre
<1> HIDE DEF C, N
<1>3. ASSUME NEW i \in 1 .. N
      PROVE  /\ spans[i].first \in 1 .. hi /\ spans[i].last \in spans[i].first .. hi
             /\ DOMAIN e[i] = 1 .. spans[i].last - spans[i].first + 1
             /\ \A a \in 1 .. spans[i].last - spans[i].first + 1 :
                  /\ (spans[i].first + a) - 1 \in spans[i].first .. spans[i].last
                  /\ e[i][a] = C[(spans[i].first + a) - 1]
  <2> DEFINE x == spans[i].first
             y == spans[i].last
             u == SubSeq(C, x, y)
  <2>1. x \in Nat /\ y \in Nat /\ 0 < x /\ x <= y /\ y <= hi /\ e[i] = u
    BY <1>1 DEF Stretch
  <2> HIDE DEF x, y
  <2>2. \A q \in x .. y : C[q] \in AnyCell
    <3> TAKE q \in x .. y
    <3>1. q \in 1 .. Len(C)
      BY <1>2, <2>1
    <3>. QED
      BY <1>2, <3>1
  <2>3. /\ u \in Seq(AnyCell) /\ Len(u) = y - x + 1
        /\ \A a \in 1 .. y - x + 1 : u[a] = C[x + a - 1]
    <3>1. x \in Int /\ y \in Int
      BY <2>1
    <3>. QED
      BY <2>1, <2>2, <3>1, SubSeqProperties
  <2> HIDE DEF u
  <2>4. DOMAIN u = 1 .. y - x + 1
    BY <2>3
  <2>5. \A a \in 1 .. y - x + 1 : (x + a) - 1 \in x .. y
    BY <2>1
  <2>6. x \in 1 .. hi /\ y \in x .. hi
    BY <1>2, <2>1
  <2>7. DOMAIN e[i] = 1 .. y - x + 1
    BY <2>1, <2>4
  <2>8. \A a \in 1 .. y - x + 1 : (x + a) - 1 \in x .. y /\ e[i][a] = C[(x + a) - 1]
    BY <2>1, <2>3, <2>5
  <2>. QED
    BY <2>6, <2>7, <2>8 DEF x, y
<1>4. DOMAIN e = 1 .. N
  BY <1>1
<1>. QED
  BY <1>1, <1>3, <1>4 DEF C, N

\* What an encoding says: the places of the text have octets, and those before one
\* in its character are there.
LEMMA Encoded ==
  ASSUME NEW l \in Logs, octet \in Framing!Encodings(l)
  PROVE  /\ \A q : q \in DOMAIN octet <=>
                  q \in 1 .. Len(Framing!Cells(l)) /\ Framing!IsText(Framing!Cells(l)[q])
         /\ \A q \in DOMAIN octet : q \in Nat /\ octet[q] \in Nat
         /\ \A q \in DOMAIN octet : \A r \in q - octet[q] .. q : r \in Framing!CharOf(q)
         /\ \A q, r : r \in Framing!CharOf(q) =>
              /\ r \in DOMAIN octet /\ r - octet[r] = q - octet[q]
              /\ Framing!CharOf(r) = Framing!CharOf(q)
<1> DEFINE C == Framing!Cells(l)
           T == Framing!Places(C)
<1>1. DOMAIN C = 1 .. Len(C) /\ Len(C) \in Nat
  BY CellsAre
<1>2. \A q \in 1 .. Len(C) : Framing!IsText(C[q]) => C[q].at = q
  BY TextAt
<1>3. \A q : q \in T <=> q \in 1 .. Len(C) /\ Framing!IsText(C[q])
  <2>1. T = {C[j].at : j \in {i \in 1 .. Len(C) : Framing!IsText(C[i])}}
    BY <1>1 DEF Framing!Places
  <2> HIDE DEF T, C
  <2>. QED
    BY <1>2, <2>1
<1>4. /\ octet \in [T -> 0 .. MaxWidth - 1]
      /\ \A p \in T : \A i \in 0 .. octet[p] : p - i \in T /\ octet[p - i] = octet[p] - i
  BY DEF Framing!Encodings
<1>5. MaxWidth \in Nat
  BY ContainersAssumption
<1> HIDE DEF T, C
<1>6. DOMAIN octet = T /\ \A q \in T : q \in Nat /\ octet[q] \in Nat
  BY <1>3, <1>4, <1>5
<1>7. ASSUME NEW q \in T, NEW r \in q - octet[q] .. q PROVE r \in Framing!CharOf(q)
  <2>1. q \in Nat /\ octet[q] \in Nat
    BY <1>6
  <2>2. r \in Int /\ q - r \in 0 .. octet[q] /\ q - (q - r) = r
    BY <2>1
  <2>3. r \in T /\ octet[r] = octet[q] - (q - r)
    BY <1>4, <2>2
  <2>4. r - octet[r] = q - octet[q]
    BY <2>1, <2>2, <2>3
  <2>. QED
    BY <1>6, <2>3, <2>4 DEF Framing!CharOf
<1>8. ASSUME NEW q, NEW r \in Framing!CharOf(q)
      PROVE  /\ r \in DOMAIN octet /\ r - octet[r] = q - octet[q]
             /\ Framing!CharOf(r) = Framing!CharOf(q)
  BY DEF Framing!CharOf
<1>. QED
  BY <1>3, <1>6, <1>7, <1>8 DEF C

\* No character of a line has a byte outside its text: as JSON it stays what it is.
LEMMA LinesWhole ==
  ASSUME NEW l \in Logs, octet \in Framing!Encodings(l), NEW m \in 0 .. Len(l), NEW raw,
         raw = [i \in 1 .. m |-> SubSeq(Framing!Cells(l), Framing!Ends(l)[i - 1] + HeaderLen + 1,
                                       Framing!Ends(l)[i] - 1)]
  PROVE  Framing!Escaped(raw) = raw
<1> DEFINE C == Framing!Cells(l)
           E == Framing!Ends(l)
<1>1. ASSUME NEW i \in 1 .. m PROVE Framing!jsonEscapeSSE(raw[i]) = raw[i]
  <2> DEFINE b == E[i - 1]
             x == b + HeaderLen + 1
             y == E[i] - 1
             u == SubSeq(C, x, y)
  <2>1. /\ i \in 1 .. Len(l) /\ b \in Nat /\ E[i] \in Nat /\ E[i] = b + HeaderLen + l[i]
        /\ l[i] \in Nat /\ l[i] # 0 /\ HeaderLen \in Nat /\ HeaderLen >= 2
    <3>1. Len(l) \in Nat
      BY EndsProperties
    <3>2. i \in 1 .. Len(l)
      BY <3>1
    <3>3. HeaderLen \in Nat /\ HeaderLen >= 2
      <4>1. HeaderLen \in Nat /\ SizeLen \in 1 .. HeaderLen - 1
        BY ContainersAssumption
      <4>. QED
        BY <4>1
    <3>. QED
      BY <3>2, <3>3, EndsProperties
  <2>2. raw[i] = u
    OBVIOUS
  <2>3. /\ C \in Seq(AnyCell) /\ Len(C) \in Nat
        /\ \A p \in b + 1 .. E[i] : p \in 1 .. Len(C) /\ C[p] = CellOf(l, i, p)
    BY <2>1, CellsAre
  <2>4. \A p \in b + 1 .. E[i] :
          C[p] = IF p - b <= HeaderLen THEN Framing!Header(l[i])[p - b]
                 ELSE IF p < E[i] THEN Framing!Text(p) ELSE Framing!NL
    BY <2>3 DEF CellOf
  <2>o. /\ \A q : q \in DOMAIN octet <=> q \in 1 .. Len(C) /\ Framing!IsText(C[q])
        /\ \A q \in DOMAIN octet : q \in Nat /\ octet[q] \in Nat
        /\ \A q \in DOMAIN octet : \A r \in q - octet[q] .. q : r \in Framing!CharOf(q)
        /\ \A q, r : r \in Framing!CharOf(q) =>
             /\ r \in DOMAIN octet /\ r - octet[r] = q - octet[q]
             /\ Framing!CharOf(r) = Framing!CharOf(q)
    BY Encoded
  <2> DEFINE e == E[i]
             w == l[i]
  <2>5. /\ b \in Nat /\ e \in Nat /\ w \in Nat /\ w # 0 /\ e = b + HeaderLen + w
        /\ x = b + HeaderLen + 1 /\ y = e - 1 /\ HeaderLen \in Nat /\ HeaderLen >= 2
    BY <2>1
  <2>h. Framing!Header(w)[HeaderLen] \in Byte
    BY <2>1, HeaderCells
  <2> HIDE DEF b, x, y, u, e, w, C, E
  <2>6. \A p \in x .. y : /\ p \in b + 1 .. e /\ ~(p - b <= HeaderLen) /\ p < e
    BY <2>5
  <2>7. \A p \in x .. y : C[p] = Framing!Text(p) /\ p \in 1 .. Len(C)
    BY <2>3, <2>4, <2>6 DEF e
  <2>8. /\ x - 1 \in b + 1 .. e /\ (x - 1) - b <= HeaderLen /\ (x - 1) - b = HeaderLen
        /\ y + 1 \in b + 1 .. e /\ ~((y + 1) - b <= HeaderLen) /\ ~(y + 1 < e)
    BY <2>5
  <2>9. ~Framing!IsText(C[x - 1]) /\ ~Framing!IsText(C[y + 1])
    <3>1. C[x - 1] = Framing!Header(w)[HeaderLen] /\ C[y + 1] = Framing!NL
      BY <2>4, <2>8 DEF e, w
    <3>. QED
      BY <2>h, <3>1, CellsDiffer DEF Byte
  <2>10. /\ u \in Seq(AnyCell) /\ DOMAIN u = 1 .. Len(u)
         /\ \A a \in 1 .. Len(u) : (x + a) - 1 \in x .. y /\ u[a] = Framing!Text((x + a) - 1)
         /\ \A q \in x .. y : (q - x) + 1 \in 1 .. Len(u) /\ u[(q - x) + 1] = Framing!Text(q)
    <3>1. \A q \in x .. y : C[q] \in AnyCell
      <4>1. \A q \in 1 .. Len(C) : C[q] \in AnyCell
        BY <2>3
      <4>. QED
        BY <2>7, <4>1
    <3>2. x \in Int /\ y \in Int
      BY <2>5
    <3>3. /\ u \in Seq(AnyCell) /\ Len(u) = IF x <= y THEN y - x + 1 ELSE 0
          /\ \A a \in 1 .. y - x + 1 : u[a] = C[x + a - 1]
      BY <3>1, <3>2, SubSeqProperties DEF u
    <3>4. \A a \in 1 .. Len(u) : /\ a \in 1 .. y - x + 1 /\ (x + a) - 1 \in x .. y
                                /\ x + a - 1 = (x + a) - 1
      BY <3>2, <3>3
    <3>5. \A q \in x .. y : (q - x) + 1 \in 1 .. Len(u) /\ (x + ((q - x) + 1)) - 1 = q
      BY <3>2, <3>3
    <3>6. \A a \in 1 .. Len(u) : u[a] = Framing!Text((x + a) - 1)
      BY <2>7, <3>3, <3>4
    <3>7. DOMAIN u = 1 .. Len(u)
      BY <3>3
    <3> HIDE DEF u
    <3>8. \A q \in x .. y : u[(q - x) + 1] = Framing!Text(q)
      <4> TAKE q \in x .. y
      <4>1. u[(q - x) + 1] = Framing!Text((x + ((q - x) + 1)) - 1)
        BY <3>5, <3>6
      <4>. QED
        BY <3>5, <4>1
    <3>. QED
      BY <3>3, <3>4, <3>5, <3>6, <3>7, <3>8
  <2>11. ASSUME NEW p \in x .. y, NEW q \in Framing!CharOf(p) PROVE q \in Framing!Places(u)
    <3>1. Framing!IsText(C[p]) /\ p \in 1 .. Len(C)
      BY <2>7, CellsDiffer
    <3>2. p \in DOMAIN octet /\ q \in DOMAIN octet /\ q - octet[q] = p - octet[p]
          /\ Framing!CharOf(q) = Framing!CharOf(p)
      BY <2>o, <3>1
    <3>3. q \in Nat /\ octet[q] \in Nat /\ p \in Nat /\ octet[p] \in Nat /\ x \in Int /\ y \in Int
      BY <2>o, <2>5, <3>2
    <3>4. \A r : r \in p - octet[p] .. p \/ r \in q - octet[q] .. q => r \in Framing!CharOf(p)
      BY <2>o, <3>2
    <3>5. \A r \in Framing!CharOf(p) : Framing!IsText(C[r])
      BY <2>o
    <3>6. ~(q < x)
      <4> SUFFICES ASSUME q < x PROVE FALSE
        OBVIOUS
      <4>1. x - 1 \in p - octet[p] .. p
        BY <3>2, <3>3
      <4>. QED
        BY <2>9, <3>4, <3>5, <4>1
    <3>7. ~(y < q)
      <4> SUFFICES ASSUME y < q PROVE FALSE
        OBVIOUS
      <4>1. y + 1 \in q - octet[q] .. q
        BY <3>2, <3>3
      <4>. QED
        BY <2>9, <3>4, <3>5, <4>1
    <3>8. q \in x .. y
      BY <3>3, <3>6, <3>7
    <3>9. (q - x) + 1 \in 1 .. Len(u) /\ u[(q - x) + 1] = Framing!Text(q)
      BY <2>10, <3>8
    <3>10. DOMAIN u = 1 .. Len(u)
      BY <2>10
    <3>11. Framing!Text(q).at = q /\ Framing!IsText(Framing!Text(q))
      BY CellsDiffer
    <3> DEFINE a == (q - x) + 1
    <3>12. a \in DOMAIN u /\ Framing!IsText(u[a]) /\ q = u[a].at
      BY <3>9, <3>10, <3>11
    <3> HIDE DEF a
    <3>. QED
      BY <3>12 DEF Framing!Places
  <2>12. \A a \in DOMAIN u : Framing!CharOf(u[a].at) \subseteq Framing!Places(u)
    <3> TAKE a \in DOMAIN u
    <3>1. (x + a) - 1 \in x .. y /\ u[a].at = (x + a) - 1
      BY <2>10, CellsDiffer
    <3>. QED
      BY <2>11, <3>1
  <2>13. Framing!jsonEscapeSSE(u) = [a \in 1 .. Len(u) |-> u[a]]
    BY <2>10, <2>12 DEF Framing!jsonEscapeSSE
  <2>14. u = [a \in 1 .. Len(u) |-> u[a]]
    BY <2>10
  <2>. QED
    BY <2>2, <2>13, <2>14
<1>2. DOMAIN raw = 1 .. m /\ raw = [i \in 1 .. m |-> raw[i]]
  OBVIOUS
<1>3. Framing!Escaped(raw) = [i \in 1 .. m |-> Framing!jsonEscapeSSE(raw[i])]
  BY <1>2 DEF Framing!Escaped
<1>. QED
  BY <1>1, <1>2, <1>3

\* The invariant is what TextKept says.
LEMMA FrameKeeps == FrameInv => TextKept
<1> SUFFICES ASSUME FrameInv PROVE TextKept
  OBVIOUS
<1> DEFINE C == Framing!Cells(text)
           P == Framing!TextPlaces
           got == {events[x[1]][x[2]].at : x \in P}
           sent == {p \in 1 .. pos : Framing!IsText(C[p])}
<1>1. /\ text \in Logs /\ pos \in 0 .. Len(C) /\ reads \subseteq 0 .. pos
      /\ octet \in Framing!Encodings(text)
  BY DEF FrameInv
<1>0. PICK raw : /\ events = Framing!Escaped(raw)
                 /\ Kept(text, pos, reads, raw) /\ Whole(text, pos, reads, raw)
  BY DEF FrameInv
<1>2. PICK spans : /\ Stretches(raw, text, spans, 0, pos)
                   /\ Honest(text) /\ (\A q \in reads : ~Inside(text, q)) =>
                        Covers(text, spans, 0, pos) /\ Edges(text, spans, reads \cup {0})
  BY <1>0 DEF Kept
<1> DEFINE N == Len(spans)
           place(x) == (spans[x[1]].first + x[2]) - 1
<1>r. /\ DOMAIN raw = 1 .. N /\ N \in Nat
      /\ \A i \in 1 .. N :
           /\ spans[i].first \in 1 .. pos /\ spans[i].last \in spans[i].first .. pos
           /\ DOMAIN raw[i] = 1 .. spans[i].last - spans[i].first + 1
           /\ \A a \in 1 .. spans[i].last - spans[i].first + 1 :
                /\ (spans[i].first + a) - 1 \in spans[i].first .. spans[i].last
                /\ raw[i][a] = C[(spans[i].first + a) - 1]
  BY <1>1, <1>2, CellsWritten
<1> DEFINE whole(i, a) == Framing!CharOf(raw[i][a].at) \subseteq Framing!Places(raw[i])
<1>3. /\ DOMAIN events = 1 .. N
      /\ \A i \in 1 .. N :
           /\ DOMAIN events[i] = 1 .. spans[i].last - spans[i].first + 1
           /\ \A a \in 1 .. spans[i].last - spans[i].first + 1 :
                /\ Framing!IsText(events[i][a]) => events[i][a] = raw[i][a] /\ whole(i, a)
                /\ whole(i, a) => events[i][a] = raw[i][a]
  <2>1. ~Framing!IsText(Framing!Lost)
    BY DEF Framing!IsText, Framing!Lost
  <2>2. /\ DOMAIN events = 1 .. N
        /\ \A i \in 1 .. N :
             events[i] = [a \in 1 .. spans[i].last - spans[i].first + 1 |->
                            IF Framing!IsText(raw[i][a]) /\ ~whole(i, a)
                            THEN Framing!Lost ELSE raw[i][a]]
    BY <1>0, <1>r DEF Framing!Escaped, Framing!jsonEscapeSSE
  <2> HIDE DEF whole, N
  <2>. QED
    BY <2>1, <2>2
<1>4. \A i, j \in 1 .. N : i < j => spans[i].last < spans[j].first
  BY <1>2 DEF Stretches
<1>5. Len(C) \in Nat
  BY <1>1, CellsAre
<1>o. /\ \A q : q \in DOMAIN octet <=> q \in 1 .. Len(C) /\ Framing!IsText(C[q])
      /\ \A q \in DOMAIN octet : q \in Nat /\ octet[q] \in Nat
      /\ \A q \in DOMAIN octet : \A r \in q - octet[q] .. q : r \in Framing!CharOf(q)
      /\ \A q, r : r \in Framing!CharOf(q) =>
           /\ r \in DOMAIN octet /\ r - octet[r] = q - octet[q]
           /\ Framing!CharOf(r) = Framing!CharOf(q)
  BY <1>1, Encoded
<1>c. \A p \in 1 .. Len(C) : Framing!IsText(C[p]) => C[p].at = p
  BY <1>1, TextAt
<1>d. DOMAIN text = 1 .. Len(text) /\ \A k \in 1 .. Len(text) : k - 1 \in 0 .. Len(text)
  BY <1>1, EndsProperties
<1>s. Framing!TextKept <=>
        /\ got \subseteq sent
        /\ \A x, y \in P :
             (x[1] < y[1] \/ (x[1] = y[1] /\ x[2] < y[2]))
               => events[x[1]][x[2]].at < events[y[1]][y[2]].at
        /\ \A x \in P : Framing!CharOf(events[x[1]][x[2]].at) \subseteq Framing!Places(events[x[1]])
        /\ (/\ \A p \in reads : ~Framing!InHeader(p)
            /\ \A k \in DOMAIN text : ~Framing!Deceives(text[k])) =>
             \A p \in sent : p \in got \/ \E q \in reads : {q, q + 1} \subseteq Framing!CharOf(p)
  BY DEF Framing!TextKept
<1>t. \A x : x \in P <=> /\ x \in (DOMAIN events) \X (1 .. pos)
                         /\ x[2] \in DOMAIN events[x[1]] /\ Framing!IsText(events[x[1]][x[2]])
  BY DEF Framing!TextPlaces
<1> HIDE DEF C, P, N
<1>p. \A i \in 1 .. N : \A q :
        q \in Framing!Places(raw[i]) <=>
          q \in spans[i].first .. spans[i].last /\ Framing!IsText(C[q])
  <2> TAKE i \in 1 .. N
  <2> TAKE q
  <2> DEFINE f == spans[i].first
             z == spans[i].last
  <2>1. f \in 1 .. pos /\ z \in f .. pos /\ pos \in Nat /\ pos <= Len(C)
    BY <1>1, <1>r, <1>5 DEF C
  <2>2. DOMAIN raw[i] = 1 .. z - f + 1 /\ \A a \in 1 .. z - f + 1 : raw[i][a] = C[(f + a) - 1]
    BY <1>r
  <2> HIDE DEF f, z
  <2>3. \A a \in 1 .. z - f + 1 : (f + a) - 1 \in f .. z /\ (f + a) - 1 \in 1 .. Len(C)
    BY <1>5, <2>1
  <2>4. Framing!Places(raw[i]) = {raw[i][j].at : j \in {k \in 1 .. z - f + 1 : Framing!IsText(raw[i][k])}}
    BY <2>2 DEF Framing!Places
  <2>5. ASSUME q \in Framing!Places(raw[i]) PROVE q \in f .. z /\ Framing!IsText(C[q])
    <3>1. PICK j \in 1 .. z - f + 1 : Framing!IsText(raw[i][j]) /\ q = raw[i][j].at
      BY <2>4, <2>5
    <3>2. raw[i][j] = C[(f + j) - 1] /\ q = (f + j) - 1
      BY <1>c, <2>2, <2>3, <3>1
    <3>. QED
      BY <2>3, <3>1, <3>2
  <2>6. ASSUME q \in f .. z, Framing!IsText(C[q]) PROVE q \in Framing!Places(raw[i])
    <3>1. (q - f) + 1 \in 1 .. z - f + 1 /\ (f + ((q - f) + 1)) - 1 = q /\ q \in 1 .. Len(C)
      BY <1>5, <2>1, <2>6
    <3>2. raw[i][(q - f) + 1] = C[q] /\ C[q].at = q
      BY <1>c, <2>2, <2>6, <3>1
    <3>. QED
      BY <2>4, <2>6, <3>1, <3>2
  <2>. QED
    BY <2>5, <2>6 DEF f, z
<1>6. ASSUME NEW x \in P
      PROVE  /\ x[1] \in 1 .. N /\ x[2] \in Nat /\ spans[x[1]].first \in Nat
             /\ place(x) \in 1 .. pos /\ place(x) \in spans[x[1]].first .. spans[x[1]].last
             /\ Framing!IsText(C[place(x)]) /\ events[x[1]][x[2]].at = place(x)
             /\ Framing!CharOf(place(x)) \subseteq Framing!Places(raw[x[1]])
  <2>1. /\ x[1] \in 1 .. N /\ x[2] \in 1 .. spans[x[1]].last - spans[x[1]].first + 1
        /\ Framing!IsText(events[x[1]][x[2]])
    <3> DEFINE i == x[1]
               a == x[2]
    <3>1. i \in DOMAIN events /\ a \in DOMAIN events[i] /\ Framing!IsText(events[i][a])
      BY <1>t
    <3> HIDE DEF i, a
    <3>2. i \in 1 .. N /\ a \in 1 .. spans[i].last - spans[i].first + 1
      BY <1>3, <3>1
    <3>. QED
      BY <3>1, <3>2 DEF i, a
  <2>0. events[x[1]][x[2]] = raw[x[1]][x[2]] /\ whole(x[1], x[2])
    <3> HIDE DEF whole
    <3>. QED
      BY <1>3, <2>1
  <2>2. /\ spans[x[1]].first \in 1 .. pos /\ spans[x[1]].last \in spans[x[1]].first .. pos
        /\ place(x) \in spans[x[1]].first .. spans[x[1]].last /\ events[x[1]][x[2]] = C[place(x)]
    BY <1>r, <2>0, <2>1
  <2> DEFINE q == place(x)
             f == spans[x[1]].first
             z == spans[x[1]].last
  <2>3. f \in 1 .. pos /\ z \in f .. pos /\ q \in f .. z /\ pos \in 0 .. Len(C)
    BY <1>1, <2>2 DEF C
  <2> HIDE DEF q, f, z
  <2>4. q \in 1 .. pos /\ q \in 1 .. Len(C) /\ f \in Nat
    BY <1>5, <2>3
  <2>5. C[q].at = q
    BY <1>c, <2>1, <2>2, <2>4 DEF q
  <2>6. Framing!CharOf(q) \subseteq Framing!Places(raw[x[1]])
    <3>1. raw[x[1]][x[2]].at = q
      BY <2>0, <2>2, <2>5 DEF q
    <3>2. Framing!CharOf(raw[x[1]][x[2]].at) \subseteq Framing!Places(raw[x[1]])
      BY <2>0
    <3>. QED
      BY <3>1, <3>2
  <2>. QED
    BY <2>1, <2>2, <2>4, <2>5, <2>6 DEF q, f
<1>7. got \subseteq sent
  BY <1>6
<1>8. ASSUME NEW x \in P, NEW y \in P, x[1] < y[1] \/ (x[1] = y[1] /\ x[2] < y[2])
      PROVE  events[x[1]][x[2]].at < events[y[1]][y[2]].at
  <2>1. CASE x[1] < y[1]
    <3>1. spans[x[1]].last < spans[y[1]].first
      BY <1>4, <1>6, <2>1
    <3>2. /\ place(x) \in spans[x[1]].first .. spans[x[1]].last /\ place(y) \in spans[y[1]].first .. spans[y[1]].last
          /\ events[x[1]][x[2]].at = place(x) /\ events[y[1]][y[2]].at = place(y)
      BY <1>6
    <3>3. /\ place(x) \in Int /\ place(y) \in Int /\ spans[x[1]].last \in Int /\ spans[y[1]].first \in Int
      <4>1. /\ spans[x[1]].first \in 1 .. pos /\ spans[x[1]].last \in spans[x[1]].first .. pos
            /\ spans[y[1]].first \in 1 .. pos
        BY <1>r, <1>6
      <4>. QED
        BY <3>2, <4>1
    <3> HIDE DEF place
    <3>4. place(x) < place(y)
      BY <3>1, <3>2, <3>3
    <3>. QED
      BY <3>2, <3>4
  <2>2. CASE x[1] = y[1] /\ x[2] < y[2]
    <3>1. /\ x[2] \in Nat /\ y[2] \in Nat /\ spans[x[1]].first \in Nat
          /\ events[x[1]][x[2]].at = place(x) /\ events[y[1]][y[2]].at = place(y)
      BY <1>6
    <3>2. place(x) < place(y)
      BY <2>2, <3>1
    <3>. QED
      BY <3>1, <3>2
  <2>. QED
    BY <1>8, <2>1, <2>2
<1>i. ASSUME NEW i \in 1 .. N, NEW p \in spans[i].first .. spans[i].last, Framing!IsText(C[p]),
             Framing!CharOf(p) \subseteq Framing!Places(raw[i])
      PROVE  \E a \in DOMAIN events[i] : /\ a \in 1 .. pos /\ events[i][a] = C[p]
                                        /\ events[i][a].at = p
  <2> DEFINE a == (p - spans[i].first) + 1
             f == spans[i].first
             z == spans[i].last
  <2>4. f \in 1 .. pos /\ z \in f .. pos /\ pos \in Nat /\ pos <= Len(C)
    BY <1>1, <1>r, <1>5 DEF C
  <2>5. p \in Int /\ f <= p /\ p <= z /\ a = (p - f) + 1
    BY <2>4
  <2> HIDE DEF f, z, a
  <2>6. a \in 1 .. z - f + 1 /\ a \in 1 .. pos /\ (f + a) - 1 = p /\ p \in 1 .. Len(C)
    BY <1>5, <2>4, <2>5
  <2>7. raw[i][a] = C[p] /\ C[p].at = p
    BY <1>c, <1>i, <1>r, <2>6 DEF f, z
  <2>8. whole(i, a)
    BY <1>i, <2>7
  <2> HIDE DEF whole
  <2>9. a \in DOMAIN events[i] /\ events[i][a] = raw[i][a]
    BY <1>3, <2>6, <2>8 DEF f, z
  <2>. QED
    BY <2>6, <2>7, <2>9
<1>w. ASSUME NEW x \in P, NEW q \in Framing!CharOf(events[x[1]][x[2]].at)
      PROVE  q \in Framing!Places(events[x[1]])
  <2> DEFINE i == x[1]
             p == place(x)
  <2>1. i \in 1 .. N /\ events[i][x[2]].at = p /\ Framing!CharOf(p) \subseteq Framing!Places(raw[i])
    BY <1>6
  <2> HIDE DEF i, p
  <2>2. q \in Framing!CharOf(p) /\ q \in Framing!Places(raw[i])
    BY <1>w, <2>1 DEF i
  <2>3. q \in spans[i].first .. spans[i].last /\ Framing!IsText(C[q])
    BY <1>p, <2>1, <2>2
  <2>4. Framing!CharOf(q) = Framing!CharOf(p)
    BY <1>o, <2>2
  <2>5. PICK a \in DOMAIN events[i] : events[i][a] = C[q] /\ events[i][a].at = q
    BY <1>i, <2>1, <2>3, <2>4
  <2>6. q \in Framing!Places(events[i])
    BY <2>3, <2>5 DEF Framing!Places
  <2>. QED
    BY <2>6 DEF i
<1>9. ASSUME \A p \in reads : ~Framing!InHeader(p),
             \A k \in DOMAIN text : ~Framing!Deceives(text[k]),
             NEW p \in sent
      PROVE  p \in got \/ \E q \in reads : {q, q + 1} \subseteq Framing!CharOf(p)
  <2>1. Honest(text) /\ \A q \in reads : ~Inside(text, q)
    BY <1>9, <1>d DEF Honest, Inside, Framing!InHeader, Framing!Start
  <2>2. p \in 0 + 1 .. pos /\ Framing!IsText(C[p]) /\ p \in 1 .. Len(C)
    BY <1>1, <1>5 DEF C
  <2>3. PICK i \in 1 .. N : spans[i].first <= p /\ p <= spans[i].last
    BY <1>2, <2>1, <2>2 DEF Covers, C, N
  <2> DEFINE f == spans[i].first
             z == spans[i].last
  <2>4. f \in 1 .. pos /\ z \in f .. pos /\ pos \in Nat /\ pos <= Len(C) /\ f \in Nat /\ z \in Nat
    BY <1>1, <1>r, <1>5 DEF C
  <2>5. f <= p /\ p <= z /\ p \in f .. z
    BY <2>3, <2>2, <2>4
  <2>e. /\ f - 1 \in reads \cup {0} \/ ~Framing!IsText(C[f - 1])
        /\ z \in reads \cup {0} \/ ~Framing!IsText(C[z + 1])
    BY <1>2, <2>1 DEF Edges, C, N
  <2>6. CASE Framing!CharOf(p) \subseteq Framing!Places(raw[i])
    <3>1. PICK a \in DOMAIN events[i] : a \in 1 .. pos /\ events[i][a] = C[p] /\ events[i][a].at = p
      BY <1>i, <2>2, <2>5, <2>6
    <3> DEFINE x == <<i, a>>
    <3>2. x \in (DOMAIN events) \X (1 .. pos) /\ x[1] = i /\ x[2] = a
      BY <1>3, <3>1
    <3> HIDE DEF x
    <3>3. x \in P
      BY <1>t, <2>2, <3>1, <3>2
    <3>4. p = events[x[1]][x[2]].at
      BY <3>1, <3>2
    <3>. QED
      BY <3>3, <3>4
  <2>7. CASE ~(Framing!CharOf(p) \subseteq Framing!Places(raw[i]))
    <3>1. PICK q \in Framing!CharOf(p) : q \notin Framing!Places(raw[i])
      BY <2>7
    <3>2. /\ p \in DOMAIN octet /\ q \in DOMAIN octet /\ q - octet[q] = p - octet[p]
          /\ Framing!CharOf(q) = Framing!CharOf(p)
      BY <1>o, <2>2, <3>1
    <3>3. q \in Nat /\ octet[q] \in Nat /\ p \in Nat /\ octet[p] \in Nat
      BY <1>o, <3>2
    <3>4. q \notin f .. z
      BY <1>o, <1>p, <3>1, <3>2
    <3>5. \A r : r \in p - octet[p] .. p \/ r \in q - octet[q] .. q => r \in Framing!CharOf(p)
      BY <1>o, <3>2
    <3>t. \A r \in Framing!CharOf(p) : r \in 1 .. Len(C) /\ Framing!IsText(C[r])
      BY <1>o
    <3> HIDE DEF f, z
    <3>6. CASE q < f
      <4>1. f \in p - octet[p] .. p /\ f - 1 \in p - octet[p] .. p /\ (f - 1) + 1 = f
        BY <2>4, <2>5, <3>2, <3>3, <3>6
      <4>2. f \in Framing!CharOf(p) /\ f - 1 \in Framing!CharOf(p)
        BY <3>5, <4>1
      <4>3. f - 1 \in reads
        <5>1. f - 1 \in 1 .. Len(C) /\ Framing!IsText(C[f - 1])
          BY <3>t, <4>2
        <5>. QED
          BY <2>e, <5>1
      <4>. QED
        BY <4>1, <4>2, <4>3
    <3>7. CASE ~(q < f)
      <4>1. z < q
        BY <2>4, <3>3, <3>4, <3>7
      <4>2. z \in q - octet[q] .. q /\ z + 1 \in q - octet[q] .. q
        BY <2>4, <2>5, <3>2, <3>3, <4>1
      <4>3. z \in Framing!CharOf(p) /\ z + 1 \in Framing!CharOf(p)
        BY <3>5, <4>2
      <4>4. z \in reads
        <5>1. z \in 1 .. Len(C) /\ Framing!IsText(C[z + 1])
          BY <3>t, <4>3
        <5>. QED
          BY <2>e, <5>1
      <4>. QED
        BY <4>3, <4>4
    <3>. QED
      BY <3>6, <3>7
  <2>. QED
    BY <2>6, <2>7
<1>10. Framing!TextKept
  <2>1. \A x \in P : Framing!CharOf(events[x[1]][x[2]].at) \subseteq Framing!Places(events[x[1]])
    BY <1>w
  <2>. QED
    BY <1>7, <1>8, <1>9, <1>s, <2>1
<1>11. ASSUME \A p \in reads : \E k \in DOMAIN text : p = Framing!End(k)
       PROVE  raw = Framing!Stripped(SubSeq(C, 1, pos))
  <2>1. \A q \in reads : \E k \in 1 .. Len(text) : q = Framing!Ends(text)[k]
    BY <1>11, <1>d DEF Framing!End
  <2>. QED
    BY <1>0, <2>1 DEF Whole, C
<1>12. ASSUME \A p \in reads : \E k \in DOMAIN text : p = Framing!End(k),
              \A k \in DOMAIN text :
                text[k] # 1 /\ \A i \in 1 .. HeaderLen : Framing!Header(text[k])[i] # Framing!NL,
              NEW k \in 0 .. Len(text), pos = Framing!End(k)
       PROVE  events = [i \in 1 .. k |-> SubSeq(C, Framing!Start(i) + HeaderLen + 1, Framing!End(i) - 1)]
  <2>1. FirstLines(text, k, SubSeq(C, 1, pos))
    BY <1>12, <1>d DEF FirstLines, Plain, Framing!End, C
  <2>2. raw = [i \in 1 .. k |-> SubSeq(C, Framing!Start(i) + HeaderLen + 1, Framing!End(i) - 1)]
    BY <1>1, <1>11, <1>12, <2>1, LinesAre DEF Framing!Start, Framing!End, C
  <2>3. Framing!Escaped(raw) = raw
    BY <1>1, <1>12, <2>2, LinesWhole DEF Framing!Start, Framing!End, C
  <2>4. events = raw
    BY <1>0, <2>3
  <2>. QED
    BY <2>2, <2>4
<1>13. Framing!AgreesWithBatch
  BY <1>0, <1>11, <1>12 DEF Framing!AgreesWithBatch, C
<1>14. Framing!TypeOK
  BY <1>1 DEF Framing!TypeOK, C
<1>. QED
  BY <1>10, <1>13, <1>14 DEF TextKept

-----------------------------------------------------------------------------
(* The whole. *)

AllInv == ListInv /\ ListBounded /\ StatsInv /\ LogInv /\ FrameInv

\* The four inductive invariants hold at the start.
LEMMA AllInit == Init => AllInv
<1>. SUFFICES ASSUME Init PROVE AllInv
  OBVIOUS
<1>1. FiguresSensible /\ ViewerSensible /\ MaxChanges \in Nat /\ MaxFaults \in Nat
  BY ContainersAssumption DEF FiguresSensible, ViewerSensible
<1>2. List!Init /\ Figures!Init /\ Viewer!Init /\ Framing!Init
  BY DEF Init
<1>3. ListBounded
  <2>1. 1 \in 1 .. MaxChanges + 1 /\ 0 \in 0 .. MaxFaults
    BY <1>1
  <2>. QED
    BY <1>1, <1>2, <2>1 DEF ListBounded, List!Init
<1>. QED
  BY <1>1, <1>2, <1>3, ListInit, StatsInit, LogInit, FrameInit DEF AllInv

\* One component moves at a time: a step is one of each or leaves it alone.
LEMMA EachSteps ==
  [Next]_vars => /\ [List!Next]_pollsVars /\ [Figures!Next]_statsVars /\ [Viewer!Next]_logsVars
                 /\ [Framing!Next]_framesVars
BY DEF Next, vars

\* Every step keeps the four inductive invariants.
LEMMA AllStep == AllInv /\ [Next]_vars => AllInv'
BY EachSteps, ListStep, ListBoundedStep, StatsStep, LogStep, FrameStep DEF AllInv

\* The four inductive invariants give the properties.
LEMMA AllFacts ==
  AllInv => RowsHonest /\ LinesFaithful /\ TextKept
<1>1. AllInv => List!TypeOK /\ List!ListComplete
  BY ListFacts DEF AllInv
<1>2. AllInv => Figures!TypeOK /\ Figures!PercentHonest
  BY DEF AllInv, StatsInv, RowsInv, Figures!PercentHonest
<1>3. AllInv => Viewer!TypeOK /\ Viewer!LinesFaithful /\ Viewer!BadgeHonest /\ Viewer!EndComplete
  BY LogFaithful DEF AllInv, LogInv
<1>4. AllInv => TextKept
  BY FrameKeeps DEF AllInv
<1>. QED
  BY <1>1, <1>2, <1>3, <1>4 DEF RowsHonest, LinesFaithful

\* The list has a row for every container that ran at one moment, also when
\* some disappear while it is made or polls overtake each other, and says that
\* none runs only if none did; a row's percentage is no more than all the time
\* that passed unless its container was restarted between the two samples.
\* monitor.go:39-77, 80-140, useContainers.ts:9-27.
THEOREM RowsAreHonest == Spec => []RowsHonest
<1>1. AllInv => RowsHonest
  BY AllFacts
<1>. QED
  BY <1>1, AllInit, AllStep, PTL DEF Spec

\* The viewer shows the last lines of the container named above them, in order,
\* without a gap or a line of another container; its badge tells whether the
\* stream of that container is open; and when that ended in order nothing is
\* missing: however the user changes tab and container, wherever the network
\* cuts the events, and whatever requests fail.  useLogStream.ts, router.go.
THEOREM ViewerIsFaithful == Spec => []LinesFaithful
<1>1. AllInv => LinesFaithful
  BY AllFacts
<1>. QED
  BY <1>1, AllInit, AllStep, PTL DEF Spec

\* However the reads cut the log, the bytes of its text come in their order and each
\* once, and a character of several comes whole, in one event, or not at all; where no
\* read ends inside a header and no header has a newline before a low byte, no
\* character is lost but those that a read cuts; and where reads end with lines, the
\* events are what the batch handler gives, converted, which is the text of the lines:
\* for a log of any lines and any encoding, and a header of any length.
\* router.go:196-207, 239-264.
THEOREM TextIsKept == Spec => []TextKept
<1>1. AllInv => TextKept
  BY AllFacts
<1>. QED
  BY <1>1, AllInit, AllStep, PTL DEF Spec

\* The list goes back to an older one only by a poll that was still under way
\* when the newer one was shown: useContainers.ts:9-27.
THEOREM OnlyOvertakenRegress == Spec => NoRegress
<1>1. ASSUME ListInv, [List!Next]_pollsVars, List!Regress PROVE List!Overtaken
  <2>1. shown.at \in Nat /\ \A p \in Polls : polls[p].listed.at \in Nat
    BY <1>1 DEF ListInv, Shape, Request, Listing
  <2>2. PICK p \in Polls : List!Resolve(p)
    <3>1. ~(shown' = shown)
      BY <1>1, <2>1 DEF List!Regress
    <3>. QED
      BY <1>1, <3>1 DEF List!Next, pollsVars, List!TogglePin, List!Change, List!Poll, List!List,
                        List!Inspect, List!Fails
  <2>3. polls[p].phase = "listed" /\ shown' = polls[p].listed
    BY <2>2 DEF List!Resolve
  <2>4. polls[p].overtaken
    BY <1>1, <2>1, <2>3 DEF ListInv, Newer, List!Regress
  <2>. QED
    BY <2>3, <2>4 DEF List!Overtaken
<1>2. AllInv /\ [Next]_vars => [List!Regress => List!Overtaken]_(List!vars)
  BY <1>1, EachSteps DEF AllInv
<1>. QED
  BY <1>2, AllInit, AllStep, PTL DEF Spec, NoRegress, List!NoRegress
=============================================================================
