-------------------------------- MODULE Host --------------------------------
(***************************************************************************)
(* The host metrics: the collector and the history of its samples.  They   *)
(* share no state, so that in a behaviour only the one named by part       *)
(* moves.  The history comes twice, on the same variables: as the ring     *)
(* that Run records into while requests read, and as a window, a bigger    *)
(* ring that is already filled and answers requests.                       *)
(***************************************************************************)
EXTENDS Collector, Sequences

CONSTANTS
  RingRetain, RingLen, RingQueries, RingValues,   \* MetricsHistory's Retain, ...
  RingTime, RingRecords, RingBacks,               \* its bounds
  WindowLen, WindowTime, WindowQueries            \* samples, times and requests

ASSUME HostAssumption ==
  /\ RingRetain \in Nat /\ RingLen \in Nat \ {0} /\ RingValues \subseteq Nat
  /\ RingQueries \subseteq [dur : Int, points : Int]
  /\ RingTime \in Nat /\ RingRecords \in Nat /\ RingBacks \in Nat
  /\ WindowLen \in Nat /\ WindowTime \in Nat
  /\ WindowQueries \subseteq [dur : Int, points : Int]

VARIABLES part, clock, latestNow, backs, samples, stamped, recorded, asked, reply

historyVars == <<clock, latestNow, backs, samples, stamped, recorded, asked, reply>>
allVars == <<part, vars, historyVars>>

Ring == INSTANCE MetricsHistory WITH
  now <- clock, Retain <- RingRetain, MaxLen <- RingLen, Queries <- RingQueries,
  Values <- RingValues, MaxTime <- RingTime, MaxRecords <- RingRecords, MaxBack <- RingBacks

\* Requests for the window of a filled ring.
WindowNext == (\E q \in WindowQueries : Ring!RangeBegins(q)) \/ Ring!RangeReads

\* A component that does not move rests in one of its initial states.
HostInit ==
  /\ \/ part \in {"collector", "ring"} /\ Ring!Init
     \/ part = "window" /\ Ring!Filled(WindowLen, WindowTime)
  /\ Init
  /\ part # "collector" => counter = 0

HostNext ==
  /\ UNCHANGED part
  /\ \/ part = "collector" /\ Next /\ UNCHANGED historyVars
     \/ part = "ring" /\ Ring!Next /\ UNCHANGED vars
     \/ part = "window" /\ WindowNext /\ UNCHANGED vars

HostSpec == HostInit /\ [][HostNext]_allVars

-----------------------------------------------------------------------------
\* The ring is the newest part of what was recorded, in order of time until the
\* clock is set back.  history.go:54-72.
RingKept == part = "ring" => Ring!TypeOK /\ Ring!KeepsRecent /\ Ring!RingOrdered

\* Until the clock is set back, a Record leaves no sample older than the
\* retention window.  history.go:54-67.
ForgetsOld == Ring!ForgetsOld

\* Averaging loses and invents nothing, even if the clock was set back.
\* history.go:98-150.
ReplyConserves == Ring!ReplyConserves

\* Until the clock is set back, the reply is that of the reference definition,
\* in chronological order.  history.go:74-75, 98-150.
ReplyIsReference == backs = 0 => Ring!ReplyIsReference /\ Ring!ReplyChronological

\* Until the clock is set back, the reply has at most two buckets for each point
\* asked for.  history.go:98-108.
ReplyBounded == backs = 0 => Ring!ReplyBounded
=============================================================================
