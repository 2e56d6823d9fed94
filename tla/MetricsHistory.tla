--------------------------- MODULE MetricsHistory ---------------------------
(***************************************************************************)
(* internal/host/history.go: the ring of samples behind the charts, fed by *)
(* the one goroutine of Collector.Run and read by concurrent requests for  *)
(* /api/metrics/history.  Times are wall-clock milliseconds: an            *)
(* administrator or NTP may set the clock back.                            *)
(***************************************************************************)
EXTENDS Samples

CONSTANTS
  Retain,      \* retention window (24 hours in the code), positive
  MaxLen,      \* hard cap on the ring (50000), positive
  Queries,     \* records [dur, points]: what requests may ask for
  Values,      \* values a sample may carry
  MaxTime,     \* bound: the latest clock reading
  MaxRecords,  \* bound: samples recorded in one behaviour
  MaxBack      \* bound: times the clock is set back

VARIABLES
  now,       \* the wall clock
  latestNow, \* history: the latest the clock has been
  backs,     \* history: times the clock was set back
  samples,   \* History.samples
  stamped,   \* the Metrics Collect returned to Run, not yet recorded: a
             \* sequence of at most one sample
  recorded,  \* history: every sample Record was given
  asked,     \* Range calls that have computed their cutoff: [cutoff, points]
  reply      \* the last Range call: what it copied, asked for and returned

vars == <<now, latestNow, backs, samples, stamped, recorded, asked, reply>>

Sample == [t : Int, v : Values]
NoReply == [src |-> <<>>, points |-> 1, out |-> <<>>]

Init ==
  /\ now = 0 /\ latestNow = 0 /\ backs = 0
  /\ samples = <<>> /\ stamped = <<>> /\ recorded = <<>>
  /\ asked = {} /\ reply = NoReply

\* A ring that Run has built while the clock went forwards to last: any of at most
\* len samples, the i-th carrying the value i.
Filled(len, last) ==
  /\ now = last /\ latestNow = last /\ backs = 0
  /\ \E n \in 0 .. len : \E ts \in [1 .. n -> 0 .. last] :
       /\ \A i \in 1 .. n - 1 : ts[i] <= ts[i + 1]
       /\ samples = [i \in 1 .. n |-> [t |-> ts[i], v |-> i]]
  /\ recorded = samples /\ stamped = <<>>
  /\ asked = {} /\ reply = NoReply

ClockAdvances ==
  /\ now < MaxTime
  /\ now' = now + 1
  /\ latestNow' = Max({latestNow, now + 1})
  /\ UNCHANGED <<backs, samples, stamped, recorded, asked, reply>>

ClockSetBack ==
  /\ backs < MaxBack
  /\ \E t \in 0 .. now - 1 : now' = t
  /\ backs' = backs + 1
  /\ UNCHANGED <<latestNow, samples, stamped, recorded, asked, reply>>

-----------------------------------------------------------------------------
(* Writing: Collector.Run *)

\* Run's tick: Collect returns a snapshot stamped with the clock.
Collect(v) ==
  /\ stamped = <<>>
  /\ Len(recorded) < MaxRecords
  /\ stamped' = <<[t |-> now, v |-> v]>>
  /\ UNCHANGED <<now, latestNow, backs, samples, recorded, asked, reply>>

\* History.Record, under the write lock.
Record ==
  /\ stamped # <<>>
  /\ samples' = Cap(DropOld(samples \o stamped, now - Retain), MaxLen)
  /\ recorded' = recorded \o stamped
  /\ stamped' = <<>>
  /\ UNCHANGED <<now, latestNow, backs, asked, reply>>

-----------------------------------------------------------------------------
(* Reading: Range *)

\* Range reads the clock before it takes the read lock.
RangeBegins(q) ==
  /\ asked = {}
  /\ asked' = {[cutoff |-> now - q.dur, points |-> q.points]}
  /\ UNCHANGED <<now, latestNow, backs, samples, stamped, recorded, reply>>

\* The copy of the window under the read lock and the bucketing of the copy.
RangeReads ==
  /\ \E q \in asked :
       LET src == Window(samples, q.cutoff)
       IN  /\ reply' = [src |-> src, points |-> Max({1, q.points}),
                        out |-> Downsample(src, q.points)]
           /\ asked' = asked \ {q}
  /\ UNCHANGED <<now, latestNow, backs, samples, stamped, recorded>>

Next ==
  \/ ClockAdvances \/ ClockSetBack
  \/ \E v \in Values : Collect(v)
  \/ Record
  \/ \E q \in Queries : RangeBegins(q)
  \/ RangeReads

Spec == Init /\ [][Next]_vars

-----------------------------------------------------------------------------

Bucket == [t : Int, sum : Nat, n : Nat \ {0}]

TypeOK ==
  /\ now \in 0..MaxTime /\ latestNow \in now..MaxTime /\ backs \in 0..MaxBack
  /\ samples \in Seq(Sample) /\ Len(samples) <= MaxLen
  /\ stamped \in Seq(Sample) /\ Len(stamped) <= 1
  /\ recorded \in Seq(Sample) /\ Len(recorded) + Len(stamped) <= MaxRecords
  /\ asked \in SUBSET [cutoff : Int, points : Int]
  /\ reply.src \in Seq(Sample) /\ reply.points \in Nat \ {0}
  /\ reply.out \in Seq(Bucket)

\* The ring is the newest part of what was recorded, and a sample is missing
\* only because it was older than the retention window or because MaxLen newer
\* ones follow it, even if the clock was set back.  history.go:54-72.
KeepsRecent ==
  LET lost == Len(recorded) - Len(samples)
  IN  /\ lost >= 0
      /\ samples = SubSeq(recorded, lost + 1, Len(recorded))
      /\ \A i \in 1..lost : \/ recorded[i].t < latestNow - Retain
                            \/ Len(recorded) - i >= MaxLen

\* While the clock never runs backwards, the ring is time-ordered: Range takes
\* its first and last sample for the ends of the window.  history.go:19-20, 98-108.
RingOrdered ==
  backs = 0 => \A i, j \in DOMAIN samples : i < j => samples[i].t <= samples[j].t

\* While the clock never runs backwards, a Record leaves no sample that is older
\* than the retention window, however long the gap since the last one was and
\* however many samples it outdates at once.  history.go:54-67.
ForgetsOld ==
  [][Record /\ backs = 0 => \A i \in DOMAIN samples' : samples'[i].t >= now - Retain]_vars

Count(out) == SumList([i \in DOMAIN out |-> out[i].n])
Total(out) == SumList([i \in DOMAIN out |-> out[i].sum])

\* Averaging loses and invents nothing: every sample of the window is in one
\* bucket, even if the clock was set back, unless all of the window appears to
\* lie in one instant, when the newest sample stands for it.  history.go:98-150.
ReplyConserves ==
  LET src == reply.src
      raw == [i \in DOMAIN src |-> Raw(src[i])]
  IN  \/ /\ Count(reply.out) = Len(src)
         /\ Total(reply.out) = Total(raw)
      \/ /\ Len(src) > reply.points
         /\ Last(src).t <= Head(src).t
         /\ reply.out = <<Last(raw)>>

\* Reference: the window cut into equal slices from its first sample on, each
\* slice that holds samples giving their average, in order of time.
AverageOf(s) == [t   |-> SumList([i \in DOMAIN s |-> s[i].t]) \div Len(s),
                 sum |-> SumList([i \in DOMAIN s |-> s[i].v]),
                 n   |-> Len(s)]

Reference(src, dur) ==
  LET slice == [i \in DOMAIN src |-> (src[i].t - src[1].t) \div dur]
      used  == {slice[i] : i \in DOMAIN src}
      SliceOf(k) == At(src, {i \in DOMAIN src : slice[i] = k})
  IN  [k \in 1 .. Cardinality(used) |-> AverageOf(SliceOf(Nth(used, k)))]

\* While the clock never runs backwards, Range returns the reference's buckets.
ReplyIsReference ==
  LET src  == reply.src
      span == Last(src).t - Head(src).t
  IN  (Len(src) > reply.points /\ span > 0) =>
        reply.out = Reference(src, BucketDur(span, reply.points))

\* Buckets come back in chronological order (history.go:75), strictly so when
\* they are averages.
ReplyChronological ==
  \A i, j \in DOMAIN reply.out : i < j =>
    IF Len(reply.src) > reply.points THEN reply.out[i].t < reply.out[j].t
                                     ELSE reply.out[i].t <= reply.out[j].t

\* What the code does guarantee on the size: at most two buckets per point
\* asked for, one more bucket than points when the window is long enough.
ReplyBounded ==
  LET p == reply.points
      span == Last(reply.src).t - Head(reply.src).t
  IN  /\ Len(reply.out) <= 2 * p
      /\ (Len(reply.src) > p /\ span >= p * p) => Len(reply.out) <= p + 1

\* What the comment on Range promises (history.go:74-75).
AtMostMaxPoints == Len(reply.out) <= reply.points
=============================================================================
