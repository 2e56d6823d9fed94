---------------------------- MODULE MetricsChart ----------------------------
(***************************************************************************)
(* hooks/useMetricsHistory.ts with the view that mounts it: the points of  *)
(* the metrics charts, loaded by range from /api/metrics/history, polled,  *)
(* and extended by the live readings of the socket.  Points carry a time:  *)
(* loaded ones that of the server's clock, live ones the browser's.  The   *)
(* server's may differ and be set, back too; the browser's only advances,  *)
(* and the properties take it for the true time.  The server has a sample  *)
(* per tick since it started.  The polls are not tied to the clock: an     *)
(* answer may take any time.  The values of samples and points are left    *)
(* out.                                                                    *)
(***************************************************************************)
EXTENDS Samples

CONSTANTS
  Ranges,      \* what the range selector offers
  FirstRange,  \* the range of a view just opened
  RANGE_MS,    \* [Ranges -> Nat]: the width of each, in ticks
  MaxPoints,   \* [Ranges -> Nat \ {0}]: the points asked of the server for each
  MinGap,      \* ticks a live reading must be away from the last point
  Skews,       \* what the server's clock may say when the browser's says 0
  Jumps,       \* what it may be set by
  Retain,      \* ticks the server keeps a sample (24 hours)
  MaxLen,      \* samples it keeps at most (50000)
  MaxTime,     \* bound: the last reading of the browser's clock
  MaxLoads,    \* bound: requests under way at a time
  MaxFaults    \* bound: failed requests, restarts of the server, jumps of its clock

VARIABLES
  now,         \* Date.now()
  server,      \* the server's clock
  samples,     \* History.samples
  mounted,     \* a tab with the charts is shown
  range,       \* the selected range
  points,      \* the points held: [t, live]
  connected,   \* the hook's argument: the state of the socket
  loads,       \* requests under way
  shown,       \* history: the answer the points came from, if any
  faults

vars == <<now, server, samples, mounted, range, points, connected, loads, shown, faults>>

NoAnswer == [some |-> FALSE, at |-> 0, when |-> 0, ring |-> <<>>]

\* One load(): the range in its URL; the closure's cancelled flag; the answer,
\* if there is one: when it was given by the clock of the server and by the
\* browser's, and the samples there were; whether another was shown meanwhile.
Load(r) == [range |-> r, cancelled |-> FALSE, answer |-> NoAnswer, overtaken |-> FALSE]

\* Mutant: the clean-up forgets to cancel.
CancelledNot(ls) == ls

\* The clean-up of the effect.
Cancelled(ls) == {[l EXCEPT !.cancelled = TRUE] : l \in ls}

Sampled(t) == [t |-> t, v |-> 0]

\* The part of an answer's ring that Range reads for r, in the ring's order.
Asked(r, a) == Window(a.ring, a.at - RANGE_MS[r])

\* The answer as it comes, averaged if it has too many samples.
Mapped(r, a) ==
  LET out == Downsample(Asked(r, a), MaxPoints[r])
  IN  [i \in DOMAIN out |-> [t |-> out[i].t, live |-> FALSE]]

\* The effect on the five values and connected: nothing while disconnected, or
\* when the last point is recent or in the future.
Extended(ps, c) ==
  IF ~c \/ (ps # <<>> /\ now - ps[Len(ps)].t < MinGap) THEN ps
  ELSE Append(ps, [t |-> now, live |-> TRUE])

cutoff == now - RANGE_MS[range]
visible == Filter(points, LAMBDA p : p.t >= cutoff)

Init ==
  /\ now = 0 /\ server \in Skews
  /\ samples = [i \in 1 .. 3 |-> Sampled(server - 3 + i)]
  /\ mounted = TRUE /\ range = FirstRange /\ points = <<>> /\ connected = FALSE
  /\ loads = {Load(FirstRange)}
  /\ shown = NoAnswer /\ faults = 0

-----------------------------------------------------------------------------
\* Time passes, and Collector.Run records a sample.
Tick ==
  /\ now < MaxTime
  /\ now' = now + 1 /\ server' = server + 1
  /\ samples' = Cap(DropOld(Append(samples, Sampled(server')), server' - Retain), MaxLen)
  /\ UNCHANGED <<mounted, range, points, connected, loads, shown, faults>>

ServerRestarts ==
  /\ faults < MaxFaults
  /\ faults' = faults + 1 /\ samples' = <<>>
  /\ UNCHANGED <<now, server, mounted, range, points, connected, loads, shown>>

\* An administrator or NTP sets the server's clock.
ServerClockSet ==
  /\ faults < MaxFaults
  /\ faults' = faults + 1 /\ \E d \in Jumps : server' = server + d
  /\ UNCHANGED <<now, samples, mounted, range, points, connected, loads, shown>>

\* The props of the hook change: the socket comes or goes, or a frame brings
\* other values.
PropsChange ==
  /\ connected' \in {TRUE, ~connected}
  /\ points' = IF mounted THEN Extended(points, connected') ELSE points
  /\ UNCHANGED <<now, server, samples, mounted, range, loads, shown, faults>>

\* setInterval(load, everyMs)
Poll ==
  /\ mounted /\ Cardinality(loads) < MaxLoads
  /\ loads' = loads \cup {Load(range)}
  /\ UNCHANGED <<now, server, samples, mounted, range, points, connected, shown, faults>>

\* The handler of the server reads its clock and its history, at one moment: what
\* may happen between the two is in MetricsHistory.
Answer(l) ==
  /\ ~l.answer.some
  /\ loads' = (loads \ {l}) \cup
       {[l EXCEPT !.answer = [some |-> TRUE, at |-> server, when |-> now, ring |-> samples]]}
  /\ UNCHANGED <<now, server, samples, mounted, range, points, connected, shown, faults>>

\* !res.ok, or fetch or json() throws: keep what there is.
LoadFails(l) ==
  /\ faults < MaxFaults
  /\ faults' = faults + 1 /\ loads' = loads \ {l}
  /\ UNCHANGED <<now, server, samples, mounted, range, points, connected, shown>>

\* json() resolves, and the closure looks at its flag.
Arrives(l) ==
  /\ l.answer.some
  /\ \/ l.cancelled /\ loads' = loads \ {l} /\ UNCHANGED shown
     \/ /\ ~l.cancelled /\ shown' = l.answer
        /\ loads' = {[m EXCEPT !.overtaken = TRUE] : m \in loads \ {l}}
  /\ UNCHANGED <<now, server, samples, mounted, range, connected, faults>>

\* Nothing if the effect was cleaned up, else the answer replaces every point,
\* live ones too.
Resolve(l) ==
  Arrives(l) /\ points' = IF l.cancelled THEN points ELSE Mapped(l.range, l.answer)

\* RangeSelector: the clean-up of the old effect and the first load of the new
\* one; the old points stay until it is answered.
SetRange(r) ==
  /\ mounted /\ r # range
  /\ range' = r
  /\ Cardinality(loads) < MaxLoads
  /\ loads' = Cancelled(loads) \cup {Load(r)}
  /\ shown' = [shown EXCEPT !.some = FALSE]
  /\ UNCHANGED <<now, server, samples, mounted, points, connected, faults>>

\* Another tab: the view is unmounted with its state.
Leave ==
  /\ mounted
  /\ mounted' = FALSE /\ points' = <<>> /\ range' = FirstRange
  /\ shown' = NoAnswer /\ loads' = Cancelled(loads)
  /\ UNCHANGED <<now, server, samples, connected, faults>>

Enter ==
  /\ ~mounted /\ Cardinality(loads) < MaxLoads
  /\ mounted' = TRUE
  /\ loads' = loads \cup {Load(FirstRange)}
  /\ points' = Extended(<<>>, connected)
  /\ UNCHANGED <<now, server, samples, range, connected, shown, faults>>

Next ==
  \/ Tick \/ ServerRestarts \/ ServerClockSet \/ PropsChange \/ Poll \/ Leave \/ Enter
  \/ \E l \in loads : Answer(l) \/ LoadFails(l) \/ Resolve(l)
  \/ \E r \in Ranges : SetRange(r)

\* Time passes, the interval fires, some request is answered and some answer
\* is read as long as there is one; no request of its own is sure to end.  A step
\* in which an answer arrives is a Resolve: what the points become is left out,
\* since TLC is slow to find out that it can be computed.
Fairness ==
  /\ WF_vars(Tick) /\ WF_vars(Poll)
  /\ WF_vars(\E l \in loads : Answer(l))
  /\ WF_loads(\E l \in loads : Arrives(l))

Spec == Init /\ [][Next]_vars /\ Fairness

-----------------------------------------------------------------------------
Sample == [t : Int, v : {0}]
Point == [t : Int, live : BOOLEAN]
Answers == [some : BOOLEAN, at : Int, when : Int, ring : Seq(Sample)]
Loads == [range : Ranges, cancelled : BOOLEAN, answer : Answers, overtaken : BOOLEAN]

TypeOK ==
  /\ now \in 0 .. MaxTime /\ server \in Int /\ samples \in Seq(Sample)
  /\ mounted \in BOOLEAN /\ range \in Ranges
  /\ points \in Seq(Point)
  /\ connected \in BOOLEAN
  /\ loads \subseteq Loads
  /\ shown \in Answers /\ faults \in 0 .. MaxFaults

\* The server's clock was not set back while these were taken.
InOrder(s) == \A i, j \in DOMAIN s : i < j => s[i].t <= s[j].t

\* Whatever the two clocks say and however answers and live readings interleave,
\* a live point comes later than the one before it; and the points are in order of
\* time, as svgPath joins them, unless those of the server are not: it returns them
\* in the order of its ring, and of averages.  useMetricsHistory.ts:46-79,
\* history.go:83-150.
Ordered ==
  /\ \A i \in 2 .. Len(points) : points[i].live => points[i].t >= points[i - 1].t + MinGap
  /\ InOrder(shown.ring) => \A i \in 2 .. Len(points) : points[i].t >= points[i - 1].t

\* How far an average may be from the samples it stands for.
Blur ==
  LET src == Asked(range, shown)
  IN  IF Len(src) <= MaxPoints[range] THEN 0
      ELSE BucketDur(Last(src).t - Head(src).t, MaxPoints[range]) - 1

\* What the chart shows of a loaded range has no hole: each sample the server had
\* that is in the selected range is visible, or a point less than a bucket away,
\* unless the server's clock ran ahead or its averages are of samples out of order.
\* A late answer of an earlier range would break it.  useMetricsHistory.ts:39-82.
ChartComplete ==
  (/\ mounted /\ shown.some /\ shown.at <= now
   /\ Len(Asked(range, shown)) <= MaxPoints[range] \/ InOrder(shown.ring)) =>
    \A k \in DOMAIN shown.ring :
      LET t == shown.ring[k].t
      IN  t - Blur >= cutoff => \E i \in DOMAIN visible : visible[i].t \in t - Blur .. t + Blur

\* The chart goes back to an older answer only if that answer's request was
\* still under way when the newer one was shown: with no two polls at the same
\* time the data only gets newer, even if the server's clock is set back.
NoRegress ==
  [][shown.some /\ shown'.some /\ shown'.when < shown.when =>
       \E l \in loads : l.overtaken /\ l.answer = shown']_vars

\* A chart left open on a range ends up with the samples the server has, after
\* failed requests, restarts, changes of range and of the server's clock, and
\* answers out of order.
CatchesUp ==
  \A r \in Ranges : <>[](mounted /\ range = r)
                       => <>[](shown.some /\ shown.ring = samples)
=============================================================================
