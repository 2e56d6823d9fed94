------------------------------ MODULE Samples ------------------------------
(***************************************************************************)
(* What internal/host/history.go does with a list of samples, oldest       *)
(* first: how Record trims it, and how Range reduces a window of it to a   *)
(* number of points.  A sample carries its time and one value; the five    *)
(* averaged fields of the code are treated alike.                          *)
(***************************************************************************)
EXTENDS Integers, Sequences, SequencesExt, FiniteSetsExt, Lists

-----------------------------------------------------------------------------
(* Record: trimming *)

\* Mutant: drops one old sample at a time.
DropOneOld(s, cutoff) == IF s[1].t < cutoff THEN Tail(s) ELSE s

\* The loop that skips samples at the front that are older than the cutoff.
DropOld(s, cutoff) ==
  LET young == {i \in DOMAIN s : s[i].t >= cutoff}
  IN  IF young = {} THEN <<>> ELSE SubSeq(s, Min(young), Len(s))

\* Mutant: keeps the oldest samples instead of the newest.
CapFront(s, len) == IF Len(s) > len THEN SubSeq(s, 1, len) ELSE s

\* The hard cap: the newest len samples.
Cap(s, len) == IF Len(s) > len THEN SubSeq(s, Len(s) - len + 1, Len(s)) ELSE s

-----------------------------------------------------------------------------
(* Range: the window and its averages *)

\* The samples from the cutoff on, in the order they were recorded.
Window(s, cutoff) == Filter(s, LAMBDA x : x.t >= cutoff)

\* The average of the samples of one bucket: floored timestamp, exact value.
Average(acc) == [t |-> acc.t \div acc.n, sum |-> acc.v, n |-> acc.n]

Raw(s) == [t |-> s.t, sum |-> s.v, n |-> 1]

\* Go's integer division truncates towards zero.
GoDiv(a, b) == IF a >= 0 THEN a \div b ELSE -((-a) \div b)

EmptyAcc == [t |-> 0, v |-> 0, n |-> 0]

\* Mutant: the accumulator is not reset at a bucket boundary.
FlushKeepsAcc(st) ==
  [st EXCEPT !.out = IF st.acc.n = 0 THEN @ ELSE Append(@, Average(st.acc))]

\* flush, and the reset that follows it.
Flush(st) ==
  [st EXCEPT !.out = IF st.acc.n = 0 THEN @ ELSE Append(@, Average(st.acc)),
             !.acc = EmptyAcc]

\* Mutant: slices of one millisecond whatever the span.
BucketDurFixed(span, points) == 1

BucketDur(span, points) == Max({1, span \div points})

\* Mutant: a division that rounds up.
SliceRoundingUp(s, start, dur) == GoDiv(s.t - start + dur - 1, dur)

Slice(s, start, dur) == GoDiv(s.t - start, dur)

\* One round of the loop over src: a sample of another slice ends the bucket.
Consume(st, s, start, dur) ==
  LET idx == Slice(s, start, dur)
      st1 == IF idx # st.cur THEN [Flush(st) EXCEPT !.cur = idx] ELSE st
      a   == st1.acc
  IN  [st1 EXCEPT !.acc = [t |-> a.t + s.t, v |-> a.v + s.v, n |-> a.n + 1]]

\* The loop: what out, acc and curIndex are after each of its rounds.
Loop(src, start, dur) ==
  LET after[i \in 0 .. Len(src)] ==
        IF i = 0 THEN [out |-> <<>>, acc |-> EmptyAcc, cur |-> -1]
                 ELSE Consume(after[i - 1], src[i], start, dur)
  IN  after

\* The loop and the final flush.
Buckets(src, start, dur) == Flush(Loop(src, start, dur)[Len(src)]).out

Downsample(src, maxPoints) ==
  LET points == Max({1, maxPoints})
      start  == Head(src).t
      span   == Last(src).t - start
      raw    == [i \in DOMAIN src |-> Raw(src[i])]
  IN  IF Len(src) <= points THEN raw
      ELSE IF span <= 0 THEN <<Last(raw)>>
      ELSE Buckets(src, start, BucketDur(span, points))
=============================================================================
