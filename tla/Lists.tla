-------------------------------- MODULE Lists --------------------------------
(* Lists as the code handles them: the items of a sequence at some of its     *)
(* places, in their order, which is what filter() and split() return; and the *)
(* sum that a loop over a sequence of numbers leaves in its accumulator.      *)
EXTENDS Naturals, Sequences, FiniteSets

\* How many members of S are at most i.
Rank(S, i) == Cardinality({j \in S : j <= i})

\* The k-th smallest member of a finite set of numbers.
Nth(S, k) == CHOOSE i \in S : Rank(S, i) = k

\* The items of s at the places in S.
At(s, S) == [k \in 1 .. Cardinality(S) |-> s[Nth(S, k)]]

\* The items that pass the test.
Filter(s, Test(_)) == At(s, {i \in DOMAIN s : Test(s[i])})

\* The sum of each of the first i numbers of s.
Sums(s) ==
  LET upto[i \in 0 .. Len(s)] == IF i = 0 THEN 0 ELSE upto[i - 1] + s[i]
  IN  upto

\* The sum of the numbers of s.
SumList(s) == Sums(s)[Len(s)]
=============================================================================
