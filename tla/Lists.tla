-------------------------------- MODULE Lists --------------------------------
(***************************************************************************)
(* Sums, filters and a stable sort of sequences.  The filter and the sort  *)
(* are written out because SelectSeq and SortSeq, which TLC evaluates      *)
(* natively, have no definition a proof could use.                         *)
(***************************************************************************)
EXTENDS Integers, Sequences, SequencesExt

SumOf(f(_), s) ==
  LET sum[n \in 0 .. Len(s)] == IF n = 0 THEN 0 ELSE sum[n - 1] + f(s[n])
  IN  sum[Len(s)]
Joined(f(_), s) ==
  LET join[n \in 0 .. Len(s)] == IF n = 0 THEN <<>> ELSE join[n - 1] \o f(s[n])
  IN  join[Len(s)]
Selected(s, Test(_)) == Joined(LAMBDA x : IF Test(x) THEN <<x>> ELSE <<>>, s)

(* Each element goes in front of the first that must come after it.        *)
Inserted(t, x, Before(_, _)) ==
  InsertAt(t, Min({k \in 1 .. Len(t) + 1 : k <= Len(t) => Before(x, t[k])}), x)
Sorted(s, Before(_, _)) ==
  LET sorted[n \in 0 .. Len(s)] ==
        IF n = 0 THEN <<>> ELSE Inserted(sorted[n - 1], s[n], Before)
  IN  sorted[Len(s)]
=============================================================================
