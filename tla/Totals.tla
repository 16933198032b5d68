------------------------------- MODULE Totals -------------------------------
(***************************************************************************)
(* Sums of bounded lists of numbers, as the byte and segment counters of   *)
(* the session use them.  A total is a recursive function over 0 .. n, so  *)
(* that the same definition can be evaluated by TLC and reasoned about by  *)
(* the proof system.                                                       *)
(***************************************************************************)
EXTENDS Naturals, Sequences

(* PartialTotals(g, n)[k] is g[1] + ... + g[k]. *)
PartialTotals(g, n) ==
  LET sum[k \in 0 .. n] == IF k = 0 THEN 0 ELSE sum[k - 1] + g[k]
  IN  sum

(* g[1] + ... + g[n] *)
Total(g, n) == PartialTotals(g, n)[n]
=============================================================================
