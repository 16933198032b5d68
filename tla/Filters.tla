------------------------------ MODULE Filters -------------------------------
(***************************************************************************)
(* What retain leaves of a list: the elements that are in a set, in their  *)
(* order. It is a recursive function over 0 .. n, so that the definition   *)
(* TLC evaluates is one the proof system can reason about.                 *)
(***************************************************************************)
EXTENDS Naturals, Sequences

(* PartlyRetained(s, T)[k] is what is left of s[1], ..., s[k].             *)
PartlyRetained(s, T) ==
  LET left[k \in 0 .. Len(s)] ==
        IF k = 0 THEN << >>
        ELSE IF s[k] \in T THEN Append(left[k - 1], s[k]) ELSE left[k - 1]
  IN left

Retained(s, T) == PartlyRetained(s, T)[Len(s)]
=============================================================================
