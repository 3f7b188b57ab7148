----------------------------- MODULE MCSessions -----------------------------
(* Sessions for TLC: the ids are model values and interchangeable. *)
EXTENDS Sessions, TLC

SidSymmetry == Permutations(Sids)
=============================================================================
