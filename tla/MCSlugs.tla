------------------------------- MODULE MCSlugs -------------------------------
(* Slugs for TLC: a title whose second slug is another title's first.      *)
EXTENDS Slugs, TLC

MCTitles     == {"run", "run 2", "walk"}
MCSlugs      == {"run", "run-2", "run-2-2", "walk"}
MCCandidates == [ti \in MCTitles |->
    CASE ti = "run"   -> <<"run", "run-2">>
      [] ti = "run 2" -> <<"run-2", "run-2-2">>
      [] ti = "walk"  -> <<"walk">>]

(* State constraint: both invariants are void once renames of one          *)
(* organizer have overlapped.                                              *)
Undisturbed == OneRenameAtATime

Symmetric == Permutations(Requests) \cup Permutations(Resources)
=============================================================================
