----------------------- MODULE MCOrganizerVerification -----------------------
EXTENDS OrganizerVerification, TLC

(* Requests are interchangeable, and so are types and copies. *)
Symmetric == Permutations(Requests) \cup Permutations(Types) \cup Permutations(Copies)
=============================================================================
