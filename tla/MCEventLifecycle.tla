-------------------------- MODULE MCEventLifecycle --------------------------
EXTENDS EventLifecycle, TLC

(* Requests are interchangeable, and so are the events of one organizer.   *)
Symmetric == Permutations(Events) \cup Permutations(Requests)
=============================================================================
