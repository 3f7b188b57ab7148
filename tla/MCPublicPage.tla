----------------------------- MODULE MCPublicPage -----------------------------
(* An instance of PublicPage for TLC: the constants are given in the cfg. *)
EXTENDS PublicPage
=============================================================================
