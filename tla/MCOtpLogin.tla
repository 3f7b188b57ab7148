----------------------------- MODULE MCOtpLogin -----------------------------
(* Instances of OtpLogin for TLC: the constants are given in the cfgs. *)
EXTENDS OtpLogin
=============================================================================
