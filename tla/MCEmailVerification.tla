------------------------ MODULE MCEmailVerification ------------------------
(* EmailVerification for TLC: users and addresses are model values.         *)
EXTENDS EmailVerification
=============================================================================
