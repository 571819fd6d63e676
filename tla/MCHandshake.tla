----------------------------- MODULE MCHandshake -----------------------------
(* Model checking Handshake; the configurations give the profiles and the  *)
(* bounds.                                                                 *)
EXTENDS Handshake
=============================================================================
