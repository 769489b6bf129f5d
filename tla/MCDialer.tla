------------------------------ MODULE MCDialer ------------------------------
(* Two peers with one subscriber each. *)
EXTENDS Dialer
CONSTANTS p, q, f
=============================================================================
