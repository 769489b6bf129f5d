-------------------------- MODULE MCAgreementTurn --------------------------
(* Three guards in the turn of the first, and two txs of one event. *)
EXTENDS TxAgreement, TLC

CONSTANT e1

MCEventOf == 1 :> e1 @@ 2 :> e1
=============================================================================
