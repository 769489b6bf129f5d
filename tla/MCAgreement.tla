---------------------------- MODULE MCAgreement ----------------------------
(* Three guards, the turns of the first two, and two txs of one event. *)
EXTENDS TxAgreement, TLC

CONSTANT e1

MCEventOf == 1 :> e1 @@ 2 :> e1

\* Bounds: a guard has one handler at a time, only the second guard has txs
\* signed and given up, the gap's jobs run guard by guard, the first guard
\* first signs the tx of higher id, and after its turn the third guard only hears
\* of approvals.
OneHandler ==
  \A g \in Guards :
    /\ Cardinality(mem[g].verifying) + Cardinality(mem[g].counting)
         + Cardinality(mem[g].approving) <= 1
    /\ g # 1 => \A t \in Txs : table[g][t] \in {"absent", "approved"}
    /\ g \in due => g + 1 \in due \cup {guardsLen}
    /\ 1 \in mem[0].transactionQueue => 0 \in signed[2]
    /\ now > 1 => \A m \in mem[2].verifying : m.type = "approval"
=============================================================================
