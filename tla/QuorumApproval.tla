--------------------------- MODULE QuorumApproval ---------------------------
(***************************************************************************)
(* What tx-agreement promises: a guard takes a tx as approved only when a  *)
(* quorum of the guards has agreed to it (README: all guards, or a quorum  *)
(* of them, should agree).  Who is a quorum is left open.                  *)
(***************************************************************************)
CONSTANTS Guard, Tx, Quorum

VARIABLES agreed,    \* the guards that agreed to each tx
          approved   \* the txs each guard took as approved

QInit ==
  /\ agreed = [t \in Tx |-> {}]
  /\ approved = [g \in Guard |-> {}]

QAgree(g, t) ==
  /\ agreed' = [agreed EXCEPT ![t] = @ \cup {g}]
  /\ UNCHANGED approved

\* t may take the place of others
QApprove(g, t) ==
  /\ agreed[t] \in Quorum
  /\ \E kept \in SUBSET approved[g] :
       approved' = [approved EXCEPT ![g] = kept \cup {t}]
  /\ UNCHANGED agreed

QNext == \E g \in Guard, t \in Tx : QAgree(g, t) \/ QApprove(g, t)

QSpec == QInit /\ [][QNext]_<<agreed, approved>>
=============================================================================
