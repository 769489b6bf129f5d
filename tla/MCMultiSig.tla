----------------------------- MODULE MCMultiSig -----------------------------
EXTENDS MultiSig

CONSTANTS g1, g2, g3

\* Bounds: the first guard restarts, sees time pass and asks again; the second
\* starts no proof once the first was late, the third none at all, and it
\* does not go on after its request is answered
OneActive ==
  /\ \A g \in Guards \ {g1} :
       /\ waited[g][1] = 0 /\ entry[g].createTime <= 0
       /\ promise[g][1] \in {"unasked", "pending", "resolved"}
  /\ promise[g3][1] # "resolved"
  /\ waited[g1][2] = 0
  /\ waited[g1][1] > 0 \/ entry[g1].createTime > 0 =>
       promise[g1][1] \notin {"unasked", "lost"} /\ delayed[g2] = 0
  /\ delayed[g3] = 0
=============================================================================
