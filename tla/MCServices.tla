----------------------------- MODULE MCServices -----------------------------
EXTENDS Services

CONSTANTS r1, r2, g1, g2, e1, e2, e3, m1, m2, a, b

\* Two rows, one row, and a tx that pays none of the repositories
MCRowsOf == [e \in {e1, e2, e3} |->
               IF e = e1 THEN <<"e1 fee", "e1 erg">>
               ELSE IF e = e2 THEN <<"e2 erg">> ELSE <<>>]

MCAlgorithmOf == [m \in {m1, m2} |-> IF m = m1 THEN "curve" ELSE "edward"]

\* The guard set is fixed
MCGuardSets == {<<a, b>>}

\* Bounds: only the first guard asks for the tx again, when its timer has run;
\* the guard is deleted from the book once at a time
OneAtATime ==
  /\ promise[g2][1] \in {"unasked", "pending"}
  /\ delayed[g2] = 0
  /\ promise[g1][2] = "unasked" \/ delayed[g1] = 0
  /\ deletions[g1] <= 1
=============================================================================
