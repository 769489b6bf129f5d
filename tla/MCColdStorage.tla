---------------------------- MODULE MCColdStorage ----------------------------
EXTENDS ColdStorage, TLC

CONSTANTS a, b, c, tok, nat

MCLow == [x \in {tok, nat} |-> 2]
MCHigh == [x \in {tok, nat} |-> 3]

SymmetricGuards == Permutations({a, b, c})

\* Bounds: three guards agree while no event touches the lock address, which
\* gets native tokens before the first tx only; or events start to wait and are
\* paid, in two turns, and one guard does nothing; the last tx does not fail,
\* as no other comes after it
NoEvents == forbidden = {} /\ \A x \in Assets : paid[x] = 0

Idle(g) ==
  /\ turn # g /\ pending[g] = {}
  /\ \A i \in TxIds : table[g][i] = "none"
  /\ \A r \in DOMAIN requests : g # r.from /\ g \notin requests[r]

ThreeGuardsOrEvents ==
  /\ NoEvents \/ (period <= 2 /\ \E g \in Guards : Idle(g))
  /\ settled[MaxTxs] # "failed"

WaitOnce == forbidden \subseteq forbidden'
NativeFirst == NoEvents' /\ lock'[native] > lock[native] => Created = {}
=============================================================================
