--------------------------- MODULE GuardSetProofs ---------------------------
(***************************************************************************)
(* Theorems about GuardSet, for any keys, any guard sets the chain may     *)
(* come to hold and any order, loss and delay of the messages.  What a     *)
(* guard has asked its peers it has asked since it took over the list of   *)
(* peers at hand (AskedSince), so that no answer of an earlier list counts.*)
(***************************************************************************)
EXTENDS GuardSet, TLAPS

-----------------------------------------------------------------------------
(* The invariant *)

PeerOf == [pub : Keys, id : SUBSET Keys,
           unapproved : SUBSET [id : Keys, challenge : Nat]]

IsFunction == \A f \in {peers, nonce, index, issued, pkHandler, agreement} :
                f = [g \in Keys |-> f[g]]

TypedPeers ==
  /\ config \in GuardSets /\ drawn \in Nat
  /\ IsFunction
  /\ \A g \in Keys : peers[g] \in [DOMAIN peers[g] -> PeerOf]
  /\ \A m \in msgs : m.from \in Keys /\ m.to \in Keys /\ m.from # m.to

\* The challenges that wait for their answers, and the nonce of the last
\* registration, were drawn since the list of peers was reset.
AskedSince ==
  \A g \in Keys : \A i \in DOMAIN peers[g] :
    /\ nonce[g] \in issued[g]
    /\ \A u \in peers[g][i].unapproved : u.challenge \in issued[g]

PeersInv == TypedPeers /\ AskedSince /\ PeersAreThemselves

-----------------------------------------------------------------------------
(* The steps *)

\* What a guard learns about one peer of its list.
LEMMA PeerChanged ==
  ASSUME PeersInv, NEW g \in Keys, NEW i \in DOMAIN peers[g], NEW p \in PeerOf,
         p.pub = peers[g][i].pub, p.id \subseteq {p.pub},
         peers' = [peers EXCEPT ![g][i] = p],
         \A h \in Keys : issued[h] \subseteq issued'[h],
         \A u \in p.unapproved : u.challenge \in issued'[g],
         issued' = [h \in Keys |-> issued'[h]], drawn' \in Nat,
         \A m \in msgs' : m.from \in Keys /\ m.to \in Keys /\ m.from # m.to,
         UNCHANGED <<config, pkHandler, agreement, nonce, index>>
  PROVE  PeersInv'
<1> USE DEF PeersInv
<1>1. /\ peers' = [h \in Keys |-> peers'[h]]
      /\ peers'[g] = [peers[g] EXCEPT ![i] = p]
      /\ \A h \in Keys \ {g} : peers'[h] = peers[h]
  BY DEF TypedPeers, IsFunction
<1>2. /\ DOMAIN peers'[g] = DOMAIN peers[g]
      /\ peers'[g] \in [DOMAIN peers[g] -> PeerOf]
      /\ peers'[g][i] = p
      /\ \A j \in DOMAIN peers[g] \ {i} : peers'[g][j] = peers[g][j]
  BY <1>1 DEF TypedPeers
<1>3. IsFunction'
  BY <1>1 DEF TypedPeers, IsFunction
<1>4. TypedPeers'
  BY <1>1, <1>2, <1>3 DEF TypedPeers
<1>5. AskedSince'
  BY <1>1, <1>2 DEF AskedSince
<1>6. PeersAreThemselves'
  BY <1>1, <1>2 DEF PeersAreThemselves
<1>7. QED
  BY <1>4, <1>5, <1>6

LEMMA PeersInit == GuardSetInit => PeersInv
<1> SUFFICES ASSUME GuardSetInit PROVE PeersInv
  OBVIOUS
<1>1. \A g \in Keys : DOMAIN peers[g] = {}
  BY DEF GuardSetInit
<1>2. TypedPeers
  BY <1>1 DEF GuardSetInit, TypedPeers, IsFunction, NoKeys
<1>3. QED
  BY <1>1, <1>2 DEF PeersInv, AskedSince, PeersAreThemselves

\* The guard set of the chain is taken over.
LEMMA Updated ==
  ASSUME PeersInv, NEW g \in Keys, Update(g) PROVE PeersInv'
<1> USE DEF PeersInv
<1>1. IsFunction' /\ config' \in GuardSets
  <2>1. config' = config
    BY DEF Update
  <2>2. /\ peers' = [h \in Keys |-> peers'[h]]
        /\ nonce' = [h \in Keys |-> nonce'[h]]
        /\ issued' = [h \in Keys |-> issued'[h]]
    BY DEF Update, handlePublicKeysChange, ChangedPeers, TypedPeers, IsFunction
  <2>3. index' = [h \in Keys |-> index'[h]]
    <3>1. index = [h \in Keys |-> index[h]]
      BY DEF TypedPeers, IsFunction
    <3>2. index' = index \/ \E i : index' = [index EXCEPT ![g] = i]
      BY DEF Update, handlePublicKeysChange
    <3>3. QED
      BY <3>1, <3>2
  <2>4. agreement' = [h \in Keys |-> agreement'[h]]
    BY DEF Update, TypedPeers, IsFunction
  <2>5. pkHandler' = [h \in Keys |-> pkHandler'[h]]
    BY DEF Update, TypedPeers, IsFunction
  <2>6. QED
    BY <2>1, <2>2, <2>3, <2>4, <2>5 DEF IsFunction, TypedPeers
<1>2. CASE UNCHANGED <<peers, nonce, drawn, issued, msgs>>
  BY <1>1, <1>2 DEF TypedPeers, AskedSince, PeersAreThemselves
<1>3. CASE handlePublicKeysChange(g, config)
  <2>1. config \in Seq(Keys)
    BY GuardSetAssumption DEF TypedPeers
  <2>2. \A i \in DOMAIN config : config[i] \in Keys
    BY <2>1
  <2>3. /\ peers' = [peers EXCEPT ![g] = NewPeers(config)]
        /\ nonce' = [nonce EXCEPT ![g] = drawn + 1]
        /\ issued' = [issued EXCEPT ![g] = {drawn + 1}]
        /\ drawn' = drawn + 1
    BY <1>3 DEF handlePublicKeysChange, ChangedPeers
  <2>4. \A m \in msgs' : m.from \in Keys /\ m.to \in Keys /\ m.from # m.to
    BY <1>3 DEF handlePublicKeysChange, TypedPeers
  <2>5. /\ peers'[g] = NewPeers(config) /\ nonce'[g] = drawn + 1
        /\ issued'[g] = {drawn + 1}
        /\ \A h \in Keys \ {g} : /\ peers'[h] = peers[h] /\ nonce'[h] = nonce[h]
                               /\ issued'[h] = issued[h]
    BY <2>3 DEF TypedPeers, IsFunction
  <2>6. /\ DOMAIN NewPeers(config) = DOMAIN config
        /\ NewPeers(config) \in [DOMAIN config -> PeerOf]
        /\ \A i \in DOMAIN config : /\ NewPeers(config)[i].id = {}
                                  /\ NewPeers(config)[i].unapproved = {}
    BY <2>2 DEF NewPeers, PeerOf
  <2>7. TypedPeers'
    BY <1>1, <2>3, <2>4, <2>5, <2>6 DEF TypedPeers
  <2>8. AskedSince'
    BY <2>5, <2>6 DEF AskedSince
  <2>9. PeersAreThemselves'
    BY <2>5, <2>6 DEF PeersAreThemselves
  <2>10. QED
    BY <2>7, <2>8, <2>9
<1>4. QED
  BY <1>2, <1>3 DEF Update

LEMMA Restarted ==
  ASSUME PeersInv, NEW g \in Keys, Restart(g) PROVE PeersInv'
<1> USE DEF PeersInv
<1>1. /\ DOMAIN peers'[g] = {}
      /\ \A h \in Keys \ {g} : /\ peers'[h] = peers[h] /\ nonce'[h] = nonce[h]
                             /\ issued'[h] = issued[h]
  BY DEF Restart, TypedPeers, IsFunction
<1>2. peers'[g] \in [DOMAIN peers'[g] -> PeerOf]
  BY DEF Restart, TypedPeers, IsFunction
<1>3. TypedPeers'
  BY <1>1, <1>2 DEF Restart, TypedPeers, IsFunction
<1>4. AskedSince' /\ PeersAreThemselves'
  BY <1>1 DEF AskedSince, PeersAreThemselves
<1>5. QED
  BY <1>3, <1>4

\* A registration makes its sender one that is asked a nonce drawn now.
LEMMA Registered ==
  ASSUME PeersInv, NEW g \in Keys, NEW m \in msgs, m.to = g, handleRegister(g, m)
  PROVE  PeersInv'
<1> DEFINE i == m.index
           asked == peers[g][i].unapproved \cup
                      {[id |-> m.from, challenge |-> drawn + 1]}
<1>1. /\ i \in DOMAIN peers[g] /\ g \in Keys /\ m.from \in Keys /\ m.from # g
      /\ peers[g] \in [DOMAIN peers[g] -> PeerOf] /\ drawn \in Nat
      /\ peers[g][i].id \subseteq {peers[g][i].pub}
      /\ \A u \in peers[g][i].unapproved : u.challenge \in issued[g]
  BY DEF handleRegister, Accepts, PeersInv, TypedPeers, AskedSince, PeersAreThemselves
<1>2. PICK p : p = [peers[g][i] EXCEPT !.unapproved = asked]
  OBVIOUS
<1>3. peers' = [peers EXCEPT ![g][i] = p]
  BY <1>2 DEF handleRegister
<1>4. /\ p \in PeerOf /\ p.pub = peers[g][i].pub
      /\ p.id = peers[g][i].id /\ p.unapproved = asked
  BY <1>1, <1>2 DEF PeerOf
<1>5. /\ issued' = [issued EXCEPT ![g] = issued[g] \cup {drawn + 1}]
      /\ issued = [h \in Keys |-> issued[h]]
  BY DEF handleRegister, PeersInv, TypedPeers, IsFunction
<1>6. /\ issued' = [h \in Keys |-> issued'[h]]
      /\ issued'[g] = issued[g] \cup {drawn + 1}
      /\ \A h \in Keys : issued[h] \subseteq issued'[h]
  BY <1>5
<1>7. \A u \in p.unapproved : u.challenge \in issued'[g]
  BY <1>1, <1>4, <1>6
<1>8. \A n \in msgs' : n.from \in Keys /\ n.to \in Keys /\ n.from # n.to
  BY <1>1 DEF handleRegister, Reply, PeersInv, TypedPeers
<1>9. /\ drawn' \in Nat
      /\ UNCHANGED <<config, pkHandler, agreement, nonce, index>>
  BY <1>1 DEF handleRegister
<1>10. QED
  BY <1>1, <1>3, <1>4, <1>6, <1>7, <1>8, <1>9, PeerChanged

\* An answer takes its challenge from those that wait.
LEMMA Approved ==
  ASSUME PeersInv, NEW g \in Keys, NEW m \in msgs, m.to = g, handleApprove(g, m)
  PROVE  PeersInv'
<1> DEFINE i == m.index
           challenge == [id |-> m.from, challenge |-> m.nonce]
           answered == challenge \in peers[g][i].unapproved
           known == IF answered \/ AnswersNonce(g, m) THEN {m.from} ELSE peers[g][i].id
<1>1. /\ i \in DOMAIN peers[g] /\ m.from \in Keys /\ m.from # g
      /\ peers[g][i].pub = m.from
      /\ peers[g] \in [DOMAIN peers[g] -> PeerOf] /\ drawn \in Nat
      /\ peers[g][i].id \subseteq {peers[g][i].pub}
      /\ \A u \in peers[g][i].unapproved : u.challenge \in issued[g]
  BY DEF handleApprove, Accepts, PeersInv, TypedPeers, AskedSince, PeersAreThemselves
<1>2. PICK p : p = [peers[g][i] EXCEPT
                      !.unapproved = peers[g][i].unapproved \ {challenge},
                      !.id = known]
  OBVIOUS
<1>3. peers' = [peers EXCEPT ![g][i] = p]
  BY <1>2 DEF handleApprove
<1>4. /\ p \in PeerOf /\ p.pub = peers[g][i].pub
      /\ p.id \subseteq {p.pub} /\ p.unapproved \subseteq peers[g][i].unapproved
  BY <1>1, <1>2 DEF PeerOf
<1>5. /\ issued' = issued /\ issued = [h \in Keys |-> issued[h]]
  BY DEF handleApprove, PeersInv, TypedPeers, IsFunction
<1>6. \A n \in msgs' : n.from \in Keys /\ n.to \in Keys /\ n.from # n.to
  BY <1>1 DEF handleApprove, Reply, PeersInv, TypedPeers
<1>7. /\ drawn' \in Nat
      /\ UNCHANGED <<config, pkHandler, agreement, nonce, index>>
  BY <1>1 DEF handleApprove
<1>8. \A u \in p.unapproved : u.challenge \in issued'[g]
  BY <1>1, <1>4, <1>5
<1>9. /\ issued' = [h \in Keys |-> issued'[h]]
      /\ \A h \in Keys : issued[h] \subseteq issued'[h]
  BY <1>5
<1>10. QED
  BY <1>1, <1>3, <1>4, <1>6, <1>7, <1>8, <1>9, PeerChanged

\* What leaves the guards as they are.
LEMMA PeersStay ==
  ASSUME PeersInv, config' \in GuardSets, drawn' = drawn, msgs' \subseteq msgs,
         UNCHANGED <<pkHandler, agreement, peers, nonce, index, issued>>
  PROVE  PeersInv'
BY DEF PeersInv, TypedPeers, IsFunction, AskedSince, PeersAreThemselves

LEMMA PeersStep == PeersInv /\ [GuardSetNext]_vars => PeersInv'
<1> SUFFICES ASSUME PeersInv, [GuardSetNext]_vars PROVE PeersInv'
  OBVIOUS
<1> USE DEF PeersInv
<1>1. CASE ChangeConfig
  BY <1>1, PeersStay DEF ChangeConfig, handler
<1>2. ASSUME NEW g \in Keys, Update(g) PROVE PeersInv'
  BY <1>2, Updated
<1>3. ASSUME NEW g \in Keys, Restart(g) PROVE PeersInv'
  BY <1>3, Restarted
<1>4. ASSUME NEW m \in msgs, Receive(m) PROVE PeersInv'
  <2>1. m.to \in Keys
    BY DEF TypedPeers
  <2>2. CASE handleRegister(m.to, m)
    BY <2>1, <2>2, Registered
  <2>3. CASE handleApprove(m.to, m)
    BY <2>1, <2>3, Approved
  <2>4. CASE Ignore(m.to, m)
    BY <2>4, PeersStay DEF Ignore, handler, TypedPeers
  <2>5. QED
    BY <1>4, <2>2, <2>3, <2>4 DEF Receive
<1>5. ASSUME NEW m \in msgs, Lose(m) PROVE PeersInv'
  BY <1>5, PeersStay DEF Lose, handler, TypedPeers
<1>6. CASE UNCHANGED vars
  BY <1>6, PeersStay DEF vars, handler, TypedPeers
<1>7. QED
  BY <1>1, <1>2, <1>3, <1>4, <1>5, <1>6 DEF GuardSetNext

-----------------------------------------------------------------------------
(* The theorems *)

\* Whatever the order of messages, changes of the guard set and restarts,
\* every challenge that waits for an answer was drawn since the guard took
\* over the list of peers at hand.
THEOREM PeersInvariant == GuardSetSpec => []PeersInv
<1>1. QED
  BY PeersInit, PeersStep, PTL DEF GuardSetSpec

\* A peer id is only ever taken for that of the guard whose it is.
THEOREM PeersAreThemselvesAlways == GuardSetSpec => []PeersAreThemselves
<1>1. PeersInv => PeersAreThemselves
  BY DEF PeersInv
<1>2. QED
  BY <1>1, PeersInvariant, PTL

\* The step in which a peer becomes known takes an answer to a nonce of the
\* list at hand from the network.
LEMMA KnownByAnswer ==
  ASSUME PeersInv, [GuardSetNext]_vars, NEW g \in Keys, NEW i \in DOMAIN peers'[g],
         peers'[g][i].id # {},
         peers[g] = <<>> \/ i \notin DOMAIN peers[g] \/ peers[g][i].id = {}
  PROVE  \E m \in msgs \ msgs' : m.to = g /\ m.nonce \in issued'[g]
<1> USE DEF PeersInv
<1>0. peers = [h \in Keys |-> peers[h]]
  BY DEF TypedPeers, IsFunction
<1>1. peers'[g] # peers[g]
  OBVIOUS
<1>2. ~ ChangeConfig /\ ~ UNCHANGED vars
  BY <1>1 DEF ChangeConfig, vars, handler
<1>3. ASSUME NEW h \in Keys, Update(h) PROVE FALSE
  <2>1. config \in Seq(Keys)
    BY GuardSetAssumption DEF TypedPeers
  <2>2. peers' = [peers EXCEPT ![h] = NewPeers(config)]
    BY <1>1, <1>3 DEF Update, handlePublicKeysChange, ChangedPeers
  <2>3. h = g /\ peers'[g] = NewPeers(config)
    BY <1>0, <1>1, <2>2
  <2>4. QED
    BY <2>3 DEF NewPeers
<1>4. ASSUME NEW h \in Keys, Restart(h) PROVE FALSE
  <2>1. peers'[g] = <<>>
    BY <1>0, <1>1, <1>4 DEF Restart
  <2>2. QED
    BY <2>1
<1>5. ASSUME NEW m \in msgs, Ignore(m.to, m) \/ Lose(m) PROVE FALSE
  BY <1>1, <1>5 DEF Ignore, Lose, handler
<1>6. ASSUME NEW m \in msgs, handleRegister(m.to, m) PROVE FALSE
  <2> DEFINE p == [peers[m.to][m.index] EXCEPT !.unapproved =
                     peers[m.to][m.index].unapproved \cup
                       {[id |-> m.from, challenge |-> drawn + 1]}]
  <2>1. /\ m.to \in Keys /\ m.index \in DOMAIN peers[m.to]
        /\ peers[m.to] \in [DOMAIN peers[m.to] -> PeerOf]
    BY <1>6 DEF handleRegister, Accepts, TypedPeers
  <2>2. peers' = [peers EXCEPT ![m.to][m.index] = p]
    BY <1>6 DEF handleRegister
  <2>3. m.to = g /\ peers'[g] = [peers[g] EXCEPT ![m.index] = p]
    BY <1>0, <1>1, <2>1, <2>2
  <2>4. p.id = peers[g][m.index].id
    BY <2>1, <2>3 DEF PeerOf
  <2>5. i \in DOMAIN peers[g] /\ peers'[g][i].id = peers[g][i].id
    BY <2>1, <2>3, <2>4
  <2>6. QED
    BY <2>5
<1>7. ASSUME NEW m \in msgs, handleApprove(m.to, m)
      PROVE  \E n \in msgs \ msgs' : n.to = g /\ n.nonce \in issued'[g]
  <2> DEFINE challenge == [id |-> m.from, challenge |-> m.nonce]
             ps == peers[m.to]
             q == ps[m.index]
             answered == challenge \in q.unapproved
             known == IF answered \/ AnswersNonce(m.to, m) THEN {m.from} ELSE q.id
             p == [q EXCEPT !.unapproved = q.unapproved \ {challenge}, !.id = known]
  <2>1. /\ m.to \in Keys /\ m.index \in DOMAIN peers[m.to] /\ m.from # m.to
        /\ ps \in [DOMAIN ps -> PeerOf] /\ issued' = issued
    BY <1>7 DEF handleApprove, Accepts, TypedPeers
  <2>2. peers' = [peers EXCEPT ![m.to][m.index] = p]
    BY <1>7 DEF handleApprove
  <2>3. m.to = g /\ peers'[g] = [peers[g] EXCEPT ![m.index] = p]
    BY <1>0, <1>1, <2>1, <2>2
  <2>4. p.id = known
    BY <2>1 DEF PeerOf
  <2>5. CASE answered
    <3>1. m.nonce \in issued'[g]
      BY <2>1, <2>3, <2>5 DEF AskedSince
    <3>2. m \notin msgs'
      BY <1>7, <2>1 DEF handleApprove, Reply
    <3>3. QED
      BY <2>3, <3>1, <3>2
  <2>6. CASE AnswersNonce(m.to, m)
    <3>1. m.nonce \in issued'[g]
      BY <2>1, <2>3, <2>6 DEF AnswersNonce, AskedSince
    <3>2. m \notin msgs'
      BY <1>7, <2>1 DEF handleApprove, Reply
    <3>3. QED
      BY <2>3, <3>1, <3>2
  <2>7. CASE ~ answered /\ ~ AnswersNonce(m.to, m)
    <3>1. i \in DOMAIN peers[g] /\ peers'[g][i].id = peers[g][i].id
      BY <2>1, <2>3, <2>4, <2>7
    <3>2. QED
      BY <3>1
  <2>8. QED
    BY <2>5, <2>6, <2>7
<1>8. QED
  BY <1>2, <1>3, <1>4, <1>5, <1>6, <1>7 DEF GuardSetNext, Receive, TypedPeers

\* A peer is approved by an answer to a nonce drawn since the list of peers was
\* reset, whatever arrives late.
THEOREM ApprovedByFreshAnswerAlways == GuardSetSpec => ApprovedByFreshAnswer
<1>1. PeersInv /\ [GuardSetNext]_vars =>
        [\A g \in Keys : \A i \in DOMAIN peers'[g] :
           /\ peers'[g][i].id # {}
           /\ peers[g] = <<>> \/ i \notin DOMAIN peers[g] \/ peers[g][i].id = {}
           => \E m \in msgs \ msgs' : m.to = g /\ m.nonce \in issued'[g]]_vars
  BY KnownByAnswer
<1>2. QED
  BY <1>1, PeersInvariant, PTL DEF GuardSetSpec, ApprovedByFreshAnswer
=============================================================================
