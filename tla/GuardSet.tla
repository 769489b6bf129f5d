------------------------------ MODULE GuardSet ------------------------------
(***************************************************************************)
(* handlers/GuardPkHandler.ts and the registration half of                 *)
(* guard/multisig/MultiSigHandler.ts: every guard reads the guard set from *)
(* the chain now and then, and the guards then introduce themselves to     *)
(* each other.  A message carries the index its sender takes for its own   *)
(* and is signed with its key; a peer id is taken for that of a guard when *)
(* the guard has answered a challenge.                                     *)
(***************************************************************************)
EXTENDS Integers, Sequences, SequencesExt, FiniteSets

CONSTANTS
  Keys,        \* a guard is its key; its peer id is named by the key too
  GuardSets,   \* the guard sets the chain may come to hold
  Lossy,       \* whether messages may be lost
  MaxUpdates,  \* bound: starts and updates of all guards
  MaxChanges   \* bound: changes of the guard set on the chain

ASSUME GuardSetAssumption ==
  /\ GuardSets \subseteq Seq(Keys)
  /\ \A s \in GuardSets : IsInjective(s)
  /\ Lossy \in BOOLEAN
  /\ MaxUpdates \in Nat
  /\ MaxChanges \in Nat

NoKeys == <<>>
NotFound == -1
NoNonce == 0

VARIABLES
  config,     \* the guard set on the chain
  changes,    \* how often it has changed
  pkHandler,  \* publicKeys and guardId of each guard's GuardPkHandler
  agreement,  \* the public keys each guard's TxAgreement was built with
  peers,      \* peers of each guard's MultiSigHandler
  nonce,      \* its nonce
  index,      \* its index: NotFound when not computed yet
  updates,    \* starts and updates so far
  drawn,      \* nonces drawn so far by all guards
  issued,     \* history: nonces drawn by a guard since its peers were reset
  msgs        \* messages under way

handler == <<pkHandler, agreement, peers, nonce, index>>
vars == <<config, changes, handler, updates, drawn, issued, msgs>>

Nonce == 1 .. MaxUpdates * Cardinality(Keys)
Unapproved == [id : Keys, challenge : Nonce]
Peer == [pub : Keys, id : SUBSET Keys, unapproved : SUBSET Unapproved]
Message ==
  [type : {"register", "approve"}, from : Keys, to : Keys, index : 1 .. Cardinality(Keys),
   nonce : Nonce, nonceToSign : Nonce \cup {NoNonce}]

IndexIn(s, k) == IF k \in Range(s) THEN CHOOSE i \in DOMAIN s : s[i] = k ELSE NotFound

NewPeers(s) == [i \in DOMAIN s |-> [pub |-> s[i], id |-> {}, unapproved |-> {}]]

GuardSetInit ==
  /\ config \in GuardSets
  /\ changes = 0
  /\ pkHandler = [g \in Keys |-> [publicKeys |-> NoKeys, guardId |-> NotFound]]
  /\ agreement = [g \in Keys |-> NoKeys]
  /\ peers = [g \in Keys |-> <<>>]
  /\ nonce = [g \in Keys |-> NoNonce]
  /\ index = [g \in Keys |-> NotFound]
  /\ updates = 0
  /\ drawn = 0
  /\ issued = [g \in Keys |-> {}]
  /\ msgs = {}

-----------------------------------------------------------------------------
(* The guard set *)

ChangeConfig ==
  /\ changes < MaxChanges
  /\ changes' = changes + 1
  /\ config' \in GuardSets \ {config}
  /\ UNCHANGED <<handler, updates, drawn, issued, msgs>>

\* The index is computed once
getIndex(g, ps) ==
  IF index[g] # NotFound THEN index[g]
  ELSE IndexIn([i \in DOMAIN ps |-> ps[i].pub], g)

\* mutant: the ids of the former peers stay
KeepIds(g, s) ==
  [i \in DOMAIN s |->
     [pub |-> s[i], unapproved |-> {},
      id |-> IF i \in DOMAIN peers[g] THEN peers[g][i].id ELSE {}]]

ChangedPeers(g, s) == NewPeers(s)

\* handlePublicKeysChange, and sendRegister to everyone
handlePublicKeysChange(g, s) ==
  LET ps == ChangedPeers(g, s)
      i == getIndex(g, ps)
  IN  /\ drawn' = drawn + 1
      /\ peers' = [peers EXCEPT ![g] = ps]
      /\ nonce' = [nonce EXCEPT ![g] = drawn + 1]
      /\ issued' = [issued EXCEPT ![g] = {drawn + 1}]
      /\ index' = [index EXCEPT ![g] = i]
      /\ msgs' = msgs \cup
           {[type |-> "register", from |-> g, to |-> p, index |-> i,
             nonce |-> drawn + 1, nonceToSign |-> NoNonce] : p \in Keys \ {g}}

\* configUpdateJob, and the same at start-up: a guard that is not found in
\* the guard set has taken it over all the same, and tells no other module.
\* TxAgreement is built at start-up
Update(g) ==
  /\ updates < MaxUpdates
  /\ updates' = updates + 1
  /\ pkHandler[g].publicKeys = NoKeys => g \in Range(config)
  /\ pkHandler' = [pkHandler EXCEPT ![g] =
       [publicKeys |-> config, guardId |-> IndexIn(config, g)]]
  /\ \/ /\ g \in Range(config)
        /\ handlePublicKeysChange(g, config)
        /\ agreement' = [agreement EXCEPT ![g] =
             IF @ = NoKeys THEN config ELSE @]
     \/ /\ g \notin Range(config)
        /\ UNCHANGED <<agreement, peers, nonce, index, drawn, issued, msgs>>
  /\ UNCHANGED <<config, changes>>

Restart(g) ==
  /\ pkHandler' = [pkHandler EXCEPT ![g] = [publicKeys |-> NoKeys, guardId |-> NotFound]]
  /\ agreement' = [agreement EXCEPT ![g] = NoKeys]
  /\ peers' = [peers EXCEPT ![g] = <<>>]
  /\ nonce' = [nonce EXCEPT ![g] = NoNonce]
  /\ index' = [index EXCEPT ![g] = NotFound]
  /\ issued' = [issued EXCEPT ![g] = {}]
  /\ UNCHANGED <<config, changes, updates, drawn, msgs>>

-----------------------------------------------------------------------------
(* Registration *)

\* handleMessage: the index is one of a peer, whose key the message is signed with
Accepts(g, m) == m.index \in DOMAIN peers[g] /\ peers[g][m.index].pub = m.from

Reply(g, m, n, c) ==
  [type |-> "approve", from |-> g, to |-> m.from, index |-> getIndex(g, peers[g]),
   nonce |-> n, nonceToSign |-> c]

handleRegister(g, m) ==
  /\ m.type = "register" /\ Accepts(g, m)
  /\ drawn' = drawn + 1
  /\ issued' = [issued EXCEPT ![g] = @ \cup {drawn + 1}]
  /\ peers' = [peers EXCEPT ![g][m.index].unapproved =
                 @ \cup {[id |-> m.from, challenge |-> drawn + 1]}]
  /\ msgs' = (msgs \ {m}) \cup {Reply(g, m, m.nonce, drawn + 1)}
  /\ UNCHANGED <<config, changes, pkHandler, agreement, nonce, index, updates>>

\* mutant: the peer is not asked for the last nonce
AnswersAny(g, m) == TRUE
\* mutant: only challenges count
AnswersNone(g, m) == FALSE

AnswersNonce(g, m) == nonce[g] = m.nonce

handleApprove(g, m) ==
  /\ m.type = "approve" /\ Accepts(g, m)
  /\ LET peer == peers[g][m.index]
         challenge == [id |-> m.from, challenge |-> m.nonce]
         answered == challenge \in peer.unapproved
     IN  peers' = [peers EXCEPT ![g][m.index] =
           [peer EXCEPT
              !.unapproved = peer.unapproved \ {challenge},
              !.id = IF answered \/ AnswersNonce(g, m) THEN {m.from} ELSE peer.id]]
  /\ msgs' = (msgs \ {m}) \cup
       IF m.nonceToSign # NoNonce THEN {Reply(g, m, m.nonceToSign, NoNonce)} ELSE {}
  /\ UNCHANGED <<config, changes, pkHandler, agreement, nonce, index, updates,
                 drawn, issued>>

Ignore(g, m) ==
  /\ ~Accepts(g, m)
  /\ msgs' = msgs \ {m}
  /\ UNCHANGED <<config, changes, handler, updates, drawn, issued>>

Receive(m) ==
  handleRegister(m.to, m) \/ handleApprove(m.to, m) \/ Ignore(m.to, m)

Lose(m) ==
  /\ Lossy
  /\ msgs' = msgs \ {m}
  /\ UNCHANGED <<config, changes, handler, updates, drawn, issued>>

GuardSetNext ==
  \/ ChangeConfig
  \/ \E g \in Keys : Update(g) \/ Restart(g)
  \/ \E m \in msgs : Receive(m) \/ Lose(m)

GuardSetSpec == GuardSetInit /\ [][GuardSetNext]_vars

\* A message that is not lost is handled
FairSpec == GuardSetSpec /\ \A m \in Message : WF_vars(m \in msgs /\ Receive(m))

-----------------------------------------------------------------------------
(* Properties *)

TypeOK ==
  /\ config \in GuardSets
  /\ changes \in 0 .. MaxChanges
  /\ \A g \in Keys :
       /\ pkHandler[g].publicKeys \in GuardSets \cup {NoKeys}
       /\ agreement[g] \in GuardSets \cup {NoKeys}
       /\ peers[g] \in Seq(Peer)
       /\ nonce[g] \in Nonce \cup {NoNonce}
       /\ issued[g] \subseteq Nonce
  /\ msgs \subseteq Message

\* Through changes of the guard set, restarts and answers that arrive late, a
\* peer id is only ever taken for that of the guard whose it is, and of a guard
\* in the list at hand.
PeersAreThemselves ==
  \A g \in Keys : \A i \in DOMAIN peers[g] : peers[g][i].id \subseteq {peers[g][i].pub}

\* A peer is approved by an answer to a nonce drawn since the list of peers was
\* reset: an answer to an earlier registration does not count.
ApprovedByFreshAnswer ==
  [][\A g \in Keys : \A i \in DOMAIN peers'[g] :
       /\ peers'[g][i].id # {}
       /\ peers[g] = <<>> \/ i \notin DOMAIN peers[g] \/ peers[g][i].id = {}
       => \E m \in msgs \ msgs' : m.to = g /\ m.nonce \in issued'[g]]_vars

\* "Apply required changes after changes in public keys": a guard signs its
\* messages under the index its key has in the list at hand.
IndexIsOwn ==
  \A g \in Keys : index[g] # NotFound => peers[g][index[g]].pub = g

\* "updates public keys in all dependent modules": once the other modules are
\* told, the agreement is on the guard set that GuardPkHandler holds.
AgreementIsUpdated ==
  \A g \in Keys :
    pkHandler[g].guardId # NotFound => agreement[g] = pkHandler[g].publicKeys

\* "-1 if it's in gap": what guardTurn() returns between the turns is no
\* guard's id.
NoTurn == -1
GapIsNobodysTurn ==
  \A g \in Keys : pkHandler[g].publicKeys # NoKeys => pkHandler[g].guardId # NoTurn

\* When the guards of the guard set hold it and stay up, all of them come to
\* know each other, in whatever order their messages arrive, if none is lost:
\* a registration that overtakes another does not keep a peer unknown.
Holds(g) == [i \in DOMAIN peers[g] |-> peers[g][i].pub] = config
Knows(g, p) == \E i \in DOMAIN peers[g] : peers[g][i].id = {p}
GuardsMeet ==
  <>[](\A g \in Range(config) : Holds(g))
    => <>[](\A g, p \in Range(config) : p # g => Knows(g, p))
=============================================================================
