----------------------------- MODULE AddressBook -----------------------------
(***************************************************************************)
(* communication/Dialer.ts and jobs/healthCheck.ts: how a guard stays in   *)
(* the network.  libp2p dials whom it finds in the address book.  A peer   *)
(* that disconnects is deleted from it, asynchronously; a relay is added   *)
(* again and again until it is connected, and a guard when the discovery   *)
(* finds it, which works through a relay only.  A service whose network    *)
(* stays broken exits, and is started again.                               *)
(***************************************************************************)
EXTENDS Integers, FiniteSets

CONSTANTS
  Relays,                \* relays.peerIDs
  Guards,                \* the other peers, listeners
  p2pBrokenTimeAllowed,  \* in periods of the health check
  MaxDeletions           \* bound: deletions of one peer in progress

Peers == Relays \cup Guards

AddressBookAssumption ==
  /\ IsFiniteSet(Peers) /\ Relays \cap Guards = {}
  /\ p2pBrokenTimeAllowed \in Nat /\ MaxDeletions \in Nat \ {0}

VARIABLES
  reachable,  \* the peers that would answer; a guard answers through a relay
  connected,  \* getPeerIds
  book,       \* addressBook of the peer store
  deletions,  \* number of deletions of each peer in progress
  trying,     \* number of reconnection intervals of each relay
  broken      \* periods since the health check found the network not broken

vars == <<reachable, connected, book, deletions, trying, broken>>

connectedRelays == connected \cap Relays

\* The process starts; bootstrap, external, puts the relays in the book
StartDialer ==
  [connected |-> {}, book |-> Relays,
   deletions |-> [p \in Peers |-> 0], trying |-> [r \in Relays |-> 0]]

AddressBookInit ==
  /\ reachable \in SUBSET Peers
  /\ connected = StartDialer.connected
  /\ book = StartDialer.book
  /\ deletions = StartDialer.deletions
  /\ trying = StartDialer.trying
  /\ broken = 0

-----------------------------------------------------------------------------
(* Peers that disconnect *)

removePeerFromAddressBook(p) == deletions' = [deletions EXCEPT ![p] = @ + 1]

\* A new interval, and a listener that ends it
tryReconnectingRelay(r) == trying' = [trying EXCEPT ![r] = @ + 1]

PeerDisconnect(p) ==
  /\ p \in connected /\ deletions[p] < MaxDeletions
  /\ connected' = connected \ {p}
  /\ removePeerFromAddressBook(p)
  /\ IF p \in Relays THEN tryReconnectingRelay(p) ELSE UNCHANGED trying
  /\ UNCHANGED <<reachable, book, broken>>

\* The peer store answers: the deletion is done, or fails and is logged only
DeletionEnds(p) ==
  /\ deletions[p] > 0
  /\ deletions' = [deletions EXCEPT ![p] = @ - 1]
  /\ book' \in {book, book \ {p}}
  /\ UNCHANGED <<reachable, connected, trying, broken>>

\* mutant: the relay is added once
AddOnce(r) == [trying EXCEPT ![r] = 0]

KeepTrying(r) == trying

ReconnectionTick(r) ==
  /\ trying[r] > 0
  /\ book' = book \cup {r}
  /\ trying' = KeepTrying(r)
  /\ UNCHANGED <<reachable, connected, deletions, broken>>

-----------------------------------------------------------------------------
(* Peers that are found and connected *)

\* mutant: peers that were connected are not added
NotInBook(ps) == ps \cap (book \cup connected)

ToBeAdded(ps) == ps \ connected

addPeersToAddressBook(ps) == book' = book \cup ToBeAdded(ps)

\* peer:discovery, of a peer that is no relay, or a list from a relay that is
\* connected, which handlePeerDiscovery takes as it is
PeerDiscovery(p) ==
  /\ p \in Guards \cap reachable
  /\ connectedRelays # {}
  /\ addPeersToAddressBook({p})
  /\ UNCHANGED <<reachable, connected, deletions, trying, broken>>

\* mutant: the interval goes on
IntervalGoesOn(p) == trying

\* The listeners of peer:connect end the intervals of the relay
Cleared(p) == [r \in Relays |-> IF r = p THEN 0 ELSE trying[r]]

CanReach(p) == p \in reachable /\ (p \in Relays \/ connectedRelays # {})

PeerConnect(p) ==
  /\ p \notin connected /\ CanReach(p)
  /\ connected' = connected \cup {p}
  /\ trying' = Cleared(p)
  /\ UNCHANGED <<reachable, book, deletions, broken>>

\* External: libp2p dials the peers of the book
AutoDial(p) == p \in book /\ PeerConnect(p)

\* External: a guard dials this one
DialedBy(p) == p \in Guards /\ PeerConnect(p)

\* External: a peer, or the way to it, goes and comes
ReachabilityChanges(p) ==
  /\ reachable' = IF p \in reachable THEN reachable \ {p} ELSE reachable \cup {p}
  /\ UNCHANGED <<connected, book, deletions, trying, broken>>

-----------------------------------------------------------------------------
(* healthCheckUpdateJob: without a relay the network is broken *)

Exit ==
  /\ connected' = StartDialer.connected
  /\ book' = StartDialer.book
  /\ deletions' = StartDialer.deletions
  /\ trying' = StartDialer.trying
  /\ broken' = 0

TooLong(periods) == periods > p2pBrokenTimeAllowed

\* No time allowed is any time allowed
healthCheckUpdateJob ==
  /\ p2pBrokenTimeAllowed # 0
  /\ IF connectedRelays # {}
     THEN broken' = 0 /\ UNCHANGED <<connected, book, deletions, trying>>
     ELSE IF TooLong(broken + 1)
     THEN Exit
     ELSE /\ broken' = broken + 1
          /\ UNCHANGED <<connected, book, deletions, trying>>
  /\ UNCHANGED reachable

AddressBookNext ==
  \/ \E p \in Peers :
       \/ PeerDisconnect(p) \/ DeletionEnds(p)
       \/ AutoDial(p) \/ DialedBy(p) \/ PeerDiscovery(p)
       \/ ReachabilityChanges(p)
  \/ \E r \in Relays : ReconnectionTick(r)
  \/ healthCheckUpdateJob

\* The intervals tick, the peer store answers, and libp2p dials and discovers
\* repeatedly.  The additions of an interval do not fail for ever
AddressBookSpec ==
  /\ AddressBookInit /\ [][AddressBookNext]_vars
  /\ \A p \in Peers : WF_vars(DeletionEnds(p)) /\ WF_vars(AutoDial(p))
  /\ \A g \in Guards : WF_vars(PeerDiscovery(g))
  /\ \A r \in Relays : WF_vars(ReconnectionTick(r))

-----------------------------------------------------------------------------
(* Properties *)

TypeOK ==
  /\ reachable \subseteq Peers /\ connected \subseteq Peers
  /\ book \subseteq Peers
  /\ deletions \in [Peers -> 0 .. MaxDeletions]
  /\ trying \in [Relays -> Nat]
  /\ broken \in 0 .. p2pBrokenTimeAllowed

\* "If the relay is connected, the corresponding interval is cleared": however
\* often a relay comes and goes, one interval at most adds it, and none while
\* it is connected.
OneIntervalWhileAway ==
  \A r \in Relays : trying[r] <= 1 /\ (trying[r] = 1 => r \notin connected)

\* A relay that is lost and can be reached is connected again: a deletion that
\* lands after the relay was added does not keep it out of the book, nor does
\* one that lands when it is connected already.
RelaysComeBack ==
  \A r \in Relays :
    r \in reachable /\ r \notin connected ~>
      r \in connected \/ r \notin reachable

\* A guard that can be reached is connected again and again, as long as a relay
\* is: its deletion from the book is made good by the discovery.
GuardsAreFoundAgain ==
  \A g \in Guards :
    <>[](g \in reachable /\ connectedRelays # {}) => []<>(g \in connected)
=============================================================================
