------------------------------ MODULE Services ------------------------------
(***************************************************************************)
(* The parts of the service that share no variable with each other.  A     *)
(* behaviour runs one of them, the part chosen at its start; the others    *)
(* stay in an initial state.  The fairness of every part is that of its    *)
(* specification, which asks nothing of the behaviours that do not run it. *)
(***************************************************************************)
EXTENDS GuardTurn, Sequences, FiniteSets

CONSTANTS
  Relays, Listeners, p2pBrokenTimeAllowed, MaxDeletions,  \* AddressBook
  Events, Rows, rowsOf, requiredConfirmation,             \* Revenue
  MaxHeight, MaxFailures,
  Messages, Algorithms, algorithmOf, MaxStarts,           \* TssBinary
  PublicKeys, GuardSets, Lossy, MaxUpdates, MaxChanges,   \* GuardSet
  Signers, requiredSign, txSignTimeout, Introduced,       \* MultiSig
  MaxRequests, MaxDelayed

VARIABLES
  part,                                                         \* and now
  reachable, connected, book, deletions, trying, broken,        \* AddressBook
  height, spent, revenue, running, job, inserting, failures,    \* Revenue
  trustKey, processes, timers, signing, callbacks, promises,    \* TssBinary
  config, changes, pkHandler, agreement, peers, nonce, index,   \* GuardSet
  updates, drawn, issued, msgs,
  entry, secrets, delayed, sent, promise, waited, asked         \* MultiSig

Book == INSTANCE AddressBook WITH Guards <- Listeners
Job == INSTANCE Revenue
Tss == INSTANCE TssBinary WITH Requests <- Messages
Set == INSTANCE GuardSet WITH Keys <- PublicKeys
Sig == INSTANCE MultiSig WITH Guards <- Signers, drawn <- secrets, msgs <- sent

ASSUME ServicesAssumption ==
  Book!AddressBookAssumption /\ Job!RevenueAssumption /\ Tss!TssAssumption

Parts == {"clock", "book", "job", "tss", "set", "sig"}

bookVars == <<reachable, connected, book, deletions, trying, broken>>
jobVars == <<height, spent, revenue, running, job, inserting, failures>>
tssVars == <<trustKey, processes, timers, signing, callbacks, promises>>
setVars == <<config, changes, pkHandler, agreement, peers, nonce, index, updates,
             drawn, issued, msgs>>
sigVars == <<entry, secrets, delayed, sent, promise, waited, asked>>
vars == <<part, now, bookVars, jobVars, tssVars, setVars, sigVars>>

ServicesInit ==
  /\ part \in Parts
  /\ ClockInit
  /\ Book!AddressBookInit /\ (part # "book" => reachable = {})
  /\ Job!RevenueInit
  /\ Tss!TssInit
  /\ Set!GuardSetInit
  /\ Sig!MultiSigInit

\* Next of a part, and of no other
Runs(p, next) == part = p /\ next /\ UNCHANGED part

ServicesNext ==
  \/ /\ Runs("clock", ClockNext)
     /\ UNCHANGED <<bookVars, jobVars, tssVars, setVars, sigVars>>
  \/ /\ Runs("book", Book!AddressBookNext)
     /\ UNCHANGED <<now, jobVars, tssVars, setVars, sigVars>>
  \/ /\ Runs("job", Job!RevenueNext)
     /\ UNCHANGED <<now, bookVars, tssVars, setVars, sigVars>>
  \/ /\ Runs("tss", Tss!TssNext)
     /\ UNCHANGED <<now, bookVars, jobVars, setVars, sigVars>>
  \/ /\ Runs("set", Set!GuardSetNext)
     /\ UNCHANGED <<now, bookVars, jobVars, tssVars, sigVars>>
  \/ /\ Runs("sig", Sig!MultiSigNext)
     /\ UNCHANGED <<now, bookVars, jobVars, tssVars, setVars>>

BookFairness ==
  /\ \A p \in Book!Peers :
       /\ WF_bookVars(part = "book" /\ Book!DeletionEnds(p))
       /\ WF_bookVars(part = "book" /\ Book!AutoDial(p))
  /\ \A g \in Listeners : WF_bookVars(part = "book" /\ Book!PeerDiscovery(g))
  /\ \A r \in Relays : WF_bookVars(part = "book" /\ Book!ReconnectionTick(r))

JobFairness ==
  /\ WF_jobVars(part = "job" /\ Job!StartJob)
  /\ WF_jobVars(part = "job" /\ Job!TakeEvent)
  /\ WF_jobVars(part = "job" /\ Job!insertRevenue)

TssFairness ==
  /\ WF_tssVars(part = "tss" /\ Tss!runBinary)
  /\ \A s \in [key : Tss!Keys, request : Messages] :
       WF_tssVars(part = "tss" /\ Tss!Answer(s))
  /\ \A c \in {d \in Tss!Callback : d.algorithm = algorithmOf[d.request]} :
       WF_tssVars(part = "tss" /\ Tss!signRoute(c))

\* One message at a time bears a nonce as the one to be signed, or to register
\* with, or as the last that was
Bears(m, n) ==
  n = IF m.nonceToSign = Set!NoNonce THEN m.nonce ELSE m.nonceToSign

SetFairness ==
  \A n \in Set!Nonce :
    WF_setVars(part = "set" /\ \E m \in msgs : Bears(m, n) /\ Set!Receive(m))

SigFairness ==
  \A g \in Signers :
    /\ WF_sigVars(part = "sig" /\ Sig!cleanup(g))
    /\ WF_sigVars(part = "sig" /\ Sig!Tick(g))

ServicesSpec ==
  /\ ServicesInit /\ [][ServicesNext]_vars
  /\ BookFairness /\ JobFairness /\ TssFairness /\ SetFairness /\ SigFairness

-----------------------------------------------------------------------------
(* The properties of the parts, besides those of GuardTurn *)

\* "If the relay is connected, the corresponding interval is cleared": however
\* often a relay comes and goes, one interval at most adds it, and none while
\* it is connected.
OneIntervalWhileAway == part = "book" => Book!OneIntervalWhileAway

\* A relay that is lost and can be reached is connected again: a deletion that
\* lands after the relay was added does not keep it out of the book, nor does
\* one that lands when it is connected already.
RelaysComeBack == part = "book" => Book!RelaysComeBack

\* A guard that can be reached is connected again and again, as long as a relay
\* is: its deletion from the book is made good by the discovery.
GuardsAreFoundAgain == part = "book" => Book!GuardsAreFoundAgain

\* No revenue is counted twice, however often the job fails in the middle of an
\* event or between two, and only that of a tx that is confirmed is.
CountedOnce == part = "job" => Job!CountedOnce

\* Every confirmed event gets into the table, if its tx makes any rows: an
\* event whose processing failed does not keep the others out.
EventsAreSaved == part = "job" => Job!EventsAreSaved

\* However often the binary ends, one process of it runs, or one restart waits:
\* two would fight for the port, and the key of one be wrong.
OneBinary == part = "tss" => Tss!OneBinary

\* A request the binary works on, and keeps running for, is answered to the
\* promise that waits for it: by the binary, or by the library that gave up.
RequestsAreSettled == part = "tss" => Tss!RequestsAreSettled

\* When the guards of the guard set hold it and stay up, all of them come to
\* know each other, in whatever order their messages arrive, if none is lost:
\* a registration that overtakes another does not keep a peer unknown.
GuardsMeet == part = "set" => Set!GuardsMeet

\* The latest request at a guard is answered, by a signed tx or by the clean-up,
\* however many messages are lost.
RequestIsAnswered == part = "sig" => Sig!RequestIsAnswered
=============================================================================
