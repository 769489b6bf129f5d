------------------------------ MODULE Database ------------------------------
(***************************************************************************)
(* The tables of one guard that its jobs and handlers share                *)
(* (db/DatabaseAction.ts, db/entities): the confirmed events and the       *)
(* transactions.  Every operator with primes below is one query of         *)
(* DatabaseAction; nothing else writes the tables.  A row is abstracted to *)
(* the columns that some query or handler tests.                           *)
(***************************************************************************)
EXTENDS Integers, FiniteSets

CONSTANTS
  Events,       \* ids of the events the scanner can find
  ErgoEvents,   \* the events whose toChain is Ergo: one tx pays and rewards
  Txs,          \* the tx ids; the order of numbers is the order of txIds
  TypeOf,       \* the txType of each tx
  EventOf,      \* the eventId of each tx, NoEvent when it has none
  NoEvent,
  Free          \* the value of txSignSemaphore when nobody holds it

EventTypes == {"payment", "reward"}
TxTypes == EventTypes \cup {"coldStorage", "manual"}

ASSUME DatabaseAssumption ==
  /\ Txs \subseteq Nat \ {0}
  /\ ErgoEvents \subseteq Events
  /\ NoEvent \notin Events
  /\ TypeOf \in [Txs -> TxTypes]
  /\ EventOf \in [Txs -> Events \cup {NoEvent}]
  /\ \A t \in Txs : TypeOf[t] \in EventTypes <=> EventOf[t] # NoEvent

VARIABLES
  evStatus,        \* status of each event, "none" before its row exists
  evFails,         \* unexpectedFails of each event, saturated at the limit
  txStatus,        \* status of each tx, "absent" when no row has its id
  failedInSign,    \* the column of that name
  txSignSemaphore  \* holder of DatabaseAction.txSignSemaphore

tables == <<evStatus, evFails, txStatus, failedInSign>>

\* mutant: whoever wants txSignSemaphore takes it
SemaphoreIgnored == TRUE

SemaphoreIsFree == txSignSemaphore = Free

EventUnexpectedFailsLimit == 2

RewardStatuses == {"pending-reward", "in-reward", "reward-waiting"}
EventStatus ==
  RewardStatuses \cup
  {"pending-payment", "in-payment", "payment-waiting", "completed", "spent",
   "rejected", "timeout", "reached-limit"}

ActiveStatuses == {"sent", "signed", "approved", "sign-failed", "in-sign"}
TransactionStatus == ActiveStatuses \cup {"invalid", "completed"}

DatabaseTypeOK ==
  /\ evStatus \in [Events -> EventStatus \cup {"none"}]
  /\ evFails \in [Events -> 0 .. EventUnexpectedFailsLimit]
  /\ txStatus \in [Txs -> TransactionStatus \cup {"absent"}]
  /\ failedInSign \in [Txs -> BOOLEAN]

DatabaseInit ==
  /\ evStatus = [e \in Events |-> "none"]
  /\ evFails = [e \in Events |-> 0]
  /\ txStatus = [t \in Txs |-> "absent"]
  /\ failedInSign = [t \in Txs |-> FALSE]
  /\ txSignSemaphore = Free

-----------------------------------------------------------------------------
(* Queries *)

getEventsByStatuses(statuses) == {e \in Events : evStatus[e] \in statuses}

\* mutants: the query of the transaction job misses a status
ActiveWithoutInSign == {t \in Txs : txStatus[t] \in ActiveStatuses \ {"in-sign"}}
ActiveWithoutApproved ==
  {t \in Txs : txStatus[t] \in ActiveStatuses \ {"approved"}}

getActiveTransactions == {t \in Txs : txStatus[t] \in ActiveStatuses}

IsValidRow(t) == txStatus[t] \notin {"absent", "invalid"}

getEventValidTxsByType(e, type) ==
  {t \in Txs : EventOf[t] = e /\ TypeOf[t] = type /\ IsValidRow(t)}

getUnsignedFailedSignTxs ==
  {t \in Txs : txStatus[t] \in {"sign-failed", "in-sign"} /\ failedInSign[t]}

-----------------------------------------------------------------------------
(* Updates: an update of a row that is not there changes nothing *)

setEventStatus(e, status, incrementUnexpectedFails) ==
  /\ evStatus' =
       [evStatus EXCEPT ![e] = IF @ = "none" THEN "none" ELSE status]
  /\ evFails' =
       [evFails EXCEPT ![e] =
          IF incrementUnexpectedFails /\ @ < EventUnexpectedFailsLimit
          THEN @ + 1 ELSE @]
  /\ UNCHANGED <<txStatus, failedInSign>>

\* firstTry, which this one also writes, is abstracted with the clock
setEventStatusToPending(e, status) == setEventStatus(e, status, FALSE)

insertConfirmedEvent(e) ==
  /\ evStatus[e] = "none"
  /\ evStatus' = [evStatus EXCEPT ![e] = "pending-payment"]
  /\ UNCHANGED <<evFails, txStatus, failedInSign>>

setTxStatus(t, status) ==
  /\ txStatus' =
       [txStatus EXCEPT ![t] = IF @ = "absent" THEN "absent" ELSE status]
  /\ UNCHANGED <<evStatus, evFails, failedInSign>>

\* the only update whose WHERE clause names the status it expects
setTxAsSignFailed(t) ==
  /\ txStatus' =
       [txStatus EXCEPT ![t] = IF @ = "in-sign" THEN "sign-failed" ELSE @]
  /\ failedInSign' =
       [failedInSign EXCEPT ![t] = @ \/ txStatus[t] = "in-sign"]
  /\ UNCHANGED <<evStatus, evFails>>

updateWithSignedTx(t) == setTxStatus(t, "signed")

resetFailedInSign(t) ==
  /\ failedInSign' = [failedInSign EXCEPT ![t] = FALSE]
  /\ UNCHANGED <<evStatus, evFails, txStatus>>

\* mutant: an insertion writes over the row of its id
InsertOverwrites(t) == TRUE

\* txId is the primary key: inserting an id that is there throws
CanInsert(t) == txStatus[t] = "absent"

insertNewTx(t) ==
  /\ txStatus' = [txStatus EXCEPT ![t] = "approved"]
  /\ failedInSign' = [failedInSign EXCEPT ![t] = FALSE]
  /\ UNCHANGED <<evStatus, evFails>>

\* the row of old becomes the row of t
replaceTx(old, t) ==
  /\ txStatus' = [txStatus EXCEPT ![old] = "absent", ![t] = "approved"]
  /\ failedInSign' = [failedInSign EXCEPT ![old] = FALSE, ![t] = FALSE]
  /\ UNCHANGED <<evStatus, evFails>>

=============================================================================
