---------------------------- MODULE TxAgreement ----------------------------
(***************************************************************************)
(* agreement/TxAgreement.ts: all guards of the bridge agreeing on event    *)
(* txs.  In its turn a guard requests agreement to its txs, the others     *)
(* verify and answer with a signature, and whoever sees requiredSign of    *)
(* them takes the tx as approved.  Messages may be lost, duplicated and    *)
(* reordered; handlers of one guard interleave wherever they await.        *)
(*                                                                         *)
(* Of the tables (Database, TxApproval, TransactionProcessor) only the     *)
(* status of the txs is kept here; an event is up for a tx when it has no  *)
(* valid one.  All txs are of one type.  Guards follow the program.        *)
(***************************************************************************)
EXTENDS GuardTurn, FiniteSets

CONSTANTS
  requiredSign,
  Txs,          \* tx ids, in the order of txIds
  Events,
  EventOf,
  messageValidDuration,  \* age at which the Communicator drops messages
  MaxTime,      \* bound: the last moment of the clock
  MaxRestarts   \* bound: restarts of guards

ASSUME TxAgreementAssumption ==
  /\ requiredSign \in 1 .. guardsLen
  /\ messageValidDuration \in Nat
  /\ Txs \subseteq Nat \ {0}
  /\ EventOf \in [Txs -> Events]
  /\ MaxTime \in Nat
  /\ MaxRestarts \in Nat

NoTx == 0
NoTime == -1
Time == 0 .. MaxTime

VARIABLES
  mem,       \* what each guard has in memory
  table,     \* status of each tx in the table of each guard
  msgs,      \* messages that can be received, any number of times
  ran,       \* guards whose confirmedEventsJob ran in this turn
  running,   \* guards whose agreement queue and resend jobs are scheduled
  due,       \* guards whose resetJob is due in this gap
  clearDue,  \* guards whose clearTransactions is due in this gap
  restarts,  \* number of restarts so far
  signed     \* history: the guards that ever signed each tx

timers == <<ran, running, due, clearDue>>
vars == <<now, mem, table, msgs, timers, restarts, signed>>

Signature == [by : Guards, ts : Time]
Candidate == [tx : Txs, ts : Time]

Request == [type : {"request"}, from : Guards, tx : Txs, ts : Time]
Response ==
  [type : {"response"}, from : Guards, to : Guards, tx : Txs, ts : Time]
Approval == [type : {"approval"}, from : Guards, tx : Txs, ts : Time,
             signatures : SUBSET Signature]
Message == Request \cup Response \cup Approval

Memory ==
  [pending : SUBSET Events,       \* rows processConfirmedEvents works through
   transactionQueue : SUBSET Txs,
   starting : SUBSET Candidate,   \* requested, not yet in transactions
   transactions : [Txs -> Time \cup {NoTime}],
   transactionApprovals : [Txs -> SUBSET Signature],   \* {}: no entry
   eventAgreedTransactions : [Events -> Txs \cup {NoTx}],
   approvedTransactions : SUBSET Approval,             \* to be resent
   verifying : SUBSET Message,    \* in verifyTransactionRequest
   counting : SUBSET Candidate,   \* waiting for approvalSemaphore
   approving : SUBSET [tx : Txs, inSemaphore : BOOLEAN]]   \* setTxAsApproved

EmptyMemory ==
  [pending |-> {}, transactionQueue |-> {}, starting |-> {},
   transactions |-> [t \in Txs |-> NoTime],
   transactionApprovals |-> [t \in Txs |-> {}],
   eventAgreedTransactions |-> [e \in Events |-> NoTx],
   approvedTransactions |-> {}, verifying |-> {}, counting |-> {},
   approving |-> {}]

RowStatus == {"absent", "approved", "advanced", "invalid"}

\* The memories, rows and messages of the guards have the shape of the
\* interfaces of the source, and only txs held are requested.
TypeOK ==
  /\ now \in Time
  /\ mem \in [Guards -> Memory]
  /\ table \in [Guards -> [Txs -> RowStatus]]
  /\ msgs \subseteq Message
  /\ ran \subseteq Guards /\ running \subseteq Guards
  /\ due \subseteq Guards /\ clearDue \subseteq Guards
  /\ restarts \in 0 .. MaxRestarts
  /\ signed \in [Txs -> SUBSET Guards]

Init ==
  /\ now = 0
  /\ mem = [g \in Guards |-> EmptyMemory]
  /\ table = [g \in Guards |-> [t \in Txs |-> "absent"]]
  /\ msgs = {}
  /\ ran = {} /\ running = {} /\ due = {} /\ clearDue = {}
  /\ restarts = 0
  /\ signed = [t \in Txs |-> {}]

SameEvent(t, u) == EventOf[t] = EventOf[u]
ValidTxs(g, e) ==
  {t \in Txs : EventOf[t] = e /\ table[g][t] \in {"approved", "advanced"}}

Fresh(m, time) == time - m.ts <= messageValidDuration
Sends(ms) == msgs' = msgs \cup {m \in ms : Fresh(m, now)}
Sign(g, t) == signed' = [signed EXCEPT ![t] = @ \cup {g}]

-----------------------------------------------------------------------------
(* Time and timers *)

InGap(time) == guardTurnAt(time) = NoTurn

\* The timers of a gap fire in it.  The Communicator drops stale messages.
Tick ==
  /\ now < MaxTime
  /\ now' = now + 1
  /\ msgs' = {m \in msgs : Fresh(m, now + 1)}
  /\ \/ /\ ~InGap(now) /\ InGap(now + 1)
        /\ due' = Guards
        /\ UNCHANGED <<ran, running, clearDue>>
     \/ /\ InGap(now) /\ ~InGap(now + 1)
        /\ due = {} /\ clearDue = {}
        /\ ran' = {} /\ running' = {}
        /\ UNCHANGED <<due, clearDue>>
     \/ /\ InGap(now) <=> InGap(now + 1)
        /\ UNCHANGED timers
  /\ UNCHANGED <<mem, table, restarts, signed>>

\* resetJob: clearAgreedTransactions
ResetJob(g) ==
  /\ g \in due
  /\ due' = due \ {g}
  /\ mem' = [mem EXCEPT
       ![g].transactions = EmptyMemory.transactions,
       ![g].eventAgreedTransactions = EmptyMemory.eventAgreedTransactions]
  /\ UNCHANGED <<now, table, msgs, ran, running, clearDue, restarts, signed>>

ClearTransactions(g) ==
  /\ g \in clearDue /\ InGap(now)
  /\ clearDue' = clearDue \ {g}
  /\ mem' = [mem EXCEPT
       ![g].transactionQueue = {},
       ![g].transactions = EmptyMemory.transactions,
       ![g].transactionApprovals = EmptyMemory.transactionApprovals,
       ![g].approvedTransactions = {}]
  /\ UNCHANGED <<now, table, msgs, ran, running, due, restarts, signed>>

-----------------------------------------------------------------------------
(* The guard whose turn it is *)

\* mutant: the job may run again in the same turn
JobIsDueAgain(g) == guardTurn = g

\* its timer is set for the next turn once it ran
JobIsDue(g) == guardTurn = g /\ g \notin ran

\* confirmedEventsJob: reads the pending events, enqueues the txs that failed
\* in sign (some of the advanced ones), and schedules the agreement jobs.
ConfirmedEventsJob(g) ==
  /\ JobIsDue(g)
  /\ ran' = ran \cup {g}
  /\ running' = running \cup {g}
  /\ clearDue' = clearDue \cup {g}
  /\ \E failed \in SUBSET {t \in Txs : table[g][t] = "advanced"} :
       mem' = [mem EXCEPT
         ![g].pending = {e \in Events : ValidTxs(g, e) = {}},
         ![g].transactionQueue = @ \cup failed]
  /\ UNCHANGED <<now, table, msgs, due, restarts, signed>>

\* processConfirmedEvents created t, and it is still the guard's turn.  A run
\* of the job does not last until the guard's next turn.
AddTransactionToQueue(g, t) ==
  /\ g \in running
  /\ EventOf[t] \in mem[g].pending
  /\ guardTurn = g
  /\ mem' = [mem EXCEPT ![g].pending = @ \ {EventOf[t]},
                        ![g].transactionQueue = @ \cup {t}]
  /\ UNCHANGED <<now, table, msgs, timers, restarts, signed>>

\* processAgreementQueue, one tx: broadcast the request ...
BroadcastRequest(g, t) ==
  /\ g \in running
  /\ t \in mem[g].transactionQueue
  /\ mem[g].starting = {}
  /\ mem' = [mem EXCEPT ![g].transactionQueue = @ \ {t},
                        ![g].starting = {[tx |-> t, ts |-> now]}]
  /\ Sends({[type |-> "request", from |-> g, tx |-> t, ts |-> now]})
  /\ UNCHANGED <<now, table, timers, restarts, signed>>

\* ... then sign it and be ready for the responses
StartAgreement(g, c) ==
  /\ c \in mem[g].starting
  /\ mem' = [mem EXCEPT
       ![g].starting = {},
       ![g].transactions[c.tx] = c.ts,
       ![g].transactionApprovals[c.tx] = {[by |-> g, ts |-> c.ts]}]
  /\ Sign(g, c.tx)
  /\ UNCHANGED <<now, table, msgs, timers, restarts>>

\* mutant: the txs forgotten count as well
HeldTxsAndForgotten(g) == Txs

HeldTxs(g) == {t \in Txs : mem[g].transactions[t] # NoTime}

\* agreementResendJob; transactions also holds the txs of other guards
ResendTransactionRequests(g) ==
  /\ g \in running /\ ~InGap(now)
  /\ Sends({[type |-> "request", from |-> g, tx |-> t,
             ts |-> mem[g].transactions[t]] : t \in HeldTxs(g)})
  /\ UNCHANGED <<now, mem, table, timers, restarts, signed>>

ResendApprovalMessages(g) ==
  /\ g \in running
  /\ Sends(mem[g].approvedTransactions)
  /\ UNCHANGED <<now, mem, table, timers, restarts, signed>>

-----------------------------------------------------------------------------
(* Messages *)

\* verifyTransactionRequest, up to the verification it awaits
VerifyTransactionRequest(g, m) ==
  /\ m.from # g /\ guardTurn = m.from
  /\ mem[g].eventAgreedTransactions[EventOf[m.tx]] \in {NoTx, m.tx}
  /\ mem' = [mem EXCEPT ![g].verifying = @ \cup {m}]
  /\ UNCHANGED <<now, table, msgs, timers, restarts, signed>>

ProcessTransactionRequest(g, m) ==
  /\ m.type = "request"
  /\ VerifyTransactionRequest(g, m)

\* The event has no valid tx but m.tx: the guard agrees to it.
Agree(g, m) ==
  /\ m \in mem[g].verifying
  /\ ValidTxs(g, EventOf[m.tx]) \subseteq {m.tx}
  /\ LET agreed == [mem[g] EXCEPT
           !.verifying = mem[g].verifying \ {m},
           !.eventAgreedTransactions[EventOf[m.tx]] = m.tx]
     IN  \/ /\ m.type = "request"
            /\ mem' = [mem EXCEPT ![g] =
                         [agreed EXCEPT !.transactions[m.tx] = m.ts]]
            /\ Sends({[type |-> "response", from |-> g, to |-> m.from,
                       tx |-> m.tx, ts |-> m.ts]})
            /\ Sign(g, m.tx)
         \/ /\ m.type = "approval"
            /\ mem' = [mem EXCEPT ![g] =
                         [agreed EXCEPT !.approving = agreed.approving
                            \cup {[tx |-> m.tx, inSemaphore |-> FALSE]}]]
            /\ UNCHANGED <<msgs, signed>>
  /\ UNCHANGED <<now, table, timers, restarts>>

Disagree(g, m) ==
  /\ m \in mem[g].verifying
  /\ mem' = [mem EXCEPT ![g].verifying = @ \ {m}]
  /\ UNCHANGED <<now, table, msgs, timers, restarts, signed>>

\* processAgreementResponse, up to the semaphore.  The approvals of a tx are
\* one array, which its approval message to be resent holds as well.
ProcessAgreementResponse(g, m) ==
  /\ m.type = "response" /\ m.to = g
  /\ mem[g].transactions[m.tx] = m.ts
  /\ mem[g].transactionApprovals[m.tx] # {}
  /\ LET approvals == mem[g].transactionApprovals[m.tx]
         signatures == {s \in approvals : s.by # m.from}
                         \cup {[by |-> m.from, ts |-> m.ts]}
     IN  mem' = [mem EXCEPT
           ![g].transactionApprovals[m.tx] = signatures,
           ![g].approvedTransactions =
              {a \in @ : a.tx # m.tx \/ a.signatures # approvals} \cup
              {[a EXCEPT !.signatures = signatures] :
                 a \in {b \in @ : b.tx = m.tx /\ b.signatures = approvals}},
           ![g].counting = @ \cup {[tx |-> m.tx, ts |-> m.ts]}]
  /\ UNCHANGED <<now, table, msgs, timers, restarts, signed>>

\* mutant: one signature too few
AlmostEnough(signatures) == Cardinality(signatures) >= requiredSign - 1

Enough(signatures) == Cardinality(signatures) >= requiredSign

\* In the semaphore: broadcast the approval when enough guards agreed; the
\* semaphore is kept until setTxAsApproved is over.
CountApprovals(g, c) ==
  /\ c \in mem[g].counting
  /\ \A a \in mem[g].approving : ~a.inSemaphore
  /\ LET signatures == mem[g].transactionApprovals[c.tx]
         approval == [type |-> "approval", from |-> g, tx |-> c.tx,
                      ts |-> c.ts, signatures |-> signatures]
     IN  IF Enough(signatures)
         THEN /\ Sends({approval})
              /\ mem' = [mem EXCEPT
                   ![g].counting = @ \ {c},
                   ![g].approving = @ \cup {[tx |-> c.tx, inSemaphore |-> TRUE]},
                   ![g].approvedTransactions =
                      IF \E a \in @ : a.tx = c.tx THEN @ ELSE @ \cup {approval}]
         ELSE /\ mem' = [mem EXCEPT ![g].counting = @ \ {c}]
              /\ UNCHANGED msgs
  /\ UNCHANGED <<now, table, timers, restarts, signed>>

\* every signature is checked against the timestamp of the message
Verifies(m) ==
  /\ \A s \in m.signatures : s.ts = m.ts
  /\ Cardinality(m.signatures) >= requiredSign

ProcessApprovalMessage(g, m) ==
  /\ m.type = "approval" /\ m.from # g
  /\ Verifies(m)
  /\ IF mem[g].transactions[m.tx] # NoTime
     THEN /\ mem' = [mem EXCEPT ![g].approving =
                       @ \cup {[tx |-> m.tx, inSemaphore |-> FALSE]}]
          /\ UNCHANGED <<now, table, msgs, timers, restarts, signed>>
     ELSE /\ mem[g].eventAgreedTransactions[EventOf[m.tx]] = NoTx
          /\ VerifyTransactionRequest(g, m)

\* DatabaseHandler.insertEventTx under txSignSemaphore
InsertEventTx(rows, t) ==
  LET valid == {u \in Txs : /\ SameEvent(t, u)
                            /\ rows[u] \in {"approved", "advanced"}}
  IN  CASE rows[t] = "invalid" -> rows
        [] rows[t] # "invalid" /\ valid = {} -> [rows EXCEPT ![t] = "approved"]
        [] rows[t] # "invalid" /\ \E u \in valid : rows[u] = "approved" /\ t < u ->
             [u \in Txs |-> IF u = t THEN "approved"
                            ELSE IF u \in valid THEN "absent" ELSE rows[u]]
        [] OTHER -> rows

Forget(memory, a) ==
  [memory EXCEPT !.approving = memory.approving \ {a},
                 !.transactions[a.tx] = NoTime,
                 !.transactionApprovals[a.tx] = {},
                 !.eventAgreedTransactions[EventOf[a.tx]] = NoTx]

SetTxAsApproved(g, a) ==
  /\ a \in mem[g].approving
  /\ table' = [table EXCEPT ![g] = InsertEventTx(@, a.tx)]
  /\ mem' = [mem EXCEPT ![g] = Forget(mem[g], a)]
  /\ UNCHANGED <<now, msgs, timers, restarts, signed>>

-----------------------------------------------------------------------------
(* The transaction job, and restarts *)

AdvanceTx(g, t) ==
  /\ table[g][t] = "approved"
  /\ table' = [table EXCEPT ![g][t] = "advanced"]
  /\ UNCHANGED <<now, mem, msgs, timers, restarts, signed>>

GiveUpTx(g, t) ==
  /\ table[g][t] = "advanced"
  /\ table' = [table EXCEPT ![g][t] = "invalid"]
  /\ UNCHANGED <<now, mem, msgs, timers, restarts, signed>>

\* The jobs of the turn are scheduled again for the next turn of the guard.
Restart(g) ==
  /\ restarts < MaxRestarts
  /\ restarts' = restarts + 1
  /\ mem' = [mem EXCEPT ![g] = EmptyMemory]
  /\ ran' = ran \cup {g}
  /\ running' = running \ {g}
  /\ due' = due \ {g}
  /\ clearDue' = clearDue \ {g}
  /\ UNCHANGED <<now, table, msgs, signed>>

Next ==
  \/ Tick
  \/ \E g \in Guards :
       \/ ResetJob(g) \/ ClearTransactions(g) \/ ConfirmedEventsJob(g)
       \/ ResendTransactionRequests(g) \/ ResendApprovalMessages(g)
       \/ Restart(g)
       \/ \E t \in Txs : \/ AddTransactionToQueue(g, t) \/ BroadcastRequest(g, t)
                         \/ AdvanceTx(g, t) \/ GiveUpTx(g, t)
       \/ \E c \in mem[g].starting : StartAgreement(g, c)
       \/ \E c \in mem[g].counting : CountApprovals(g, c)
       \/ \E a \in mem[g].approving : SetTxAsApproved(g, a)
       \/ \E m \in mem[g].verifying : Agree(g, m) \/ Disagree(g, m)
       \/ \E m \in msgs : \/ ProcessTransactionRequest(g, m)
                          \/ ProcessAgreementResponse(g, m)
                          \/ ProcessApprovalMessage(g, m)

Spec == Init /\ [][Next]_vars

-----------------------------------------------------------------------------
(* Safety *)

\* No guard takes a tx into its table that fewer than requiredSign guards
\* signed, through whatever mixture of requests, approvals and restarts.
QuorumBehindRow ==
  \A g \in Guards, t \in Txs :
    table[g][t] # "absent" => Cardinality(signed[t]) >= requiredSign

\* Agreeing is signing; a guard took as approved what its table has a row of.
Promise == INSTANCE QuorumApproval WITH
  Guard <- Guards, Tx <- Txs, agreed <- signed,
  Quorum <- {Q \in SUBSET Guards : Cardinality(Q) >= requiredSign},
  approved <- [g \in Guards |-> {t \in Txs : table[g][t] # "absent"}]

\* The protocol keeps what it promises: whenever a row appears in the table of
\* a guard, a quorum of the guards has signed its tx.
ImplementsQuorumApproval == Promise!QSpec

\* The inductive invariant behind both: whatever a guard holds or sends as a
\* signature was signed, and what it takes for approved has a quorum.
Signed(t, signatures) ==
  /\ \A s \in signatures : s.by \in signed[t]
  /\ \A r, s \in signatures : r.by = s.by => r = s

HasQuorum(t) == Cardinality(signed[t]) >= requiredSign

MessageBacked(m) ==
  /\ m.type = "response" => m.from \in signed[m.tx]
  /\ m.type = "approval" => HasQuorum(m.tx)

MemoryBacked(g) ==
  /\ \A t \in Txs : Signed(t, mem[g].transactionApprovals[t])
  /\ \A m \in mem[g].approvedTransactions : HasQuorum(m.tx)
  /\ \A m \in mem[g].verifying : MessageBacked(m)
  /\ \A a \in mem[g].approving : HasQuorum(a.tx)

QuorumInv ==
  /\ \A m \in msgs : MessageBacked(m)
  /\ \A g \in Guards : MemoryBacked(g)
  /\ \A g \in Guards, t \in Txs : table[g][t] # "absent" => HasQuorum(t)

\* Within one turn at most one tx of an event is approved by the guards, or
\* two guards could hold and sign different txs of it.
OneApprovalPerTurn ==
  \A m, n \in msgs :
    /\ m.type = "approval" /\ n.type = "approval"
    /\ SameEvent(m.tx, n.tx)
    /\ m.ts \div TURNS_LENGTH = n.ts \div TURNS_LENGTH
    => m.tx = n.tx

\* processApprovalMessage calls it impossible that the guard agreed to the tx
\* for its event and does not hold the tx.
AgreedTxIsHeld ==
  \A g \in Guards : \A m \in msgs :
    /\ m.type = "approval" /\ m.from # g
    /\ mem[g].eventAgreedTransactions[EventOf[m.tx]] = m.tx
    => mem[g].transactions[m.tx] # NoTime
=============================================================================
