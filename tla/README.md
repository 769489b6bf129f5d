# TLA+ models of the guard service

A guard service is one of the parties that move money over a bridge. A scanner tells it of events (a user
locked assets on one chain); the guards agree on a transaction that pays the user on the other chain, sign it
together, send it, and then do the same for the transaction that rewards the watchers. This directory holds
TLA+ modules for the service, configurations that check them with TLC, and theorems about them with proofs
that TLAPS checks. Paths below are those of the repository, whose source is in `src/`.

## 1. Inventory of the system

### Components, their state and operations

| Component | State it keeps | Operations | Correct when |
|---|---|---|---|
| Database (`db/DatabaseAction.ts`, `db/entities`) | rows of transactions and confirmed events; `txSignSemaphore` | one query per method, none in a database transaction | no update loses one that matters |
| DatabaseHandler (`db/DatabaseHandler.ts`) | none | `insertTx` under `txSignSemaphore`: read the valid rows of the event, then insert, replace, reinsert, ignore or throw | an event has one valid transaction of a type |
| RequestVerifier, EventVerifier, TransactionVerifier (`verification/`) | none | decide from the database and the chains whether to agree | no reward before a payment, no second payment |
| EventProcessor (`event/EventProcessor.ts`) | the list of rows a job works through | scan, create payment and reward transactions in the guard's turn, time out left-over events, requeue waiting events | a decision from an old row does no harm |
| TransactionProcessor (`transaction/TransactionProcessor.ts`) | the list of rows of a pass; the promises of the signers | by status of a row: send to the signers, submit, confirm, give up; callbacks of the signers | every transaction moves on; a completed event was paid |
| TxAgreement (`agreement/TxAgreement.ts`) | `transactionQueue`, `transactions`, `transactionApprovals`, `eventAgreedTransactions`, `approvedTransactions`, `approvalSemaphore`, all in memory | request, verify, respond, count, broadcast the approval, store; resend; clear at the end of a turn | what is approved was signed by a quorum; one approval per event and turn |
| GuardTurn (`utils/GuardTurn.ts`), jobs (`jobs/runProcessors.ts`) | the clock, timers | whose turn it is, when to wake, when to clear | a job runs in its own turn and is over before the next |
| `/sign` (`api/signTx.ts`) | none | insert a transaction given by an operator | only when the configuration allows it |
| MultiSig (`guard/multisig`) | peers with nonces, the queue of transactions with commitments and partial signatures, a global semaphore | registration handshake, commitments, delayed signing rounds, clean-up | one simulation of a round at a time; a promise is settled once |
| Tss (`guard/Tss.ts`) | the child process, the callbacks | start, sign, public key | every request is answered |
| GuardPkHandler (`handlers/`) | public keys, number of required signatures | update from the configuration box | users of it see one guard set |
| Dialer (`communication/`) | the queue of messages, the subscriptions, the connections | send, retry with back-off, dispatch | a message is delivered or given up after its retries |
| ColdStorage (`coldStorage/`) | none | create a transaction when a threshold is passed | one at a time for a chain |
| EventOrder, EventBoxes (`event/`) | none | payment and reward orders of an event | orders balance |
| Revenue (`jobs/revenue.ts`) | rows of revenues | extract the revenues of a reward transaction | every revenue once |
| HealthCheck, notifications, minimum fees, chains, configuration, the rest of the API | cached values, clients | read and format | - |

### How they interact

```
 scanner --> EventProcessor --queue--> TxAgreement <== messages ==> TxAgreement of the other guards
                  |                        | approved                  (Dialer)
                  v                        v
             events table  <------  DatabaseHandler.insertTx --> transactions table <-- POST /sign
                  ^                        ^ txSignSemaphore             ^
                  |                        v                             |
                  +-----------------  TransactionProcessor --------------+
                                           | request       ^ callback
                                           v               |
                                    MultiSig / Tss, and the chains
```

Jobs are timers that arm themselves again when they end. Message handlers, API requests and signing callbacks
run whenever the event loop gets to them. All share the database and the maps of TxAgreement, and any `await`
lets the others in.

### The hard behaviours

* Rows are read, awaited over, and written by handlers and jobs that overlap. Only insertion and hand-over to
  the signers take a semaphore; callbacks, time-outs and the jobs on events do not.
* A signer may answer after the service gave the transaction up; a restart loses the answers.
* Messages between guards are lost, doubled (by the resend jobs too) and reordered; guards restart.
* The agreement forgets on timers: a turn must be over before its memory is cleared, and cleared before the next.
* Two writes that belong together (transaction, event) are two queries, with a notification between them.

`PROJECT.json` lists each hazard at its line with the properties that bear on it.

## 2. Modules

| Module | Models | State |
|---|---|---|
| `Database` | `db/DatabaseAction.ts`, entities | `txStatus`, `failedInSign`, `evStatus`, `evFails`, `txSignSemaphore` |
| `TxApproval` | `DatabaseHandler.insertTx`, `RequestVerifier`, `TxAgreement.setTxAsApproved` as seen by one guard, `/sign` | `candidates`, `handler` |
| `EventProcessor` | `event/EventProcessor.ts` | `confirmedTodo`, `timeoutTodo`, `requeueTodo` |
| `TransactionProcessor` | `transaction/TransactionProcessor.ts`, signers and chain as environment | `todo`, `jobPc`, `cur`, `signing`, `onchain` |
| `GuardNode` | all of these in one process, with restarts | adds the history `resurrected` |
| `EventList` | `api/events.ts`, the lists of events beside `GuardNode` | `spent`, `listed`, `request` |
| `GuardTurn` | `utils/GuardTurn.ts` | `now` |
| `TxAgreement` | `agreement/TxAgreement.ts` on every guard, with the network | `mem`, `table`, `msgs`, timers, history `signed` |
| `QuorumApproval` | the promise of the agreement: approved only with a quorum | `agreed`, `approved` |
| `MultiSig` | `guard/multisig`: commitments, delayed rounds, proofs, relays, clean-up, on every guard | `entry`, `drawn`, `delayed`, `msgs`, `promise`, `waited`, history `asked` |
| `ThresholdSigner` | the promise of the signers: a request is answered once, and signed only if a quorum asked | `asked`, `promise` |
| `GuardSet` | `handlers/GuardPkHandler.ts`, the registration half of `MultiSigHandler`, on every guard | `config`, `pkHandler`, `agreement`, `peers`, `nonce`, `index`, `msgs` |
| `Dialer` | `communication/Dialer.ts`: the message queue of a guard, its streams, its peers' subscriptions | `queue`, `opening`, `timers`, `link`, `routes`, `wire`, `subscribed`, history `handled` |
| `LossyChannel` | the promise of the transport: at most once, in any order, settled in the end | `outstanding`, `received` |
| `AddressBook` | `communication/Dialer.ts`, `jobs/healthCheck.ts`: connections, relays, discovery | `connected`, `book`, `deletions`, `trying`, `broken` |
| `EventOrder` | `event/EventOrder.ts`, `event/EventBoxes.ts`: the payments and rewards of an event | `event`, `chain`, `scanned`, `tx` |
| `ColdStorage` | `coldStorage/ColdStorage.ts`, what verification, agreement and insertion do with its transactions | `period`, `lock`, `forbidden`, `txs`, `pending`, `requests`, `table` |
| `Revenue` | `jobs/revenue.ts` | `revenue`, `job`, `inserting` |
| `TssBinary` | `guard/Tss.ts`, `api/tss.ts` | `trustKey`, `processes`, `timers`, `signing`, `callbacks`, `promises` |
| `Services` | the parts that share nothing, one of which a behaviour runs: the clock, `AddressBook`, `Revenue`, `TssBinary`, `GuardSet`, `MultiSig` | `part` and theirs |
| `MC*` | instances for TLC | - |
| `*Proofs` | theorems | - |

`EventProcessor` extends `TxApproval`, which extends `Database`; `TransactionProcessor` extends `Database`;
`GuardNode` extends both and is their interleaving, to which `EventList` adds a client. `TxAgreement` extends
`GuardTurn`. The promises compose the layers: `TxAgreement` implements `QuorumApproval`, which is how `GuardNode` sees
it (a candidate is approved, or never); `MultiSig` implements `ThresholdSigner`, which is how `GuardNode` sees the
signers (a promise is settled once); `Dialer` implements `LossyChannel`, and the protocols assume less of their
messages than it gives.

### State and steps against the code

A step ends at an `await` of something that another activity may change. A row is its status, its
`failedInSign` flag and, for an event, its number of unexpected failures; ids are numbers because the code
compares them. The update methods of `DatabaseAction` are queries of their own: each is one atomic write, and writes
what the code writes whatever the row holds by then.

*A handler* (`handler[h]`) is one run of `setTxAsApproved` or of the `/sign` request. `insert`: its row of
the transaction was read and it waits for the semaphore. `write`: it holds the semaphore, has read the valid
rows of the event and decided (`op`). `event`: the transaction is stored and the event is not. There is one
handler per message in the code and `Handlers` in the model.

*The transaction job* (`todo`, `jobPc`, `cur`) keeps the rows it read at the start of a pass. `LeaveTx` stands
for everything that ends without a write (not yet timed out, resubmitted, an exception that is logged). `jobPc`
says what is between two writes of one transaction: waiting for the semaphore, resetting the event after the
transaction was invalidated, moving the event on after it was completed.

*Signers and chain.* `signing[t]` counts the promises not settled; `HandleSuccessfulSign` and
`HandleFailedSign` settle one at any time, also long after the timeout. `onchain[t]` is where a transaction is;
it may be seen, vanish again by a fork, and be confirmed for good.

*The agreement* keeps one record per guard with the maps of the class. `verifying`, `counting` and `approving`
are handlers at their awaits: in `verifyTransactionRequest`, before `approvalSemaphore`, in `setTxAsApproved`.
A message is a member of the set `msgs`: it can be received never, once or often, and in any order, until it is
older than `messageValidDuration`. A signature is its signer and its timestamp. The table of a guard is reduced
to the statuses that agreement tells apart, and `AdvanceTx` and `GiveUpTx` are what `TransactionProcessor` does
to it. A run of the creation job is taken not to last until the guard's next turn: in the code nothing but the length
of the turns of all other guards sees to that, and a run that did would add a transaction of the old turn to the queue.

*MultiSig.* Its handlers work on their entry of the queue under one semaphore, so each is one action. The
commitments of a guard are numbered as it draws their secrets; of a proof is kept who signed, who is simulated and
which commitments it was made with, from which follows whether a guard can extend it (`CanProve`) and whether the full
signature verifies (`valid`). What the wallet library computes otherwise is left out.

*GuardSet.* Each guard holds its own reading of the configuration box, and its `MultiSigHandler` the peers and the
index made of it, its `TxAgreement` the keys it was built with. A nonce is a number no other guard draws.

*Dialer.* The queue, the message in front of it and the timers are those of the class; a stream is a number, and its
peer hands what arrives to the callbacks subscribed at that moment. *AddressBook* has the rest of the class: libp2p
dials who is in the book, `peer:disconnect` deletes from it asynchronously, intervals and discovery add.

*EventOrder* computes the orders as the code does, in integers with the code's divisions, from the commitments that
each guard has scanned; redeems may come between the creation and the verification. *ColdStorage* has every
guard's reading of balance and tables, and the turn as a counter. *Revenue* takes one row at a time, any of which may
fail. *TssBinary* has the processes, their keys and the answers they post; the tss library is external.

## 3. What is checked

Each passing run explores all states within its bounds.

| Run | Question |
|---|---|
| `MCGuardPayment` | Two rival payment transactions of one event, or a manual or a cold storage one, with two concurrent approvals, the job, the signers and restarts: types, one valid transaction (`OneValidTx`), no hand-over to the signers between read and write (`NoSignDuringInsert`), an invalid transaction revived by a signature only (`InvalidOnlyRevivedBySignature`) |
| `MCGuardReward` | A payment and a reward through the whole life of an event, listed by a client: reward after payment (`RewardAfterPayment`), completion after both (`CompletedEventWasPaid`), a list fails only over a transaction that was given up (`FailsOnlyOverInvalidTx`) |
| `MCGuardJobs` | All three jobs with restarts, under fairness: approvals finish, signing ends, an approved transaction moves on |
| `MCAgreement` | Three guards over the turns of two of them and the gap between: types, at most one approval per event and turn (`OneApprovalPerTurn`) |
| `MCAgreementTurn` | One turn of three guards that all must sign, handlers without bound, two restarts: a quorum behind every stored transaction (`QuorumBehindRow`), refinement of `QuorumApproval` |
| `MCMultiSig` | Three guards that all must sign one transaction, repeated, reordered and lost messages, a restart, a second request: what is put together verifies (`FullProofsVerify`), refinement of `ThresholdSigner` |
| `MCGuardSet` | Three guards, a change of the guard set, restarts, lost and late messages: a peer id is taken for its guard only (`PeersAreThemselves`), and by an answer to a nonce of the list at hand (`ApprovedByFreshAnswer`) |
| `MCDialer` | Two peers, retries, streams that break, repeated subscription: refinement of `LossyChannel`, a message is handled once by a callback (`HandledOnce`), and overtaken only by retry or on a new stream (`OvertakesOnlyOnRetry`) |
| `MCEventOrder` | Two watchers' commitments around an event, two guards that scanned different blocks, two events: RWTs and fees are conserved through every rounding (`RwtConserved`, `FeesConserved`), a watcher has one share (`OneShareEach`), an honest transaction is rejected only if a commitment was redeemed meanwhile (`RejectedOnlyOnRedeem`) |
| `MCColdStorage` | Three guards over three turns, or two with events that take assets: no two transactions for one token in a table (`NoTwoForOneToken`), the low threshold remains (`LowRemains`), what is created verifies (`CreatedIsVerified`) |
| `MCServices` | The turn arithmetic with the constants of the code, the address book, the revenue job, the tss binary, the registration of two guards and the answers of `MultiSig`, each on its own, most of it liveness under the fairness of the part |
| `MCGuardLateSign` | Violated: two valid payment transactions of an event after a late signature |

### Bounds, and why they are enough

* `MCGuardPayment`: two transactions of an event are the least with a rivalry, two handlers the least with a race, as
  the semaphore admits one; the theorems cover any number. `MaxSign = 1` promise per transaction: a second one is
  the same callback again. The number of unexpected failures stops at the limit of the code, from which on
  nothing reads its value.
* The constraints in the MC modules only restrict which activities overlap (each says so); the restricted
  ones are free in another run or in a theorem. `MCGuardPayment` keeps the event jobs still because
  `MCGuardReward` and `MCGuardJobs` run them; `MCGuardReward` has one handler because `MCGuardPayment` has two.
* Handlers, watchers and the guards of `MCColdStorage` are interchangeable: `SYMMETRY` is used in runs without liveness only.
* `MCAgreement` has turns of three seconds, one of them up-time, and messages valid for two, so that
  messages outlive the gap as they do in the code (120 s of validity, 60 s of gap). Guards, transactions and quorum
  (2 of 3) are the least with two different quorums and two rivals. One guard may restart, once; a guard has one handler
  at a time. In `MCAgreementTurn` the quorum is 3 of 3, so that a creator has counts that are not enough, and handlers
  overlap freely.
* `MCMultiSig`: 3 of 3 is the least at which a proof passes through two other guards. `txSignTimeout = 0` ticks lets
  the clean-up run at any tick after the request's. One guard has the restart, the time-out and the second request.
* `MCGuardSet`: the new guard takes the place of an old one, or moves the place of one that stays; three updates are
  one for each guard, a restart included.
* `MCDialer`: one retry shows that a message is queued again and given up; three messages that one can overtake
  another while a third waits; two streams that one is replaced.
* `MCEventOrder`: amounts and ratios are chosen so that every division leaves a remainder, and that one event goes by
  the ratio and the other by the minimum fee; three commitments allow one merged, one late and one redeemed.
* `MCColdStorage`: balances up to 4 with the thresholds 2 and 3 pass each bound; 2 of 3 guards.
* `MCServices`: `GuardTurn` runs at every second of a period of the code's 4 guards, 180 s and 120 s. Two
  relays are the least where one is lost while the other carries the guard; three events are one of
  two rows, one of one, one of none, with two failures; two starts of the binary are a restart.
* `CHECK_DEADLOCK FALSE` where the bounds stop the system: the clock at `MaxTime`, requests, messages and periods at theirs.

### Fairness

Every assumption is on what the runtime does by itself; none is on the chain or, unless said so, on messages.

* `GuardNode`: every promise chain goes on (weak fairness of the steps of a handler and of the job, which arms its
  timer again whatever happened); whoever waits for `txSignSemaphore` gets it, since the semaphore is a queue and
  every holder is itself fair (strong fairness, as others hold it in between); signers settle their promises
  (MultiSig and Tss have a time-out); a transaction whose time-out has passed is found so in some pass of the job;
  restarts are finitely many.
* `Dialer`: the loop and the timers run, a dial succeeds or fails, and what was given to a stream arrives or is lost
  with it. `LossyChannel` promises no more than that a message is received or lost.
* `AddressBook`: deletions end, intervals tick, discovery runs, libp2p dials who is in the book.
* `Revenue`: the job runs and goes on; failures are finitely many (`MaxFailures`).
* `TssBinary`: a binary that ended is started again, one that runs answers, an answer posted is handled.
* `GuardSet`: only for `GuardsMeet`, messages are not lost, and each is handled in the end. A fairness for each nonce is
  enough because at most one message under way bears it.
* `MultiSig`: the clean-up job and time; every message may be lost.

In `MCServices` the fairness of a part is guarded by `part`, so that it asks nothing where the part does not run.

### Disagreements

A comment, a test or an error of the code says what the code does not do. The first is a run of its own; the others
are stated in the modules, and TLC refutes each when it is added to the configuration named here. Paths are
relative to `src/src`, unless they begin with `src/tests`.

| Property | Code | What is said, and what happens | Seen with |
|---|---|---|---|
| `SingleValidTx` | `db/DatabaseAction.ts:265` | `DatabaseHandler.ts:74-77` calls a second valid transaction of a type impossible. `updateWithSignedTx` writes `signed` over any status: a signature after the transaction was given up makes it valid beside its successor. `OneValidTx` says that this is the only way. | run `MCGuardLateSign` |
| `AdvancedTxNotReplaced` | `db/DatabaseAction.ts:307` | `src/tests/db/DatabaseHandler.spec.ts:87-88`: no insertion over an advanced transaction. `replaceTx` has no condition on the status and the callbacks of the signers take no semaphore, so a row that was signed between read and write is replaced. | `PROPERTY` of `MCGuardPayment`, with a third payment transaction of the event (`Txs = {1, 2, 3}`) and the constraint `OnlyRivals` less its clauses on 3 and 4 |
| `InvalidTxResetsEvent` | `transaction/TransactionProcessor.ts:304` | 272: "resets status of event [...] and set tx as invalid". The notification between the two writes may throw, and the event stays in payment. | `PROPERTY` of `MCGuardPayment` |
| `OngoingIsAnswered` | `api/events.ts:145` | The route takes it that an event in payment has a valid transaction; it has none between these two writes, and the whole list fails. | `INVARIANT` of `MCGuardReward` |
| `ManualOnlyIfEnabled` | `api/signTx.ts:53` | 37-40 replies that manual requests are disabled, without `return`, and inserts. | `INVARIANT` of `MCGuardPayment` |
| `AgreedTxIsHeld` | `agreement/TxAgreement.ts:321` | 500-503 calls an agreed transaction that is not in the map impossible. One learnt by its approval never was, and a repeated approval throws. | `INVARIANT` of `MCAgreementTurn` |
| `NoCommitmentNeeded` | `guard/multisig/MultiSigHandler.ts:654` | 653: no commitments are needed once signing started. One of a guard that signed in a proof is, to add the own signature to it. | `INVARIANT` of `MCMultiSig` |
| `RelayedCommitmentSaved` | `guard/multisig/MultiSigHandler.ts:782` | 641 keeps the signature of a commitment for relaying it. It signs the index and id too, which 782-790 leaves out: no relayed commitment is ever saved. | `PROPERTY` of `MCMultiSig` |
| `CleanedAfterTimeout` | `guard/multisig/MultiSigHandler.ts:181` | 171: cleaned "after txSignTimeout". The age is that of the entry, which another guard's commitment may have made long before the request. | `PROPERTY` of `MCMultiSig` |
| `IndexIsOwn` | `guard/multisig/MultiSigHandler.ts:97` | 897: "Apply required changes after changes in public keys". The cached index stays. | `INVARIANT` of `MCGuardSet` |
| `AgreementIsUpdated` | `handlers/GuardPkHandler.ts:67` | "updates public keys in all dependent modules"; `TxAgreement` keeps those it was built with (`TxAgreement.ts:47`). | `INVARIANT` of `MCGuardSet` |
| `GapIsNobodysTurn` | `handlers/GuardPkHandler.ts:51` | `GuardTurn.ts:45`: the turn is -1 in a gap. So is the id of a guard that left the set. | `INVARIANT` of `MCGuardSet` |
| `UnmergedAreRewarded` | `event/EventBoxes.ts:48` | 24-25: commitments created before the trigger and not merged, without duplicates. The first of a watcher is chosen before the unusable are left out, and its second is not rewarded. | `INVARIANT` of `MCEventOrder` |
| `KeepsOneApproved` | `db/DatabaseHandler.ts:130` | 112: "if already another approved tx exists, keeps the one with loser txId". Every one is inserted. | `INVARIANT` of `MCColdStorage` with `SplitsOrders = TRUE` |
| `UnsavedAreReturned` | `jobs/revenue.ts:58` | `DatabaseAction.ts:620-621`: returns unsaved events. One of whose rows some were inserted before a failure counts as saved. | `part = "job" => Job!UnsavedAreReturned`, `INVARIANT` of `MCServices` |

`api/tss.ts:44` is like `signTx.ts`: a wrong trust key is replied to and the answer handled all the same; `signRoute` of
`TssBinary` does so.

## 4. What is proved

For all values of the constants (any numbers of guards, handlers, events, transactions, turns and messages):

| Module | Theorems |
|---|---|
| `GuardNodeProofs` | `TypeCorrect`, `OneValidTxAlways`, `NoSignDuringInsertAlways`, `InvalidOnlyRevivedBySignatureAlways`; `RewardAfterPaymentAlways`, `CompletedEventWasPaidAlways`; `FailsOnlyOverInvalidTxAlways` |
| `AgreementProofs` | of `GuardTurn`: `WakesInOwnTurnAlways`, `ResetsBeforeNextTurnAlways`, `JobsStopInGapAlways`; of `TxAgreement`: `AgreementTypeCorrect`, `QuorumBehindRowAlways`, `AgreementImplementsQuorumApproval`, `OneApprovalPerTurnAlways` |
| `MultiSigProofs` | `ImplementsThresholdSigner`, `FullProofsAreValid` |
| `GuardSetProofs` | `PeersAreThemselvesAlways`, `ApprovedByFreshAnswerAlways` |
| `ColdStorageProofs` | `NoTwoForOneTokenAlways`, `LowRemainsAlways`, `CreatedIsVerifiedAlways`, `SplitTokensWaitForNative` |
| `DialerProofs` | `HandledOnceAlways`, `OrderOfAStream`, `StepsOfLossyChannel` |
| `ServicesProofs` | `OneIntervalAlways`, `CountedOnceAlways`, `OneBinaryAlways` |
| `EventOrderProofs` | `OneShareEachAlways`, `RwtConservedAlways`, `FeesConservedAlways`, `RejectedOnlyOnRedeemAlways` |

The inductive invariant of each is a theorem too (`SlotInvariant`, `PaymentInvariant`, `ListInvariant`, `QuorumInvariant`,
`AskInvariant`, `SignInvariant`, `PeersInvariant`, `StorageInvariant`, `OnePlaceAlways`, `PartsInvariant`,
`OrderInvariant`).

The assumptions are those the modules state about their constants: types, finite sets of guards, a quorum between 1
and all, a gap that is not empty, guard sets without repetition, for cold storage a quorum of more than half and
thresholds in order, and for the orders amounts and fees that are natural numbers, divisors other than 0, an emission
share of at most 100 percent and events about other tokens than RWT. TLC evaluates them in the runs. The counting arguments rest on the cardinality theorems of the
library.

### The inductive invariants

`OneValidTx` is not inductive: it does not say why a write that was decided earlier is still right. `SlotInv`
adds that the handler between its read and its write holds the semaphore (`LockInv`); that what it read still holds
then, signatures that came late apart (`InsertInv`); and that the job, which keeps old rows, has no invalid
transaction in its list, as only the job itself invalidates (`JobInv`). The last part is what makes
`InvalidOnlyRevivedBySignature` true although none of the writes of the job looks at the row.

`RewardAfterPayment` and `CompletedEventWasPaid` depend on everything that carries an older read. `PaymentInv`
adds to them that handlers, candidates, rows in the lists of the event jobs and in the list of the transaction
job that are about a reward belong to an event with a confirmed payment (`HandlersDue`, `EventRowsDue`,
`TxJobDue`). Confirmation is stable, so an old row stays justified.

`QuorumInv` follows an approval back to its signatures: every signature in the approvals of a guard was given
(`Signed`), by distinct guards; hence an approval that is sent, resent, received or being stored has a quorum of
signers behind it. The refinement maps `agreed` to the history `signed` and `approved` to the rows; a step of a
guard that signs is `QAgree`, one that stores is `QApprove`, all others stutter.

`AskInv` is behind `OneApprovalPerTurn`. It might be thought to need two quorums that share a guard; it does not, and
the theorem holds for any quorum. Everything that stands for a request (a message, an entry of `transactions`, a handler
at its await) keeps the time of the request. In a turn only its owner requests, after its job ran (`AskedAfterJob`,
`QueueOfOwner`), and never two transactions of an event: its queue was cleared when the turn began, and an event that
is up for a transaction has none in the queue nor requested (`OneTxChosen`, `OneTxAsked`). So whatever is
approved with a time of the turn is that one, and a table has one valid row of an event (`OneValidRow`). The
argument needs the timers (requests stop before the gap, the memory is cleared in it), and the assumption above that a
run of the creation job does not last until the guard's next turn.

The theorems on `GuardTurn` come from one lemma, `TurnOfTime`, which computes the turn of a time that is
written as period, turn and second in the turn, so that the nested `%` and division of the code become linear.

`SigInv` of `MultiSig` says that an entry has a proof signed only by guards that were asked, and names a request that is
not answered yet (`EntriesSound`); that the proofs in messages are signed by such guards, however old they are
(`SoundMessage`); and that a guard draws one secret at most for a request (`DrawnForRequests`). So `requiredSign`
signatures in a proof are as many guards that asked, and an answer goes to a request that waits.

`PeersInv` of `GuardSet` says that what a guard has asked its peers it has asked since it took over the list of peers at
hand (`AskedSince`), so that no answer to an earlier list counts.

`ProofInv` is behind `FullProofsVerify`. A proof verifies if the secrets its signers used are those of its commitments.
A guard that loses its queue draws new secrets, and meets messages made with the old ones. The invariant says that a
proof is valid and the work of exactly `requiredSign` guards (`SoundProof`); that a message with an unfinished proof
carries the commitments of those who have not signed, the ones the proof uses (`Carries`); and that a guard that may
still sign has the secret of its commitment in the proof, and of the others the commitments the proof uses or none
(`Fit`, `Agrees`). Proofs in which a signer is also simulated are excepted, as in the property.

`ListInv` is behind `FailsOnlyOverInvalidTx`. An event is set in payment after its transaction was inserted, or was
found superfluous beside another one; rows are overwritten, given up and completed, but a row that goes is replaced by
one of the same event and type (`HasRow`). That last step needs `SlotInv`: an insertion that replaces a row has read,
under the semaphore, that it is one of its own event.

`StorageInv` of `ColdStorage` explains why a comparison made at verification still holds at insertion: the guard has
agreed to that one transaction in between (`OneAgreed`), or created it in a turn in which it created nothing else
(`TurnAsked`), so whatever it holds, pending or in its table, was compared (`HeldApart`).

`LowRemains` is about balances read in one turn and used in later ones. It is not enough that each transaction leaves
the low threshold, and it is not true that every transaction under way still fits what is there: events are paid in
between. `LowInv` says that one that does not fit is held by fewer guards than sign one (`FewHoldUnfit`).

`CreatedIsVerified` compares two pieces of code, the creation of an order and the verification of a transfer. It is
proved of chains that move all assets in one transaction. Of the others it is false, and `SplitTokensWaitForNative`
says exactly how: `TransactionVerifier.ts:249` asks of every transaction that it moves the native token if that exceeds
its threshold, so that one of another token is refused until the native token was moved.

`DialInv` of `Dialer` follows a message from the queue through a stream to the callbacks: it is in one place
(`OnePlace`, `OnceAtPlace`), messages and streams are numbered as they are sent and opened (`SentBefore`,
`StreamsNumbered`), and what is queued after another has the higher number unless it was retried, from the queue
to the loop, the streams and the peers (`Ordered`). A callback is subscribed once for a peer (`SubscribedOnce`), hence `HandledOnce`. The same invariant
shows that every step is one of `LossyChannel`.

`ServicesInv` has a part for each component: for a relay, that one interval at most is there and the relay is away while
it is (`BookInv`); for the revenue job, that the events it has yet to come to are confirmed, each there once and without a
row in the table, and likewise the rows it has yet to insert of the event at hand (`JobInv`: `ToCome`, `ToInsert`); for
the binary, that either one process runs or one timer waits (`TssInv`).

`OrderInv` of `EventOrder` says what the event box is made of: the merged commitments were spent in the block of the
trigger, one of each watcher, all of as many RWTs, and the box holds their sum (`MergedInv`). Hence the division that
finds the RWTs of a watcher (`EventOrder.ts:46`) is exact, while that of the ERGs may not be. What a guard has
scanned does not change, whatever the chain does next (`TableStays`), so the boxes and the order of a transaction are
those of the blocks they were read at (`TxMade`), and differ only by a commitment that was redeemed in between: that
is `RejectedOnlyOnRedeem`. A guard that has scanned the event finds all merged commitments (`MergedAreFound`), which is
why the comparison with the WIDs in the trigger (`EventBoxes.ts:74`), left out of the model, never fails. The totals of
an order are sums over sequences. They are not computed by induction but compared: partial sums are a function, two
functions with the same steps agree by the least place where they would not (`AllNumbers`, from the well-founded
order of the numbers), and the totals follow from those of the parts (`TotalOfConcat`, `WatchersTotal`, `GuardsOrderIs`,
`OrderTotal`). The exception in `RwtConserved` and `FeesConserved` is real: the code reads the commitments twice
(`ReadBoxes`, `CreateOrder`).

### Only model-checked

Liveness, which is out of the prover's reach: all of `MCGuardJobs`, the temporal properties of `MCServices`, and of
the refinement of `LossyChannel` the part that promises that messages are settled. Every invariant of a passing run is
a theorem. `TypeOK` is proved of `GuardNode` and of `TxAgreement`; the
types of `MultiSig`, `ColdStorage`, `Dialer` and `EventOrder` are parts of their inductive invariants.

## 5. Not modelled

`PROJECT.json` gives the reason for each part.

* *Configuration*, *scanners and start-up*, *migrations, encryption and utilities*: values read once, library code
  whose results are inputs here, generated code and formatting. They keep no state that a step of the service changes.
* *Database*: the queries of charts and histories, which only read. *HTTP API*: the routes that format one read.
* *HealthCheck*: the parameters that an external library watches. *Notifications, fees, chains*: only that sending a
  notification may fail.
* *Tss*: the party ids of key generation, and the signing itself, which is another program.
* *Event orders*: their serialisation. *ColdStorage*: its handlers are one step each; what their awaits let in is
  modelled for payments and rewards in `TxAgreement`.

Contents of transactions, cryptography and amounts outside `EventOrder` and `ColdStorage` are abstracted
everywhere. A guard of `TxAgreement`, `MultiSig` and `GuardSet` follows the program: it signs only what it verified.

## 6. Plan

The modules were written in this order: the node (`Database` to `GuardNode`), the agreement, then signing
(`MultiSig`, `TssBinary`), the guard set, the transport, what is paid (`EventOrder`, `ColdStorage`, `Revenue`) and the
lists. Left, in order of importance:

1. The awaits of the handlers of a cold storage transaction, and a verification that outlasts its turn.
2. The signed form of a transaction: which form a sign-failed transaction that is found on the chain submits again.
3. `GuardNode` against an abstract life cycle of an event, as a refinement.

## 7. Running

`tlc -config MCGuardPayment.cfg MCGuardPayment` and so on; `MCGuardLateSign.cfg` belongs to the module
`MCGuardPayment`. `tlapm` checks the eight proof modules, each in minutes. Operators marked `mutant` are wrong variants
of the definition that follows them, used to see that each property depends on the code.
