------------------------------- MODULE Revenue -------------------------------
(***************************************************************************)
(* jobs/revenue.ts: a job that stores what the reward txs paid to the      *)
(* repositories.  It takes the events that are spent and confirmed and     *)
(* have no row yet, fetches the tx of each, and inserts a row for every    *)
(* asset of its payments, one by one.  What fails ends the job, which is   *)
(* run again after an interval.                                            *)
(***************************************************************************)
EXTENDS Integers, Sequences, FiniteSets, SequencesExt

CONSTANTS
  Events,
  Rows,                  \* revenue rows of all events
  rowsOf,                \* the rows the payments of each event's tx make
  requiredConfirmation,
  MaxHeight,             \* bound: height of the chain
  MaxFailures            \* bound: calls that fail, and restarts

RevenueAssumption ==
  /\ IsFiniteSet(Events) /\ rowsOf \in [Events -> Seq(Rows)]
  /\ \A e, f \in Events : e # f => Range(rowsOf[e]) \cap Range(rowsOf[f]) = {}
  /\ \A e \in Events : IsInjective(rowsOf[e])
  /\ requiredConfirmation \in Nat /\ MaxHeight \in Nat /\ MaxFailures \in Nat

VARIABLES
  height,    \* of the Ergo chain
  spent,     \* spendHeight of each event, NotSpent if it is not spent
  revenue,   \* the rows of the table, each with how often it was inserted
  running,   \* whether the job runs
  job,       \* the events it has not come to
  inserting, \* the rows of the current event that are not inserted
  failures   \* number of calls that failed, and of restarts

vars == <<height, spent, revenue, running, job, inserting, failures>>

NotSpent == 0
Saved(e) == \E r \in Range(rowsOf[e]) : revenue[r] > 0

RevenueInit ==
  /\ height = 1
  /\ spent = [e \in Events |-> NotSpent]
  /\ revenue = [r \in Rows |-> 0]
  /\ running = FALSE
  /\ job = <<>>
  /\ inserting = <<>>
  /\ failures = 0

-----------------------------------------------------------------------------
(* The chain, external *)

\* The event is spent by its reward tx
Spend(e) ==
  /\ spent[e] = NotSpent
  /\ spent' = [spent EXCEPT ![e] = height]
  /\ UNCHANGED <<height, revenue, running, job, inserting, failures>>

Block ==
  /\ height < MaxHeight
  /\ height' = height + 1
  /\ UNCHANGED <<spent, revenue, running, job, inserting, failures>>

-----------------------------------------------------------------------------
(* The job *)

IsConfirmed(e) ==
  spent[e] # NotSpent /\ spent[e] < height - requiredConfirmation

\* mutants: rows are not looked at; the events of the newest confirmed block
\* are taken
ConfirmedEvents == {e \in Events : IsConfirmed(e)}
NewestUnsavedEvents ==
  {e \in Events : spent[e] # NotSpent /\ ~Saved(e)
                    /\ spent[e] = height - requiredConfirmation - 1}

getConfirmedUnsavedRevenueEvents ==
  {e \in Events : IsConfirmed(e) /\ ~Saved(e)}

\* The query gives no order
StartJob ==
  /\ ~running /\ running' = TRUE
  /\ job' \in SetToSeqs(getConfirmedUnsavedRevenueEvents)
  /\ UNCHANGED <<height, spent, revenue, inserting, failures>>

\* The tx of the next event is fetched, and its order extracted
TakeEvent ==
  /\ running /\ inserting = <<>>
  /\ IF job = <<>>
     THEN running' = FALSE /\ UNCHANGED <<job, inserting>>
     ELSE /\ inserting' = rowsOf[Head(job)] /\ job' = Tail(job)
          /\ UNCHANGED running
  /\ UNCHANGED <<height, spent, revenue, failures>>

insertRevenue ==
  /\ inserting # <<>>
  /\ revenue' = [revenue EXCEPT ![Head(inserting)] = @ + 1]
  /\ inserting' = Tail(inserting)
  /\ UNCHANGED <<height, spent, running, job, failures>>

\* An exception ends the job; the interval starts it again
Abort == running' = FALSE /\ job' = <<>> /\ inserting' = <<>>

\* A call fails, or the service stops and starts again
Fail ==
  /\ running /\ failures < MaxFailures
  /\ Abort
  /\ failures' = failures + 1
  /\ UNCHANGED <<height, spent, revenue>>

RevenueNext ==
  \/ \E e \in Events : Spend(e)
  \/ Block
  \/ StartJob \/ TakeEvent \/ insertRevenue \/ Fail

\* The interval starts the job again, whose calls are answered
RevenueSpec ==
  /\ RevenueInit /\ [][RevenueNext]_vars
  /\ WF_vars(StartJob) /\ WF_vars(TakeEvent) /\ WF_vars(insertRevenue)

-----------------------------------------------------------------------------
(* Properties *)

TypeOK ==
  /\ height \in 1 .. MaxHeight
  /\ spent \in [Events -> {NotSpent} \cup 1 .. MaxHeight]
  /\ revenue \in [Rows -> Nat]
  /\ running \in BOOLEAN /\ job \in Seq(Events)
  /\ inserting \in Seq(Rows)
  /\ ~running => job = <<>> /\ inserting = <<>>
  /\ failures \in 0 .. MaxFailures

\* No revenue is counted twice, however often the job fails in the middle of an
\* event or between two, and only that of a tx that is confirmed is.
CountedOnce ==
  \A e \in Events : \A r \in Range(rowsOf[e]) :
    revenue[r] <= 1 /\ (revenue[r] = 1 => IsConfirmed(e))

\* Every confirmed event gets into the table, if its tx makes any rows: an
\* event whose processing failed does not keep the others out.
EventsAreSaved ==
  \A e \in Events : IsConfirmed(e) /\ rowsOf[e] # <<>> ~> Saved(e)

\* "Returns unsaved revenue events": an event that is not returned any more,
\* while no job runs, is saved, with all the rows of its tx.
UnsavedAreReturned ==
  ~running =>
    \A e \in Events \ getConfirmedUnsavedRevenueEvents :
      IsConfirmed(e) => \A r \in Range(rowsOf[e]) : revenue[r] > 0
=============================================================================
