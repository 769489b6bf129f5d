------------------------------ MODULE TssBinary ------------------------------
(***************************************************************************)
(* guard/Tss.ts and api/tss.ts: the threshold signer is a separate         *)
(* process.  The guard starts it with a new trust key, again when it ends, *)
(* and gets its answers by POST /tss/sign/:algorithm, each with the key of *)
(* the process that sends it.  The requests and their promises are kept by *)
(* the tss library, external.                                              *)
(***************************************************************************)
EXTENDS Integers, FiniteSets

CONSTANTS
  Requests,     \* messages to be signed
  Algorithms,   \* curve, edward
  algorithmOf,  \* the algorithm each is signed with
  MaxStarts     \* bound: starts of the binary

TssAssumption ==
  /\ IsFiniteSet(Requests) /\ algorithmOf \in [Requests -> Algorithms]
  /\ MaxStarts \in Nat \ {0}

VARIABLES
  trustKey,   \* Tss.trustKey: the number of the start
  processes,  \* the keys of the binaries that run
  timers,     \* number of restarts that wait
  signing,    \* what the binaries work on: keys and requests
  callbacks,  \* answers on their way
  promises    \* state of the sign promise of each request

vars == <<trustKey, processes, timers, signing, callbacks, promises>>

Keys == 1 .. MaxStarts
Callback == [key : Keys, request : Requests, algorithm : Algorithms,
             success : BOOLEAN]

\* init calls runBinary
TssInit ==
  /\ trustKey = 1
  /\ processes = {1}
  /\ timers = 0
  /\ signing = {}
  /\ callbacks = {}
  /\ promises = [r \in Requests |-> "none"]

-----------------------------------------------------------------------------
(* The process *)

\* mutant: two of its events start it again
RestartTwice == timers' = timers + 2

RestartAfterGap == timers' = timers + 1

\* What it worked on is lost; what it sent may still arrive
Close(k) ==
  /\ k \in processes
  /\ processes' = processes \ {k}
  /\ signing' = {s \in signing : s.key # k}
  /\ RestartAfterGap
  /\ UNCHANGED <<trustKey, callbacks, promises>>

runBinary ==
  /\ timers > 0 /\ trustKey < MaxStarts
  /\ timers' = timers - 1
  /\ trustKey' = trustKey + 1
  /\ processes' = processes \cup {trustKey + 1}
  /\ UNCHANGED <<signing, callbacks, promises>>

-----------------------------------------------------------------------------
(* Signing, external: the library asks the binary, and gives up after a while *)

sign(r) ==
  /\ promises[r] # "pending"
  /\ promises' = [promises EXCEPT ![r] = "pending"]
  /\ signing' = signing \cup {[key |-> k, request |-> r] : k \in processes}
  /\ UNCHANGED <<trustKey, processes, timers, callbacks>>

GiveUp(r) ==
  /\ promises[r] = "pending"
  /\ promises' = [promises EXCEPT ![r] = "rejected"]
  /\ UNCHANGED <<trustKey, processes, timers, signing, callbacks>>

\* The binary has signed, or failed to
Answer(s) ==
  /\ s \in signing
  /\ signing' = signing \ {s}
  /\ \E success \in BOOLEAN :
       callbacks' = callbacks \cup
         {[key |-> s.key, request |-> s.request,
           algorithm |-> algorithmOf[s.request], success |-> success]}
  /\ UNCHANGED <<trustKey, processes, timers, promises>>

-----------------------------------------------------------------------------
(* The callback route *)

\* mutant: the signer of the other algorithm gets the answer
OtherSigner(c) == {r \in Requests : algorithmOf[r] # c.algorithm}

SignerOf(c) == {r \in Requests : algorithmOf[r] = c.algorithm}

\* The signer settles the promise of the message, if it waits for one
handleSignData(c) ==
  promises' =
    [r \in Requests |->
       IF r = c.request /\ r \in SignerOf(c) /\ promises[r] = "pending"
       THEN IF c.success THEN "signed" ELSE "rejected"
       ELSE promises[r]]

\* A wrong trust key is answered with 400, and the callback handled all the
\* same: c.key is not looked at
signRoute(c) ==
  /\ c \in callbacks
  /\ callbacks' = callbacks \ {c}
  /\ handleSignData(c)
  /\ UNCHANGED <<trustKey, processes, timers, signing>>

TssNext ==
  \/ \E k \in Keys : Close(k)
  \/ runBinary
  \/ \E r \in Requests : sign(r) \/ GiveUp(r)
  \/ \E s \in signing : Answer(s)
  \/ \E c \in callbacks : signRoute(c)

\* The timers fire; a binary answers what it works on, and the answer arrives
TssSpec ==
  /\ TssInit /\ [][TssNext]_vars
  /\ WF_vars(runBinary)
  /\ \A s \in [key : Keys, request : Requests] : WF_vars(Answer(s))
  /\ \A c \in {d \in Callback : d.algorithm = algorithmOf[d.request]} :
       WF_vars(signRoute(c))

-----------------------------------------------------------------------------
(* Properties *)

TypeOK ==
  /\ trustKey \in Keys /\ processes \subseteq Keys /\ timers \in 0 .. 1
  /\ signing \subseteq [key : Keys, request : Requests]
  /\ callbacks \subseteq Callback
  /\ promises \in [Requests -> {"none", "pending", "signed", "rejected"}]

\* However often the binary ends, one process of it runs, or one restart waits:
\* two would fight for the port, and the key of one be wrong.
OneBinary ==
  /\ Cardinality(processes) + timers = 1
  /\ processes \subseteq {trustKey}

\* A request the binary works on, and keeps running for, is answered to the
\* promise that waits for it: by the binary, or by the library that gave up.
RequestsAreSettled ==
  \A k \in Keys : \A r \in Requests :
    [key |-> k, request |-> r] \in signing /\ promises[r] = "pending" ~>
      promises[r] # "pending" \/ k \notin processes
=============================================================================
