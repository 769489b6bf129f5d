------------------------------- MODULE Dialer -------------------------------
(***************************************************************************)
(* communication/Dialer.ts: the messages of one guard to its peers.  Every *)
(* message is put in one queue, for all peers; a loop takes them one by    *)
(* one and waits for a stream to the peer, dialling it if there is none.   *)
(* A message whose stream could not be opened is queued again after a      *)
(* delay, a number of times; one that was given to a stream is not         *)
(* followed further.  The peers hand what they receive to the subscribers  *)
(* of its channel.                                                         *)
(*                                                                         *)
(* A stream is a number, in the order of their opening.  One channel is    *)
(* modelled: the queue, the routes and the streams know no channels.       *)
(***************************************************************************)
EXTENDS Integers, Sequences, FiniteSets, SequencesExt

CONSTANTS
  Peers,          \* the guards this one talks to, none of them a relay
  Subscribers,    \* callbacks, with their urls, a peer may subscribe
  messageSendingRetriesMaxCount,
  MaxMessages,    \* bound: messages sent
  MaxStreams,     \* bound: streams opened
  MaxSubscribed   \* bound: calls of subscribeChannel at a peer

ASSUME DialerAssumption ==
  /\ IsFiniteSet(Peers) /\ IsFiniteSet(Subscribers)
  /\ messageSendingRetriesMaxCount \in Nat
  /\ MaxMessages \in Nat /\ MaxStreams \in Nat /\ MaxSubscribed \in Nat

VARIABLES
  sent,        \* number of messages sent
  queue,       \* _messageQueue
  opening,     \* the message the loop waits to have a stream for
  timers,      \* messages that wait to be retried
  link,        \* the open outbound stream to each peer
  routes,      \* routesInfo: the stream each peer's source is piped to
  wire,        \* what was given to each stream and did not arrive yet
  subscribed,  \* _subscribedChannels of each peer
  calls,       \* number of calls of subscribeChannel at each peer
  handled      \* history: what each peer's callbacks were called with

vars == <<sent, queue, opening, timers, link, routes, wire, subscribed,
          calls, handled>>

NoStream == 0
Streams == 1 .. MaxStreams

\* MessageQueueParsedMessage
Messages == [id : 1 .. MaxMessages, peer : Peers,
             retriesCount : 0 .. messageSendingRetriesMaxCount]
NoMessage == [id |-> 0]
Handled == [id : 1 .. MaxMessages, retriesCount : Nat, stream : Streams,
            subscriber : Subscribers]

DialerInit ==
  /\ sent = 0
  /\ queue = <<>>
  /\ opening = NoMessage
  /\ timers = {}
  /\ link = [p \in Peers |-> NoStream]
  /\ routes = [p \in Peers |-> NoStream]
  /\ wire = [s \in {} |-> <<>>]
  /\ subscribed = [p \in Peers |-> <<>>]
  /\ calls = [p \in Peers |-> 0]
  /\ handled = [p \in Peers |-> <<>>]

-----------------------------------------------------------------------------
(* Sending *)

Opened == DOMAIN wire

\* One entry for each peer, in any order, all of the same message
pushMessageToMessageQueue(peers) ==
  /\ sent < MaxMessages
  /\ sent' = sent + 1
  /\ \E order \in SetToSeqs(peers) :
       queue' = queue \o [i \in DOMAIN order |->
                  [id |-> sent + 1, peer |-> order[i], retriesCount |-> 0]]
  /\ UNCHANGED <<opening, timers, link, routes, wire, subscribed, calls,
                 handled>>

\* To one peer, connected or not; or to the peers that are connected now
sendMessage ==
  \/ \E p \in Peers : pushMessageToMessageQueue({p})
  \/ pushMessageToMessageQueue({p \in Peers : link[p] # NoStream})

\* getStreamSource and the push to it: a stream that is not the one of the
\* route gets a source of its own
Give(m, stream) ==
  /\ routes' = [routes EXCEPT ![m.peer] = stream]
  /\ wire' = [s \in Opened \cup {stream} |->
                (IF s \in Opened THEN wire[s] ELSE <<>>)
                  \o (IF s = stream THEN <<m>> ELSE <<>>)]

\* mutant: the messages are processed as they come, not one after the other
AnyInQueue == DOMAIN queue

FirstInQueue == {1} \cap DOMAIN queue

\* The loop takes the next message; an open stream is there at once
TakeMessage ==
  /\ opening = NoMessage
  /\ \E i \in FirstInQueue :
       /\ queue' = RemoveAt(queue, i)
       /\ LET m == queue[i] IN
          IF link[m.peer] # NoStream
          THEN Give(m, link[m.peer]) /\ UNCHANGED opening
          ELSE opening' = m /\ UNCHANGED <<routes, wire>>
  /\ UNCHANGED <<sent, timers, link, subscribed, calls, handled>>

\* node.dial and newStream succeed
StreamOpens ==
  /\ opening # NoMessage
  /\ Cardinality(Opened) < MaxStreams
  /\ LET stream == Cardinality(Opened) + 1 IN
       /\ Give(opening, stream)
       /\ link' = [link EXCEPT ![opening.peer] = stream]
  /\ opening' = NoMessage
  /\ UNCHANGED <<sent, queue, timers, subscribed, calls, handled>>

\* mutant: the retries are not counted
RetryUncounted(m) == timers' = timers \cup {m}

\* A timer for the message, unless it was retried often enough
retrySendingMessage(m) ==
  IF m.retriesCount + 1 <= messageSendingRetriesMaxCount
  THEN timers' = timers \cup
                   {[m EXCEPT !.retriesCount = m.retriesCount + 1]}
  ELSE UNCHANGED timers

\* getOpenStreamAndConnection throws
OpenFails ==
  /\ opening # NoMessage
  /\ retrySendingMessage(opening)
  /\ opening' = NoMessage
  /\ UNCHANGED <<sent, queue, link, routes, wire, subscribed, calls, handled>>

\* The delays grow with the number of retries: two timers may fire in any order
RetryTimer(m) ==
  /\ m \in timers
  /\ timers' = timers \ {m}
  /\ queue' = Append(queue, m)
  /\ UNCHANGED <<sent, opening, link, routes, wire, subscribed, calls, handled>>

-----------------------------------------------------------------------------
(* The network, external *)

\* What a closed stream still holds may arrive, or be lost
Disconnect(p) ==
  /\ link[p] # NoStream
  /\ link' = [link EXCEPT ![p] = NoStream]
  /\ UNCHANGED <<sent, queue, opening, timers, routes, wire, subscribed,
                 calls, handled>>

LoseRest(s) ==
  /\ s \in Opened /\ wire[s] # <<>>
  /\ s \notin {link[p] : p \in Peers}
  /\ wire' = [wire EXCEPT ![s] = <<>>]
  /\ UNCHANGED <<sent, queue, opening, timers, link, routes, subscribed,
                 calls, handled>>

-----------------------------------------------------------------------------
(* Receiving *)

\* mutant: every call subscribes
SubscribeAgain(subs, c) == Append(subs, c)

\* A callback of the same name and url is subscribed once
Subscription(subs, c) == IF c \in Range(subs) THEN subs ELSE Append(subs, c)

subscribeChannel(p, c) ==
  /\ calls[p] < MaxSubscribed
  /\ calls' = [calls EXCEPT ![p] = @ + 1]
  /\ subscribed' = [subscribed EXCEPT ![p] = Subscription(@, c)]
  /\ UNCHANGED <<sent, queue, opening, timers, link, routes, wire, handled>>

\* The next message of a stream is handed to the callbacks of its channel,
\* none if the peer did not subscribe it yet
handleBroadcast(s) ==
  /\ s \in Opened /\ wire[s] # <<>>
  /\ LET m == Head(wire[s]) IN
       handled' = [handled EXCEPT ![m.peer] = @ \o
         [i \in DOMAIN subscribed[m.peer] |->
            [id |-> m.id, retriesCount |-> m.retriesCount, stream |-> s,
             subscriber |-> subscribed[m.peer][i]]]]
  /\ wire' = [wire EXCEPT ![s] = Tail(@)]
  /\ UNCHANGED <<sent, queue, opening, timers, link, routes, subscribed, calls>>

-----------------------------------------------------------------------------

\* The guard stops and starts again: nothing of the dialer is stored.  Its
\* streams are closed with it
Restart ==
  /\ queue' = <<>>
  /\ opening' = NoMessage
  /\ timers' = {}
  /\ link' = [p \in Peers |-> NoStream]
  /\ routes' = [p \in Peers |-> NoStream]
  /\ UNCHANGED <<sent, wire, subscribed, calls, handled>>

DialerNext ==
  \/ sendMessage
  \/ TakeMessage \/ StreamOpens \/ OpenFails
  \/ \E m \in Messages : RetryTimer(m)
  \/ \E p \in Peers : Disconnect(p)
  \/ \E s \in Streams : LoseRest(s) \/ handleBroadcast(s)
  \/ \E p \in Peers, c \in Subscribers : subscribeChannel(p, c)
  \/ Restart

\* The loop, the timers and the runtime go on; a dial is answered or fails;
\* what a stream holds arrives, unless the stream closes
DialerSpec ==
  /\ DialerInit /\ [][DialerNext]_vars
  /\ WF_vars(TakeMessage)
  /\ WF_vars(StreamOpens \/ OpenFails)
  /\ \A m \in Messages : WF_vars(RetryTimer(m))
  /\ \A s \in Streams : WF_vars(LoseRest(s) \/ handleBroadcast(s))

-----------------------------------------------------------------------------
(* Properties *)

TypeOK ==
  /\ sent \in 0 .. MaxMessages
  /\ queue \in Seq(Messages)
  /\ opening \in Messages \cup {NoMessage}
  /\ timers \subseteq Messages
  /\ link \in [Peers -> {NoStream} \cup Opened]
  /\ routes \in [Peers -> {NoStream} \cup Opened]
  /\ Opened \subseteq Streams
  /\ \A s \in Opened : wire[s] \in Seq(Messages)
  /\ subscribed \in [Peers -> Seq(Subscribers)]
  /\ calls \in [Peers -> 0 .. MaxSubscribed]
  /\ handled \in [Peers -> Seq(Handled)]

\* However a message is retried, and however often a channel is subscribed
\* (the tss binary subscribes each time it starts), no callback is called
\* twice with the same message.
HandledOnce ==
  \A p \in Peers : \A i, j \in DOMAIN handled[p] :
    /\ handled[p][i].id = handled[p][j].id
    /\ handled[p][i].subscriber = handled[p][j].subscriber
    => i = j

\* A message is handled before one that was sent earlier only if that one had
\* to be retried, or they went through different streams: the handlers of the
\* guards may count on the order of a stream and on nothing else.
OvertakesOnlyOnRetry ==
  \A p \in Peers : \A i, j \in DOMAIN handled[p] :
    /\ i < j
    /\ handled[p][i].id > handled[p][j].id
    => \/ handled[p][j].retriesCount > 0
       \/ handled[p][i].stream # handled[p][j].stream

Copy(m) == [id |-> m.id, peer |-> m.peer]

Channel == INSTANCE LossyChannel WITH
  Copies <- [id : 1 .. MaxMessages, peer : Peers],
  outstanding <-
    {Copy(m) : m \in Range(queue) \cup timers \cup ({opening} \ {NoMessage})
                       \cup UNION {Range(wire[s]) : s \in Opened}},
  received <-
    UNION {{[id |-> h.id, peer |-> p] : h \in Range(handled[p])} : p \in Peers}

\* The dialer implements the lossy channel the other modules assume: what is
\* in the queue, in a timer, in the loop or on a stream is in one of them
\* only, and does not stay there for ever.
IsLossyChannel == Channel!ChannelSpec
=============================================================================
