---------------------------- MODULE LossyChannel ----------------------------
(***************************************************************************)
(* What a guard may expect of the transport below it: a message it sends   *)
(* reaches its peer at most once, in any order, or is lost; and it does    *)
(* not stay on its way for ever.                                           *)
(***************************************************************************)
EXTENDS Integers

CONSTANTS Copies   \* what can be sent: a message for one peer

VARIABLES outstanding, received

Send(S) ==
  /\ S \subseteq Copies \ (outstanding \cup received)
  /\ outstanding' = outstanding \cup S
  /\ UNCHANGED received

Receive(m) ==
  /\ m \in outstanding
  /\ outstanding' = outstanding \ {m}
  /\ received' = received \cup {m}

Lose(S) ==
  /\ S \subseteq outstanding
  /\ outstanding' = outstanding \ S
  /\ UNCHANGED received

ChannelInit == outstanding = {} /\ received = {}

ChannelNext ==
  \/ \E S \in SUBSET Copies : Send(S) \/ Lose(S)
  \/ \E m \in Copies : Receive(m)

Settle(m) == m \in outstanding /\ (Receive(m) \/ \E S \in SUBSET outstanding : m \in S /\ Lose(S))

ChannelSpec ==
  /\ ChannelInit /\ [][ChannelNext]_<<outstanding, received>>
  /\ \A m \in Copies : WF_<<outstanding, received>>(Settle(m))
=============================================================================
