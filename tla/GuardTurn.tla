----------------------------- MODULE GuardTurn -----------------------------
(***************************************************************************)
(* utils/GuardTurn.ts: the guards take turns by the clock.  A turn is      *)
(* TURNS_LENGTH long; its owner may create txs for UP_TIME_LENGTH, and the *)
(* rest of it is a gap in which nobody may.                                *)
(***************************************************************************)
EXTENDS Integers

CONSTANTS guardsLen, TURNS_LENGTH, UP_TIME_LENGTH

ASSUME GuardTurnAssumption ==
  /\ guardsLen \in Nat \ {0}
  /\ TURNS_LENGTH \in Nat
  /\ UP_TIME_LENGTH \in Nat \ {0}
  /\ UP_TIME_LENGTH + 1 < TURNS_LENGTH   \* the gap is not empty

VARIABLE now  \* Date.now(), rounded; the clocks of the guards agree

Guards == 0 .. guardsLen - 1

FULL_PERIOD == guardsLen * TURNS_LENGTH

\* mutant: the turns are taken to be without gaps
NextTurnWithoutGaps(guardId) ==
  LET currentTurn == now % FULL_PERIOD
  IN  ((guardId * UP_TIME_LENGTH - currentTurn + FULL_PERIOD) % FULL_PERIOD) + 1

\* mutants: the second for insurance is left out; no wrap-around
ResetWithoutInsurance ==
  (UP_TIME_LENGTH - (now % TURNS_LENGTH) + TURNS_LENGTH) % TURNS_LENGTH
ResetWithoutWrap == (UP_TIME_LENGTH - (now % TURNS_LENGTH)) + 1

\* "plus 1 second for insurance"
secondsToNextTurn(guardId) ==
  LET currentTurn == now % FULL_PERIOD
  IN  ((guardId * TURNS_LENGTH - currentTurn + FULL_PERIOD) % FULL_PERIOD) + 1

secondsToReset ==
  LET currentPoint == now % TURNS_LENGTH
  IN  ((UP_TIME_LENGTH - currentPoint + TURNS_LENGTH) % TURNS_LENGTH) + 1

NoTurn == -1

guardTurnAt(time) ==
  LET currentTurn == time % FULL_PERIOD
  IN  IF currentTurn % TURNS_LENGTH > UP_TIME_LENGTH
      THEN NoTurn
      ELSE (currentTurn \div TURNS_LENGTH) % guardsLen

guardTurn == guardTurnAt(now)

-----------------------------------------------------------------------------
(* The clock, and what the jobs count on *)

ClockInit == now = 0
ClockNext == now' = (now + 1) % FULL_PERIOD
ClockSpec == ClockInit /\ [][ClockNext]_now

\* A guard that sleeps for secondsToNextTurn wakes in its own turn, whenever
\* it falls asleep.
WakesInOwnTurn ==
  \A g \in Guards : guardTurnAt(now + secondsToNextTurn(g)) = g

\* resetJob, which sleeps for secondsToReset, wakes in a gap, and in the gap of
\* this turn: no other guard's turn begins before the agreed txs are cleared.
ResetsBeforeNextTurn ==
  /\ guardTurnAt(now + secondsToReset) = NoTurn
  /\ guardTurn # NoTurn =>
       \A s \in 0 .. secondsToReset :
         guardTurnAt(now + s) \in {guardTurn, NoTurn}

\* The agreement jobs go on only while secondsToReset < UP_TIME_LENGTH, which
\* is never so in a gap: their chain does not reach the next guard's turn.
JobsStopInGap == secondsToReset < UP_TIME_LENGTH => guardTurn # NoTurn
=============================================================================
