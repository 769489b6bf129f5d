---------------------------- MODULE MCEventOrder ----------------------------
EXTENDS EventOrder, TLC

CONSTANTS g, h, v, w

\* A token that goes from one chain to another, and ERGs that come to Ergo
\* with fees below the minimum
TokenAway == [amount |-> 1000, bridgeFee |-> 105, networkFee |-> 7,
              toErgo |-> FALSE, tokenOnErgo |-> "tok",
              targetToken |-> "tok", nativeToken |-> "native"]
ErgsHome == [amount |-> 6000, bridgeFee |-> 100, networkFee |-> 3,
             toErgo |-> TRUE, tokenOnErgo |-> "erg",
             targetToken |-> "erg", nativeToken |-> "erg"]

MCEvents == {TokenAway, ErgsHome}

\* The ratio makes 120 of 6000
MCFeeConfig == [bridgeFee |-> 101, networkFee |-> 5, feeRatio |-> 2,
                feeRatioDivisor |-> 100, rsnRatio |-> 3, rsnRatioDivisor |-> 7]

\* Bounds: one guard creates and one verifies, neither scans before the event
\* is there; the event is triggered in the second block and commitments are
\* created up to the block after it
OneCreates == tx[h] = NoTx
ScanLater == event.height = NotTriggered => scanned[g] = 0 /\ scanned[h] = 0
SecondBlock ==
  /\ event.height \in {2, NotTriggered}
  /\ height > 2 => event.height = 2
  /\ \A i \in DOMAIN chain : chain[i].height <= 3

SymmetricWatchers == Permutations({v, w})
=============================================================================
