---------------------------- MODULE MCGuardJobs ----------------------------
EXTENDS GuardNode, TLC

CONSTANT e1

MCTypeOf == 1 :> "payment"
MCEventOf == 1 :> e1 
MCErgoEvents == {e1}
=============================================================================
