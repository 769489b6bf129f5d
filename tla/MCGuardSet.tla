----------------------------- MODULE MCGuardSet -----------------------------
EXTENDS GuardSet

CONSTANTS a, b, c

\* The third guard takes the place of the first, or comes after the second,
\* whose place moves
MCGuardSets == {<<a, b>>, <<c, b>>, <<b, c>>}
=============================================================================
