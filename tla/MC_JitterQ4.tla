---------------------------- MODULE MC_JitterQ4 ----------------------------
EXTENDS JitterQ4

\* Differences on both sides of the 450000-sample guard, of either sign,
\* and the INT32_MIN jump whose abs() stays negative.
MC_TimeDiffs == {0, 1, -20, 449999, -450000, Int32Min}
=============================================================================
