----------------------------- MODULE MCPoolServer -----------------------------
EXTENDS PoolServer

\* Two configurations, so that a restart can meet a segment of the other one.
MCUnitCounts == {3, 4}
MCPids == {1, 2}
=============================================================================
