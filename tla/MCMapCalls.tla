----------------------------- MODULE MCMapCalls -----------------------------
EXTENDS MapCalls

MCItemCounts == 0..4
MCLimits == {NoLimit, 0, 1, 2}
=============================================================================
