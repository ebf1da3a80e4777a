--------------------------- MODULE MCBatchedCalls ---------------------------
EXTENDS BatchedCalls
=============================================================================
