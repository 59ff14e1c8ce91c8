------------------------------ MODULE MCGetHash ------------------------------
\* One or two goroutines asking for the ancestors of block Number.
EXTENDS GetHash
CONSTANTS v, w
=============================================================================
