------------------------- MODULE MCDequeOperations -------------------------
\* Instance of DequeOperations for TLC: three slots, indices from -4 to 4.
EXTENDS DequeOperations
=============================================================================
