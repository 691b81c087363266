----------------------------- MODULE MCLifoHost -----------------------------
\* Instances of LifoStorageHost for TLC: the i-th array pushed holds i.
EXTENDS LifoHostInvariant

MCValues == 1 .. PushCount
=============================================================================
