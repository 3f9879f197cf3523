----------------------------- MODULE MCChaseLev -----------------------------
\* The deque with two slots, one owner and two thieves.  Four pushes go twice
\* around the ring.
EXTENDS ChaseLev

CONSTANTS t1, t2
=============================================================================
