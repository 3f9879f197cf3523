-------------------------- MODULE MCFlightRecorder --------------------------
\* Two threads that log, record and register two sinks, one of them the
\* recorder's own, while a third one dumps.
EXTENDS FlightRecorder, TLC

CONSTANTS tap, view, t1, t2, a1, a2, a3, a4, Nil

\* The threads are interchangeable, and so are the addresses.
MCSymmetry == Permutations(Thread) \cup Permutations(Addr)
=============================================================================
