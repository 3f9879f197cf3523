------------------------------ MODULE MCMatch ------------------------------
\* Two players near the origin, on a channel with and without latency, with all
\* of the world in sight or only the own place.
EXTENDS Match, TLC

Session(latency, radius, shots) == [latency |-> latency, radius |-> radius, shots |-> shots]
AllSessions == {Session(0, 9, TRUE), Session(1, 9, TRUE), Session(1, 0, FALSE),
                Session(2, 0, FALSE), Session(2, 9, FALSE)}
TwoPoints == <<0, 2>>
=============================================================================
