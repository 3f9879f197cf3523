---------------------------- MODULE FifoChannel ----------------------------
(***************************************************************************)
(* What the reliable channel promises each pair of hosts: the messages one  *)
(* host has accepted for sending come out at the other, each at most once,  *)
(* and in the order in which they were accepted.                            *)
(***************************************************************************)
EXTENDS Naturals, Sequences

CONSTANTS
    Host,       \* the endpoints
    Peer,       \* Peer[h]: the host at the other end
    Script      \* Script[h]: the messages the application at h sends in turn

VARIABLES
    accepted,   \* how many messages each host has taken from its application
    delivered   \* the messages each host has handed over

absVars == <<accepted, delivered>>

Init ==
    /\ accepted = [h \in Host |-> 0]
    /\ delivered = [h \in Host |-> <<>>]

Accept(h) ==
    /\ accepted[h] < Len(Script[h])
    /\ accepted' = [accepted EXCEPT ![h] = @ + 1]

\* One or more of the messages on their way to h come out.
Deliver(h) ==
    LET n == Len(delivered'[h])
    IN  /\ Len(delivered[h]) < n
        /\ n <= accepted'[Peer[h]]
        /\ delivered' = [delivered EXCEPT ![h] = SubSeq(Script[Peer[h]], 1, n)]

\* On an in-process bus a message may come out in the step that sends it.
Next ==
    /\ UNCHANGED accepted \/ \E h \in Host : Accept(h)
    /\ UNCHANGED delivered \/ \E h \in Host : Deliver(h)

Spec == Init /\ [][Next]_absVars
=============================================================================
