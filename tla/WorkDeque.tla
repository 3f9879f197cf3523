----------------------------- MODULE WorkDeque -----------------------------
(***************************************************************************)
(* What a per-worker job deque promises the scheduler: a bounded sequence   *)
(* of items.  Its owner pushes and pops at one end, every other worker      *)
(* steals from the other end, and an item leaves the deque exactly once.    *)
(* Items are numbered in the order they are pushed.                         *)
(***************************************************************************)
EXTENDS Naturals, Sequences, SequencesExt

CONSTANTS
    Capacity,   \* the number of slots of the ring
    MaxPush     \* bound of the model: how many items are ever pushed

VARIABLES
    pushed,     \* how many items have been pushed
    items,      \* the items in the deque, the oldest first
    got         \* got[v]: how many times item v has left the deque

absVars == <<pushed, items, got>>

Item == 1..MaxPush

Init ==
    /\ pushed = 0
    /\ items = <<>>
    /\ got = [v \in Item |-> 0]

\* The owner adds the next item behind all the others.
Push ==
    /\ pushed < MaxPush
    /\ Len(items) < Capacity
    /\ pushed' = pushed + 1
    /\ items' = Append(items, pushed + 1)
    /\ UNCHANGED got

\* The owner takes the item it pushed last.
Pop ==
    /\ items # <<>>
    /\ items' = Front(items)
    /\ got' = [got EXCEPT ![Last(items)] = @ + 1]
    /\ UNCHANGED pushed

\* A thief takes the oldest item.
Steal ==
    /\ items # <<>>
    /\ items' = Tail(items)
    /\ got' = [got EXCEPT ![Head(items)] = @ + 1]
    /\ UNCHANGED pushed

Next == Push \/ Pop \/ Steal

Spec == Init /\ [][Next]_absVars
=============================================================================
