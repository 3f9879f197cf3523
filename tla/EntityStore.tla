---------------------------- MODULE EntityStore ----------------------------
(***************************************************************************)
(* What the ECS promises its callers: a map from entities to components.    *)
(* A handle names one entity for ever, a call on a handle changes that      *)
(* entity alone, and a handle that was destroyed never comes back to life.  *)
(* No chunk, row, archetype or slot appears here.                           *)
(***************************************************************************)
CONSTANTS
    Name,           \* the handles
    Component,      \* the component types
    Datum           \* Datum[c]: the values of component c

VARIABLES
    issued,         \* the handles given out so far
    store           \* the components of every live handle

Init == issued = {} /\ store = [h \in {} |-> {}]

Live == DOMAIN store

Create(h) ==
    /\ h \notin issued
    /\ issued' = issued \cup {h}
    /\ store' = [n \in Live \cup {h} |-> IF n = h THEN [c \in {} |-> {}] ELSE store[n]]

Destroy(h) ==
    /\ h \in Live
    /\ store' = [n \in Live \ {h} |-> store[n]]
    /\ UNCHANGED issued

Put(h, c, v) ==
    /\ h \in Live
    /\ store' = [store EXCEPT ![h] =
                   [k \in DOMAIN @ \cup {c} |-> IF k = c THEN v ELSE @[k]]]
    /\ UNCHANGED issued

Drop(h, c) ==
    /\ h \in Live /\ c \in DOMAIN store[h]
    /\ store' = [store EXCEPT ![h] = [k \in DOMAIN @ \ {c} |-> @[k]]]
    /\ UNCHANGED issued

\* A system writes one component of many entities that have it.
Sweep(some, c, v) ==
    /\ \A h \in some : c \in DOMAIN store[h]
    /\ store' = [h \in Live |-> IF h \in some THEN [store[h] EXCEPT ![c] = v] ELSE store[h]]
    /\ UNCHANGED issued

Next ==
    \/ \E h \in Name : Create(h) \/ Destroy(h)
    \/ \E h \in Live, c \in Component :
         Drop(h, c) \/ \E v \in Datum[c] : Put(h, c, v)
    \/ \E some \in SUBSET Live, c \in Component : \E v \in Datum[c] : Sweep(some, c, v)

Spec == Init /\ [][Next]_<<issued, store>>
=============================================================================
