------------------------------ MODULE ChaseLev ------------------------------
(***************************************************************************)
(* jobs::detail::ChaseLevDeque: the work-stealing deque every scheduler     *)
(* worker owns (src/engine/jobs/ChaseLevDeque.h).                           *)
(*                                                                         *)
(* One action per access to a shared atomic.  top_ is only written by       *)
(* compare-and-swap, so it is a plain variable.  The owner's stores to      *)
(* bottom_ and to the slots are relaxed: they enter `pending`, from where   *)
(* they reach memory in any order the C++ orderings allow.  The release     *)
(* fence of push is a marker in `pending` no later store overtakes; the     *)
(* sequentially consistent fence of pop waits until `pending` is empty.     *)
(* The owner itself loads what it stored last (`own`): nobody else stores.   *)
(* Stores are invisible to others until they reach memory, so the stores    *)
(* an operation issues after its last load belong to the same action as     *)
(* that load.                                                               *)
(***************************************************************************)
EXTENDS Integers, Sequences, SequencesExt, FiniteSets

CONSTANTS
    Capacity,   \* CapacityPow2, the number of slots
    Thieves,    \* the threads that only steal
    MaxPush     \* bound of the model: how many items the owner pushes

ASSUME CapacityAssumption == Capacity \in Nat \ {0, 1}
ASSUME MaxPushAssumption == MaxPush \in Nat

VARIABLES
    top,        \* top_
    mem,        \* bottom_ and ring_ as the other threads see them
    own,        \* bottom_ and ring_ as their owner sees them
    pending,    \* the owner's stores and release fences not yet in memory
    ownerPc,    \* what the owner does next
    ownerTop,   \* the owner's register t
    thiefPc,    \* what each thief does next
    thiefTop,   \* each thief's register t
    thiefVal,   \* each thief's register v
    pushed,     \* how many items have been pushed; they are numbered from 1
    got         \* history: how many times each item was returned

vars == <<top, mem, own, pending, ownerPc, ownerTop, thiefPc, thiefTop, thiefVal,
          pushed, got>>

Item == 1..MaxPush

-----------------------------------------------------------------------------
\* Shared locations.

Bottom == <<"bottom", 0>>
Slot(i) == <<"ring", i % Capacity>>
Location == {Bottom} \cup {Slot(i) : i \in 0..Capacity-1}

Fence == [loc |-> <<"fence", 0>>, val |-> 0]
Store(loc, val) == [loc |-> loc, val |-> val]

Init ==
    /\ top = 0
    /\ mem = [l \in Location |-> 0]
    /\ own = mem
    /\ pending = <<>>
    /\ ownerPc = "idle"
    /\ ownerTop = 0
    /\ thiefPc = [p \in Thieves |-> "idle"]
    /\ thiefTop = [p \in Thieves |-> 0]
    /\ thiefVal = [p \in Thieves |-> 0]
    /\ pushed = 0
    /\ got = [v \in Item |-> 0]

thiefVars == <<thiefPc, thiefTop, thiefVal>>

-----------------------------------------------------------------------------
\* The memory system.

\* A store reaches memory: not before an earlier release fence has passed,
\* and not before an earlier store to the same location.
MayReach(k) ==
    /\ pending[k] # Fence
    /\ \A j \in 1..k-1 : pending[j].loc \notin {Fence.loc, pending[k].loc}

Reach(k) ==
    /\ MayReach(k)
    /\ mem' = [mem EXCEPT ![pending[k].loc] = pending[k].val]
    /\ pending' = RemoveAt(pending, k)
    /\ UNCHANGED <<top, own, ownerPc, ownerTop, thiefVars, pushed, got>>

\* A fence has passed once every store before it has.
FencePassed ==
    /\ pending # <<>> /\ Head(pending) = Fence
    /\ pending' = Tail(pending)
    /\ UNCHANGED <<top, mem, own, ownerPc, ownerTop, thiefVars, pushed, got>>

-----------------------------------------------------------------------------
\* The owner.

LateIsFull(b, t) == b - t > Capacity     \* mutant: off by one
IsFull(b, t) == b - t >= Capacity

\* push, the ring is full: the caller puts the job on another queue.
PushFull ==
    /\ ownerPc = "idle" /\ pushed < MaxPush
    /\ IsFull(own[Bottom], top)
    /\ UNCHANGED vars

\* push, up to the load of top_ that finds room.
PushLoad ==
    /\ ownerPc = "idle" /\ pushed < MaxPush
    /\ ~IsFull(own[Bottom], top)
    /\ ownerPc' = "push"
    /\ UNCHANGED <<top, mem, own, pending, ownerTop, thiefVars, pushed, got>>

\* push: the slot is stored, then the fence, then the new bottom_.
\* Mutant: no release fence.
UnfencedPushStores(b, v) == <<Store(Slot(b), v), Store(Bottom, b + 1)>>
PushStores(b, v) == <<Store(Slot(b), v), Fence, Store(Bottom, b + 1)>>

PushStore ==
    /\ ownerPc = "push"
    /\ pending' = pending \o PushStores(own[Bottom], pushed + 1)
    /\ own' = [own EXCEPT ![Slot(own[Bottom])] = pushed + 1, ![Bottom] = @ + 1]
    /\ pushed' = pushed + 1
    /\ ownerPc' = "idle"
    /\ UNCHANGED <<top, mem, ownerTop, thiefVars, got>>

StoreBottom(b) ==
    /\ pending' = Append(pending, Store(Bottom, b))
    /\ own' = [own EXCEPT ![Bottom] = b]

\* pop: bottom_ is decremented to reserve the last item.
PopReserve ==
    /\ ownerPc = "idle"
    /\ StoreBottom(own[Bottom] - 1)
    /\ ownerPc' = "pop"
    /\ UNCHANGED <<top, mem, ownerTop, thiefVars, pushed, got>>

\* pop's fence lets the load of top_ happen after the reservation is visible.
PopFenced == pending = <<>>

Take(v) == got' = [got EXCEPT ![v] = @ + 1]

\* pop: more than one item is left, the reserved one is the owner's.
PopLast ==
    /\ ownerPc = "pop" /\ PopFenced
    /\ top < own[Bottom]
    /\ Take(own[Slot(own[Bottom])])
    /\ ownerPc' = "idle"
    /\ UNCHANGED <<top, mem, own, pending, ownerTop, thiefVars, pushed>>

\* pop: one item is left, a thief may be after the same one.
PopRace ==
    /\ ownerPc = "pop" /\ PopFenced
    /\ top = own[Bottom]
    /\ ownerTop' = top
    /\ ownerPc' = "popCas"
    /\ UNCHANGED <<top, mem, own, pending, thiefVars, pushed, got>>

\* The reservation is given back.
PopRestored == StoreBottom(own[Bottom] + 1)

\* pop: the deque was empty.
PopEmpty ==
    /\ ownerPc = "pop" /\ PopFenced
    /\ top > own[Bottom]
    /\ PopRestored
    /\ ownerPc' = "idle"
    /\ UNCHANGED <<top, mem, ownerTop, thiefVars, pushed, got>>

\* The compare-and-swap of pop is the strong one: it fails only for a reason.
SpuriousCasLoses == TRUE     \* mutant: compare_exchange_weak
CasLoses == top # ownerTop

\* pop: the compare-and-swap on top_ takes the last item.
PopCasWon ==
    /\ ownerPc = "popCas"
    /\ top = ownerTop
    /\ top' = ownerTop + 1
    /\ Take(own[Slot(own[Bottom])])
    /\ PopRestored
    /\ ownerPc' = "idle"
    /\ UNCHANGED <<mem, ownerTop, thiefVars, pushed>>

\* pop: a thief has taken the last item.
PopCasLost ==
    /\ ownerPc = "popCas"
    /\ CasLoses
    /\ PopRestored
    /\ ownerPc' = "idle"
    /\ UNCHANGED <<top, mem, ownerTop, thiefVars, pushed, got>>

-----------------------------------------------------------------------------
\* A thief.  It has no store of its own to wait for at its fence.

StealLoadTop(p) ==
    /\ thiefPc[p] = "idle"
    /\ thiefTop' = [thiefTop EXCEPT ![p] = top]
    /\ thiefPc' = [thiefPc EXCEPT ![p] = "bottom"]
    /\ UNCHANGED <<top, mem, own, pending, ownerPc, ownerTop, thiefVal, pushed, got>>

SeesTwoItems(p) == thiefTop[p] + 1 < mem[Bottom]     \* mutant: off by one
SeesItem(p) == thiefTop[p] < mem[Bottom]

StealLoadBottom(p) ==
    /\ thiefPc[p] = "bottom"
    /\ thiefPc' = [thiefPc EXCEPT ![p] =
                     IF SeesItem(p) THEN "slot" ELSE "idle"]
    /\ UNCHANGED <<top, mem, own, pending, ownerPc, ownerTop, thiefTop, thiefVal,
                   pushed, got>>

StealLoadSlot(p) ==
    /\ thiefPc[p] = "slot"
    /\ thiefVal' = [thiefVal EXCEPT ![p] = mem[Slot(thiefTop[p])]]
    /\ thiefPc' = [thiefPc EXCEPT ![p] = "cas"]
    /\ UNCHANGED <<top, mem, own, pending, ownerPc, ownerTop, thiefTop, pushed, got>>

\* The compare-and-swap decides whether the value read is the thief's.
MayClaim(p) == top = thiefTop[p]

StealCas(p) ==
    /\ thiefPc[p] = "cas"
    /\ thiefPc' = [thiefPc EXCEPT ![p] = "idle"]
    /\ IF MayClaim(p)
       THEN top' = thiefTop[p] + 1 /\ Take(thiefVal[p])
       ELSE UNCHANGED <<top, got>>
    /\ UNCHANGED <<mem, own, pending, ownerPc, ownerTop, thiefTop, thiefVal, pushed>>

-----------------------------------------------------------------------------
Memory == FencePassed \/ \E k \in DOMAIN pending : Reach(k)

OwnerPush == PushFull \/ PushLoad \/ PushStore

OwnerPop ==
    \/ PopReserve \/ PopLast \/ PopRace \/ PopEmpty \/ PopCasWon \/ PopCasLost

Thief(p) ==
    StealLoadTop(p) \/ StealLoadBottom(p) \/ StealLoadSlot(p) \/ StealCas(p)

Next == Memory \/ OwnerPush \/ OwnerPop \/ \E p \in Thieves : Thief(p)

\* Stores reach memory in finite time, a started operation is not abandoned
\* (an idle owner may stay idle), and every idle worker keeps trying to steal.
Fairness ==
    /\ WF_vars(Memory)
    /\ WF_vars(ownerPc # "idle" /\ (OwnerPush \/ OwnerPop))
    /\ \A p \in Thieves : WF_vars(Thief(p))

Spec == Init /\ [][Next]_vars /\ Fairness

-----------------------------------------------------------------------------
\* The registers, top_ and bottom_ stay in range: bottom_ is below 0 only while
\* pop has reserved an item of a deque that never held one.
TypeOK ==
    /\ top \in 0..MaxPush
    /\ {mem, own} \subseteq [Location -> -1..MaxPush]
    /\ \A k \in DOMAIN pending :
          \/ pending[k] = Fence
          \/ pending[k].loc \in Location /\ pending[k].val \in -1..MaxPush
    /\ ownerPc \in {"idle", "push", "pop", "popCas"}
    /\ ownerTop \in 0..MaxPush
    /\ thiefPc \in [Thieves -> {"idle", "bottom", "slot", "cas"}]
    /\ thiefTop \in [Thieves -> 0..MaxPush]
    /\ thiefVal \in [Thieves -> 0..MaxPush]
    /\ pushed \in 0..MaxPush
    /\ got \in [Item -> Nat]

\* The end of the deque as the owner's operations have decided it so far: a
\* reservation counts only once pop knows that it keeps the item.
End == own[Bottom] + (IF ownerPc \in {"pop", "popCas"} THEN 1 ELSE 0)

\* The items in the deque, the oldest first.
Items == [i \in 1..(End - top) |-> own[Slot(top + i - 1)]]

\* A thief reads its slot long before it claims it.  Whenever its
\* compare-and-swap would succeed, the value it read is still the oldest item:
\* no push has gone round the ring over it and no store is still on its way.
ClaimIsCurrent ==
    /\ TypeOK
    /\ \A p \in Thieves :
          thiefPc[p] = "cas" /\ MayClaim(p) =>
              /\ Len(Items) > 0
              /\ thiefVal[p] = Items[1]

\* pop returns false only when no item is left at that instant, although it
\* has seen the deque through a reservation the thieves may not see yet: a
\* worker that gets false goes to steal and then to sleep.
PopFailsOnlyWhenEmpty ==
    [][ (ownerPc \in {"pop", "popCas"} /\ ownerPc' = "idle" /\ got' = got)
            => Items = <<>> ]_vars

\* Nothing stays behind in the deque while a thief looks for work: every
\* pushed item is returned to somebody eventually.
EveryItemTaken == \A v \in Item : pushed >= v ~> got[v] = 1

\* The deque implements the bounded double-ended queue of WorkDeque: whatever the
\* interleaving of the owner's pop with the steals, and of the stores with the
\* loads, no item is lost and none is returned twice.
Abstract == INSTANCE WorkDeque WITH items <- Items
ImplementsWorkDeque == Abstract!Spec
=============================================================================
