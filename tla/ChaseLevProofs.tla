--------------------------- MODULE ChaseLevProofs ---------------------------
(***************************************************************************)
(* The work-stealing deque under the memory orders of the code, for every  *)
(* capacity, every number of thieves and of items.                         *)
(*                                                                         *)
(* The argument.  What the owner has stored reaches memory in an order in   *)
(* which the slot of an item always comes before a bottom_ that is above    *)
(* it (Ordered): so a thief that sees its index below bottom_ reads what    *)
(* the owner put there (Fresh), unless top_ has moved on and its            *)
(* compare-and-swap fails.  No bottom_ in memory or on its way is above     *)
(* the end of the deque (Bounds), because the owner takes items off the     *)
(* end only behind a fence: so what a thief claims is an item, and while    *)
(* top_ stays the end does not fall to it.                                  *)
(***************************************************************************)
EXTENDS ChaseLev, SequenceTheorems, TLAPS

Write ==
    [loc : {Bottom}, val : -1 .. MaxPush] \cup [loc : Location \ {Bottom}, val : 0 .. MaxPush]
    \cup {Fence}

Types ==
    /\ TypeOK
    /\ pending \in Seq(Write)
    /\ \A l \in Location \ {Bottom} : mem[l] >= 0 /\ own[l] >= 0

\* Where the ends of the deque may be.
Bounds ==
    /\ top <= End /\ End <= pushed /\ End - top <= Capacity
    /\ ownerPc = "push" => End - top < Capacity /\ pushed < MaxPush
    /\ ownerPc = "popCas" =>
          own[Bottom] = ownerTop /\ pending = <<>> /\ mem[Bottom] = ownerTop /\ ownerTop <= top
    /\ mem[Bottom] <= End
    /\ \A k \in DOMAIN pending : pending[k].loc = Bottom => pending[k].val <= End

Waits(loc) == \E k \in DOMAIN pending : pending[k].loc = loc

\* Of every location the owner has stored last what is on its way last, or in memory.
Current ==
    \A loc \in Location :
        /\ ~Waits(loc) => mem[loc] = own[loc]
        /\ \A k \in DOMAIN pending :
              pending[k].loc = loc /\ (\A j \in DOMAIN pending : j > k => pending[j].loc # loc)
                => pending[k].val = own[loc]

IsFence(k) == pending[k] = Fence

\* Every item is stored before a release fence,
Guarded ==
    \A j \in DOMAIN pending : pending[j].loc \in Location \ {Bottom} =>
        \E f \in DOMAIN pending : j < f /\ IsFence(f)

\* and before every bottom_ that is above it.
Ordered ==
    \A k \in DOMAIN pending : pending[k].loc = Bottom =>
        \A i \in top .. pending[k].val - 1, j \in DOMAIN pending :
            pending[j].loc = Slot(i) => \E f \in DOMAIN pending : j < f /\ f < k /\ IsFence(f)

Fresh == \A i \in top .. mem[Bottom] - 1 : ~Waits(Slot(i))

StoresInOrder == Current /\ Guarded /\ Ordered /\ Fresh

\* A thief whose compare-and-swap may succeed is after an item.
Stealing ==
    \A p \in Thieves :
        /\ thiefTop[p] <= top
        /\ thiefTop[p] = top =>
              /\ thiefPc[p] \in {"slot", "cas"} => top < End
              /\ thiefPc[p] = "slot" => ~Waits(Slot(top))
              /\ thiefPc[p] = "cas" => thiefVal[p] = own[Slot(top)]

\* Every item that was pushed is in the deque, once, or was returned, once.
InDeque(v) == \E i \in top .. End - 1 : own[Slot(i)] = v

EachOnce ==
    /\ \A i \in top .. End - 1 :
          /\ own[Slot(i)] \in 1 .. pushed
          /\ \A j \in top .. End - 1 : own[Slot(i)] = own[Slot(j)] => i = j
    /\ \A v \in Item : got[v] = IF v > pushed \/ InDeque(v) THEN 0 ELSE 1

IInv == Types /\ Bounds /\ StoresInOrder /\ Stealing /\ EachOnce

-----------------------------------------------------------------------------

\* Arithmetic of the ring, and locations.

LEMMA ModRange == ASSUME NEW d \in Nat \ {0}, NEW n \in Int PROVE n % d \in 0 .. d - 1
OBVIOUS

LEMMA ModSmall == ASSUME NEW d \in Nat \ {0}, NEW r \in 0 .. d - 1 PROVE r % d = r
OBVIOUS

LEMMA Euclid ==
    ASSUME NEW d \in Nat \ {0}, NEW n \in Int
    PROVE  n \div d \in Int /\ n = d * (n \div d) + (n % d)
OBVIOUS

LEMMA LapApart ==
    ASSUME NEW d \in Nat \ {0}, NEW q \in Int, q # 0, NEW e \in Int, e = d * q
    PROVE  e >= d \/ e <= -d
OBVIOUS

LEMMA SlotsApart ==
    ASSUME NEW n \in Int, NEW m \in Int, Slot(n) = Slot(m), n < m + Capacity, m < n + Capacity
    PROVE  n = m
<1> SUFFICES ASSUME n # m PROVE FALSE
  OBVIOUS
<1> DEFINE q == (m \div Capacity) - (n \div Capacity)
<1>1. n % Capacity = m % Capacity
  BY DEF Slot
<1>2. q \in Int /\ m - n = Capacity * q
  BY <1>1, Euclid, CapacityAssumption
<1>3. q # 0
  BY <1>2, CapacityAssumption
<1> QED
  BY <1>2, <1>3, LapApart, CapacityAssumption

LEMMA Locations ==
    /\ Bottom \in Location /\ Bottom # Fence.loc /\ Fence.loc \notin Location
    /\ \A i \in Int : Slot(i) \in Location \ {Bottom} /\ Slot(i) # Fence.loc
<1>1. Bottom \in Location /\ Bottom # Fence.loc /\ Fence.loc \notin Location
  BY DEF Bottom, Location, Fence, Slot
<1>2. ASSUME NEW i \in Int PROVE Slot(i) \in Location \ {Bottom} /\ Slot(i) # Fence.loc
  <2>1. i % Capacity \in 0 .. Capacity - 1 /\ (i % Capacity) % Capacity = i % Capacity
    BY ModRange, ModSmall, CapacityAssumption
  <2>2. Slot(i % Capacity) = Slot(i)
    BY <2>1 DEF Slot
  <2> QED
    BY <2>1, <2>2 DEF Slot, Location, Bottom, Fence
<1> QED
  BY <1>1, <1>2

LEMMA WriteTypes ==
    ASSUME pending \in Seq(Write), NEW k \in DOMAIN pending
    PROVE  /\ pending[k] = Fence \/ pending[k].loc \in Location
           /\ pending[k].val \in -1 .. MaxPush
           /\ pending[k].val \in Int
           /\ pending[k].loc \in Location \ {Bottom} => pending[k].val \in 0 .. MaxPush
BY Locations, MaxPushAssumption DEF Write, Fence

-----------------------------------------------------------------------------
\* The stores on their way.

\* pending' is pending without its kth element.
Dropped(k) ==
    /\ DOMAIN pending' = 1 .. Len(pending) - 1
    /\ \A j \in 1 .. Len(pending) - 1 : pending'[j] = pending[IF j < k THEN j ELSE j + 1]

LEMMA ReachDrops ==
    ASSUME pending \in Seq(Write), NEW k \in DOMAIN pending, pending' = RemoveAt(pending, k)
    PROVE  pending' \in Seq(Write) /\ Dropped(k)
BY SMTT(30) DEF RemoveAt, Dropped

LEMMA FenceDrops ==
    ASSUME pending \in Seq(Write), pending # <<>>, pending' = Tail(pending)
    PROVE  pending' \in Seq(Write) /\ Dropped(1) /\ 1 \in DOMAIN pending
BY DEF Dropped

\* What is left was there, and nothing else is gone.
LEMMA DroppedOne ==
    ASSUME pending \in Seq(Write), NEW k \in DOMAIN pending, Dropped(k)
    PROVE  /\ \A j \in DOMAIN pending' : \E i \in DOMAIN pending :
                 /\ i # k /\ pending'[j] = pending[i]
                 /\ i = IF j < k THEN j ELSE j + 1
           /\ \A i \in DOMAIN pending : i # k => \E j \in DOMAIN pending' :
                 /\ pending'[j] = pending[i]
                 /\ j = IF i < k THEN i ELSE i - 1
<1>1. ASSUME NEW j \in DOMAIN pending'
      PROVE  \E i \in DOMAIN pending : /\ i # k /\ pending'[j] = pending[i]
                                       /\ i = IF j < k THEN j ELSE j + 1
  BY <1>1 DEF Dropped
<1>2. ASSUME NEW i \in DOMAIN pending, i # k
      PROVE  \E j \in DOMAIN pending' : /\ pending'[j] = pending[i]
                                        /\ j = IF i < k THEN i ELSE i - 1
  <2> DEFINE j == IF i < k THEN i ELSE i - 1
  <2>1. j \in 1 .. Len(pending) - 1 /\ (IF j < k THEN j ELSE j + 1) = i
    BY <1>2
  <2> QED
    BY <2>1 DEF Dropped
<1> QED
  BY <1>1, <1>2

\* Dropping a store, or a fence that has nothing before it, keeps the fences between.
LEMMA DropKeeps ==
    ASSUME Types, Guarded, Ordered, NEW k \in DOMAIN pending, Dropped(k), UNCHANGED top,
           IsFence(k) => k = 1
    PROVE  Guarded' /\ Ordered'
<1>1. /\ pending \in Seq(Write)
      /\ DOMAIN pending \subseteq Nat /\ DOMAIN pending' \subseteq Nat
  BY DEF Types, Dropped
<1>2. \A l \in DOMAIN pending : pending[l].loc \in Location => ~IsFence(l)
  BY Locations DEF IsFence
<1>3. ASSUME NEW a \in DOMAIN pending, NEW f \in DOMAIN pending, a # k, a < f,
             IsFence(f), pending[a].loc \in Location
      PROVE  f # k
  BY <1>1, <1>3
<1>4. Guarded'
  <2> SUFFICES ASSUME NEW j \in DOMAIN pending', pending'[j].loc \in Location \ {Bottom}
               PROVE  \E f \in DOMAIN pending' : j < f /\ IsFence(f)'
    BY DEF Guarded, Location, Slot, Bottom
  <2>1. PICK i \in DOMAIN pending : /\ i # k /\ pending'[j] = pending[i]
                                    /\ i = IF j < k THEN j ELSE j + 1
    BY <1>1, DroppedOne
  <2>2. PICK f \in DOMAIN pending : i < f /\ IsFence(f)
    BY <2>1 DEF Guarded
  <2>3. f # k
    BY <1>3, <2>1, <2>2
  <2>4. PICK g \in DOMAIN pending' : /\ pending'[g] = pending[f]
                                     /\ g = IF f < k THEN f ELSE f - 1
    BY <1>1, <2>3, DroppedOne
  <2>5. j < g
    BY <1>1, <2>1, <2>2, <2>3, <2>4
  <2> QED
    BY <2>2, <2>4, <2>5 DEF IsFence, Fence
<1>5. Ordered'
  <2> SUFFICES ASSUME NEW m \in DOMAIN pending', pending'[m].loc = Bottom,
                      NEW i \in top .. pending'[m].val - 1, NEW j \in DOMAIN pending',
                      pending'[j].loc = Slot(i)
               PROVE  \E f \in DOMAIN pending' : j < f /\ f < m /\ IsFence(f)'
    BY DEF Ordered, Slot, Bottom
  <2>1. PICK a \in DOMAIN pending : /\ a # k /\ pending'[m] = pending[a]
                                    /\ a = IF m < k THEN m ELSE m + 1
    BY <1>1, DroppedOne
  <2>2. PICK b \in DOMAIN pending : /\ b # k /\ pending'[j] = pending[b]
                                    /\ b = IF j < k THEN j ELSE j + 1
    BY <1>1, DroppedOne
  <2>3. PICK f \in DOMAIN pending : b < f /\ f < a /\ IsFence(f)
    BY <2>1, <2>2 DEF Ordered
  <2>4. pending[b].loc \in Location
    <3>1. i \in Int
      BY DEF Types, TypeOK
    <3> QED
      BY <2>2, <3>1, Locations
  <2>5. f # k
    BY <1>3, <2>2, <2>3, <2>4
  <2>6. PICK g \in DOMAIN pending' : /\ pending'[g] = pending[f]
                                     /\ g = IF f < k THEN f ELSE f - 1
    BY <1>1, <2>5, DroppedOne
  <2>7. j < g /\ g < m
    BY <1>1, <2>1, <2>2, <2>3, <2>5, <2>6
  <2> QED
    BY <2>3, <2>6, <2>7 DEF IsFence, Fence
<1> QED
  BY <1>4, <1>5

\* What waits after a drop waited before, and only the dropped store waits no more.
LEMMA DropWaits ==
    ASSUME pending \in Seq(Write), NEW k \in DOMAIN pending, Dropped(k), NEW loc
    PROVE  /\ Waits(loc)' => Waits(loc)
           /\ Waits(loc) /\ ~Waits(loc)' =>
                 /\ pending[k].loc = loc
                 /\ \A i \in DOMAIN pending : i # k => pending[i].loc # loc
<1>1. ASSUME NEW j \in DOMAIN pending', pending'[j].loc = loc PROVE Waits(loc)
  BY <1>1, DroppedOne DEF Waits
<1>2. ASSUME NEW i \in DOMAIN pending, i # k, pending[i].loc = loc
      PROVE  \E j \in DOMAIN pending' : pending'[j].loc = loc
  BY <1>2, DroppedOne
<1> QED
  BY <1>1, <1>2 DEF Waits

\* What is last of its location after a drop was last before, if what is dropped
\* had nothing of its location before it.
LEMMA DropLast ==
    ASSUME pending \in Seq(Write), NEW k \in DOMAIN pending, Dropped(k), NEW loc,
           \A i \in 1 .. k - 1 : pending[i].loc # pending[k].loc,
           NEW m \in DOMAIN pending', pending'[m].loc = loc,
           \A j \in DOMAIN pending' : j > m => pending'[j].loc # loc
    PROVE  \E a \in DOMAIN pending :
              /\ pending'[m] = pending[a]
              /\ \A i \in DOMAIN pending : i > a => pending[i].loc # loc
<1>0. DOMAIN pending = 1 .. Len(pending) /\ Len(pending) \in Nat
      /\ DOMAIN pending' \subseteq Nat
  BY DEF Dropped
<1>1. PICK a \in DOMAIN pending : /\ a # k /\ pending'[m] = pending[a]
                                  /\ a = IF m < k THEN m ELSE m + 1
  BY DroppedOne
<1>2. ASSUME NEW i \in DOMAIN pending, i > a, pending[i].loc = loc
      PROVE  FALSE
  <2>1. CASE i = k
    BY <1>0, <1>1, <1>2, <2>1
  <2>2. CASE i # k
    <3>1. PICK j \in DOMAIN pending' : /\ pending'[j] = pending[i]
                                       /\ j = IF i < k THEN i ELSE i - 1
      BY <2>2, DroppedOne
    <3>2. j > m
      BY <1>0, <1>1, <1>2, <2>2, <3>1
    <3> QED
      BY <1>2, <3>1, <3>2
  <2> QED
    BY <2>1, <2>2
<1> QED
  BY <1>1, <1>2

LEMMA ReachInOrder ==
    ASSUME Types, StoresInOrder, NEW k \in DOMAIN pending, Reach(k)
    PROVE  StoresInOrder'
<1> DEFINE l == pending[k].loc
<1>1. /\ pending \in Seq(Write) /\ Dropped(k) /\ UNCHANGED <<top, own>>
      /\ DOMAIN pending = 1 .. Len(pending) /\ top \in Int
  BY ReachDrops DEF Types, TypeOK, Reach
<1>2. /\ pending[k] # Fence /\ pending[k] \in Write /\ l \in Location /\ l # Fence.loc
      /\ \A j \in 1 .. k - 1 : pending[j].loc # l /\ pending[j].loc # Fence.loc
  BY <1>1, Locations DEF Reach, MayReach, Write
<1>3. /\ mem'[l] = pending[k].val
      /\ \A x \in Location : x # l => mem'[x] = mem[x]
  BY <1>2 DEF Reach, Types, TypeOK
<1>4. Guarded' /\ Ordered'
  BY <1>1, <1>2, DropKeeps DEF StoresInOrder, IsFence
<1>5. Current'
  <2> SUFFICES ASSUME NEW loc \in Location
               PROVE  /\ ~Waits(loc)' => mem'[loc] = own[loc]
                      /\ \A m \in DOMAIN pending' :
                            pending'[m].loc = loc
                            /\ (\A j \in DOMAIN pending' : j > m => pending'[j].loc # loc)
                              => pending'[m].val = own[loc]
    BY <1>1 DEF Current, Location, Bottom, Slot
  <2>1. ASSUME ~Waits(loc)' PROVE mem'[loc] = own[loc]
    <3>1. CASE ~Waits(loc)
      <4>1. loc # l
        BY <3>1 DEF Waits
      <4> QED
        BY <1>3, <3>1, <4>1 DEF StoresInOrder, Current
    <3>2. CASE Waits(loc)
      <4>1. l = loc /\ \A i \in DOMAIN pending : i # k => pending[i].loc # loc
        BY <1>1, <2>1, <3>2, DropWaits
      <4>2. \A i \in DOMAIN pending : i > k => pending[i].loc # loc
        BY <1>1, <4>1
      <4> QED
        BY <1>3, <4>1, <4>2 DEF StoresInOrder, Current
    <3> QED
      BY <3>1, <3>2
  <2>2. ASSUME NEW m \in DOMAIN pending', pending'[m].loc = loc,
               \A j \in DOMAIN pending' : j > m => pending'[j].loc # loc
        PROVE  pending'[m].val = own[loc]
    <3>1. PICK a \in DOMAIN pending :
              /\ pending'[m] = pending[a]
              /\ \A i \in DOMAIN pending : i > a => pending[i].loc # loc
      BY <1>1, <1>2, <2>2, DropLast, ZenonT(40)
    <3> QED
      BY <2>2, <3>1 DEF StoresInOrder, Current
  <2> QED
    BY <2>1, <2>2
<1>6. Fresh'
  <2> SUFFICES ASSUME NEW i \in top .. mem'[Bottom] - 1, Waits(Slot(i))'
               PROVE  FALSE
    BY <1>1 DEF Fresh, Bottom, Slot
  <2>1. i \in Int /\ Slot(i) \in Location \ {Bottom}
    BY <1>1, Locations
  <2>2. CASE l # Bottom
    <3>1. mem'[Bottom] = mem[Bottom]
      BY <1>3, <2>2, Locations
    <3>2. Waits(Slot(i))
      BY <1>1, DropWaits DEF Slot
    <3> QED
      BY <3>1, <3>2 DEF StoresInOrder, Fresh
  <2>3. CASE l = Bottom
    <3>1. PICK j \in DOMAIN pending' : pending'[j].loc = Slot(i)
      BY DEF Waits, Slot
    <3>2. PICK b \in DOMAIN pending : pending'[j] = pending[b]
      BY <1>1, DroppedOne
    <3>3. PICK f \in DOMAIN pending : b < f /\ f < k /\ IsFence(f)
      BY <1>3, <2>3, <3>1, <3>2 DEF StoresInOrder, Ordered
    <3> QED
      BY <1>1, <1>2, <3>3 DEF IsFence
  <2> QED
    BY <2>2, <2>3
<1> QED
  BY <1>4, <1>5, <1>6 DEF StoresInOrder

LEMMA FenceInOrder ==
    ASSUME Types, StoresInOrder, FencePassed
    PROVE  StoresInOrder'
<1>1. /\ pending \in Seq(Write) /\ Dropped(1) /\ 1 \in DOMAIN pending
      /\ pending[1] = Fence /\ UNCHANGED <<top, mem, own>> /\ top \in Int
  BY FenceDrops DEF Types, TypeOK, FencePassed
<1>2. Guarded' /\ Ordered'
  BY <1>1, DropKeeps DEF StoresInOrder
<1>3. \A loc \in Location : Waits(loc)' <=> Waits(loc)
  <2>1. \A loc \in Location : loc # pending[1].loc
    BY <1>1, Locations
  <2> QED
    BY <1>1, <2>1, DropWaits
<1>4. Current'
  <2> SUFFICES ASSUME NEW loc \in Location
               PROVE  /\ ~Waits(loc)' => mem[loc] = own[loc]
                      /\ \A m \in DOMAIN pending' :
                            pending'[m].loc = loc
                            /\ (\A j \in DOMAIN pending' : j > m => pending'[j].loc # loc)
                              => pending'[m].val = own[loc]
    BY <1>1 DEF Current, Location, Bottom, Slot
  <2>1. ASSUME NEW m \in DOMAIN pending', pending'[m].loc = loc,
               \A j \in DOMAIN pending' : j > m => pending'[j].loc # loc
        PROVE  pending'[m].val = own[loc]
    <3>1. PICK a \in DOMAIN pending :
              /\ pending'[m] = pending[a]
              /\ \A i \in DOMAIN pending : i > a => pending[i].loc # loc
      <4>1. \A i \in 1 .. 1 - 1 : pending[i].loc # pending[1].loc
        OBVIOUS
      <4>2. \A i \in 1 .. 1 - 1 : pending[i].loc # pending[1].loc
        BY <4>1
      <4> QED
        BY <1>1, <2>1, <4>2, DropLast, ZenonT(60)
    <3> QED
      BY <2>1, <3>1 DEF StoresInOrder, Current
  <2> QED
    BY <1>3, <2>1 DEF StoresInOrder, Current
<1>5. Fresh'
  <2>1. \A i \in Int : Waits(Slot(i))' <=> Waits(Slot(i))
    BY <1>3, Locations DEF Slot
  <2>2. mem[Bottom] \in Int
    BY Locations DEF Types, TypeOK
  <2>3. \A i \in top .. mem[Bottom] - 1 : ~Waits(Slot(i))'
    BY <1>1, <2>1, <2>2 DEF StoresInOrder, Fresh
  <2> QED
    BY <1>1, <2>3 DEF Fresh, Bottom, Slot
<1> QED
  BY <1>2, <1>4, <1>5 DEF StoresInOrder

\* A store to bottom_ comes after everything on its way; every item on its way is
\* before a fence.
LEMMA BottomInOrder ==
    ASSUME Types, StoresInOrder, NEW b \in Int, StoreBottom(b),
           UNCHANGED mem, top' \in Nat, top' >= top
    PROVE  StoresInOrder'
<1> DEFINE n == Len(pending)
           w == Store(Bottom, b)
<1>1. /\ pending \in Seq(Write) /\ n \in Nat /\ DOMAIN pending = 1 .. n
      /\ pending' = Append(pending, w) /\ top \in Nat
  BY DEF Types, TypeOK, StoreBottom
<1>2. /\ DOMAIN pending' = 1 .. n + 1 /\ pending'[n + 1] = w
      /\ \A j \in 1 .. n : pending'[j] = pending[j]
  BY <1>1
<1>3. w.loc = Bottom /\ w.val = b /\ w # Fence
  BY Locations DEF Store, Fence
<1>0. \A f \in DOMAIN pending :
        f \in DOMAIN pending' /\ f < n + 1 /\ (IsFence(f) => IsFence(f)')
  BY <1>1, <1>2 DEF IsFence, Fence
<1>4. own'[Bottom] = b /\ \A loc \in Location : loc # Bottom => own'[loc] = own[loc]
  BY Locations DEF StoreBottom, Types, TypeOK
<1>5. \A loc \in Location : Waits(loc)' <=> (Waits(loc) \/ loc = Bottom)
  BY <1>1, <1>2, <1>3 DEF Waits
<1>6. Current'
  <2> SUFFICES ASSUME NEW loc \in Location
               PROVE  /\ ~Waits(loc)' => mem[loc] = own'[loc]
                      /\ \A m \in DOMAIN pending' :
                            pending'[m].loc = loc
                            /\ (\A j \in DOMAIN pending' : j > m => pending'[j].loc # loc)
                              => pending'[m].val = own'[loc]
    BY <1>1 DEF Current, Location, Bottom, Slot
  <2>1. CASE loc = Bottom
    BY <1>2, <1>3, <1>4, <1>5, <2>1
  <2>2. CASE loc # Bottom
    BY <1>1, <1>2, <1>3, <1>4, <1>5, <2>2 DEF StoresInOrder, Current
  <2> QED
    BY <2>1, <2>2
<1>7. Guarded'
  <2> SUFFICES ASSUME NEW j \in DOMAIN pending', pending'[j].loc \in Location \ {Bottom}
               PROVE  \E f \in DOMAIN pending' : j < f /\ IsFence(f)'
    BY DEF Guarded, Location, Slot, Bottom
  <2>1. j \in DOMAIN pending /\ pending'[j] = pending[j]
    BY <1>1, <1>2, <1>3
  <2>2. PICK f \in DOMAIN pending : j < f /\ IsFence(f)
    BY <2>1 DEF StoresInOrder, Guarded
  <2> QED
    BY <1>0, <2>2
<1>8. Ordered'
  <2> SUFFICES ASSUME NEW k \in DOMAIN pending', pending'[k].loc = Bottom,
                      NEW i \in top' .. pending'[k].val - 1, NEW j \in DOMAIN pending',
                      pending'[j].loc = Slot(i)
               PROVE  \E f \in DOMAIN pending' : j < f /\ f < k /\ IsFence(f)'
    BY DEF Ordered, Slot, Bottom
  <2>0. Slot(i) \in Location \ {Bottom}
    BY Locations
  <2>1. j \in DOMAIN pending /\ pending'[j] = pending[j]
    BY <1>1, <1>2, <1>3, <2>0
  <2>2. CASE k = n + 1
    <3>1. PICK f \in DOMAIN pending : j < f /\ IsFence(f)
      BY <2>0, <2>1 DEF StoresInOrder, Guarded
    <3> QED
      BY <1>0, <2>2, <3>1
  <2>3. CASE k # n + 1
    <3>1. k \in DOMAIN pending /\ pending'[k] = pending[k]
      BY <1>1, <1>2, <2>3
    <3>2. pending[k].val \in Int
      BY <1>1, <3>1, WriteTypes
    <3>3. i \in top .. pending[k].val - 1
      BY <1>1, <3>1, <3>2
    <3>4. PICK f \in DOMAIN pending : j < f /\ f < k /\ IsFence(f)
      BY <2>1, <3>1, <3>3 DEF StoresInOrder, Ordered
    <3> QED
      BY <1>0, <3>4
  <2> QED
    BY <2>2, <2>3
<1>9. Fresh'
  <2>1. \A i \in Int : Slot(i) \in Location \ {Bottom}
    BY Locations
  <2>2. mem[Bottom] \in Int
    BY Locations DEF Types, TypeOK
  <2>3. \A i \in top' .. mem[Bottom] - 1 : i \in top .. mem[Bottom] - 1 /\ i \in Int
    BY <1>1, <2>2
  <2>4. \A i \in top' .. mem[Bottom] - 1 : ~Waits(Slot(i))'
    BY <1>5, <2>1, <2>3 DEF StoresInOrder, Fresh, Slot
  <2> QED
    BY <2>4 DEF Fresh, Bottom, Slot
<1> QED
  BY <1>6, <1>7, <1>8, <1>9 DEF StoresInOrder

\* A push stores the item, then fences, then stores bottom_, into a slot that no
\* item of the deque has.
LEMMA PushInOrder ==
    ASSUME Types, Bounds, StoresInOrder, PushStore
    PROVE  StoresInOrder'
<1> DEFINE n == Len(pending)
           b == own[Bottom]
           v == pushed + 1
           w == Store(Slot(b), v)
           x == Store(Bottom, b + 1)
<1>1. /\ pending \in Seq(Write) /\ n \in Nat /\ DOMAIN pending = 1 .. n
      /\ top \in Nat /\ UNCHANGED <<top, mem>> /\ b \in Int /\ pushed \in Nat
  BY Locations DEF Types, TypeOK, PushStore
<1>2. /\ DOMAIN pending' = 1 .. n + 3
      /\ pending'[n + 1] = w /\ pending'[n + 2] = Fence /\ pending'[n + 3] = x
      /\ \A j \in 1 .. n : pending'[j] = pending[j]
  <2>1. pending' = pending \o <<w, Fence, x>>
    BY DEF PushStore, PushStores
  <2> QED
    BY <1>1, <2>1
<1>0. /\ \A f \in DOMAIN pending : f \in DOMAIN pending' /\ (IsFence(f) => pending'[f] = Fence)
      /\ n + 2 \in DOMAIN pending' /\ pending'[n + 2] = Fence
      /\ \A j \in 1 .. n + 1 : j < n + 2
  BY <1>1, <1>2 DEF IsFence
<1>3. /\ Slot(b) \in Location \ {Bottom} /\ Bottom \in Location /\ Fence.loc \notin Location
      /\ w.loc = Slot(b) /\ w.val = v /\ x.loc = Bottom /\ x.val = b + 1 /\ w # Fence /\ x # Fence
  BY <1>1, Locations DEF Store, Fence
<1>12. \A j \in DOMAIN pending' :
          (j \in DOMAIN pending /\ j < n + 1) \/ j = n + 1 \/ j = n + 2 \/ j = n + 3
  BY <1>1, <1>2
<1> HIDE DEF n, w, x
<1>4. /\ own'[Bottom] = b + 1 /\ own'[Slot(b)] = v
      /\ \A loc \in Location \ {Bottom, Slot(b)} : own'[loc] = own[loc]
  BY <1>1, <1>3 DEF PushStore, Types, TypeOK
<1>5. \A loc \in Location : Waits(loc)' <=> (Waits(loc) \/ loc \in {Bottom, Slot(b)})
  <2>1. {n + 1, n + 2, n + 3} \subseteq DOMAIN pending' /\ DOMAIN pending \subseteq DOMAIN pending'
    BY <1>1, <1>2
  <2> QED
    BY <1>1, <1>2, <1>3, <1>12, <2>1, SMTT(30) DEF Waits
<1>13. /\ {n + 1, n + 2, n + 3} \subseteq DOMAIN pending'
       /\ \A j \in DOMAIN pending : j \in DOMAIN pending' /\ j < n + 1 /\ j < n + 3
       /\ n + 1 < n + 3 /\ n + 1 < n + 2
  BY <1>1, <1>2
<1>6. \A i \in Int : top <= i /\ i < b => Slot(i) # Slot(b)
  <2>1. b - top < Capacity /\ Capacity \in Nat
    BY <1>1, CapacityAssumption DEF PushStore, Bounds, End
  <2> QED
    BY <1>1, <2>1, SlotsApart
<1>7. mem[Bottom] <= b /\ mem[Bottom] \in Int
      /\ \A k \in DOMAIN pending : pending[k].loc = Bottom => pending[k].val <= b
  BY <1>3 DEF Bounds, End, PushStore, Types, TypeOK
<1>8. Current'
  <2> SUFFICES ASSUME NEW loc \in Location
               PROVE  /\ ~Waits(loc)' => mem[loc] = own'[loc]
                      /\ \A m \in DOMAIN pending' :
                            pending'[m].loc = loc
                            /\ (\A j \in DOMAIN pending' : j > m => pending'[j].loc # loc)
                              => pending'[m].val = own'[loc]
    BY <1>1 DEF Current, Location, Bottom, Slot
  <2>1. CASE loc = Bottom
    BY <1>2, <1>3, <1>4, <1>5, <1>12, <1>13, <2>1
  <2>2. CASE loc = Slot(b)
    BY <1>2, <1>3, <1>4, <1>5, <1>12, <1>13, <2>2
  <2>3. CASE loc \notin {Bottom, Slot(b)}
    BY <1>1, <1>2, <1>3, <1>4, <1>5, <2>3, SMTT(30) DEF StoresInOrder, Current
  <2> QED
    BY <2>1, <2>2, <2>3
<1>9. Guarded'
  <2> SUFFICES ASSUME NEW j \in DOMAIN pending', pending'[j].loc \in Location \ {Bottom}
               PROVE  \E f \in DOMAIN pending' : j < f /\ pending'[f] = Fence
    BY DEF Guarded, Location, Slot, Bottom, IsFence, Fence
  <2>1. j \in 1 .. n + 1
    BY <1>1, <1>2, <1>3, <1>12
  <2> QED
    BY <1>0, <2>1
<1>10. Ordered'
  <2> SUFFICES ASSUME NEW k \in DOMAIN pending', pending'[k].loc = Bottom,
                      NEW i \in top .. pending'[k].val - 1, NEW j \in DOMAIN pending',
                      pending'[j].loc = Slot(i)
               PROVE  \E f \in DOMAIN pending' : j < f /\ f < k /\ pending'[f] = Fence
    BY <1>1 DEF Ordered, Slot, Bottom, IsFence, Fence
  <2>0. Slot(i) \in Location \ {Bottom} /\ i \in Int /\ top <= i /\ i < pending'[k].val
    <3>1. pending'[k].val \in Int
      BY <1>1, <1>2, <1>3, <1>12, WriteTypes
    <3> QED
      BY <1>1, <3>1, Locations
  <2>1. j \in 1 .. n + 1
    BY <1>1, <1>2, <1>3, <1>12, <2>0
  <2>2. CASE k = n + 3
    BY <1>0, <1>1, <2>1, <2>2
  <2>3. CASE k # n + 3
    <3>1. k \in DOMAIN pending /\ pending'[k] = pending[k]
      <4>1. pending'[n + 1].loc # Bottom /\ pending'[n + 2].loc # Bottom
        BY <1>2, <1>3
      <4>2. k # n + 1 /\ k # n + 2
        BY <4>1
      <4>3. k \in DOMAIN pending
        BY <1>12, <2>3, <4>2
      <4> QED
        BY <1>1, <1>2, <4>3
    <3>2. pending[k].val \in Int /\ pending[k].val <= b
      BY <1>1, <1>7, <3>1 DEF Write, Fence
    <3>3. i \in top .. pending[k].val - 1 /\ i < b
      BY <1>1, <2>0, <3>1, <3>2
    <3>4. j \in DOMAIN pending /\ pending'[j] = pending[j]
      BY <1>1, <1>2, <1>3, <1>6, <2>0, <2>1, <3>3
    <3>5. PICK f \in DOMAIN pending : j < f /\ f < k /\ IsFence(f)
      BY <3>1, <3>3, <3>4 DEF StoresInOrder, Ordered
    <3> QED
      BY <1>0, <3>5
  <2> QED
    BY <2>2, <2>3
<1>11. Fresh'
  <2>1. \A i \in top .. mem[Bottom] - 1 : i \in Int /\ top <= i /\ i < b
    BY <1>1, <1>7
  <2>2. \A i \in Int : Slot(i) \in Location \ {Bottom}
    BY Locations
  <2>3. \A i \in top .. mem[Bottom] - 1 : ~Waits(Slot(i))'
    BY <1>5, <1>6, <2>1, <2>2 DEF StoresInOrder, Fresh, Slot
  <2> QED
    BY <1>1, <2>3 DEF Fresh, Bottom, Slot
<1> QED
  BY <1>8, <1>9, <1>10, <1>11 DEF StoresInOrder

LEMMA SameInOrder ==
    ASSUME Types, StoresInOrder, UNCHANGED <<mem, own, pending>>, top' \in Nat, top' >= top
    PROVE  StoresInOrder'
<1>1. top \in Nat /\ mem[Bottom] \in Int /\ pending \in Seq(Write)
  BY Locations DEF Types, TypeOK
<1>2. Current' /\ Guarded'
  BY DEF StoresInOrder, Current, Guarded, Waits, IsFence
<1>3. Ordered'
  <2>1. \A k \in DOMAIN pending : pending[k].loc = Bottom =>
          \A i \in top' .. pending[k].val - 1 : i \in top .. pending[k].val - 1
    BY <1>1 DEF Write, Fence
  <2> QED
    BY <2>1 DEF StoresInOrder, Ordered, IsFence, Slot, Bottom, Fence
<1>4. Fresh'
  <2>1. \A i \in top' .. mem[Bottom] - 1 : i \in top .. mem[Bottom] - 1
    BY <1>1
  <2> QED
    BY <2>1 DEF StoresInOrder, Fresh, Waits, Slot, Bottom
<1> QED
  BY <1>2, <1>3, <1>4 DEF StoresInOrder

-----------------------------------------------------------------------------
\* The ends, the thieves and the items.

\* Numbers a proof may count on.
LEMMA Numbers ==
    ASSUME Types
    PROVE  /\ top \in 0 .. MaxPush /\ pushed \in 0 .. MaxPush /\ ownerTop \in 0 .. MaxPush
           /\ own[Bottom] \in -1 .. MaxPush /\ mem[Bottom] \in -1 .. MaxPush
           /\ End \in Int /\ End = IF ownerPc \in {"pop", "popCas"} THEN own[Bottom] + 1
                                   ELSE own[Bottom]
           /\ \A i \in Int : own[Slot(i)] \in 0 .. MaxPush /\ mem[Slot(i)] \in 0 .. MaxPush
           /\ mem \in [Location -> -1 .. MaxPush] /\ own \in [Location -> -1 .. MaxPush]
<1>1. /\ top \in 0 .. MaxPush /\ pushed \in 0 .. MaxPush /\ ownerTop \in 0 .. MaxPush
      /\ mem \in [Location -> -1 .. MaxPush] /\ own \in [Location -> -1 .. MaxPush]
  BY DEF Types, TypeOK
<1>2. own[Bottom] \in -1 .. MaxPush /\ mem[Bottom] \in -1 .. MaxPush
  BY <1>1, Locations
<1>3. \A i \in Int : own[Slot(i)] \in 0 .. MaxPush /\ mem[Slot(i)] \in 0 .. MaxPush
  BY <1>1, Locations DEF Types
<1>4. End \in Int /\ End = IF ownerPc \in {"pop", "popCas"} THEN own[Bottom] + 1
                           ELSE own[Bottom]
  BY <1>2 DEF End
<1> QED
  BY <1>1, <1>2, <1>3, <1>4

\* A step that issues, reaches and takes nothing.
LEMMA EachOnceSame ==
    ASSUME EachOnce, UNCHANGED <<top, own, pushed, got>>, End' = End
    PROVE  EachOnce'
BY DEF EachOnce, InDeque, Slot, Item

LEMMA EachOnceSlots ==
    ASSUME EachOnce, UNCHANGED <<top, pushed, got>>, End' = End, End \in Int, top \in Int,
           \A i \in Int : own'[Slot(i)] = own[Slot(i)]
    PROVE  EachOnce'
<1>1. \A i \in top .. End - 1 : own'[Slot(i)] = own[Slot(i)]
  OBVIOUS
<1>2. \A v \in Item : InDeque(v)' <=> InDeque(v)
  BY <1>1 DEF InDeque, Slot
<1>3. \A i \in top .. End - 1 :
          /\ own'[Slot(i)] \in 1 .. pushed
          /\ \A j \in top .. End - 1 : own'[Slot(i)] = own'[Slot(j)] => i = j
  BY <1>1 DEF EachOnce
<1> QED
  BY <1>2, <1>3 DEF EachOnce, Slot, Item

LEMMA TakeTypes == ASSUME NEW v, Types, Take(v) PROVE got' \in [Item -> Nat]
<1>1. got \in [Item -> Nat]
  BY DEF Types, TypeOK
<1>2. CASE v \in Item
  BY <1>1, <1>2 DEF Take
<1>3. CASE v \notin Item
  <2>1. got' = [x \in Item |-> got[x]]
    BY <1>1, <1>3 DEF Take
  <2> QED
    BY <1>1, <2>1
<1> QED
  BY <1>2, <1>3

\* An item that is taken off an end is returned once.
LEMMA TakeOne ==
    ASSUME Types, Bounds, EachOnce, NEW i \in top .. End - 1,
           top' .. End' - 1 = (top .. End - 1) \ {i},
           \A j \in top .. End - 1 : own'[Slot(j)] = own[Slot(j)],
           Take(own[Slot(i)]), UNCHANGED pushed
    PROVE  EachOnce' /\ got' # got
<1> DEFINE v == own[Slot(i)]
<1>1. v \in 1 .. pushed /\ v \in Item /\ got[v] = 0 /\ got \in [Item -> Nat]
  <2>1. v \in 1 .. pushed /\ InDeque(v)
    BY DEF EachOnce, InDeque
  <2>2. v \in Item /\ v <= pushed
    BY <2>1, Numbers DEF Item
  <2> QED
    BY <2>1, <2>2 DEF EachOnce, Types, TypeOK
<1>2. got'[v] = 1 /\ \A x \in Item : x # v => got'[x] = got[x]
  BY <1>1 DEF Take
<1>3. \A x \in Item : InDeque(x)' <=> (InDeque(x) /\ x # v)
  <2> SUFFICES ASSUME NEW x \in Item PROVE InDeque(x)' <=> (InDeque(x) /\ x # v)
    OBVIOUS
  <2>1. InDeque(x)' <=> \E j \in top' .. End' - 1 : own'[Slot(j)] = x
    BY DEF InDeque, Slot
  <2> QED
    BY <2>1 DEF InDeque, EachOnce
<1>4. \A j \in top' .. End' - 1 :
          /\ own'[Slot(j)] \in 1 .. pushed
          /\ \A k \in top' .. End' - 1 : own'[Slot(j)] = own'[Slot(k)] => j = k
  BY DEF EachOnce
<1>5. \A x \in Item : got'[x] = IF x > pushed \/ InDeque(x)' THEN 0 ELSE 1
  <2> SUFFICES ASSUME NEW x \in Item
               PROVE  got'[x] = IF x > pushed \/ InDeque(x)' THEN 0 ELSE 1
    OBVIOUS
  <2>1. CASE x = v
    BY <1>1, <1>2, <1>3, <2>1, Numbers
  <2>2. CASE x # v
    BY <1>2, <1>3, <2>2 DEF EachOnce
  <2> QED
    BY <2>1, <2>2
<1>6. EachOnce'
  BY <1>4, <1>5 DEF EachOnce, Slot, Item
<1> QED
  BY <1>1, <1>2, <1>6

\* Whether a thief is after an item depends on little.
LEMMA StealingSame ==
    ASSUME Types, Stealing, UNCHANGED <<top, thiefVars>>,
           top < End => /\ top < End'
                        /\ own'[Slot(top)] = own[Slot(top)]
                        /\ Waits(Slot(top))' => Waits(Slot(top))
    PROVE  Stealing'
BY DEF Stealing, thiefVars, Slot, Waits

LEMMA ReachKeeps ==
    ASSUME IInv, NEW k \in DOMAIN pending, Reach(k)
    PROVE  IInv'
<1>1. /\ pending \in Seq(Write) /\ pending' \in Seq(Write) /\ Dropped(k)
      /\ UNCHANGED <<top, own, ownerPc, ownerTop, thiefVars, pushed, got>>
      /\ mem' = [mem EXCEPT ![pending[k].loc] = pending[k].val]
      /\ pending[k] # Fence
  BY ReachDrops DEF IInv, Types, Reach, MayReach
<1>2. StoresInOrder'
  BY ReachInOrder DEF IInv
<1>3. /\ pending[k].loc \in Location /\ pending[k].val \in -1 .. MaxPush
      /\ pending[k].loc # Bottom => pending[k].val \in 0 .. MaxPush
  BY <1>1, WriteTypes
<1>4. mem' \in [Location -> -1 .. MaxPush] /\ \A l \in Location \ {Bottom} : mem'[l] >= 0
  BY <1>1, <1>3 DEF IInv, Types, TypeOK
<1>5. Types'
  <2>1. \A j \in DOMAIN pending' :
          /\ pending'[j] = Fence \/ pending'[j].loc \in Location
          /\ pending'[j].val \in -1 .. MaxPush
    BY <1>1, WriteTypes, DroppedOne
  <2>2. TypeOK'
    BY <1>1, <1>4, <2>1 DEF IInv, Types, TypeOK, thiefVars, Location, Bottom, Slot, Item, Fence
  <2> QED
    BY <1>1, <1>4, <2>2 DEF IInv, Types, Write, Location, Bottom, Slot, Fence
<1>6. End' = End
  BY <1>1 DEF End, Bottom
<1>7. Bounds'
  <2>1. mem'[Bottom] <= End
    BY <1>1, <1>3, Locations DEF IInv, Bounds, Types, TypeOK
  <2>2. \A j \in DOMAIN pending' : pending'[j].loc = Bottom => pending'[j].val <= End
    BY <1>1, DroppedOne DEF IInv, Bounds
  <2>3. ownerPc # "popCas"
    BY DEF IInv, Bounds
  <2> QED
    BY <1>1, <1>6, <2>1, <2>2, <2>3 DEF IInv, Bounds, Bottom
<1>8. Waits(Slot(top))' => Waits(Slot(top))
  BY <1>1, DropWaits DEF Slot
<1>9. Stealing'
  BY <1>1, <1>6, <1>8, StealingSame DEF IInv
<1> QED
  BY <1>1, <1>2, <1>5, <1>6, <1>7, <1>9, EachOnceSame DEF IInv

LEMMA FenceKeeps ==
    ASSUME IInv, FencePassed
    PROVE  IInv'
<1>1. /\ pending \in Seq(Write) /\ pending' \in Seq(Write) /\ Dropped(1) /\ 1 \in DOMAIN pending
      /\ UNCHANGED <<top, mem, own, ownerPc, ownerTop, thiefVars, pushed, got>>
  BY FenceDrops DEF IInv, Types, FencePassed
<1>2. StoresInOrder'
  BY FenceInOrder DEF IInv
<1>3. Types'
  <2>1. \A j \in DOMAIN pending' :
          /\ pending'[j] = Fence \/ pending'[j].loc \in Location
          /\ pending'[j].val \in -1 .. MaxPush
    BY <1>1, WriteTypes, DroppedOne
  <2>2. TypeOK'
    BY <1>1, <2>1 DEF IInv, Types, TypeOK, thiefVars, Location, Bottom, Slot, Item, Fence
  <2> QED
    BY <1>1, <2>2 DEF IInv, Types, Write, Location, Bottom, Slot, Fence
<1>4. End' = End
  BY <1>1 DEF End, Bottom
<1>5. Bounds'
  <2>1. \A j \in DOMAIN pending' : pending'[j].loc = Bottom => pending'[j].val <= End
    BY <1>1, DroppedOne DEF IInv, Bounds
  <2>2. ownerPc # "popCas"
    BY <1>1 DEF IInv, Bounds
  <2> QED
    BY <1>1, <1>4, <2>1, <2>2 DEF IInv, Bounds, Bottom
<1>6. Waits(Slot(top))' => Waits(Slot(top))
  BY <1>1, DropWaits DEF Slot
<1>7. Stealing'
  BY <1>1, <1>4, <1>6, StealingSame DEF IInv
<1> QED
  BY <1>1, <1>2, <1>3, <1>4, <1>5, <1>7, EachOnceSame DEF IInv

\* A store to bottom_ is well-typed, and its value is not above the end.
LEMMA BottomTypes ==
    ASSUME Types, NEW b \in -1 .. MaxPush, StoreBottom(b)
    PROVE  /\ pending' \in Seq(Write)
           /\ own' \in [Location -> -1 .. MaxPush] /\ own'[Bottom] = b
           /\ \A i \in Int : own'[Slot(i)] = own[Slot(i)]
           /\ \A l \in Location \ {Bottom} : own'[l] >= 0
           /\ \A k \in DOMAIN pending' :
                 \/ k \in DOMAIN pending /\ pending'[k] = pending[k]
                 \/ pending'[k].loc = Bottom /\ pending'[k].val = b
           /\ \A i \in Int : Waits(Slot(i))' => Waits(Slot(i))
<1> DEFINE w == Store(Bottom, b)
<1>1. w \in Write /\ w.loc = Bottom /\ w.val = b /\ pending \in Seq(Write)
      /\ pending' = Append(pending, w)
  BY DEF Store, Write, Types, StoreBottom
<1> HIDE DEF w
<1>2. pending' \in Seq(Write)
  BY <1>1
<1>3. \A k \in DOMAIN pending' :
        \/ k \in DOMAIN pending /\ pending'[k] = pending[k]
        \/ pending'[k].loc = Bottom /\ pending'[k].val = b
  BY <1>1
<1>4. own' \in [Location -> -1 .. MaxPush] /\ own'[Bottom] = b
      /\ \A l \in Location \ {Bottom} : own'[l] = own[l]
  BY Locations DEF StoreBottom, Types, TypeOK
<1>5. \A i \in Int : own'[Slot(i)] = own[Slot(i)]
  BY <1>4, Locations
<1>6. \A l \in Location \ {Bottom} : own'[l] >= 0
  BY <1>4 DEF Types
<1>7. ASSUME NEW i \in Int, Waits(Slot(i))' PROVE Waits(Slot(i))
  <2>1. PICK k \in DOMAIN pending' : pending'[k].loc = Slot(i)
    BY <1>7 DEF Waits, Slot
  <2> QED
    BY <1>3, <2>1, Locations DEF Waits
<1> QED
  BY <1>2, <1>3, <1>4, <1>5, <1>6, <1>7

\* TypeOK and Types of a step that stores bottom_.
LEMMA BottomKeepsTypes ==
    ASSUME Types, NEW b \in -1 .. MaxPush, StoreBottom(b),
           UNCHANGED <<mem, ownerTop, thiefVars, pushed>>, top' \in 0 .. MaxPush,
           ownerPc' \in {"idle", "pop"}, got' \in [Item -> Nat]
    PROVE  Types'
<1>1. /\ pending' \in Seq(Write) /\ own' \in [Location -> -1 .. MaxPush]
      /\ \A l \in Location \ {Bottom} : own'[l] >= 0
  BY BottomTypes
<1>2. \A k \in DOMAIN pending' :
        /\ pending'[k] = Fence \/ pending'[k].loc \in Location
        /\ pending'[k].val \in -1 .. MaxPush
  BY BottomTypes, WriteTypes, Locations DEF Types
<1>3. TypeOK'
  BY <1>1, <1>2 DEF Types, TypeOK, thiefVars, Location, Bottom, Slot, Item, Fence
<1> QED
  BY <1>1, <1>3 DEF Types, Write, Location, Bottom, Slot, Fence

LEMMA PopReserveKeeps ==
    ASSUME IInv, PopReserve
    PROVE  IInv'
<1> DEFINE b == own[Bottom] - 1
<1>1. /\ ownerPc = "idle" /\ ownerPc' = "pop" /\ StoreBottom(b)
      /\ UNCHANGED <<top, mem, ownerTop, thiefVars, pushed, got>>
  BY DEF PopReserve
<1>2. /\ Types /\ top \in Nat /\ b \in -1 .. MaxPush /\ own[Bottom] = End /\ End \in Int
  <2>1. /\ Types /\ top \in 0 .. MaxPush /\ own[Bottom] \in -1 .. MaxPush
        /\ End \in Int /\ top <= End
    BY Numbers DEF IInv, Bounds
  <2>2. own[Bottom] = End
    BY <1>1, <2>1 DEF End
  <2>3. b >= -1 /\ b <= MaxPush /\ b \in Int
    BY <2>1, <2>2, MaxPushAssumption
  <2> QED
    BY <2>1, <2>2, <2>3, MaxPushAssumption
<1>3. Types'
  BY <1>1, <1>2, BottomKeepsTypes, Numbers DEF Types, TypeOK
<1>4. own'[Bottom] = b /\ End' = End
  BY <1>1, <1>2, BottomTypes DEF End, Bottom
<1>5. StoresInOrder'
  BY <1>1, <1>2, BottomInOrder DEF IInv
<1>6. Bounds'
  <2>1. \A k \in DOMAIN pending' : pending'[k].loc = Bottom => pending'[k].val <= End
    BY <1>1, <1>2, BottomTypes DEF IInv, Bounds
  <2> QED
    BY <1>1, <1>4, <2>1 DEF IInv, Bounds, Bottom
<1>7. Stealing'
  BY <1>1, <1>2, <1>4, BottomTypes, StealingSame DEF IInv
<1>8. \A i \in Int : own'[Slot(i)] = own[Slot(i)]
  BY <1>1, <1>2, BottomTypes
<1>9. EachOnce'
  BY <1>1, <1>2, <1>4, <1>8, EachOnceSlots DEF IInv
<1> QED
  BY <1>3, <1>5, <1>6, <1>7, <1>9 DEF IInv

\* pop gives its reservation back and leaves the deque as it was.
LEMMA PopRestoredKeeps ==
    ASSUME IInv, ownerPc \in {"pop", "popCas"}, PopRestored, ownerPc' = "idle",
           UNCHANGED <<top, mem, ownerTop, thiefVars, pushed, got>>
    PROVE  IInv'
<1> DEFINE b == own[Bottom] + 1
<1>2. Types /\ top \in Nat /\ own[Bottom] + 1 = End /\ End \in Int /\ pushed \in 0 .. MaxPush
      /\ own[Bottom] \in -1 .. MaxPush /\ MaxPush \in Nat
  BY Numbers, MaxPushAssumption DEF IInv
<1>1. StoreBottom(b) /\ b \in -1 .. MaxPush
  BY <1>2 DEF PopRestored, IInv, Bounds
<1>3. Types'
  BY <1>1, <1>2, BottomKeepsTypes, Numbers DEF Types, TypeOK
<1>4. own'[Bottom] = b /\ End' = End
  BY <1>1, <1>2, BottomTypes DEF End, Bottom
<1>5. StoresInOrder'
  BY <1>1, <1>2, BottomInOrder DEF IInv
<1>6. Bounds'
  <2>1. \A k \in DOMAIN pending' : pending'[k].loc = Bottom => pending'[k].val <= End
    BY <1>1, <1>2, BottomTypes DEF IInv, Bounds
  <2> QED
    BY <1>4, <2>1 DEF IInv, Bounds, Bottom
<1>7. Stealing'
  BY <1>1, <1>2, <1>4, BottomTypes, StealingSame DEF IInv
<1>8. \A i \in Int : own'[Slot(i)] = own[Slot(i)]
  BY <1>1, <1>2, BottomTypes
<1>9. EachOnce'
  BY <1>2, <1>4, <1>8, EachOnceSlots DEF IInv
<1> QED
  BY <1>3, <1>5, <1>6, <1>7, <1>9 DEF IInv

\* The compare-and-swap of pop takes the one item that is left.
LEMMA PopCasWonKeeps ==
    ASSUME IInv, PopCasWon
    PROVE  IInv' /\ got' # got
<1> DEFINE b == own[Bottom] + 1
<1>1. /\ ownerPc = "popCas" /\ top = ownerTop /\ top' = top + 1 /\ ownerPc' = "idle"
      /\ UNCHANGED <<mem, ownerTop, thiefVars, pushed>> /\ Take(own[Slot(own[Bottom])])
      /\ StoreBottom(b)
  BY DEF PopCasWon, PopRestored
<1>2. /\ Types /\ top \in Nat /\ End \in Int /\ pushed \in 0 .. MaxPush /\ MaxPush \in Nat
      /\ own[Bottom] = top /\ End = top + 1 /\ b \in -1 .. MaxPush /\ top' \in 0 .. MaxPush
  BY <1>1, Numbers, MaxPushAssumption DEF IInv, Bounds
<1>3. got' \in [Item -> Nat]
  BY <1>1, <1>2, TakeTypes
<1>4. Types'
  BY <1>1, <1>2, <1>3, BottomKeepsTypes DEF Types, TypeOK
<1>5. own'[Bottom] = b /\ End' = End
  BY <1>1, <1>2, BottomTypes DEF End, Bottom
<1>6. StoresInOrder'
  BY <1>1, <1>2, BottomInOrder DEF IInv
<1>7. Bounds'
  <2>1. \A k \in DOMAIN pending' : pending'[k].loc = Bottom => pending'[k].val <= End
    BY <1>1, <1>2, BottomTypes DEF IInv, Bounds
  <2>2. 0 <= Capacity
    BY CapacityAssumption
  <2> QED
    BY <1>1, <1>2, <1>5, <2>1, <2>2 DEF IInv, Bounds, Bottom
<1>8. Stealing'
  BY <1>1, <1>2 DEF IInv, Stealing, thiefVars, Types, TypeOK
<1>9. EachOnce' /\ got' # got
  <2>1. top \in top .. End - 1 /\ top' .. End' - 1 = (top .. End - 1) \ {top}
    BY <1>1, <1>2, <1>5
  <2>2. \A j \in top .. End - 1 : own'[Slot(j)] = own[Slot(j)]
    BY <1>1, <1>2, BottomTypes
  <2> QED
    BY <1>1, <1>2, <2>1, <2>2, TakeOne DEF IInv
<1> QED
  BY <1>4, <1>6, <1>7, <1>8, <1>9 DEF IInv

LEMMA PushLoadKeeps ==
    ASSUME IInv, PushLoad
    PROVE  IInv'
<1>1. /\ ownerPc = "idle" /\ pushed < MaxPush /\ ~IsFull(own[Bottom], top) /\ ownerPc' = "push"
      /\ UNCHANGED <<top, mem, own, pending, ownerTop, thiefVars, pushed, got>>
  BY DEF PushLoad
<1>2. Types /\ Types'
  BY <1>1 DEF IInv, Types, TypeOK, thiefVars, Location, Bottom, Slot, Item, Fence, Write
<1>3. End' = End /\ End - top < Capacity
  <2>1. own[Bottom] \in Int /\ top \in Int /\ Capacity \in Int
    BY <1>2, Numbers, CapacityAssumption
  <2> QED
    BY <1>1, <2>1 DEF End, IsFull, Bottom
<1>4. StoresInOrder'
  BY <1>1, <1>2, Numbers, SameInOrder DEF IInv
<1>5. Bounds'
  BY <1>1, <1>3 DEF IInv, Bounds, Bottom
<1>6. Stealing'
  BY <1>1, <1>2, <1>3, StealingSame DEF IInv, Waits
<1> QED
  BY <1>1, <1>2, <1>3, <1>4, <1>5, <1>6, EachOnceSame DEF IInv

\* A pushed item is in the deque, and no other is disturbed.
LEMMA PushStoreKeeps ==
    ASSUME IInv, PushStore
    PROVE  IInv'
<1> DEFINE n == Len(pending)
           b == own[Bottom]
           v == pushed + 1
<1>1. /\ ownerPc = "push" /\ ownerPc' = "idle" /\ pushed' = v
      /\ pending' = pending \o <<Store(Slot(b), v), Fence, Store(Bottom, b + 1)>>
      /\ own' = [own EXCEPT ![Slot(b)] = v, ![Bottom] = b + 1]
      /\ UNCHANGED <<top, mem, ownerTop, thiefVars, got>>
  BY DEF PushStore, PushStores
<1>2. /\ Types /\ top \in 0 .. MaxPush /\ End \in Int /\ pushed \in 0 .. MaxPush /\ MaxPush \in Nat
      /\ b = End /\ b \in 0 .. pushed /\ v \in 1 .. MaxPush /\ End - top < Capacity
      /\ top <= End /\ Capacity \in Nat
  <2>1. /\ Types /\ top \in 0 .. MaxPush /\ End \in Int /\ pushed \in 0 .. MaxPush
        /\ b \in -1 .. MaxPush /\ b = End
    BY <1>1, Numbers DEF IInv
  <2>2. top <= End /\ End <= pushed /\ End - top < Capacity /\ pushed < MaxPush
    BY <1>1 DEF IInv, Bounds
  <2> QED
    BY <2>1, <2>2, MaxPushAssumption, CapacityAssumption
<1>3. Slot(b) \in Location \ {Bottom} /\ Bottom \in Location
  BY <1>2, Locations
<1>4. /\ own' \in [Location -> -1 .. MaxPush] /\ own'[Bottom] = b + 1 /\ own'[Slot(b)] = v
      /\ \A loc \in Location \ {Bottom, Slot(b)} : own'[loc] = own[loc]
  <2>1. own \in [Location -> -1 .. MaxPush] /\ v \in -1 .. MaxPush /\ b + 1 \in -1 .. MaxPush
    BY <1>2, Numbers
  <2> QED
    BY <1>1, <1>3, <2>1
<1>5. pending \in Seq(Write) /\ pending' \in Seq(Write)
      /\ \A k \in DOMAIN pending' :
            \/ k \in DOMAIN pending /\ pending'[k] = pending[k]
            \/ pending'[k] \in {Store(Slot(b), v), Fence, Store(Bottom, b + 1)}
  <2>1. {Store(Slot(b), v), Fence, Store(Bottom, b + 1)} \subseteq Write
    BY <1>2, <1>3 DEF Store, Write
  <2>2. pending \in Seq(Write)
    BY <1>2 DEF Types
  <2> QED
    BY <1>1, <2>1, <2>2
<1>6. Types'
  <2>1. \A k \in DOMAIN pending' :
          /\ pending'[k] = Fence \/ pending'[k].loc \in Location
          /\ pending'[k].val \in -1 .. MaxPush
    <3>1. \A w \in Write : (w = Fence \/ w.loc \in Location) /\ w.val \in -1 .. MaxPush
      BY Locations, MaxPushAssumption DEF Write, Fence
    <3> QED
      BY <1>5, <3>1
  <2>2. TypeOK'
    <3>1. pushed' \in 0 .. MaxPush
      BY <1>1, <1>2
    <3> QED
      BY <1>1, <1>2, <1>4, <2>1, <3>1, ZenonT(40)
      DEF Types, TypeOK, thiefVars, Location, Bottom, Slot, Item, Fence
  <2>3. \A l \in Location \ {Bottom} : mem[l] >= 0 /\ own'[l] >= 0
    BY <1>2, <1>4 DEF Types
  <2> QED
    BY <1>1, <1>5, <2>2, <2>3 DEF Types, Write, Location, Bottom, Slot, Fence
<1>7. End' = End + 1
  BY <1>1, <1>2, <1>4 DEF End, Bottom
<1>8. StoresInOrder'
  BY PushInOrder DEF IInv
<1>9. Bounds'
  <2>1. \A k \in DOMAIN pending' : pending'[k].loc = Bottom => pending'[k].val <= End + 1
    <3>1. ASSUME NEW k \in DOMAIN pending, pending[k].loc = Bottom
          PROVE  pending[k].val <= End + 1
      <4>1. pending[k].val \in Int
        BY <1>5, WriteTypes
      <4> QED
        BY <1>2, <3>1, <4>1 DEF IInv, Bounds
    <3> QED
      BY <1>2, <1>3, <1>5, <3>1, Locations DEF Store
  <2>2. mem[Bottom] <= End + 1
    <3>1. mem[Bottom] \in Int /\ mem[Bottom] <= End
      BY <1>2, Numbers DEF IInv, Bounds
    <3> QED
      BY <1>2, <3>1
  <2>3. top <= End + 1 /\ End + 1 <= v /\ End + 1 - top <= Capacity
    BY <1>2
  <2>4. ownerPc' = "idle" /\ pushed' = v /\ UNCHANGED <<top, mem>>
    BY <1>1
  <2>5. mem'[Bottom] <= End'
    BY <1>7, <2>2, <2>4
  <2>6. \A k \in DOMAIN pending' : pending'[k].loc = Bottom => pending'[k].val <= End'
    BY <1>7, <2>1
  <2>7. top' <= End' /\ End' <= pushed' /\ End' - top' <= Capacity
    BY <1>2, <1>7, <2>3, <2>4
  <2> HIDE DEF v
  <2> QED
    BY <2>4, <2>5, <2>6, <2>7 DEF Bounds, Bottom
<1>10. \A i \in top .. End - 1 :
          /\ Slot(i) # Slot(b) /\ own'[Slot(i)] = own[Slot(i)]
          /\ Waits(Slot(i))' => Waits(Slot(i))
  <2> SUFFICES ASSUME NEW i \in top .. End - 1
               PROVE  /\ Slot(i) # Slot(b) /\ own'[Slot(i)] = own[Slot(i)]
                      /\ Waits(Slot(i))' => Waits(Slot(i))
    OBVIOUS
  <2>1. Slot(i) # Slot(b)
    BY <1>2, SlotsApart
  <2>2. Slot(i) \in Location \ {Bottom} /\ Slot(i) # Fence.loc
    BY <1>2, Locations
  <2>3. ASSUME Waits(Slot(i))' PROVE Waits(Slot(i))
    <3>1. PICK k \in DOMAIN pending' : pending'[k].loc = Slot(i)
      BY <2>3 DEF Waits, Slot
    <3>2. pending'[k] \notin {Store(Slot(b), v), Fence, Store(Bottom, b + 1)}
      BY <2>1, <2>2, <3>1 DEF Store
    <3> QED
      BY <1>5, <3>1, <3>2 DEF Waits
  <2> QED
    BY <1>4, <2>1, <2>2, <2>3
<1>11. Stealing'
  <2>1. top < End => /\ top < End' /\ own'[Slot(top)] = own[Slot(top)]
                     /\ Waits(Slot(top))' => Waits(Slot(top))
    <3> SUFFICES ASSUME top < End
                 PROVE  /\ top < End' /\ own'[Slot(top)] = own[Slot(top)]
                        /\ Waits(Slot(top))' => Waits(Slot(top))
      BY <1>1 DEF Slot, Waits
    <3>1. top \in top .. End - 1 /\ top < End'
      BY <1>2, <1>7
    <3> QED
      BY <1>1, <1>10, <3>1 DEF Slot, Waits
  <2> QED
    BY <1>1, <1>2, <2>1, StealingSame DEF IInv
<1>12. EachOnce'
  <2>1. top' .. End' - 1 = (top .. End - 1) \cup {b}
    BY <1>1, <1>2, <1>7
  <2>2. \A i \in top .. End - 1 : own[Slot(i)] \in 1 .. pushed
    BY DEF IInv, EachOnce
  <2>3. \A i \in top' .. End' - 1 :
          /\ own'[Slot(i)] \in 1 .. v
          /\ \A j \in top' .. End' - 1 : own'[Slot(i)] = own'[Slot(j)] => i = j
    BY <1>2, <1>4, <1>10, <2>1, <2>2 DEF IInv, EachOnce
  <2>4. ASSUME NEW x \in Item PROVE InDeque(x)' <=> (InDeque(x) \/ x = v)
    <3>1. InDeque(x)' <=> \E i \in top' .. End' - 1 : own'[Slot(i)] = x
      BY DEF InDeque, Slot
    <3> QED
      BY <1>4, <1>10, <2>1, <3>1 DEF InDeque
  <2>5. \A x \in Item : got[x] = IF x > v \/ InDeque(x)' THEN 0 ELSE 1
    <3> SUFFICES ASSUME NEW x \in Item PROVE got[x] = IF x > v \/ InDeque(x)' THEN 0 ELSE 1
      OBVIOUS
    <3>1. x \in Int /\ got[x] = IF x > pushed \/ InDeque(x) THEN 0 ELSE 1
      BY DEF IInv, EachOnce, Item
    <3>2. InDeque(x) => x \in 1 .. pushed
      BY <2>2 DEF InDeque
    <3> QED
      BY <1>2, <2>4, <3>1, <3>2
  <2> QED
    BY <1>1, <2>3, <2>5 DEF EachOnce, Slot, Item
<1> QED
  BY <1>6, <1>8, <1>9, <1>11, <1>12 DEF IInv

\* pop takes its item while others are left: its reservation is in memory.
LEMMA PopLastKeeps ==
    ASSUME IInv, PopLast
    PROVE  IInv' /\ got' # got
<1>1. /\ ownerPc = "pop" /\ ownerPc' = "idle" /\ pending = <<>> /\ top < own[Bottom]
      /\ Take(own[Slot(own[Bottom])])
      /\ UNCHANGED <<top, mem, own, pending, ownerTop, thiefVars, pushed>>
  BY DEF PopLast, PopFenced
<1>2. /\ Types /\ top \in Nat /\ End \in Int /\ own[Bottom] \in Int /\ own[Bottom] = End - 1
      /\ pushed \in Int
  BY <1>1, Numbers DEF IInv
<1>3. mem[Bottom] = own[Bottom]
  BY <1>1, Locations DEF IInv, StoresInOrder, Current, Waits
<1>4. got' \in [Item -> Nat]
  BY <1>1, <1>2, TakeTypes
<1>5. Types'
  BY <1>1, <1>4 DEF IInv, Types, TypeOK, thiefVars, Location, Bottom, Slot, Item, Fence, Write
<1>6. End' = End - 1
  BY <1>1, <1>2 DEF End, Bottom
<1>7. StoresInOrder'
  BY <1>1, <1>2, SameInOrder DEF IInv
<1>8. Bounds'
  BY <1>1, <1>2, <1>3, <1>6, CapacityAssumption DEF IInv, Bounds, Bottom
<1>9. Stealing'
  BY <1>1, <1>2, <1>6, StealingSame DEF IInv, Waits
<1>10. EachOnce' /\ got' # got
  <2>1. /\ own[Bottom] \in top .. End - 1
        /\ top' .. End' - 1 = (top .. End - 1) \ {own[Bottom]}
    BY <1>1, <1>2, <1>6
  <2>2. \A j \in top .. End - 1 : own'[Slot(j)] = own[Slot(j)]
    BY <1>1
  <2> QED
    BY <1>1, <1>2, <2>1, <2>2, TakeOne DEF IInv
<1> QED
  BY <1>5, <1>7, <1>8, <1>9, <1>10 DEF IInv

LEMMA PopRaceKeeps ==
    ASSUME IInv, PopRace
    PROVE  IInv'
<1>1. /\ ownerPc = "pop" /\ ownerPc' = "popCas" /\ pending = <<>> /\ top = own[Bottom]
      /\ ownerTop' = top
      /\ UNCHANGED <<top, mem, own, pending, thiefVars, pushed, got>>
  BY DEF PopRace, PopFenced
<1>2. /\ Types /\ top \in 0 .. MaxPush /\ End \in Int
  BY Numbers DEF IInv
<1>3. mem[Bottom] = own[Bottom]
  BY <1>1, Locations DEF IInv, StoresInOrder, Current, Waits
<1>4. Types'
  BY <1>1, <1>2 DEF IInv, Types, TypeOK, thiefVars, Location, Bottom, Slot, Item, Fence, Write
<1>5. End' = End
  BY <1>1 DEF End, Bottom
<1>6. StoresInOrder'
  BY <1>1, <1>2, SameInOrder DEF IInv
<1>7. Bounds'
  BY <1>1, <1>2, <1>3, <1>5 DEF IInv, Bounds, Bottom
<1>8. Stealing'
  BY <1>1, <1>2, <1>5, StealingSame DEF IInv, Waits
<1> QED
  BY <1>1, <1>4, <1>5, <1>6, <1>7, <1>8, EachOnceSame DEF IInv

LEMMA PopEmptyKeeps == ASSUME IInv, PopEmpty PROVE IInv'
BY PopRestoredKeeps DEF PopEmpty

LEMMA PopCasLostKeeps == ASSUME IInv, PopCasLost PROVE IInv'
BY PopRestoredKeeps DEF PopCasLost

-----------------------------------------------------------------------------
\* The thieves.

LEMMA StealLoadTopKeeps ==
    ASSUME IInv, NEW p \in Thieves, StealLoadTop(p)
    PROVE  IInv'
<1>1. /\ thiefTop' = [thiefTop EXCEPT ![p] = top] /\ thiefPc' = [thiefPc EXCEPT ![p] = "bottom"]
      /\ UNCHANGED <<top, mem, own, pending, ownerPc, ownerTop, thiefVal, pushed, got>>
  BY DEF StealLoadTop
<1>2. Types'
  BY <1>1 DEF IInv, Types, TypeOK, Location, Bottom, Slot, Item, Fence, Write
<1>3. End' = End
  BY <1>1 DEF End, Bottom
<1>4. StoresInOrder'
  BY <1>1, Numbers, SameInOrder DEF IInv
<1>5. Bounds'
  BY <1>1, <1>3 DEF IInv, Bounds, Bottom
<1>6. Stealing'
  <2>1. /\ thiefPc \in [Thieves -> {"idle", "bottom", "slot", "cas"}]
        /\ thiefTop \in [Thieves -> 0 .. MaxPush] /\ top \in Int
    BY Numbers DEF IInv, Types, TypeOK
  <2>2. \A q \in Thieves : q # p => thiefPc'[q] = thiefPc[q] /\ thiefTop'[q] = thiefTop[q]
    BY <1>1, <2>1
  <2>3. thiefPc'[p] = "bottom" /\ thiefTop'[p] = top /\ top <= top
    BY <1>1, <2>1
  <2>4. Waits(Slot(top))' <=> Waits(Slot(top))
    BY <1>1 DEF Waits, Slot
  <2> QED
    BY <1>1, <1>3, <2>2, <2>3, <2>4 DEF IInv, Stealing, Slot
<1> QED
  BY <1>1, <1>2, <1>3, <1>4, <1>5, <1>6, EachOnceSame DEF IInv

\* An index below the bottom_ in memory, if still that of the oldest item, is in the
\* deque, and its item is in memory.
LEMMA StealLoadBottomKeeps ==
    ASSUME IInv, NEW p \in Thieves, StealLoadBottom(p)
    PROVE  IInv'
<1>1. /\ thiefPc' = [thiefPc EXCEPT ![p] = IF SeesItem(p) THEN "slot" ELSE "idle"]
      /\ UNCHANGED <<top, mem, own, pending, ownerPc, ownerTop, thiefTop, thiefVal, pushed, got>>
  BY DEF StealLoadBottom
<1>2. Types'
  BY <1>1 DEF IInv, Types, TypeOK, Location, Bottom, Slot, Item, Fence, Write
<1>3. End' = End
  BY <1>1 DEF End, Bottom
<1>4. StoresInOrder'
  BY <1>1, Numbers, SameInOrder DEF IInv
<1>5. Bounds'
  BY <1>1, <1>3 DEF IInv, Bounds, Bottom
<1>6. Stealing'
  <2>1. ASSUME SeesItem(p), thiefTop[p] = top PROVE top < End /\ ~Waits(Slot(top))
    <3>1. top \in Int /\ mem[Bottom] \in Int /\ End \in Int /\ mem[Bottom] <= End
      BY Numbers DEF IInv, Bounds
    <3>2. top \in top .. mem[Bottom] - 1
      BY <2>1, <3>1 DEF SeesItem
    <3> QED
      BY <3>1, <3>2 DEF IInv, StoresInOrder, Fresh
  <2>2. thiefPc \in [Thieves -> {"idle", "bottom", "slot", "cas"}]
    BY DEF IInv, Types, TypeOK
  <2>3. \A q \in Thieves : q # p => thiefPc'[q] = thiefPc[q]
    BY <1>1, <2>2
  <2>4. thiefPc'[p] = IF SeesItem(p) THEN "slot" ELSE "idle"
    BY <1>1, <2>2
  <2>5. Waits(Slot(top))' <=> Waits(Slot(top))
    BY <1>1 DEF Waits, Slot
  <2> QED
    BY <1>1, <1>3, <2>1, <2>3, <2>4, <2>5 DEF IInv, Stealing, Slot
<1> QED
  BY <1>1, <1>2, <1>3, <1>4, <1>5, <1>6, EachOnceSame DEF IInv

LEMMA StealLoadSlotKeeps ==
    ASSUME IInv, NEW p \in Thieves, StealLoadSlot(p)
    PROVE  IInv'
<1>1. /\ thiefPc[p] = "slot" /\ thiefVal' = [thiefVal EXCEPT ![p] = mem[Slot(thiefTop[p])]]
      /\ thiefPc' = [thiefPc EXCEPT ![p] = "cas"]
      /\ UNCHANGED <<top, mem, own, pending, ownerPc, ownerTop, thiefTop, pushed, got>>
  BY DEF StealLoadSlot
<1>2. mem[Slot(thiefTop[p])] \in 0 .. MaxPush
  BY Numbers DEF IInv, Types, TypeOK
<1>3. Types'
  BY <1>1, <1>2 DEF IInv, Types, TypeOK, Location, Bottom, Slot, Item, Fence, Write
<1>4. End' = End
  BY <1>1 DEF End, Bottom
<1>5. StoresInOrder'
  BY <1>1, Numbers, SameInOrder DEF IInv
<1>6. Bounds'
  BY <1>1, <1>4 DEF IInv, Bounds, Bottom
<1>7. Stealing'
  <2>1. ASSUME thiefTop[p] = top PROVE mem[Slot(top)] = own[Slot(top)]
    <3>1. Slot(top) \in Location /\ ~Waits(Slot(top))
      BY <1>1, <2>1, Numbers, Locations DEF IInv, Stealing
    <3> QED
      BY <3>1 DEF IInv, StoresInOrder, Current
  <2>2. thiefPc \in [Thieves -> {"idle", "bottom", "slot", "cas"}] /\ thiefVal \in [Thieves -> 0 .. MaxPush]
    BY DEF IInv, Types, TypeOK
  <2>3. \A q \in Thieves : q # p => thiefPc'[q] = thiefPc[q] /\ thiefVal'[q] = thiefVal[q]
    BY <1>1, <2>2
  <2>4. thiefPc'[p] = "cas" /\ thiefVal'[p] = mem[Slot(thiefTop[p])]
    BY <1>1, <2>2
  <2>5. Waits(Slot(top))' <=> Waits(Slot(top))
    BY <1>1 DEF Waits, Slot
  <2> QED
    BY <1>1, <1>4, <2>1, <2>3, <2>4, <2>5 DEF IInv, Stealing, Slot
<1> QED
  BY <1>1, <1>3, <1>4, <1>5, <1>6, <1>7, EachOnceSame DEF IInv

\* A compare-and-swap that fails leaves the deque alone; one that succeeds takes the
\* oldest item.
LEMMA StealCasKeeps ==
    ASSUME IInv, NEW p \in Thieves, StealCas(p)
    PROVE  IInv'
<1>1. /\ thiefPc[p] = "cas" /\ thiefPc' = [thiefPc EXCEPT ![p] = "idle"]
      /\ UNCHANGED <<mem, own, pending, ownerPc, ownerTop, thiefTop, thiefVal, pushed>>
  BY DEF StealCas
<1>2. End' = End /\ End \in Int /\ top \in 0 .. MaxPush /\ pushed \in 0 .. MaxPush /\ Types
  BY <1>1, Numbers DEF End, Bottom, IInv
<1>3. CASE MayClaim(p)
  <2>1. top' = top + 1 /\ Take(thiefVal[p]) /\ thiefTop[p] = top
    BY <1>3 DEF StealCas, MayClaim
  <2>2. top < End /\ thiefVal[p] = own[Slot(top)]
    BY <1>1, <2>1 DEF IInv, Stealing
  <2>3. top' \in 0 .. MaxPush
    BY <1>2, <2>1, <2>2, MaxPushAssumption DEF IInv, Bounds
  <2>4. Types'
    <3>1. got' \in [Item -> Nat]
      BY <1>2, <2>1, TakeTypes
    <3> QED
      BY <1>1, <2>3, <3>1 DEF IInv, Types, TypeOK, Location, Bottom, Slot, Item, Fence, Write
  <2>5. StoresInOrder'
    BY <1>1, <1>2, <2>1, SameInOrder DEF IInv
  <2>6. Bounds'
    <3>1. top' <= End /\ End - top' <= Capacity
          /\ (End - top < Capacity => End - top' < Capacity)
      BY <1>2, <2>1, <2>2, CapacityAssumption DEF IInv, Bounds
    <3>2. ownerTop \in Int /\ (ownerTop <= top => ownerTop <= top')
      BY <1>2, <2>1, Numbers
    <3> QED
      BY <1>1, <1>2, <3>1, <3>2 DEF IInv, Bounds, Bottom
  <2>7. Stealing'
    <3>1. \A q \in Thieves : thiefTop'[q] <= top' /\ thiefTop'[q] # top'
      BY <1>1, <1>2, <2>1 DEF IInv, Stealing, Types, TypeOK
    <3> QED
      BY <3>1 DEF Stealing
  <2>8. EachOnce'
    <3>1. top \in top .. End - 1 /\ top' .. End' - 1 = (top .. End - 1) \ {top}
      BY <1>2, <2>1, <2>2
    <3>2. \A j \in top .. End - 1 : own'[Slot(j)] = own[Slot(j)]
      BY <1>1
    <3> QED
      BY <1>1, <2>1, <2>2, <3>1, <3>2, TakeOne DEF IInv
  <2> QED
    BY <2>4, <2>5, <2>6, <2>7, <2>8 DEF IInv
<1>4. CASE ~MayClaim(p)
  <2>1. UNCHANGED <<top, got>>
    BY <1>4 DEF StealCas
  <2>2. Types'
    BY <1>1, <2>1 DEF IInv, Types, TypeOK, Location, Bottom, Slot, Item, Fence, Write
  <2>3. StoresInOrder'
    BY <1>1, <1>2, <2>1, SameInOrder DEF IInv
  <2>4. Bounds'
    BY <1>1, <1>2, <2>1 DEF IInv, Bounds, Bottom
  <2>5. Stealing'
    BY <1>1, <1>2, <2>1 DEF IInv, Stealing, Types, TypeOK, Slot, Waits
  <2> QED
    BY <1>1, <1>2, <2>1, <2>2, <2>3, <2>4, <2>5, EachOnceSame DEF IInv
<1> QED
  BY <1>3, <1>4

-----------------------------------------------------------------------------

LEMMA InitHolds == ASSUME Init PROVE IInv
<1>1. /\ top = 0 /\ mem = [l \in Location |-> 0] /\ own = mem /\ pending = <<>>
      /\ ownerPc = "idle" /\ ownerTop = 0 /\ pushed = 0 /\ got = [v \in Item |-> 0]
      /\ thiefPc = [p \in Thieves |-> "idle"] /\ thiefTop = [p \in Thieves |-> 0]
      /\ thiefVal = [p \in Thieves |-> 0]
  BY DEF Init
<1>2. mem[Bottom] = 0 /\ End = 0 /\ MaxPush \in Nat /\ Capacity \in Nat
  BY <1>1, Locations, MaxPushAssumption, CapacityAssumption DEF End
<1>3. Types
  BY <1>1, <1>2 DEF Types, TypeOK
<1>4. Bounds
  BY <1>1, <1>2 DEF Bounds
<1>5. StoresInOrder
  BY <1>1, <1>2 DEF StoresInOrder, Current, Guarded, Ordered, Fresh, Waits
<1>6. Stealing
  BY <1>1 DEF Stealing
<1>7. EachOnce
  <2>1. top .. End - 1 = {}
    BY <1>1, <1>2
  <2>2. \A v \in Item : v > pushed
    BY <1>1, <1>2 DEF Item
  <2> QED
    BY <1>1, <2>1, <2>2 DEF EachOnce
<1> QED
  BY <1>3, <1>4, <1>5, <1>6, <1>7 DEF IInv

LEMMA StutterKeeps == ASSUME IInv, UNCHANGED vars PROVE IInv'
<1>1. UNCHANGED <<top, mem, own, pending, ownerPc, ownerTop, thiefPc, thiefTop, thiefVal,
                  pushed, got>>
  BY DEF vars
<1>2. End' = End
  BY <1>1 DEF End, Bottom
<1>3. Types'
  BY <1>1 DEF IInv, Types, TypeOK, Location, Bottom, Slot, Item, Fence, Write
<1>4. StoresInOrder'
  BY <1>1, Numbers, SameInOrder DEF IInv
<1>5. Bounds' /\ Stealing'
  BY <1>1, <1>2 DEF IInv, Bounds, Stealing, Bottom, Slot, Waits
<1> QED
  BY <1>1, <1>2, <1>3, <1>4, <1>5, EachOnceSame DEF IInv

LEMMA NextKeeps == ASSUME IInv, [Next]_vars PROVE IInv'
<1>1. CASE FencePassed
  BY <1>1, FenceKeeps
<1>2. ASSUME NEW k \in DOMAIN pending, Reach(k) PROVE IInv'
  BY <1>2, ReachKeeps
<1>3. CASE PushFull
  BY <1>3, StutterKeeps DEF PushFull
<1>4. CASE PushLoad
  BY <1>4, PushLoadKeeps
<1>5. CASE PushStore
  BY <1>5, PushStoreKeeps
<1>6. CASE PopReserve
  BY <1>6, PopReserveKeeps
<1>7. CASE PopLast
  BY <1>7, PopLastKeeps
<1>8. CASE PopRace
  BY <1>8, PopRaceKeeps
<1>9. CASE PopEmpty
  BY <1>9, PopEmptyKeeps
<1>10. CASE PopCasWon
  BY <1>10, PopCasWonKeeps
<1>11. CASE PopCasLost
  BY <1>11, PopCasLostKeeps
<1>12. ASSUME NEW p \in Thieves, Thief(p) PROVE IInv'
  BY <1>12, StealLoadTopKeeps, StealLoadBottomKeeps, StealLoadSlotKeeps, StealCasKeeps DEF Thief
<1>13. CASE UNCHANGED vars
  BY <1>13, StutterKeeps
<1> QED
  BY <1>1, <1>2, <1>3, <1>4, <1>5, <1>6, <1>7, <1>8, <1>9, <1>10, <1>11, <1>12, <1>13
    DEF Next, Memory, OwnerPush, OwnerPop

\* The deque is sound under the memory orders of ChaseLevDeque.h: stores reach
\* memory in the order its fences ask for, its ends never cross, and a thief whose
\* compare-and-swap may succeed holds the oldest item.
THEOREM DequeIsSound == Spec => []IInv
<1>1. Init => IInv
  BY InitHolds
<1>2. IInv /\ [Next]_vars => IInv'
  BY NextKeeps
<1> QED
  BY <1>1, <1>2, PTL DEF Spec

\* Every item that push accepted is in the deque once or was returned once, by pop
\* or by steal, whatever the interleaving.
THEOREM ItemsReturnedOnce == Spec => []EachOnce
<1>1. IInv => EachOnce
  BY DEF IInv
<1> QED
  BY <1>1, DequeIsSound, PTL

\* What Items holds.
LEMMA ItemsAre ==
    ASSUME Types, Bounds
    PROVE  /\ Items \in Seq(0 .. MaxPush) /\ Len(Items) = End - top
           /\ \A i \in 1 .. End - top : Items[i] = own[Slot(top + i - 1)]
<1>1. End - top \in Nat /\ top \in Int
  BY Numbers DEF Bounds
<1>2. \A i \in 1 .. End - top : own[Slot(top + i - 1)] \in 0 .. MaxPush
  BY <1>1, Numbers
<1> DEFINE n == End - top
           at(i) == own[Slot(top + i - 1)]
<1>3. Items = [i \in 1 .. n |-> at(i)] /\ n \in Nat /\ \A i \in 1 .. n : at(i) \in 0 .. MaxPush
  BY <1>1, <1>2 DEF Items
<1> HIDE DEF n, at
<1>4. Items \in Seq(0 .. MaxPush) /\ Len(Items) = n /\ \A i \in 1 .. n : Items[i] = at(i)
  BY <1>3
<1> QED
  BY <1>4 DEF n, at

\* steal never returns a stale item: when its compare-and-swap would succeed, the
\* value it loaded long before is still the oldest item of the deque.
THEOREM ClaimsAlwaysCurrent == Spec => []ClaimIsCurrent
<1>1. ASSUME IInv PROVE ClaimIsCurrent
  <2> SUFFICES ASSUME NEW p \in Thieves, thiefPc[p] = "cas", MayClaim(p)
               PROVE  Len(Items) > 0 /\ thiefVal[p] = Items[1]
    BY <1>1 DEF ClaimIsCurrent, IInv, Types
  <2>1. top < End /\ thiefVal[p] = own[Slot(top)]
    BY <1>1 DEF IInv, Stealing, MayClaim
  <2>2. End \in Int /\ top \in Int /\ 1 \in 1 .. End - top /\ top + 1 - 1 = top
    BY <1>1, <2>1, Numbers DEF IInv
  <2> QED
    BY <1>1, <2>1, <2>2, ItemsAre DEF IInv
<1> QED
  BY <1>1, DequeIsSound, PTL

-----------------------------------------------------------------------------
\* The refinement.

LEMMA ItemsAreNext ==
    ASSUME Types', Bounds'
    PROVE  /\ Items' \in Seq(0 .. MaxPush) /\ Len(Items') = End' - top'
           /\ \A i \in 1 .. End' - top' : Items'[i] = own'[Slot(top' + i - 1)]
<1>1. (Types /\ Bounds)' =>
        (/\ Items \in Seq(0 .. MaxPush) /\ Len(Items) = End - top
         /\ \A i \in 1 .. End - top : Items[i] = own[Slot(top + i - 1)])'
  BY ItemsAre, PTL
<1> QED
  BY <1>1 DEF Slot

LEMMA FrontOf ==
    ASSUME NEW S, NEW s \in Seq(S), s # <<>>
    PROVE  /\ Front(s) \in Seq(S) /\ Len(Front(s)) = Len(s) - 1
           /\ \A i \in 1 .. Len(s) - 1 : Front(s)[i] = s[i]
<1> DEFINE n == Len(s) - 1
<1>1. n \in Nat /\ 1 \in 1 .. Len(s) + 1 /\ n \in 1 - 1 .. Len(s)
  OBVIOUS
<1>2. SubSeq(s, 1, n) \in Seq(S) /\ Len(SubSeq(s, 1, n)) = (IF 1 <= n THEN n - 1 + 1 ELSE 0)
      /\ \A i \in 1 .. n - 1 + 1 : SubSeq(s, 1, n)[i] = s[1 + i - 1]
  BY <1>1, SubSeqProperties
<1>3. n - 1 + 1 = n /\ \A i \in 1 .. n : 1 + i - 1 = i
  BY <1>1
<1> HIDE DEF n
<1>4. Len(SubSeq(s, 1, n)) = n
  BY <1>1, <1>2
<1> QED
  BY <1>2, <1>3, <1>4 DEF Front, n

\* A step that leaves the slots and both ends alone leaves the items alone.
LEMMA ItemsSame ==
    ASSUME Types, Bounds, UNCHANGED top, End' = End,
           \A i \in Int : own'[Slot(i)] = own[Slot(i)]
    PROVE  Items' = Items
<1>1. End \in Int /\ top \in Int
  BY Numbers
<1>2. \A i \in 1 .. End - top : own'[Slot(top + i - 1)] = own[Slot(top + i - 1)]
  BY <1>1
<1> QED
  BY <1>2 DEF Items, Slot

\* Two finite sequences with the same elements are the same.
LEMMA SameSeq ==
    ASSUME NEW S, NEW s \in Seq(S), NEW r \in Seq(S), Len(s) = Len(r),
           \A i \in 1 .. Len(s) : s[i] = r[i]
    PROVE  s = r
OBVIOUS

LEMMA PushMaps == ASSUME IInv, PushStore PROVE Abstract!Push
<1> DEFINE b == own[Bottom]
           v == pushed + 1
<1>1. IInv' /\ Types /\ Bounds /\ Types' /\ Bounds'
  BY PushStoreKeeps DEF IInv
<1>2. /\ ownerPc = "push" /\ ownerPc' = "idle" /\ pushed' = v
      /\ own' = [own EXCEPT ![Slot(b)] = v, ![Bottom] = b + 1] /\ UNCHANGED <<top, got>>
  BY DEF PushStore
<1>3. /\ b = End /\ b \in Int /\ End - top < Capacity /\ top <= End /\ top \in Int
      /\ Capacity \in Nat /\ pushed < MaxPush /\ v \in 0 .. MaxPush
  BY <1>1, <1>2, Numbers, CapacityAssumption, MaxPushAssumption DEF Bounds
<1>4. /\ Slot(b) \in Location \ {Bottom} /\ Bottom \in Location
      /\ own \in [Location -> -1 .. MaxPush]
  BY <1>1, <1>3, Locations, Numbers
<1>5. /\ own'[Bottom] = b + 1 /\ own'[Slot(b)] = v
      /\ \A loc \in Location \ {Bottom, Slot(b)} : own'[loc] = own[loc]
  BY <1>2, <1>4
<1>6. End' = End + 1
  BY <1>2, <1>3, <1>5 DEF End, Bottom
<1>7. /\ Items \in Seq(0 .. MaxPush) /\ Len(Items) = End - top
      /\ \A i \in 1 .. End - top : Items[i] = own[Slot(top + i - 1)]
  BY <1>1, ItemsAre
<1>8. /\ Items' \in Seq(0 .. MaxPush) /\ Len(Items') = End' - top
      /\ \A i \in 1 .. End' - top : Items'[i] = own'[Slot(top + i - 1)]
  BY <1>1, <1>2, ItemsAreNext
<1>9. Items' = Append(Items, v)
  <2>1. /\ Append(Items, v) \in Seq(0 .. MaxPush)
        /\ Len(Append(Items, v)) = Len(Items) + 1
        /\ \A i \in 1 .. Len(Items) : Append(Items, v)[i] = Items[i]
        /\ Append(Items, v)[Len(Items) + 1] = v
    BY <1>3, <1>7
  <2>2. ASSUME NEW i \in 1 .. End' - top PROVE Items'[i] = Append(Items, v)[i]
    <3>1. CASE i = End' - top
      <4>1. top + i - 1 = b /\ i = Len(Items) + 1
        BY <1>3, <1>6, <1>7, <3>1
      <4> QED
        BY <1>5, <1>8, <2>1, <4>1
    <3>2. CASE i # End' - top
      <4>1. /\ i \in 1 .. End - top /\ top + i - 1 \in Int
            /\ top + i - 1 < b + Capacity /\ b < top + i - 1 + Capacity /\ top + i - 1 # b
        BY <1>3, <1>6, <3>2
      <4>2. Slot(top + i - 1) \in Location \ {Bottom, Slot(b)}
        BY <1>3, <4>1, SlotsApart, Locations
      <4> QED
        BY <1>5, <1>7, <1>8, <2>1, <4>1, <4>2
    <3> QED
      BY <3>1, <3>2
  <2>3. Len(Items') = Len(Append(Items, v)) /\ Len(Items') = End' - top
    BY <1>3, <1>6, <1>7, <1>8, <2>1
  <2> QED
    BY <1>8, <2>1, <2>2, <2>3, SameSeq
<1> QED
  BY <1>2, <1>3, <1>7, <1>9 DEF Abstract!Push

\* Taking the item at the owner's end.
LEMMA PopMaps ==
    ASSUME IInv, IInv', top < End,
           \/ End' = End - 1 /\ UNCHANGED top
           \/ End' = End /\ top' = top + 1 /\ End = top + 1,
           \A i \in Int : own'[Slot(i)] = own[Slot(i)],
           Take(own[Slot(End - 1)]), UNCHANGED pushed
    PROVE  Abstract!Pop
<1>1. /\ Types /\ Bounds /\ Types' /\ Bounds' /\ End \in Int /\ top \in Int
  BY Numbers DEF IInv
<1>2. /\ Items \in Seq(0 .. MaxPush) /\ Len(Items) = End - top
      /\ \A i \in 1 .. End - top : Items[i] = own[Slot(top + i - 1)]
  BY <1>1, ItemsAre
<1>3. /\ Items' \in Seq(0 .. MaxPush) /\ Len(Items') = End' - top'
      /\ \A i \in 1 .. End' - top' : Items'[i] = own'[Slot(top' + i - 1)]
  BY <1>1, ItemsAreNext
<1>4. Items # <<>> /\ Last(Items) = own[Slot(End - 1)]
  <2>1. Len(Items) \in 1 .. End - top /\ top + Len(Items) - 1 = End - 1
    BY <1>1, <1>2
  <2> QED
    BY <1>2, <2>1 DEF Last
<1>5. Items' = Front(Items)
  <2>1. /\ Front(Items) \in Seq(0 .. MaxPush) /\ Len(Front(Items)) = Len(Items) - 1
        /\ \A i \in 1 .. Len(Items) - 1 : Front(Items)[i] = Items[i]
    BY <1>2, <1>4, FrontOf
  <2>2. End' - top' = End - top - 1
    BY <1>1
  <2>3. ASSUME NEW i \in 1 .. Len(Items) - 1 PROVE Items'[i] = Front(Items)[i]
    <3>1. top' = top /\ i \in 1 .. End - top /\ i \in 1 .. End' - top' /\ top + i - 1 \in Int
      BY <1>1, <1>2, <2>2
    <3> QED
      BY <1>2, <1>3, <2>1, <3>1
  <2> QED
    BY <1>1, <1>2, <1>3, <2>1, <2>2, <2>3, SameSeq
<1> QED
  BY <1>4, <1>5 DEF Abstract!Pop, Abstract!Front, Abstract!Last, Front, Last, Take

LEMMA StealMaps ==
    ASSUME IInv, IInv', NEW p \in Thieves, StealCas(p), MayClaim(p)
    PROVE  Abstract!Steal
<1>1. /\ Types /\ Bounds /\ Types' /\ Bounds' /\ End \in Int /\ top \in Int
  BY Numbers DEF IInv
<1>2. /\ top' = top + 1 /\ Take(thiefVal[p]) /\ UNCHANGED <<own, pushed, ownerPc>>
      /\ top < End /\ thiefVal[p] = own[Slot(top)]
  BY DEF StealCas, MayClaim, IInv, Stealing
<1>3. End' = End
  BY <1>2 DEF End, Bottom
<1>4. /\ Items \in Seq(0 .. MaxPush) /\ Len(Items) = End - top
      /\ \A i \in 1 .. End - top : Items[i] = own[Slot(top + i - 1)]
  BY <1>1, ItemsAre
<1>5. /\ Items' \in Seq(0 .. MaxPush) /\ Len(Items') = End' - top'
      /\ \A i \in 1 .. End' - top' : Items'[i] = own'[Slot(top' + i - 1)]
  BY <1>1, ItemsAreNext
<1>6. Items # <<>> /\ Head(Items) = own[Slot(top)]
  <2>1. 1 \in 1 .. End - top /\ top + 1 - 1 = top
    BY <1>1, <1>2
  <2> QED
    BY <1>4, <2>1
<1>7. Items' = Tail(Items)
  <2>1. /\ Tail(Items) \in Seq(0 .. MaxPush) /\ Len(Tail(Items)) = Len(Items) - 1
        /\ \A i \in 1 .. Len(Items) - 1 : Tail(Items)[i] = Items[i + 1]
    BY <1>4, <1>6
  <2>2. End' - top' = End - top - 1
    BY <1>1, <1>2, <1>3
  <2>3. ASSUME NEW i \in 1 .. Len(Items) - 1 PROVE Items'[i] = Tail(Items)[i]
    <3>1. /\ i + 1 \in 1 .. End - top /\ i \in 1 .. End' - top'
          /\ top' + i - 1 = top + (i + 1) - 1
      BY <1>1, <1>2, <1>4, <2>2
    <3> QED
      BY <1>2, <1>4, <1>5, <2>1, <3>1
  <2> QED
    BY <1>1, <1>4, <1>5, <2>1, <2>2, <2>3, SameSeq
<1> QED
  BY <1>2, <1>6, <1>7 DEF Abstract!Steal, Take

\* Every step of the deque is a push, a pop or a steal of WorkDeque, or leaves it be.
LEMMA StepMaps == ASSUME IInv, IInv', [Next]_vars PROVE [Abstract!Next]_<<pushed, Items, got>>
<1> DEFINE Same == UNCHANGED <<pushed, Items, got>>
<1>1. /\ Types /\ Bounds /\ End \in Int /\ top \in Int /\ own[Bottom] \in -1 .. MaxPush
      /\ MaxPush \in Nat /\ pushed \in 0 .. MaxPush /\ End <= pushed
  BY Numbers, MaxPushAssumption DEF IInv, Bounds
<1>2. ASSUME FencePassed \/ \E k \in DOMAIN pending : Reach(k) PROVE Same
  <2>1. UNCHANGED <<top, own, ownerPc, pushed, got>>
    BY <1>2 DEF FencePassed, Reach
  <2> QED
    BY <1>1, <2>1, ItemsSame DEF End, Slot, Bottom
<1>3. ASSUME PushFull \/ PushLoad \/ PopRace \/ UNCHANGED vars PROVE Same
  <2>1. UNCHANGED <<top, own, pushed, got>> /\ End' = End
    BY <1>3 DEF PushFull, PushLoad, PopRace, vars, End, Bottom
  <2> QED
    BY <1>1, <2>1, ItemsSame DEF Slot
<1>4. ASSUME PushStore PROVE Abstract!Push
  BY <1>4, PushMaps
<1>5. ASSUME PopReserve PROVE Same
  <2>1. /\ ownerPc = "idle" /\ ownerPc' = "pop" /\ StoreBottom(own[Bottom] - 1)
        /\ UNCHANGED <<top, pushed, got>>
    BY <1>5 DEF PopReserve
  <2>2. own[Bottom] = End /\ own[Bottom] - 1 \in -1 .. MaxPush
    BY <1>1, <2>1 DEF Bounds, End, Types, TypeOK
  <2>3. /\ own'[Bottom] = own[Bottom] - 1
        /\ \A i \in Int : own'[Slot(i)] = own[Slot(i)]
    BY <1>1, <2>1, <2>2, BottomTypes
  <2>4. End' = End
    BY <1>1, <2>1, <2>2, <2>3 DEF End, Bottom
  <2> QED
    BY <1>1, <2>1, <2>3, <2>4, ItemsSame
<1>6. ASSUME ownerPc \in {"pop", "popCas"}, PopRestored, ownerPc' = "idle"
      PROVE  End' = End /\ \A i \in Int : own'[Slot(i)] = own[Slot(i)]
  <2>1. own[Bottom] + 1 = End /\ own[Bottom] + 1 \in -1 .. MaxPush
    BY <1>1, <1>6, Numbers
  <2>2. /\ own'[Bottom] = own[Bottom] + 1
        /\ \A i \in Int : own'[Slot(i)] = own[Slot(i)]
    BY <1>1, <1>6, <2>1, BottomTypes DEF PopRestored
  <2>3. End' = End
    BY <1>1, <1>6, <2>1, <2>2 DEF End, Bottom
  <2> QED
    BY <2>2, <2>3
<1>7. ASSUME PopEmpty \/ PopCasLost PROVE Same
  <2>1. End' = End /\ \A i \in Int : own'[Slot(i)] = own[Slot(i)]
    BY <1>6, <1>7 DEF PopEmpty, PopCasLost
  <2>2. UNCHANGED <<top, pushed, got>>
    BY <1>7 DEF PopEmpty, PopCasLost
  <2> QED
    BY <1>1, <2>1, <2>2, ItemsSame
<1>8. ASSUME PopLast PROVE Abstract!Pop
  <2>1. /\ ownerPc = "pop" /\ ownerPc' = "idle" /\ top < own[Bottom]
        /\ Take(own[Slot(own[Bottom])]) /\ UNCHANGED <<top, own, pushed>>
    BY <1>8 DEF PopLast
  <2>2. own[Bottom] = End - 1 /\ End' = End - 1 /\ top < End
    BY <1>1, <2>1 DEF End, Bottom
  <2>3. \A i \in Int : own'[Slot(i)] = own[Slot(i)]
    BY <2>1
  <2> QED
    BY <2>1, <2>2, <2>3, PopMaps
<1>9. ASSUME PopCasWon PROVE Abstract!Pop
  <2>1. /\ ownerPc = "popCas" /\ ownerPc' = "idle" /\ top = ownerTop /\ top' = top + 1
        /\ Take(own[Slot(own[Bottom])]) /\ PopRestored /\ UNCHANGED pushed
    BY <1>9 DEF PopCasWon
  <2>2. End' = End /\ \A i \in Int : own'[Slot(i)] = own[Slot(i)]
    BY <1>6, <2>1
  <2>3. own[Bottom] = End - 1 /\ own[Bottom] = top /\ End = top + 1 /\ top < End
    BY <1>1, <2>1, Numbers DEF Bounds
  <2> QED
    BY <2>1, <2>2, <2>3, PopMaps
<1>10. ASSUME NEW p \in Thieves, Thief(p) PROVE Same \/ Abstract!Steal
  <2>1. ASSUME UNCHANGED <<top, own, ownerPc, pushed, got>> PROVE Same
    <3>1. End' = End
      BY <2>1 DEF End, Bottom
    <3> QED
      BY <1>1, <2>1, <3>1, ItemsSame DEF Slot
  <2>2. CASE StealLoadTop(p) \/ StealLoadBottom(p) \/ StealLoadSlot(p)
    BY <2>1, <2>2 DEF StealLoadTop, StealLoadBottom, StealLoadSlot
  <2>3. CASE StealCas(p) /\ ~MayClaim(p)
    BY <2>1, <2>3 DEF StealCas
  <2>4. CASE StealCas(p) /\ MayClaim(p)
    BY <2>4, StealMaps
  <2> QED
    BY <1>10, <2>2, <2>3, <2>4 DEF Thief
<1> QED
  BY <1>2, <1>3, <1>4, <1>5, <1>7, <1>8, <1>9, <1>10
    DEF Next, Memory, OwnerPush, OwnerPop, Abstract!Next

\* The deque implements WorkDeque: no item is lost and none is returned twice.
THEOREM WorkDequeImplemented == Spec => ImplementsWorkDeque
<1>1. Init => Abstract!Init
  <2> SUFFICES ASSUME Init PROVE Abstract!Init
    OBVIOUS
  <2>1. Types /\ Bounds /\ End = 0 /\ top = 0
    BY InitHolds, Locations DEF IInv, Init, End
  <2>2. Items \in Seq(0 .. MaxPush) /\ Len(Items) = 0
    BY <2>1, ItemsAre
  <2> QED
    BY <2>2 DEF Init, Abstract!Init, Item, Abstract!Item
<1>2. IInv /\ IInv' /\ [Next]_vars => [Abstract!Next]_(Abstract!absVars)
  BY StepMaps DEF Abstract!absVars
<1> QED
  BY <1>1, <1>2, DequeIsSound, PTL DEF Spec, ImplementsWorkDeque, Abstract!Spec

\* pop gives up only when the deque holds nothing at that instant.
THEOREM PopFailsOnlyWhenEmptyEver == Spec => PopFailsOnlyWhenEmpty
<1> DEFINE GaveUp == ownerPc \in {"pop", "popCas"} /\ ownerPc' = "idle" /\ got' = got
<1>1. ASSUME IInv, [Next]_vars, GaveUp PROVE Items = <<>>
  <2>1. /\ Types /\ Bounds /\ End \in Int /\ top \in Int /\ End = own[Bottom] + 1
        /\ own[Bottom] \in Int /\ ownerTop \in Int
    BY <1>1, Numbers DEF IInv
  <2>2. ASSUME End <= top PROVE Items = <<>>
    <3>1. Items \in Seq(0 .. MaxPush) /\ Len(Items) = 0
      BY <2>1, <2>2, ItemsAre DEF Bounds
    <3> QED
      BY <3>1
  <2>3. CASE PopEmpty
    BY <2>1, <2>2, <2>3 DEF PopEmpty
  <2>4. CASE PopCasLost
    BY <2>1, <2>2, <2>4 DEF PopCasLost, CasLoses, Bounds
  <2>5. ~PopLast /\ ~PopCasWon
    BY <1>1, PopLastKeeps, PopCasWonKeeps
  <2>6. ~(UNCHANGED ownerPc) /\ ownerPc' = "idle" /\ ownerPc \in {"pop", "popCas"}
    BY <1>1
  <2>7. ~FencePassed /\ (\A k \in DOMAIN pending : ~Reach(k)) /\ ~PushFull /\ ~PushLoad
        /\ ~PushStore /\ ~PopReserve /\ ~PopRace /\ ~(UNCHANGED vars)
    BY <2>6 DEF FencePassed, Reach, PushFull, PushLoad, PushStore, PopReserve, PopRace, vars
  <2>8. \A p \in Thieves : ~Thief(p)
    BY <2>6 DEF Thief, StealLoadTop, StealLoadBottom, StealLoadSlot, StealCas
  <2> QED
    BY <1>1, <2>3, <2>4, <2>5, <2>7, <2>8 DEF Next, Memory, OwnerPush, OwnerPop
<1>2. IInv /\ [Next]_vars => [GaveUp => Items = <<>>]_vars
  BY <1>1
<1> QED
  BY <1>2, DequeIsSound, PTL DEF Spec, PopFailsOnlyWhenEmpty
=============================================================================
