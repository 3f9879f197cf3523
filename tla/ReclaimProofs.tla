--------------------------- MODULE ReclaimProofs ----------------------------
(***************************************************************************)
(* Theorems about the two components that free what others may still be    *)
(* using: the log sinks and the flight recorder (LogSinks, FlightRecorder),*)
(* then the frame loop (GpuFrames).                                        *)
(***************************************************************************)
EXTENDS FlightRecorder, GpuFrames, TLAPS

-----------------------------------------------------------------------------
(***************************************************************************)
(* The registry of sinks and the flight recorder, for every number of      *)
(* threads, sinks and addresses, every depth of the ring of retired lists  *)
(* and every capacity of the ring of events.                               *)
(*                                                                         *)
(* The argument for the lists.  Every list in memory has one owner: it is  *)
(* current, or retired in one place, or in the hands of one thread         *)
(* (Exclusive).  A list that a call has loaded was current then, so it is  *)
(* current still, or with a thread that retires it, or retired no longer   *)
(* ago than the call is old (InReach); the ring evicts what was retired    *)
(* Depth retirements ago, which is longer.  Hence the list is intact and   *)
(* its address still means it, and a swap that finds it current replaces   *)
(* it by what was built from it.                                           *)
(*                                                                         *)
(* The argument for the events.  A recorder has a ticket of its own and    *)
(* stays within a lap, so that a slot has one writer at most (Tickets).    *)
(* Of every event of the last lap each part is in its slot, or still to be *)
(* written by the one that records it (Written), and the number comes last *)
(* (Unpublished).                                                          *)
(***************************************************************************)

Place == 0 .. Depth - 1

\* The list that a thread alone answers for.
Holds(t) ==
    IF call[t].at \in {"build", "swap"} THEN call[t].fresh
    ELSE IF call[t].at = "retire" THEN call[t].old ELSE Null

\* How many retirements ago a place of the ring was filled.
Since(i) == IF i < head THEN head - i ELSE head + Depth - i

\* The calls under way; what is seen is whatever list was there.
Writing(seen) == [at : {"build", "swap"}, op : {"add", "remove"}, sink : Sink, fresh : Addr,
                  old : Addr \cup {Null}, seen : {seen}, age : Nat]
Walking(seen) == [at : {"walk"}, old : Addr, seen : {seen}, age : Nat, next : Nat]
Retiring == [at : {"retire"}, old : Addr \cup {Null}]

LogType ==
    /\ current \in Addr \cup {Null}
    /\ DOMAIN heap \subseteq Addr
    /\ retired \in [Place -> Addr \cup {Null}]
    /\ head \in Place
    /\ DOMAIN call = Thread /\ call = [t \in Thread |-> call[t]]
    /\ \A t \in Thread :
          \/ call[t] = Idle \/ call[t] \in Retiring
          \/ call[t] \in Writing(call[t].seen) \/ call[t] \in Walking(call[t].seen)

\* No list has two owners, and none that has one is gone.
Exclusive ==
    /\ current # Null => current \in DOMAIN heap
    /\ \A i \in Place : retired[i] # Null =>
          /\ retired[i] \in DOMAIN heap /\ retired[i] # current
          /\ \A j \in Place : retired[j] = retired[i] => j = i
    /\ \A t \in Thread : Holds(t) # Null =>
          /\ Holds(t) \in DOMAIN heap /\ Holds(t) # current
          /\ \A i \in Place : retired[i] # Holds(t)
          /\ \A u \in Thread : Holds(u) = Holds(t) => u = t

InReach ==
    \A t \in Thread : Uses(call[t]) =>
        \/ call[t].old = current
        \/ \E u \in Thread : call[u].at = "retire" /\ call[u].old = call[t].old
        \/ \E i \in Place : retired[i] = call[t].old /\ Since(i) <= call[t].age

\* What a writer has built is the edit of what it has loaded.
Built ==
    \A t \in Thread :
        /\ call[t].at \in {"build", "swap"} /\ call[t].old = Null => call[t].seen = <<>>
        /\ call[t].at = "swap" =>
              /\ heap[call[t].fresh] = Edited(call[t].op, call[t].sink, call[t].seen)
              /\ call[t].op = "remove" => call[t].old # Null

LogInv == LogType /\ Exclusive /\ InReach /\ SnapshotsHold /\ Built

-----------------------------------------------------------------------------

RecType ==
    /\ writeSeq \in 0 .. MaxEvents
    /\ ring \in [0 .. Capacity - 1 -> [Field -> -1 .. MaxEvents]]
    /\ \A i \in 0 .. Capacity - 1 :
          ring[i].seq \in 0 .. writeSeq /\ \A p \in Part : ring[i][p] \in -1 .. MaxEvents - 1
    /\ record \in [Thread -> {None} \cup [ticket : 0 .. MaxEvents - 1, todo : SUBSET Field]]

\* Who records has a ticket of its own, of the last lap.
Tickets ==
    \A t \in Thread : record[t] # None =>
        /\ record[t].ticket < writeSeq /\ writeSeq <= record[t].ticket + Capacity
        /\ \A u \in Thread : record[u].ticket = record[t].ticket => u = t

\* Each part of an event of the last lap is in its slot or on its way there.
Written ==
    \A n \in 0 .. writeSeq - 1 : writeSeq <= n + Capacity =>
        \A p \in Field :
            \/ ring[SlotOf(n)][p] = Event(n)[p]
            \/ \E t \in Thread : record[t].ticket = n /\ p \in record[t].todo

\* The number of an event is its last part, and in no slot before.
Unpublished ==
    \A t \in Thread : record[t].todo # {} =>
        /\ "seq" \in record[t].todo
        /\ \A i \in 0 .. Capacity - 1 : ring[i].seq # record[t].ticket + 1

\* What a dump has read of an event is the event's, unless a lap has gone by.
Dumped ==
    \/ dump = Resting
    \/ /\ dump \in [at : {"look"}, total : 0 .. writeSeq, ticket : Nat]
       /\ dump.ticket <= dump.total
    \/ /\ dump \in [at : {"read"}, total : 0 .. writeSeq, ticket : Nat, got : {dump.got},
                    todo : SUBSET Field]
       /\ dump.ticket < dump.total /\ DOMAIN dump.got = Field \ dump.todo
       /\ writeSeq <= dump.ticket + Capacity =>
             /\ ring[SlotOf(dump.ticket)] = Event(dump.ticket)
             /\ \A t \in Thread : record[t].ticket = dump.ticket => record[t].todo = {}
             /\ \A p \in Field \ dump.todo : dump.got[p] = Event(dump.ticket)[p]

RecInv == RecType /\ Tickets /\ Written /\ Unpublished /\ Dumped

-----------------------------------------------------------------------------

\* Arithmetic of the two rings.

LEMMA ModNext ==
    ASSUME NEW d \in Nat \ {0}, NEW h \in 0 .. d - 1
    PROVE  (h + 1) % d = IF h + 1 = d THEN 0 ELSE h + 1
OBVIOUS

LEMMA ModRange == ASSUME NEW d \in Nat \ {0}, NEW n \in Int PROVE n % d \in 0 .. d - 1
OBVIOUS

LEMMA Euclid ==
    ASSUME NEW d \in Nat \ {0}, NEW n \in Int
    PROVE  n \div d \in Int /\ n = d * (n \div d) + (n % d)
OBVIOUS

LEMMA LapApart ==
    ASSUME NEW d \in Nat \ {0}, NEW q \in Int, q # 0, NEW e \in Int, e = d * q
    PROVE  e >= d \/ e <= -d
OBVIOUS

LEMMA SameLap ==
    ASSUME NEW d \in Nat \ {0}, NEW n \in Nat, NEW m \in Nat, n % d = m % d,
           n < m + d, m < n + d
    PROVE  n = m
<1> SUFFICES ASSUME n # m PROVE FALSE
  OBVIOUS
<1> DEFINE q == (m \div d) - (n \div d)
<1>1. q \in Int /\ m - n = d * q
  BY Euclid
<1>2. q # 0
  BY <1>1
<1> QED
  BY <1>1, <1>2, LapApart

\* The next retirement leaves the place filled last at one, and adds one to the
\* others; the place it fills was filled Depth retirements ago.
LEMMA SinceNext ==
    ASSUME head \in Place, head' = (head + 1) % Depth, NEW i \in Place
    PROVE  /\ head' \in Place
           /\ Since(head) = Depth
           /\ Since(i)' = IF i = head THEN 1 ELSE Since(i) + 1
<1>1. head' = IF head + 1 = Depth THEN 0 ELSE head + 1
  BY DepthAssumption, ModNext DEF Place
<1> QED
  BY <1>1, DepthAssumption DEF Place, Since

-----------------------------------------------------------------------------
\* The lists.

\* A loaded list is in nobody's hands but, perhaps, of a thread that retires it.
LEMMA NotBeingBuilt ==
    ASSUME LogInv, NEW t \in Thread, NEW u \in Thread, Uses(call[u]),
           call[t].at \in {"build", "swap"}
    PROVE  call[u].old # call[t].fresh
<1>1. Holds(t) = call[t].fresh /\ call[t].fresh \in Addr /\ Holds(t) # Null
  BY AddrAssumption DEF LogInv, LogType, Holds, Idle, Writing, Retiring, Walking
<1>2. CASE call[u].old = current
  BY <1>1, <1>2 DEF LogInv, Exclusive
<1>3. ASSUME NEW v \in Thread, call[v].at = "retire", call[v].old = call[u].old
      PROVE  call[u].old # call[t].fresh
  <2>1. Holds(v) = call[u].old /\ v # t
    BY <1>3 DEF Holds
  <2> QED
    BY <1>1, <2>1 DEF LogInv, Exclusive
<1>4. ASSUME NEW i \in Place, retired[i] = call[u].old
      PROVE  call[u].old # call[t].fresh
  BY <1>1, <1>4 DEF LogInv, Exclusive
<1> QED
  BY <1>2, <1>3, <1>4 DEF LogInv, InReach

\* What a thread has in its hands.
LEMMA HeldLists ==
    ASSUME LogType, NEW t \in Thread
    PROVE  /\ Holds(t) \in Addr \cup {Null}
           /\ call[t].at \in {"build", "swap"} => Holds(t) = call[t].fresh /\ Holds(t) # Null
           /\ call[t].at = "retire" => Holds(t) = call[t].old
           /\ call[t].at \notin {"build", "swap", "retire"} => Holds(t) = Null
BY AddrAssumption DEF LogType, Holds, Idle, Writing, Retiring, Walking

LEMMA SinksInitHolds == ASSUME SinksInit PROVE LogInv
<1> USE DEF SinksInit
<1>1. LogType
  BY DepthAssumption DEF LogType, Place
<1>2. \A t \in Thread : Holds(t) = Null /\ ~Uses(call[t]) /\ call[t].at = "idle"
  BY DEF Holds, Uses, Idle
<1>3. Exclusive /\ InReach /\ SnapshotsHold /\ Built
  BY <1>2 DEF Exclusive, InReach, SnapshotsHold, Built, Place
<1> QED
  BY <1>1, <1>3 DEF LogInv

\* A call begins with the list that is current, and an address nobody has.
LEMMA UpdateKeeps ==
    ASSUME LogInv, NEW t \in Thread, NEW op \in {"add", "remove"}, NEW s \in Sink,
           Update(t, op, s)
    PROVE  LogInv' /\ UNCHANGED ListAt(current)
<1>1. PICK a \in Vacant :
        /\ heap' = With(a, <<>>)
        /\ call' = [call EXCEPT ![t] =
              [at |-> "build", op |-> op, sink |-> s, fresh |-> a,
               old |-> Loaded.old, seen |-> Loaded.seen, age |-> 0]]
  BY DEF Update
<1>2. /\ call[t] = Idle
      /\ UNCHANGED <<current, retired, head>>
      /\ a \in Addr /\ a \notin DOMAIN heap /\ a # Null
      /\ DOMAIN heap' = DOMAIN heap \cup {a}
      /\ \A b \in DOMAIN heap : heap'[b] = heap[b]
      /\ heap'[a] = <<>>
  BY <1>1, AddrAssumption DEF Update, Vacant, With
<1>3. /\ call'[t] \in Writing(call'[t].seen) /\ call'[t].at = "build" /\ call'[t].fresh = a
      /\ call'[t].old = current /\ call'[t].seen = ListAt(current) /\ call'[t].age = 0
      /\ \A u \in Thread : u # t => call'[u] = call[u]
      /\ call' = [u \in Thread |-> call'[u]]
  BY <1>1, <1>2 DEF LogInv, LogType, Loaded, Writing
<1>4. LogType'
  BY <1>2, <1>3 DEF LogInv, LogType
<1>5. Holds(t)' = a /\ \A u \in Thread : u # t => Holds(u)' = Holds(u)
  BY <1>3 DEF Holds
<1>6. Exclusive'
  <2>1. Holds(t) = Null
    BY <1>2 DEF Holds, Idle
  <2> QED
    BY <1>2, <1>5, <2>1 DEF LogInv, Exclusive
<1>7. /\ SnapshotsHold /\ InReach
      /\ \A u \in Thread : u # t => Uses(call'[u]) = Uses(call[u])
  BY <1>3 DEF LogInv
<1>8. SnapshotsHold'
  <2>1. current # Null => current \in DOMAIN heap' /\ heap'[current] = ListAt(current)
    BY <1>2 DEF LogInv, Exclusive, ListAt
  <2> QED
    BY <1>2, <1>3, <1>7, <2>1 DEF SnapshotsHold, Uses
<1>9. InReach'
  <2>1. ASSUME NEW u \in Thread, u # t, Uses(call[u])
        PROVE  \/ call[u].old = current
               \/ \E v \in Thread : call'[v].at = "retire" /\ call'[v].old = call[u].old
               \/ \E i \in Place : retired[i] = call[u].old /\ Since(i) <= call[u].age
    BY <1>2, <1>3, <1>7, <2>1 DEF InReach, Idle
  <2>2. \A i \in Place : Since(i)' = Since(i)
    BY <1>2 DEF Since
  <2> QED
    BY <1>2, <1>3, <1>7, <2>1, <2>2 DEF InReach
<1>10. Built'
  <2>1. \A u \in Thread : u # t /\ call[u].at \in {"build", "swap"} => call[u].fresh \in DOMAIN heap
    BY HeldLists DEF LogInv, Exclusive
  <2> QED
    BY <1>2, <1>3, <2>1 DEF LogInv, Built, ListAt
<1>11. UNCHANGED ListAt(current)
  BY <1>2 DEF LogInv, Exclusive, ListAt
<1> QED
  BY <1>4, <1>6, <1>8, <1>9, <1>10, <1>11 DEF LogInv

\* A list that is being filled is nobody's snapshot.
LEMMA BuildKeeps ==
    ASSUME LogInv, NEW t \in Thread, Build(t)
    PROVE  LogInv' /\ UNCHANGED ListAt(current)
<1> DEFINE c == call[t]
<1>1. /\ c.at = "build" /\ c \in Writing(c.seen) /\ c.fresh \in Addr
      /\ UNCHANGED <<current, retired, head>>
  BY DEF Build, LogInv, LogType, Idle, Writing, Walking, Retiring
<1>2. Holds(t) = c.fresh /\ c.fresh # Null /\ c.fresh # current /\ c.fresh \in DOMAIN heap
  BY <1>1, HeldLists DEF LogInv, Exclusive
<1>3. \A u \in Thread : Uses(call[u]) => call[u].old # c.fresh
  BY <1>1, NotBeingBuilt
<1>4. \A u \in Thread : u # t /\ call[u].at = "swap" => call[u].fresh # c.fresh
  BY <1>1, <1>2, HeldLists DEF LogInv, Exclusive
<1>5. \A i \in Place : Since(i)' = Since(i)
  BY <1>1 DEF Since
<1>6. ASSUME \A b \in DOMAIN heap \ {c.fresh} : b \in DOMAIN heap' /\ heap'[b] = heap[b]
      PROVE  UNCHANGED ListAt(current)
  BY <1>1, <1>2, <1>6 DEF LogInv, Exclusive, ListAt
<1>7. CASE c.op = "remove" /\ c.old = Null
  <2>1. /\ DOMAIN heap' = DOMAIN heap \ {c.fresh}
        /\ \A b \in DOMAIN heap \ {c.fresh} : heap'[b] = heap[b]
    BY <1>7 DEF Build, Without
  <2>2. /\ call'[t] = Idle /\ \A u \in Thread : u # t => call'[u] = call[u]
        /\ call' = [u \in Thread |-> call'[u]]
    BY <1>7 DEF Build, LogInv, LogType
  <2>3. LogType'
    BY <1>1, <2>1, <2>2 DEF LogInv, LogType
  <2>4. Holds(t)' = Null /\ \A u \in Thread : u # t => Holds(u)' = Holds(u)
    BY <2>2 DEF Holds, Idle
  <2>5. Exclusive'
    BY <1>1, <1>2, <2>1, <2>4 DEF LogInv, Exclusive
  <2>6. \A u \in Thread : Uses(call'[u]) => u # t /\ Uses(call[u])
    BY <2>2 DEF Uses, Idle
  <2>7. SnapshotsHold'
    BY <1>1, <1>3, <2>1, <2>2, <2>6 DEF LogInv, SnapshotsHold
  <2>8. InReach'
    <3>1. \A v \in Thread : call[v].at = "retire" => call'[v] = call[v]
      BY <1>1, <2>2
    <3> QED
      BY <1>1, <1>5, <2>2, <2>6, <3>1 DEF LogInv, InReach
  <2>9. Built'
    BY <1>4, <2>1, <2>2, HeldLists DEF LogInv, Built, Idle, Exclusive
  <2> QED
    BY <1>6, <2>1, <2>3, <2>5, <2>7, <2>8, <2>9 DEF LogInv
<1>8. CASE ~(c.op = "remove" /\ c.old = Null)
  <2>1. /\ DOMAIN heap' = DOMAIN heap
        /\ \A b \in DOMAIN heap \ {c.fresh} : heap'[b] = heap[b]
        /\ heap'[c.fresh] = Edited(c.op, c.sink, ListAt(c.old))
    BY <1>2, <1>8 DEF Build, With
  <2>2. /\ call'[t] = [c EXCEPT !.at = "swap"] /\ \A u \in Thread : u # t => call'[u] = call[u]
        /\ call' = [u \in Thread |-> call'[u]]
    BY <1>8 DEF Build, LogInv, LogType
  <2>3. /\ call'[t].at = "swap" /\ call'[t].fresh = c.fresh /\ call'[t].old = c.old
        /\ call'[t].op = c.op /\ call'[t].sink = c.sink /\ call'[t].seen = c.seen
        /\ call'[t].age = c.age /\ call'[t] \in Writing(call'[t].seen)
    BY <1>1, <2>2 DEF Writing
  <2>4. LogType'
    BY <1>1, <2>1, <2>2, <2>3 DEF LogInv, LogType
  <2>5. \A u \in Thread : Holds(u)' = Holds(u) /\ Uses(call'[u]) = Uses(call[u])
                          /\ call'[u].old = call[u].old /\ call'[u].seen = call[u].seen
                          /\ call'[u].age = call[u].age
    BY <1>1, <2>2, <2>3 DEF Holds, Uses
  <2>6. Exclusive'
    BY <1>1, <2>1, <2>5 DEF LogInv, Exclusive
  <2>7. SnapshotsHold'
    BY <1>3, <2>1, <2>5 DEF LogInv, SnapshotsHold
  <2>8. InReach'
    <3>1. \A v \in Thread : call[v].at = "retire" => call'[v] = call[v]
      BY <1>1, <2>2
    <3> QED
      BY <1>1, <1>5, <2>5, <3>1 DEF LogInv, InReach
  <2>9. ListAt(c.old) = c.seen
    BY <1>1 DEF LogInv, Built, SnapshotsHold, Uses, ListAt
  <2>10. Built'
    BY <1>1, <1>4, <1>8, <2>1, <2>2, <2>3, <2>9, HeldLists DEF LogInv, Built, Exclusive, Writing
  <2> QED
    BY <1>6, <2>1, <2>4, <2>6, <2>7, <2>8, <2>10 DEF LogInv
<1> QED
  BY <1>7, <1>8

LEMMA RebuiltCall ==
    ASSUME NEW c, c \in Writing(c.seen), current \in Addr \cup {Null}
    PROVE  /\ Rebuilt(c).at = "build" /\ Rebuilt(c).fresh = c.fresh
           /\ Rebuilt(c).old = current /\ Rebuilt(c).seen = ListAt(current)
           /\ Rebuilt(c).age = 0 /\ Rebuilt(c) \in Writing(Rebuilt(c).seen)
BY DEF Rebuilt, Writing

\* A swap that finds the loaded list still current puts in what was built from it,
\* and passes the loaded one on to be retired.
LEMMA SwapKeeps ==
    ASSUME LogInv, NEW t \in Thread, Swap(t)
    PROVE  /\ LogInv'
           /\ \/ UNCHANGED ListAt(current)
              \/ \E s \in Sink : Registry!Add(s) \/ Registry!Remove(s)
<1> DEFINE c == call[t]
<1>1. /\ c.at = "swap" /\ c \in Writing(c.seen) /\ c.fresh \in Addr
      /\ c.old \in Addr \cup {Null} /\ c.sink \in Sink /\ c.op \in {"add", "remove"}
      /\ UNCHANGED <<heap, retired, head>>
  BY DEF Swap, LogInv, LogType, Idle, Writing, Walking, Retiring
<1>2. Holds(t) = c.fresh /\ c.fresh # Null /\ c.fresh # current /\ c.fresh \in DOMAIN heap
  BY <1>1, HeldLists DEF LogInv, Exclusive
<1>3. \A i \in Place : Since(i)' = Since(i)
  BY <1>1 DEF Since
<1>4. CASE /\ current = c.old /\ current' = c.fresh
           /\ call' = [call EXCEPT ![t] = [at |-> "retire", old |-> c.old]]
  <2>1. /\ current' = c.fresh /\ call'[t] = [at |-> "retire", old |-> current]
        /\ call'[t].at = "retire" /\ call'[t].old = current /\ call'[t] \in Retiring
        /\ \A u \in Thread : u # t => call'[u] = call[u]
        /\ call' = [u \in Thread |-> call'[u]]
    BY <1>1, <1>4 DEF LogInv, LogType, Retiring
  <2>2. LogType'
    BY <1>1, <2>1 DEF LogInv, LogType
  <2>3. Holds(t)' = current /\ \A u \in Thread : u # t => Holds(u)' = Holds(u)
    BY <2>1 DEF Holds
  <2>4. Exclusive'
    BY <1>1, <1>2, <2>1, <2>3 DEF LogInv, Exclusive
  <2>5. \A u \in Thread : Uses(call'[u]) => u # t /\ Uses(call[u])
    BY <2>1 DEF Uses
  <2>6. SnapshotsHold'
    BY <1>1, <2>1, <2>5 DEF LogInv, SnapshotsHold
  <2>7. InReach'
    <3>1. \A v \in Thread : call[v].at = "retire" => call'[v] = call[v]
      BY <1>1, <2>1
    <3> QED
      BY <1>1, <1>3, <2>1, <2>5, <3>1 DEF LogInv, InReach
  <2>8. Built'
    BY <1>1, <2>1 DEF LogInv, Built
  <2>9. ListAt(current) = c.seen
    BY <1>1, <1>4 DEF LogInv, Built, SnapshotsHold, Uses, ListAt
  <2>10. ListAt(current)' = Edited(c.op, c.sink, ListAt(current))
    BY <1>1, <1>2, <2>1, <2>9 DEF LogInv, Built, ListAt
  <2>11. Registry!Add(c.sink) \/ Registry!Remove(c.sink)
    BY <1>1, <2>10 DEF Edited, Registry!Add, Registry!Remove
  <2> QED
    BY <1>1, <2>2, <2>4, <2>6, <2>7, <2>8, <2>11 DEF LogInv
<1>5. CASE call' = [call EXCEPT ![t] = Rebuilt(@)] /\ UNCHANGED current
  <2>1. /\ UNCHANGED current /\ call'[t] = Rebuilt(c)
        /\ \A u \in Thread : u # t => call'[u] = call[u]
        /\ call' = [u \in Thread |-> call'[u]]
    BY <1>5 DEF LogInv, LogType
  <2>2. /\ call'[t].at = "build" /\ call'[t].fresh = c.fresh /\ call'[t].old = current
        /\ call'[t].seen = ListAt(current) /\ call'[t].age = 0
        /\ call'[t] \in Writing(call'[t].seen)
    BY <1>1, <2>1, RebuiltCall DEF LogInv, LogType
  <2>3. LogType'
    BY <1>1, <2>1, <2>2 DEF LogInv, LogType
  <2>4. \A u \in Thread : Holds(u)' = Holds(u)
    BY <1>1, <2>1, <2>2 DEF Holds
  <2>5. Exclusive'
    BY <1>1, <2>1, <2>4 DEF LogInv, Exclusive
  <2>6. \A u \in Thread : u # t => Uses(call'[u]) = Uses(call[u])
    BY <2>1
  <2>7. SnapshotsHold'
    <3>1. current # Null => current \in DOMAIN heap /\ heap[current] = ListAt(current)
      BY DEF LogInv, Exclusive, ListAt
    <3> QED
      BY <1>1, <2>1, <2>2, <2>6, <3>1 DEF LogInv, SnapshotsHold, Uses
  <2>8. InReach'
    <3>1. \A v \in Thread : call[v].at = "retire" => call'[v] = call[v]
      BY <1>1, <2>1
    <3> QED
      BY <1>1, <1>3, <2>1, <2>2, <2>6, <3>1 DEF LogInv, InReach
  <2>9. Built'
    BY <1>1, <2>1, <2>2 DEF LogInv, Built, ListAt
  <2>10. UNCHANGED ListAt(current)
    BY <1>1, <2>1 DEF ListAt
  <2> QED
    BY <2>3, <2>5, <2>7, <2>8, <2>9, <2>10 DEF LogInv
<1> QED
  BY <1>4, <1>5 DEF Swap

LEMMA RemoveAllKeeps ==
    ASSUME LogInv, NEW t \in Thread, RemoveAll(t)
    PROVE  LogInv' /\ Registry!RemoveAll
<1>1. /\ call[t] = Idle /\ current' = Null /\ UNCHANGED <<heap, retired, head>>
      /\ call'[t] = [at |-> "retire", old |-> current]
      /\ call'[t].at = "retire" /\ call'[t].old = current /\ call'[t] \in Retiring
      /\ \A u \in Thread : u # t => call'[u] = call[u]
      /\ call' = [u \in Thread |-> call'[u]]
  BY DEF RemoveAll, LogInv, LogType, Retiring
<1>2. LogType'
  BY <1>1 DEF LogInv, LogType
<1>3. /\ Holds(t) = Null /\ Holds(t)' = current
      /\ \A u \in Thread : u # t => Holds(u)' = Holds(u)
  BY <1>1 DEF Holds, Idle
<1>4. Exclusive'
  BY <1>1, <1>3 DEF LogInv, Exclusive
<1>5. \A u \in Thread : Uses(call'[u]) => u # t /\ Uses(call[u])
  BY <1>1 DEF Uses
<1>6. SnapshotsHold'
  BY <1>1, <1>5 DEF LogInv, SnapshotsHold
<1>7. InReach'
  <2>1. \A v \in Thread : call[v].at = "retire" => call'[v] = call[v]
    BY <1>1 DEF Idle
  <2>2. \A i \in Place : Since(i)' = Since(i)
    BY <1>1 DEF Since
  <2> QED
    BY <1>1, <1>5, <2>1, <2>2 DEF LogInv, InReach
<1>8. Built'
  BY <1>1 DEF LogInv, Built
<1> QED
  BY <1>1, <1>2, <1>4, <1>6, <1>7, <1>8 DEF LogInv, Registry!RemoveAll, ListAt

\* The list the ring evicts was retired Depth retirements ago: nobody uses it.
LEMMA RetireKeeps ==
    ASSUME LogInv, NEW t \in Thread, Retire(t)
    PROVE  LogInv' /\ UNCHANGED ListAt(current)
<1> DEFINE old == call[t].old
           gone == retired[head]
<1>1. /\ call[t].at = "retire" /\ old # Null /\ old \in Addr /\ UNCHANGED current
      /\ head \in Place /\ head' = (head + 1) % Depth
      /\ DOMAIN heap' = DOMAIN heap \ {gone}
      /\ \A b \in DOMAIN heap \ {gone} : heap'[b] = heap[b]
      /\ retired' \in [Place -> Addr \cup {Null}]
      /\ retired'[head] = old /\ \A i \in Place : i # head => retired'[i] = retired[i]
  BY DEF Retire, Evicted, Without, LogInv, LogType, Idle, Writing, Walking, Retiring
<1>2. /\ call' = [u \in Thread |-> call'[u]] /\ DOMAIN call' = Thread
      /\ call'[t] = Idle
      /\ \A u \in Thread : u # t /\ ~Uses(call[u]) => call'[u] = call[u]
      /\ \A u \in Thread : u # t /\ Uses(call[u]) =>
            call'[u] = [call[u] EXCEPT !.age = @ + 1] /\ call[u].age < Depth
  BY <1>1 DEF Retire, Uses
<1>3. \A u \in Thread : u # t => 
        /\ call'[u].at = call[u].at
        /\ call[u].at \in {"build", "swap"} =>
              call'[u].fresh = call[u].fresh /\ call'[u].op = call[u].op
              /\ call'[u].sink = call[u].sink
        /\ call[u].at # "idle" => call'[u].old = call[u].old
        /\ call[u].at \in {"build", "swap", "walk"} => call'[u].seen = call[u].seen
        /\ Uses(call[u]) => call'[u].age = call[u].age + 1 /\ call[u].age < Depth
        /\ \/ call'[u] = Idle \/ call'[u] \in Retiring
           \/ call'[u] \in Writing(call'[u].seen) \/ call'[u] \in Walking(call'[u].seen)
  <2> SUFFICES ASSUME NEW u \in Thread, u # t
               PROVE  <1>3!(u)!2
    OBVIOUS
  <2>1. CASE ~Uses(call[u])
    BY <1>2, <2>1 DEF LogInv, LogType
  <2>2. CASE Uses(call[u]) /\ call[u] \in Writing(call[u].seen)
    <3>1. call'[u] = [call[u] EXCEPT !.age = @ + 1] /\ call[u].age < Depth
      BY <1>2, <2>2
    <3> QED
      BY <2>2, <3>1 DEF Writing
  <2>3. CASE Uses(call[u]) /\ call[u] \in Walking(call[u].seen)
    <3>1. call'[u] = [call[u] EXCEPT !.age = @ + 1] /\ call[u].age < Depth
      BY <1>2, <2>3
    <3> QED
      BY <2>3, <3>1 DEF Walking
  <2> QED
    BY <2>1, <2>2, <2>3 DEF LogInv, LogType, Uses, Idle, Retiring
<1>4. /\ head' \in Place /\ Since(head) = Depth
      /\ \A i \in Place : Since(i)' = IF i = head THEN 1 ELSE Since(i) + 1
  BY <1>1, SinceNext
<1>5. LogType'
  BY <1>1, <1>2, <1>3, <1>4 DEF LogInv, LogType
<1>6. Holds(t) = old /\ Holds(t)' = Null /\ \A u \in Thread : u # t => Holds(u)' = Holds(u)
  <2>1. \A u \in Thread : u # t => Holds(u)' = Holds(u)
    BY <1>3 DEF Holds
  <2> QED
    BY <1>1, <1>2, <2>1 DEF Holds, Idle
<1>7. \A i \in Place : retired[i] # old
  BY <1>1, <1>6 DEF LogInv, Exclusive
<1>8. gone \notin {old, current} \/ gone = Null
  BY <1>1, <1>7 DEF LogInv, Exclusive
<1>9. Exclusive'
  <2>1. current' # Null => current' \in DOMAIN heap'
    BY <1>1, <1>8 DEF LogInv, Exclusive
  <2>2. \A i \in Place : retired'[i] # Null =>
          /\ retired'[i] \in DOMAIN heap' /\ retired'[i] # current'
          /\ \A j \in Place : retired'[j] = retired'[i] => j = i
    <3> SUFFICES ASSUME NEW i \in Place, retired'[i] # Null
                 PROVE  <2>2!(i)!2
      OBVIOUS
    <3>1. CASE i = head
      BY <1>1, <1>6, <1>7, <3>1 DEF LogInv, Exclusive
    <3>2. CASE i # head
      BY <1>1, <1>7, <3>2 DEF LogInv, Exclusive
    <3> QED
      BY <3>1, <3>2
  <2>3. \A u \in Thread : Holds(u)' # Null =>
          /\ Holds(u)' \in DOMAIN heap' /\ Holds(u)' # current'
          /\ \A i \in Place : retired'[i] # Holds(u)'
          /\ \A v \in Thread : Holds(v)' = Holds(u)' => v = u
    BY <1>1, <1>6 DEF LogInv, Exclusive
  <2> QED
    BY <2>1, <2>2, <2>3 DEF Exclusive
<1>10. \A u \in Thread : Uses(call'[u]) =>
         u # t /\ Uses(call[u]) /\ call'[u].old = call[u].old /\ call'[u].seen = call[u].seen
         /\ call'[u].age = call[u].age + 1 /\ call[u].age < Depth /\ call[u].age \in Nat
  BY <1>2, <1>3 DEF Uses, Idle, LogInv, LogType, Writing, Walking, Retiring
<1>11. \A u \in Thread : Uses(call[u]) => call[u].old # gone
         \/ ~Uses(call'[u])
  <2> SUFFICES ASSUME NEW u \in Thread, Uses(call[u]), Uses(call'[u]), call[u].old = gone
               PROVE  FALSE
    OBVIOUS
  <2>1. gone # Null /\ call[u].age < Depth
    BY <1>10 DEF Uses
  <2>2. CASE call[u].old = current
    BY <1>8, <2>1, <2>2
  <2>3. ASSUME NEW v \in Thread, call[v].at = "retire", call[v].old = call[u].old PROVE FALSE
    <3>1. Holds(v) = gone
      BY <2>3 DEF Holds
    <3> QED
      BY <1>1, <2>1, <3>1 DEF LogInv, Exclusive
  <2>4. ASSUME NEW i \in Place, retired[i] = call[u].old, Since(i) <= call[u].age PROVE FALSE
    <3>1. i = head
      BY <1>1, <2>1, <2>4 DEF LogInv, Exclusive
    <3> QED
      BY <1>4, <1>10, <2>1, <2>4, <3>1, DepthAssumption
  <2> QED
    BY <2>2, <2>3, <2>4 DEF LogInv, InReach
<1>12. SnapshotsHold'
  BY <1>1, <1>10, <1>11 DEF LogInv, SnapshotsHold
<1>13. InReach'
  <2> SUFFICES ASSUME NEW u \in Thread, Uses(call'[u])
               PROVE  \/ call'[u].old = current'
                      \/ \E v \in Thread : call'[v].at = "retire" /\ call'[v].old = call'[u].old
                      \/ \E i \in Place : retired'[i] = call'[u].old /\ Since(i)' <= call'[u].age
    BY DEF InReach
  <2>1. /\ u # t /\ Uses(call[u]) /\ call'[u].old = call[u].old /\ call[u].old # gone
        /\ call'[u].age = call[u].age + 1 /\ call[u].age \in Nat
    BY <1>10, <1>11
  <2>2. CASE call[u].old = current
    BY <1>1, <2>1, <2>2
  <2>3. ASSUME NEW v \in Thread, call[v].at = "retire", call[v].old = call[u].old
        PROVE  \/ \E w \in Thread : call'[w].at = "retire" /\ call'[w].old = call'[u].old
               \/ \E i \in Place : retired'[i] = call'[u].old /\ Since(i)' <= call'[u].age
    <3>1. CASE v = t
      BY <1>1, <1>4, <2>1, <2>3, <3>1
    <3>2. CASE v # t
      BY <1>3, <2>1, <2>3, <3>2
    <3> QED
      BY <3>1, <3>2
  <2>4. ASSUME NEW i \in Place, retired[i] = call[u].old, Since(i) <= call[u].age
        PROVE  retired'[i] = call'[u].old /\ Since(i)' <= call'[u].age
    <3>1. i # head /\ Since(i) \in Int
      BY <1>1, <2>1, <2>4, DepthAssumption DEF Since, Place
    <3> QED
      BY <1>1, <1>4, <2>1, <2>4, <3>1
  <2> QED
    BY <2>1, <2>2, <2>3, <2>4 DEF LogInv, InReach
<1>14. Built'
  <2> SUFFICES ASSUME NEW u \in Thread
               PROVE  /\ call'[u].at \in {"build", "swap"} /\ call'[u].old = Null
                            => call'[u].seen = <<>>
                      /\ call'[u].at = "swap" =>
                            /\ heap'[call'[u].fresh]
                                 = Edited(call'[u].op, call'[u].sink, call'[u].seen)
                            /\ call'[u].op = "remove" => call'[u].old # Null
    BY DEF Built
  <2>1. CASE u = t
    BY <1>2, <2>1 DEF Idle
  <2>2. CASE u # t
    <3>1. call[u].at = "swap" => call[u].fresh \in DOMAIN heap \ {gone}
      BY <1>1, HeldLists DEF LogInv, Exclusive
    <3> QED
      BY <1>1, <1>3, <2>2, <3>1 DEF LogInv, Built
  <2> QED
    BY <2>1, <2>2
<1>15. UNCHANGED ListAt(current)
  BY <1>1, <1>8 DEF LogInv, Exclusive, ListAt
<1> QED
  BY <1>5, <1>9, <1>12, <1>13, <1>14, <1>15 DEF LogInv

\* A call that has nothing in its hands may end.
LEMMA EndingKeeps ==
    ASSUME LogInv, NEW t \in Thread, Holds(t) = Null,
           call[t].at = "walk" \/ (call[t].at = "retire" /\ call[t].old = Null),
           call' = [call EXCEPT ![t] = Idle], UNCHANGED registry
    PROVE  LogInv' /\ UNCHANGED ListAt(current)
<1>1. /\ UNCHANGED <<current, heap, retired, head>> /\ call'[t] = Idle
      /\ \A u \in Thread : u # t => call'[u] = call[u]
      /\ call' = [u \in Thread |-> call'[u]]
  BY DEF registry, LogInv, LogType
<1>2. LogType'
  BY <1>1 DEF LogInv, LogType
<1>3. Holds(t)' = Null /\ \A u \in Thread : Holds(u)' = Holds(u)
  BY <1>1 DEF Holds, Idle
<1>4. Exclusive'
  BY <1>1, <1>3 DEF LogInv, Exclusive
<1>5. \A u \in Thread : Uses(call'[u]) => u # t /\ Uses(call[u])
  BY <1>1 DEF Uses, Idle
<1>6. SnapshotsHold'
  BY <1>1, <1>5 DEF LogInv, SnapshotsHold
<1>7. InReach'
  <2>1. \A u \in Thread : Uses(call[u]) => call[u].old # Null
    BY DEF Uses
  <2>2. \A v \in Thread : call[v].at = "retire" => call'[v] = call[v] \/ call[v].old = Null
    BY <1>1
  <2>3. \A i \in Place : Since(i)' = Since(i)
    BY <1>1 DEF Since
  <2> QED
    BY <1>1, <1>5, <2>1, <2>2, <2>3 DEF LogInv, InReach
<1>8. Built'
  BY <1>1 DEF LogInv, Built, Idle
<1>9. UNCHANGED ListAt(current)
  BY <1>1 DEF ListAt
<1> QED
  BY <1>2, <1>4, <1>6, <1>7, <1>8, <1>9 DEF LogInv

LEMMA RetireNothingKeeps ==
    ASSUME LogInv, NEW t \in Thread, RetireNothing(t)
    PROVE  LogInv' /\ UNCHANGED ListAt(current)
BY EndingKeeps DEF RetireNothing, Holds

LEMMA WalkEndsKeeps ==
    ASSUME LogInv, NEW t \in Thread, WalkEnds(t)
    PROVE  LogInv' /\ UNCHANGED ListAt(current)
BY EndingKeeps DEF WalkEnds, Holds

LEMMA EmitKeeps ==
    ASSUME LogInv, NEW t \in Thread, Emit(t)
    PROVE  LogInv' /\ UNCHANGED ListAt(current)
<1>1. /\ UNCHANGED <<current, heap, retired, head>> /\ call[t] = Idle /\ current # Null
      /\ call'[t] = [at |-> "walk", old |-> current, seen |-> ListAt(current), age |-> 0,
                     next |-> 1]
      /\ \A u \in Thread : u # t => call'[u] = call[u]
      /\ call' = [u \in Thread |-> call'[u]]
  BY DEF Emit, Loaded, registry, LogInv, LogType
<1>2. /\ call'[t].at = "walk" /\ call'[t].old = current /\ call'[t].seen = ListAt(current)
      /\ call'[t] \in Walking(call'[t].seen)
  BY <1>1 DEF Walking, LogInv, LogType
<1>3. LogType'
  BY <1>1, <1>2 DEF LogInv, LogType
<1>4. \A u \in Thread : Holds(u)' = Holds(u)
  BY <1>1, <1>2 DEF Holds, Idle
<1>5. Exclusive'
  BY <1>1, <1>4 DEF LogInv, Exclusive
<1>6. \A u \in Thread : u # t => Uses(call'[u]) = Uses(call[u])
  BY <1>1
<1>7. SnapshotsHold'
  BY <1>1, <1>2, <1>6 DEF LogInv, SnapshotsHold, Exclusive, ListAt
<1>8. InReach'
  <2>1. \A v \in Thread : call[v].at = "retire" => call'[v] = call[v]
    BY <1>1 DEF Idle
  <2>2. \A i \in Place : Since(i)' = Since(i)
    BY <1>1 DEF Since
  <2> QED
    BY <1>1, <1>2, <1>6, <2>1, <2>2 DEF LogInv, InReach
<1>9. Built'
  BY <1>1, <1>2 DEF LogInv, Built
<1>10. UNCHANGED ListAt(current)
  BY <1>1 DEF ListAt
<1> QED
  BY <1>3, <1>5, <1>7, <1>8, <1>9, <1>10 DEF LogInv

LEMMA SinkReturnsKeeps ==
    ASSUME LogInv, NEW t \in Thread, call[t].at = "walk", SinkReturns(t)
    PROVE  LogInv' /\ UNCHANGED ListAt(current)
<1>1. /\ UNCHANGED <<current, heap, retired, head>>
      /\ call'[t] = [call[t] EXCEPT !.next = @ + 1]
      /\ \A u \in Thread : u # t => call'[u] = call[u]
      /\ call' = [u \in Thread |-> call'[u]]
      /\ call[t] \in Walking(call[t].seen)
  BY DEF SinkReturns, registry, LogInv, LogType, Idle, Writing, Retiring
<1>2. /\ call'[t].at = "walk" /\ call'[t].old = call[t].old /\ call'[t].seen = call[t].seen
      /\ call'[t].age = call[t].age /\ call'[t] \in Walking(call'[t].seen)
  BY <1>1 DEF Walking
<1>3. LogType'
  BY <1>1, <1>2 DEF LogInv, LogType
<1>4. \A u \in Thread : Holds(u)' = Holds(u)
  BY <1>1, <1>2 DEF Holds
<1>5. Exclusive'
  BY <1>1, <1>4 DEF LogInv, Exclusive
<1>6. \A u \in Thread : /\ Uses(call'[u]) = Uses(call[u]) /\ call'[u].old = call[u].old
                        /\ call'[u].seen = call[u].seen /\ call'[u].age = call[u].age
  BY <1>1, <1>2 DEF Uses
<1>7. SnapshotsHold'
  BY <1>1, <1>6 DEF LogInv, SnapshotsHold
<1>8. InReach'
  <2>1. \A v \in Thread : call[v].at = "retire" => call'[v] = call[v]
    BY <1>1
  <2>2. \A i \in Place : Since(i)' = Since(i)
    BY <1>1 DEF Since
  <2> QED
    BY <1>1, <1>6, <2>1, <2>2 DEF LogInv, InReach
<1>9. Built'
  BY <1>1, <1>2 DEF LogInv, Built
<1>10. UNCHANGED ListAt(current)
  BY <1>1 DEF ListAt
<1> QED
  BY <1>3, <1>5, <1>7, <1>8, <1>9, <1>10 DEF LogInv

\* A step of the recorder alone touches no list.
LEMMA StutterKeeps ==
    ASSUME LogInv, UNCHANGED logging
    PROVE  LogInv' /\ UNCHANGED ListAt(current)
<1>1. UNCHANGED <<current, heap, retired, head, call>>
  BY DEF logging, registry
<1>2. LogType'
  BY <1>1 DEF LogInv, LogType
<1>3. \A u \in Thread : Holds(u)' = Holds(u)
  BY <1>1 DEF Holds
<1>4. Exclusive'
  BY <1>1, <1>3 DEF LogInv, Exclusive
<1>5. SnapshotsHold'
  BY <1>1 DEF LogInv, SnapshotsHold
<1>6. InReach'
  <2>1. \A i \in Place : Since(i)' = Since(i)
    BY <1>1 DEF Since
  <2> QED
    BY <1>1, <2>1 DEF LogInv, InReach
<1>7. Built'
  BY <1>1 DEF LogInv, Built
<1> QED
  BY <1>1, <1>2, <1>4, <1>5, <1>6, <1>7 DEF LogInv, ListAt

\* Every step of the recorder and the log keeps the lists in order, and changes the
\* current one, if at all, as one call of the registry would.
LEMMA LogKept ==
    ASSUME LogInv, [Next]_vars
    PROVE  LogInv' /\ (Registry!Next \/ UNCHANGED ListAt(current))
<1>1. CASE UNCHANGED vars
  BY <1>1, StutterKeeps DEF vars
<1>2. CASE Dumping
  BY <1>2, StutterKeeps DEF Dumping, DumpBegin, DumpLook, DumpRead, DumpNext, DumpEnds
<1>3. ASSUME NEW t \in Thread, Recording(t)
      PROVE  LogInv' /\ UNCHANGED ListAt(current)
  <2>1. CASE TakeTicket(t)
    BY <2>1, StutterKeeps DEF TakeTicket
  <2>2. ASSUME NEW p \in Field, WritePart(t, p) PROVE LogInv' /\ UNCHANGED ListAt(current)
    BY <2>2, StutterKeeps DEF WritePart
  <2>3. CASE RecordReturns(t)
    <3>1. CASE Tapped(t)
      <4>1. call[t].at = "walk" /\ SinkReturns(t)
        BY <2>3, <3>1 DEF RecordReturns, Tapped
      <4> QED
        BY <4>1, SinkReturnsKeeps
    <3>2. CASE ~Tapped(t)
      <4>1. UNCHANGED logging
        BY <2>3, <3>2 DEF RecordReturns
      <4> QED
        BY <4>1, StutterKeeps
    <3> QED
      BY <3>1, <3>2
  <2> QED
    BY <1>3, <2>1, <2>2, <2>3 DEF Recording
<1>4. ASSUME NEW t \in Thread, Logging(t)
      PROVE  LogInv' /\ (Registry!Next \/ UNCHANGED ListAt(current))
  <2>1. ASSUME NEW s \in Sink, Update(t, "add", s) \/ Update(t, "remove", s)
        PROVE  LogInv' /\ UNCHANGED ListAt(current)
    <3>1. CASE Update(t, "add", s)
      BY <3>1, UpdateKeeps
    <3>2. CASE Update(t, "remove", s)
      BY <3>2, UpdateKeeps
    <3> QED
      BY <2>1, <3>1, <3>2
  <2>2. CASE Build(t)
    BY <2>2, BuildKeeps
  <2>3. CASE Swap(t)
    BY <2>3, SwapKeeps DEF Registry!Next
  <2>4. CASE RemoveAll(t)
    BY <2>4, RemoveAllKeeps DEF Registry!Next
  <2>5. CASE Retire(t)
    BY <2>5, RetireKeeps
  <2>6. CASE RetireNothing(t)
    BY <2>6, RetireNothingKeeps
  <2>7. CASE Emit(t)
    BY <2>7, EmitKeeps
  <2>8. CASE WalkEnds(t)
    BY <2>8, WalkEndsKeeps
  <2>9. CASE call[t].at = "walk" /\ SinkReturns(t)
    BY <2>9, SinkReturnsKeeps
  <2> QED
    BY <1>4, <2>1, <2>2, <2>3, <2>4, <2>5, <2>6, <2>7, <2>8, <2>9 DEF Logging, Registering
<1> QED
  BY <1>1, <1>2, <1>3, <1>4 DEF Next

-----------------------------------------------------------------------------
\* The events.

LEMMA EventParts ==
    ASSUME NEW n
    PROVE  /\ DOMAIN Event(n) = Field /\ Event(n) = [p \in Field |-> Event(n)[p]]
           /\ "seq" \in Field /\ Event(n)["seq"] = n + 1
           /\ \A p \in Part : p \in Field /\ p # "seq" /\ Event(n)[p] = n
BY DEF Event, Field, Part

LEMMA SlotRange == ASSUME NEW n \in Int PROVE SlotOf(n) \in 0 .. Capacity - 1
BY ModRange, RingAssumption DEF SlotOf

\* Two tickets of one lap that share a slot are one.
LEMMA SlotsApart ==
    ASSUME NEW n \in Nat, NEW m \in Nat, SlotOf(n) = SlotOf(m),
           n < writeSeq, m < writeSeq, writeSeq \in Nat,
           writeSeq <= n + Capacity, writeSeq <= m + Capacity
    PROVE  n = m
<1>1. n < m + Capacity /\ m < n + Capacity
  BY RingAssumption
<1> QED
  BY <1>1, SameLap, RingAssumption DEF SlotOf

LEMMA RecInitHolds == ASSUME Init PROVE RecInv
<1> USE DEF Init
<1>1. \A t \in Thread : record[t] = None
  OBVIOUS
<1>2. None.ticket = -1 /\ None.todo = {}
  BY DEF None
<1>3. RecType
  <2>1. \A i \in 0 .. Capacity - 1 : ring[i] = Event(-1)
    BY DEF Empty
  <2>2. Event(-1) \in [Field -> -1 .. MaxEvents]
    BY RingAssumption DEF Event, Field, Part
  <2>3. ring \in [0 .. Capacity - 1 -> [Field -> -1 .. MaxEvents]]
    BY <2>2 DEF Empty
  <2>4. \A i \in 0 .. Capacity - 1 :
          ring[i].seq \in 0 .. writeSeq /\ \A p \in Part : ring[i][p] \in -1 .. MaxEvents - 1
    BY <2>1, EventParts, RingAssumption
  <2> QED
    BY <2>3, <2>4, RingAssumption DEF RecType
<1>4. Tickets /\ Unpublished /\ Dumped
  BY <1>1, <1>2 DEF Tickets, Unpublished, Dumped
<1>5. Written
  BY DEF Written
<1> QED
  BY <1>3, <1>4, <1>5 DEF RecInv

\* What a thread records, taken apart.
LEMMA Recorder ==
    ASSUME RecInv, NEW t \in Thread
    PROVE  /\ record[t] = None => record[t].ticket = -1 /\ record[t].todo = {}
           /\ record[t] # None =>
                /\ record[t] \in [ticket : 0 .. MaxEvents - 1, todo : SUBSET Field]
                /\ record[t].ticket \in Nat
                /\ record[t].ticket < writeSeq /\ writeSeq <= record[t].ticket + Capacity
BY RingAssumption DEF RecInv, RecType, Tickets, None

\* A ticket is above all others and in no slot yet.
LEMMA TakeTicketKeeps ==
    ASSUME RecInv, NEW t \in Thread, TakeTicket(t)
    PROVE  RecInv'
<1>1. /\ record[t] = None /\ writeSeq < MaxEvents /\ writeSeq' = writeSeq + 1
      /\ \A u \in Thread : record[u] # None => writeSeq < record[u].ticket + Capacity
      /\ UNCHANGED <<ring, dump>> /\ writeSeq \in Nat
      /\ record' = [record EXCEPT ![t] = [ticket |-> writeSeq, todo |-> Field]]
  BY RingAssumption DEF TakeTicket, RecInv, RecType
<1>2. /\ record'[t] = [ticket |-> writeSeq, todo |-> Field]
      /\ record'[t].ticket = writeSeq /\ record'[t].todo = Field
      /\ \A u \in Thread : u # t => record'[u] = record[u]
  BY <1>1 DEF RecInv, RecType
<1>3. RecType'
  <2>1. record'[t] \in [ticket : 0 .. MaxEvents - 1, todo : SUBSET Field]
    BY <1>1, <1>2, RingAssumption
  <2>2. record' \in [Thread -> {None} \cup [ticket : 0 .. MaxEvents - 1, todo : SUBSET Field]]
    BY <1>1, <2>1, <1>2 DEF RecInv, RecType
  <2>3. writeSeq' \in 0 .. MaxEvents
    BY <1>1, RingAssumption
  <2> QED
    BY <1>1, <2>2, <2>3 DEF RecInv, RecType
<1>4. \A u \in Thread : u # t => record[u].ticket < writeSeq
  BY <1>1, Recorder
<1>5. Tickets'
  BY <1>1, <1>2, <1>4, RingAssumption, Recorder DEF RecInv, Tickets
<1>6. Written'
  <2> SUFFICES ASSUME NEW n \in 0 .. writeSeq, writeSeq + 1 <= n + Capacity, NEW p \in Field
               PROVE  \/ ring[SlotOf(n)][p] = Event(n)[p]
                      \/ \E u \in Thread : record'[u].ticket = n /\ p \in record'[u].todo
    BY <1>1 DEF Written, SlotOf, Event
  <2>1. CASE n = writeSeq
    BY <1>2, <2>1
  <2>2. CASE n # writeSeq
    <3>1. n \in 0 .. writeSeq - 1 /\ writeSeq <= n + Capacity
      BY <1>1, <2>2, RingAssumption
    <3>2. record[t].todo = {}
      BY <1>1, Recorder
    <3> QED
      BY <1>2, <3>1, <3>2 DEF RecInv, Written
  <2> QED
    BY <2>1, <2>2
<1>7. Unpublished'
  <2>1. \A i \in 0 .. Capacity - 1 : ring[i].seq # writeSeq + 1
    BY <1>1 DEF RecInv, RecType
  <2> QED
    BY <1>1, <1>2, <2>1, EventParts DEF RecInv, Unpublished
<1>8. Dumped'
  <2>1. CASE dump = Resting
    BY <1>1, <2>1 DEF Dumped
  <2>2. CASE dump \in [at : {"look"}, total : 0 .. writeSeq, ticket : Nat]
             /\ dump.ticket <= dump.total
    <3>1. dump \in [at : {"look"}, total : 0 .. writeSeq + 1, ticket : Nat]
      BY <1>1, <2>2
    <3> QED
      BY <1>1, <2>2, <3>1 DEF Dumped
  <2>3. CASE /\ dump \in [at : {"read"}, total : 0 .. writeSeq, ticket : Nat, got : {dump.got},
                          todo : SUBSET Field]
             /\ dump.ticket < dump.total /\ DOMAIN dump.got = Field \ dump.todo
             /\ writeSeq <= dump.ticket + Capacity =>
                  /\ ring[SlotOf(dump.ticket)] = Event(dump.ticket)
                  /\ \A u \in Thread : record[u].ticket = dump.ticket => record[u].todo = {}
                  /\ \A p \in Field \ dump.todo : dump.got[p] = Event(dump.ticket)[p]
    <3>1. /\ dump \in [at : {"read"}, total : 0 .. writeSeq + 1, ticket : Nat, got : {dump.got},
                       todo : SUBSET Field]
          /\ dump.ticket < writeSeq /\ dump.ticket \in Nat
      BY <1>1, <2>3
    <3>2. writeSeq + 1 <= dump.ticket + Capacity => writeSeq <= dump.ticket + Capacity
      BY <1>1, <3>1, RingAssumption
    <3>3. \A u \in Thread : record'[u].ticket = dump.ticket =>
                              u # t /\ record'[u] = record[u]
      BY <1>1, <1>2, <3>1
    <3> QED
      BY <1>1, <2>3, <3>1, <3>2, <3>3 DEF Dumped, SlotOf, Event
  <2> QED
    BY <2>1, <2>2, <2>3 DEF RecInv, Dumped
<1> QED
  BY <1>3, <1>5, <1>6, <1>7, <1>8 DEF RecInv

\* A part goes to a slot that no other event of the lap has, and the number last.
LEMMA WritePartKeeps ==
    ASSUME RecInv, NEW t \in Thread, NEW p \in Field, WritePart(t, p)
    PROVE  RecInv'
<1> DEFINE r == record[t]
           k == SlotOf(r.ticket)
<1>1. /\ p \in r.todo /\ (p = "seq" => r.todo = {"seq"})
      /\ ring' = [ring EXCEPT ![k][p] = Event(r.ticket)[p]]
      /\ record' = [record EXCEPT ![t].todo = @ \ {p}]
      /\ UNCHANGED <<writeSeq, dump>>
  BY DEF WritePart, InOrder
<1>2. /\ r # None /\ r \in [ticket : 0 .. MaxEvents - 1, todo : SUBSET Field]
      /\ r.ticket \in 0 .. MaxEvents - 1 /\ r.ticket \in Nat
      /\ r.ticket < writeSeq /\ writeSeq <= r.ticket + Capacity
      /\ writeSeq \in Nat /\ writeSeq \in 0 .. MaxEvents
  BY <1>1, Recorder, RingAssumption DEF RecInv, RecType
<1>3. k \in 0 .. Capacity - 1
  BY <1>2, SlotRange
<1>4. /\ ring'[k][p] = Event(r.ticket)[p]
      /\ \A i \in 0 .. Capacity - 1, q \in Field :
            i # k \/ q # p => ring'[i][q] = ring[i][q]
      /\ \A i \in 0 .. Capacity - 1 : i # k => ring'[i] = ring[i]
  BY <1>1, <1>3 DEF RecInv, RecType
<1>5. /\ record'[t] \in [ticket : 0 .. MaxEvents - 1, todo : SUBSET Field]
      /\ record'[t].ticket = r.ticket /\ record'[t].todo = r.todo \ {p} /\ record'[t] # None
      /\ \A u \in Thread : u # t => record'[u] = record[u]
  <2>1. record'[t] = [r EXCEPT !.todo = @ \ {p}]
    BY <1>1 DEF RecInv, RecType
  <2>2. \A u \in Thread : u # t => record'[u] = record[u]
    BY <1>1 DEF RecInv, RecType
  <2>3. /\ record'[t] \in [ticket : 0 .. MaxEvents - 1, todo : SUBSET Field]
        /\ record'[t].ticket = r.ticket /\ record'[t].todo = r.todo \ {p}
    BY <1>2, <2>1
  <2>4. record'[t] # None
    BY <1>2, <2>3 DEF None
  <2> QED
    BY <2>2, <2>3, <2>4
<1>6. Event(r.ticket)[p] \in -1 .. MaxEvents
      /\ (p = "seq" => Event(r.ticket)[p] \in 0 .. writeSeq)
      /\ (p \in Part => Event(r.ticket)[p] \in -1 .. MaxEvents - 1)
  <2>1. Event(r.ticket)[p] = IF p = "seq" THEN r.ticket + 1 ELSE r.ticket
    BY DEF Event
  <2>2. p \in Part => p # "seq"
    BY DEF Part
  <2> QED
    BY <1>2, <2>1, <2>2, RingAssumption
<1>7. RecType'
  <2>1. ring' \in [0 .. Capacity - 1 -> [Field -> -1 .. MaxEvents]]
    BY <1>1, <1>6 DEF RecInv, RecType
  <2>2. record' \in [Thread -> {None} \cup [ticket : 0 .. MaxEvents - 1, todo : SUBSET Field]]
    BY <1>1, <1>5 DEF RecInv, RecType
  <2>3. \A i \in 0 .. Capacity - 1 :
          ring'[i].seq \in 0 .. writeSeq /\ \A q \in Part : ring'[i][q] \in -1 .. MaxEvents - 1
    <3> SUFFICES ASSUME NEW i \in 0 .. Capacity - 1
                 PROVE  ring'[i].seq \in 0 .. writeSeq
                        /\ \A q \in Part : ring'[i][q] \in -1 .. MaxEvents - 1
      OBVIOUS
    <3>1. ring'[i].seq \in 0 .. writeSeq
      BY <1>4, <1>6, EventParts DEF RecInv, RecType
    <3>2. \A q \in Part : ring'[i][q] \in -1 .. MaxEvents - 1
      BY <1>4, <1>6, EventParts DEF RecInv, RecType
    <3> QED
      BY <3>1, <3>2
  <2> QED
    BY <1>1, <1>2, <2>1, <2>2, <2>3 DEF RecType
<1>8. Tickets'
  BY <1>1, <1>2, <1>5 DEF RecInv, Tickets
<1>9. Written'
  <2> SUFFICES ASSUME NEW n \in 0 .. writeSeq - 1, writeSeq <= n + Capacity, NEW q \in Field
               PROVE  \/ ring'[SlotOf(n)][q] = Event(n)[q]
                      \/ \E u \in Thread : record'[u].ticket = n /\ q \in record'[u].todo
    BY <1>1 DEF Written, SlotOf, Event
  <2>1. n \in Nat /\ n < writeSeq /\ SlotOf(n) \in 0 .. Capacity - 1
    BY <1>2, SlotRange
  <2>2. CASE SlotOf(n) = k /\ q = p
    <3>1. n = r.ticket
      BY <1>2, <2>1, <2>2, SlotsApart
    <3> QED
      BY <1>4, <2>2, <3>1
  <2>3. CASE ~(SlotOf(n) = k /\ q = p)
    <3>1. CASE ring[SlotOf(n)][q] = Event(n)[q]
      BY <1>4, <2>1, <2>3, <3>1
    <3>2. ASSUME NEW u \in Thread, record[u].ticket = n, q \in record[u].todo
          PROVE  record'[u].ticket = n /\ q \in record'[u].todo
      BY <1>5, <2>3, <3>2
    <3> QED
      BY <3>1, <3>2 DEF RecInv, Written
  <2> QED
    BY <2>2, <2>3
<1>10. Unpublished'
  <2> SUFFICES ASSUME NEW u \in Thread, record'[u].todo # {}
               PROVE  /\ "seq" \in record'[u].todo
                      /\ \A i \in 0 .. Capacity - 1 : ring'[i].seq # record'[u].ticket + 1
    BY DEF Unpublished
  <2>1. CASE u = t
    <3>1. p # "seq"
      BY <1>1, <1>5, <2>1
    <3> QED
      BY <1>1, <1>4, <1>5, <2>1, <3>1, EventParts DEF RecInv, Unpublished
  <2>2. CASE u # t
    <3>1. /\ record'[u] = record[u] /\ "seq" \in record[u].todo
          /\ \A i \in 0 .. Capacity - 1 : ring[i].seq # record[u].ticket + 1
      BY <1>5, <2>2 DEF RecInv, Unpublished
    <3>2. record[u].ticket # r.ticket /\ record[u].ticket \in Int
      BY <1>2, <2>2, <3>1, Recorder DEF RecInv, Tickets
    <3>3. Event(r.ticket)["seq"] # record[u].ticket + 1
      BY <1>2, <3>2, EventParts
    <3>4. \A i \in 0 .. Capacity - 1 : ring'[i].seq # record[u].ticket + 1
      BY <1>4, <3>1, <3>3, EventParts
    <3> QED
      BY <3>1, <3>4
  <2> QED
    BY <2>1, <2>2
<1>11. Dumped'
  <2>1. CASE dump = Resting
    BY <1>1, <2>1 DEF Dumped
  <2>2. CASE dump \in [at : {"look"}, total : 0 .. writeSeq, ticket : Nat]
             /\ dump.ticket <= dump.total
    BY <1>1, <2>2 DEF Dumped
  <2>3. CASE /\ dump \in [at : {"read"}, total : 0 .. writeSeq, ticket : Nat, got : {dump.got},
                          todo : SUBSET Field]
             /\ dump.ticket < dump.total /\ DOMAIN dump.got = Field \ dump.todo
             /\ writeSeq <= dump.ticket + Capacity =>
                  /\ ring[SlotOf(dump.ticket)] = Event(dump.ticket)
                  /\ \A u \in Thread : record[u].ticket = dump.ticket => record[u].todo = {}
                  /\ \A q \in Field \ dump.todo : dump.got[q] = Event(dump.ticket)[q]
    <3>1. dump.ticket \in Nat /\ dump.ticket < writeSeq
          /\ SlotOf(dump.ticket) \in 0 .. Capacity - 1
      BY <1>2, <2>3, SlotRange
    <3>2. ASSUME writeSeq <= dump.ticket + Capacity
          PROVE  ring'[SlotOf(dump.ticket)] = ring[SlotOf(dump.ticket)]
      <4>1. r.ticket # dump.ticket
        BY <1>1, <2>3, <3>2
      <4>2. SlotOf(dump.ticket) # k
        BY <1>2, <3>1, <3>2, <4>1, SlotsApart
      <4> QED
        BY <1>4, <3>1, <4>2
    <3>3. \A u \in Thread : /\ record'[u].ticket = record[u].ticket
                            /\ record[u].todo = {} => record'[u].todo = {}
      BY <1>5
    <3> QED
      BY <1>1, <2>3, <3>1, <3>2, <3>3 DEF Dumped, SlotOf, Event
  <2> QED
    BY <2>1, <2>2, <2>3 DEF RecInv, Dumped
<1> QED
  BY <1>7, <1>8, <1>9, <1>10, <1>11 DEF RecInv

LEMMA RecordReturnsKeeps ==
    ASSUME RecInv, NEW t \in Thread, RecordReturns(t)
    PROVE  RecInv'
<1>1. /\ record[t].todo = {} /\ record' = [record EXCEPT ![t] = None]
      /\ UNCHANGED <<writeSeq, ring, dump>>
  BY DEF RecordReturns
<1>2. /\ record'[t] = None /\ record'[t].ticket = -1 /\ record'[t].todo = {}
      /\ \A u \in Thread : u # t => record'[u] = record[u]
  BY <1>1 DEF RecInv, RecType, None
<1>3. RecType'
  BY <1>1 DEF RecInv, RecType
<1>4. Tickets'
  BY <1>1, <1>2, Recorder DEF RecInv, Tickets
<1>5. Written'
  <2> SUFFICES ASSUME NEW n \in 0 .. writeSeq - 1, writeSeq <= n + Capacity, NEW p \in Field
               PROVE  \/ ring[SlotOf(n)][p] = Event(n)[p]
                      \/ \E u \in Thread : record'[u].ticket = n /\ p \in record'[u].todo
    BY <1>1 DEF Written, SlotOf, Event
  <2> QED
    BY <1>1, <1>2 DEF RecInv, Written
<1>6. Unpublished'
  BY <1>1, <1>2 DEF RecInv, Unpublished
<1>7. Dumped'
  <2>1. \A u \in Thread : \A n \in Nat : record'[u].ticket = n => record'[u] = record[u]
    BY <1>2
  <2> QED
    BY <1>1, <2>1 DEF RecInv, Dumped, SlotOf, Event
<1> QED
  BY <1>3, <1>4, <1>5, <1>6, <1>7 DEF RecInv

\* A dump changes nothing but what it has read.
LEMMA DumpStep ==
    ASSUME RecInv, UNCHANGED <<writeSeq, ring, record>>, Dumped'
    PROVE  RecInv'
<1>1. RecType' /\ Tickets' /\ Unpublished'
  BY DEF RecInv, RecType, Tickets, Unpublished
<1>2. Written'
  BY DEF RecInv, Written, SlotOf, Event
<1> QED
  BY <1>1, <1>2 DEF RecInv

LEMMA DumpGoesOn ==
    ASSUME RecInv, dump.at \in {"look", "read"}, dump.ticket < dump.total, GoOn,
           UNCHANGED <<writeSeq, ring, record>>
    PROVE  Dumped'
<1>1. dump # Resting /\ dump.total \in 0 .. writeSeq /\ dump.ticket \in Nat /\ writeSeq \in Nat
  BY DEF RecInv, RecType, Dumped, Resting
<1>2. dump.ticket + 1 \in Nat /\ dump.ticket + 1 <= dump.total
  BY <1>1
<1>3. /\ dump' \in [at : {"look"}, total : 0 .. writeSeq, ticket : Nat]
      /\ dump'.ticket <= dump'.total
  BY <1>1, <1>2 DEF GoOn
<1> QED
  BY <1>3 DEF Dumped

\* A slot that has the number of its event has the whole event: the number came last.
LEMMA NumberedIsWhole ==
    ASSUME RecInv, NEW n \in 0 .. writeSeq - 1, writeSeq <= n + Capacity,
           ring[SlotOf(n)].seq = n + 1
    PROVE  /\ ring[SlotOf(n)] = Event(n)
           /\ \A u \in Thread : record[u].ticket = n => record[u].todo = {}
<1>1. SlotOf(n) \in 0 .. Capacity - 1
  BY SlotRange DEF RecInv, RecType
<1>2. \A u \in Thread : record[u].ticket = n => record[u].todo = {}
  BY <1>1 DEF RecInv, Unpublished
<1>3. \A p \in Field : ring[SlotOf(n)][p] = Event(n)[p]
  BY <1>2 DEF RecInv, Written
<1>4. DOMAIN ring[SlotOf(n)] = Field /\ ring[SlotOf(n)] = [p \in Field |-> ring[SlotOf(n)][p]]
  BY <1>1 DEF RecInv, RecType
<1>5. ring[SlotOf(n)] = Event(n)
  BY <1>3, <1>4, EventParts
<1> QED
  BY <1>2, <1>5

LEMMA DumpLookKeeps ==
    ASSUME RecInv, DumpLook
    PROVE  RecInv'
<1>1. /\ dump.at = "look" /\ dump.ticket < dump.total
      /\ UNCHANGED <<writeSeq, ring, record>>
  BY DEF DumpLook
<1>2. /\ dump.total \in 0 .. writeSeq /\ dump.ticket \in Nat /\ writeSeq \in Nat
      /\ dump.ticket \in 0 .. writeSeq - 1
  BY <1>1 DEF RecInv, RecType, Dumped, Resting
<1>3. CASE ring[SlotOf(dump.ticket)].seq = dump.ticket + 1
  <2>1. dump' = [at |-> "read", total |-> dump.total, ticket |-> dump.ticket,
                 got |-> <<>>, todo |-> Field]
    BY <1>1, <1>3 DEF DumpLook
  <2>2. /\ dump' \in [at : {"read"}, total : 0 .. writeSeq, ticket : Nat, got : {dump'.got},
                      todo : SUBSET Field]
        /\ dump'.ticket = dump.ticket /\ dump'.total = dump.total
        /\ dump'.got = <<>> /\ dump'.todo = Field
    BY <1>2, <2>1
  <2>3. DOMAIN <<>> = {}
    OBVIOUS
  <2>4. writeSeq <= dump.ticket + Capacity =>
          /\ ring[SlotOf(dump.ticket)] = Event(dump.ticket)
          /\ \A u \in Thread : record[u].ticket = dump.ticket => record[u].todo = {}
    BY <1>2, <1>3, NumberedIsWhole
  <2>5. Dumped'
    BY <1>1, <2>2, <2>3, <2>4 DEF Dumped, SlotOf, Event
  <2> QED
    BY <1>1, <2>5, DumpStep
<1>4. CASE ring[SlotOf(dump.ticket)].seq # dump.ticket + 1
  BY <1>1, <1>4, DumpGoesOn, DumpStep DEF DumpLook
<1> QED
  BY <1>3, <1>4

LEMMA DumpReadKeeps ==
    ASSUME RecInv, NEW p \in Field, DumpRead(p)
    PROVE  RecInv'
<1> DEFINE got == [q \in DOMAIN dump.got \cup {p} |->
                     IF q = p THEN ring[SlotOf(dump.ticket)][p] ELSE dump.got[q]]
<1>1. /\ dump.at = "read" /\ p \in dump.todo
      /\ dump' = [dump EXCEPT !.todo = @ \ {p}, !.got = got]
      /\ UNCHANGED <<writeSeq, ring, record>>
  BY DEF DumpRead
<1>2. /\ dump \in [at : {"read"}, total : 0 .. writeSeq, ticket : Nat, got : {dump.got},
                   todo : SUBSET Field]
      /\ dump.ticket < dump.total /\ DOMAIN dump.got = Field \ dump.todo
      /\ writeSeq <= dump.ticket + Capacity =>
            /\ ring[SlotOf(dump.ticket)] = Event(dump.ticket)
            /\ \A t \in Thread : record[t].ticket = dump.ticket => record[t].todo = {}
            /\ \A q \in Field \ dump.todo : dump.got[q] = Event(dump.ticket)[q]
  BY <1>1 DEF RecInv, Dumped, Resting
<1> HIDE DEF got
<1>3. /\ dump' \in [at : {"read"}, total : 0 .. writeSeq, ticket : Nat, got : {dump'.got},
                    todo : SUBSET Field]
      /\ dump'.ticket = dump.ticket /\ dump'.total = dump.total
      /\ dump'.todo = dump.todo \ {p} /\ dump'.got = got
  BY <1>1, <1>2
<1>4. /\ DOMAIN got = Field \ (dump.todo \ {p})
      /\ writeSeq <= dump.ticket + Capacity =>
            \A q \in Field \ (dump.todo \ {p}) : got[q] = Event(dump.ticket)[q]
  BY <1>2 DEF got
<1>5. Dumped'
  BY <1>1, <1>2, <1>3, <1>4 DEF Dumped, SlotOf, Event
<1> QED
  BY <1>1, <1>5, DumpStep

LEMMA DumpingKeeps ==
    ASSUME RecInv, Dumping
    PROVE  RecInv'
<1>1. CASE DumpBegin
  <2>1. writeSeq \in Nat /\ UNCHANGED <<writeSeq, ring, record>>
    BY <1>1 DEF DumpBegin, RecInv, RecType
  <2>2. /\ dump' \in [at : {"look"}, total : 0 .. writeSeq, ticket : Nat]
        /\ dump'.ticket <= dump'.total
    BY <1>1, <2>1, RingAssumption DEF DumpBegin
  <2>3. Dumped'
    BY <2>1, <2>2 DEF Dumped
  <2> QED
    BY <2>1, <2>3, DumpStep
<1>2. CASE DumpLook
  BY <1>2, DumpLookKeeps
<1>3. ASSUME NEW p \in Field, DumpRead(p) PROVE RecInv'
  BY <1>3, DumpReadKeeps
<1>4. CASE DumpNext
  <2>1. dump.at = "read" /\ GoOn /\ UNCHANGED <<writeSeq, ring, record>>
    BY <1>4 DEF DumpNext
  <2>2. dump.ticket < dump.total
    BY <2>1 DEF RecInv, Dumped, Resting
  <2> QED
    BY <2>1, <2>2, DumpGoesOn, DumpStep
<1>5. CASE DumpEnds
  BY <1>5, DumpStep DEF DumpEnds, Dumped
<1> QED
  BY <1>1, <1>2, <1>3, <1>4, <1>5 DEF Dumping

LEMMA RecKept ==
    ASSUME RecInv, [Next]_vars
    PROVE  RecInv'
<1>1. CASE UNCHANGED <<writeSeq, ring, record, dump>>
  <2>1. Dumped'
    BY <1>1 DEF RecInv, Dumped, SlotOf, Event
  <2> QED
    BY <1>1, <2>1, DumpStep
<1>2. ASSUME NEW t \in Thread, Recording(t) PROVE RecInv'
  BY <1>2, TakeTicketKeeps, WritePartKeeps, RecordReturnsKeeps DEF Recording
<1>3. ASSUME NEW t \in Thread, Logging(t) PROVE RecInv'
  BY <1>1, <1>3 DEF Logging
<1> QED
  BY <1>1, <1>2, <1>3, DumpingKeeps DEF Next, vars

-----------------------------------------------------------------------------

IInv == LogInv /\ RecInv

\* The inductive invariant: who owns every list and how long ago it was retired,
\* and where every event of the last lap is.
THEOREM RecorderIsSound == Spec => []IInv
<1>1. Init => IInv
  BY SinksInitHolds, RecInitHolds DEF Init, IInv
<1>2. IInv /\ [Next]_vars => IInv'
  BY LogKept, RecKept DEF IInv
<1> QED
  BY <1>1, <1>2, PTL DEF Spec

\* A list of sinks outlives every walk and every copy that has loaded it, for
\* every number of threads and any reuse of addresses, as long as no call overlaps
\* more retirements than the ring is deep.
THEOREM SnapshotsAlwaysHold == Spec => []SnapshotsHold
<1>1. IInv => SnapshotsHold
  BY DEF IInv, LogInv
<1> QED
  BY <1>1, RecorderIsSound, PTL

\* A ring of any capacity ends with the last events, each whole and in its slot.
THEOREM RetainsTheLastEver == Spec => []RetainsTheLast
<1>1. IInv => RetainsTheLast
  <2> SUFFICES ASSUME IInv PROVE RetainsTheLast
    OBVIOUS
  <2>1. TypeOK
    <3>1. \A t \in Thread : record[t].ticket \in -1 .. MaxEvents - 1
      BY RingAssumption DEF IInv, RecInv, RecType, None
    <3>2. dump.at \in {"rest", "look", "read"}
      BY DEF IInv, RecInv, Dumped, Resting
    <3>3. \A i \in 0 .. Capacity - 1 : ring[i].seq \in 0 .. MaxEvents
      <4>1. writeSeq \in 0 .. MaxEvents /\ \A i \in 0 .. Capacity - 1 : ring[i].seq \in 0 .. writeSeq
        BY DEF IInv, RecInv, RecType
      <4> QED
        BY <4>1, RingAssumption
    <3>4. /\ DOMAIN heap \subseteq Addr /\ current \in Addr \cup {Null} /\ head \in 0 .. Depth - 1
          /\ \A i \in 0 .. Depth - 1 : retired[i] \in Addr \cup {Null}
      BY DEF IInv, LogInv, LogType, Place
    <3>5. /\ writeSeq \in 0 .. MaxEvents
          /\ \A i \in 0 .. Capacity - 1, p \in Part : ring[i][p] \in -1 .. MaxEvents - 1
      BY DEF IInv, RecInv, RecType
    <3> QED
      BY <3>1, <3>2, <3>3, <3>4, <3>5 DEF TypeOK
  <2>2. ASSUME \A t \in Thread : record[t] = None,
               NEW n \in 0 .. writeSeq - 1, writeSeq - n <= Capacity
        PROVE  ring[SlotOf(n)] = Event(n)
    <3>1. writeSeq <= n + Capacity
      BY <2>2, RingAssumption DEF IInv, RecInv, RecType
    <3>2. SlotOf(n) \in 0 .. Capacity - 1
      BY SlotRange DEF IInv, RecInv, RecType
    <3>3. \A p \in Field : ring[SlotOf(n)][p] = Event(n)[p]
      BY <2>2, <3>1 DEF None, IInv, RecInv, Written
    <3>4. DOMAIN ring[SlotOf(n)] = Field
          /\ ring[SlotOf(n)] = [p \in Field |-> ring[SlotOf(n)][p]]
      BY <3>2 DEF IInv, RecInv, RecType
    <3> QED
      BY <3>3, <3>4, EventParts
  <2> QED
    BY <2>1, <2>2 DEF RetainsTheLast
<1> QED
  BY <1>1, RecorderIsSound, PTL

\* A dump prints no event mixed from two, whatever is recorded meanwhile, unless a
\* whole lap of the ring has gone by.
THEOREM DumpsAreFaithful == Spec => []DumpIsFaithful
<1>1. IInv => DumpIsFaithful
  <2> SUFFICES ASSUME IInv, Accepted, writeSeq <= dump.ticket + Capacity, NEW p \in Part
               PROVE  dump.got[p] = dump.ticket
    BY DEF DumpIsFaithful
  <2>1. \A q \in Field \ dump.todo : dump.got[q] = Event(dump.ticket)[q]
    BY DEF IInv, RecInv, Dumped, Accepted, Resting
  <2> QED
    BY <2>1, EventParts DEF Accepted
<1> QED
  BY <1>1, RecorderIsSound, PTL

\* The registry implements SinkRegistry: each change of the current list is one
\* whole call of add_sink, remove_sink or remove_all_sinks, and none is undone.
THEOREM RegistryImplemented == Spec => ImplementsSinkRegistry
<1>1. Init => Registry!Init
  BY DEF Init, SinksInit, Registry!Init, ListAt
<1>2. IInv /\ [Next]_vars => [Registry!Next]_(ListAt(current))
  BY LogKept DEF IInv
<1> QED
  BY <1>1, <1>2, RecorderIsSound, PTL DEF Spec, ImplementsSinkRegistry, Registry!Spec

-----------------------------------------------------------------------------
(***************************************************************************)
(* No resource is deleted under the GPU, for every number of frames in     *)
(* flight, of images and of resources, and whatever fails.                 *)
(*                                                                         *)
(* The argument.  A submission carries the frame index of its slot and     *)
(* its fence is unsignalled while it is in flight (Fenced).  Submissions   *)
(* have distinct frames and retire in order, so once a slot's fence is     *)
(* signalled everything in flight is newer than that slot's last frame,    *)
(* and hence newer than the watermark begin_frame takes from it (Newer).   *)
(* A resource in flight was last used no earlier than the submission, and  *)
(* whoever drops it read a frame index no older than that use (Tagged), so *)
(* the watermark cannot have reached its tag.                              *)
(*                                                                         *)
(* And no semaphore is signalled twice before it is waited for (Paired):   *)
(* the one of an acquire is held by the slot that will wait for it, and    *)
(* the one of an image is busy only until the present that waits for it,   *)
(* before which the image is not acquired again.                           *)
(***************************************************************************)

Begun == {"waiting", "acquiring", "recording"}

\* A submission is the last one of its slot, whose fence it will signal, and
\* no other submission shares its slot or its frame.
Fenced ==
  /\ \A w \in work : w.frame = slotFrame[w.slot] /\ ~fence[w.slot]
  /\ \A v, w \in work : v.slot = w.slot \/ v.frame = w.frame => v = w

\* What is in flight is newer than the watermark and than the last frame of
\* every slot whose fence is signalled.
Newer ==
  \A w \in work : /\ completed < w.frame
                  /\ \A s \in Slots : fence[s] => slotFrame[s] < w.frame

\* No submission is newer than the frame index, and while a frame is under
\* way but not submitted all of them are older.
Indexed ==
  /\ completed <= frame
  /\ \A s \in Slots : slotFrame[s] <= frame
  /\ pc \in Begun => completed < frame /\ \A s \in Slots : slotFrame[s] < frame

\* What is in use exists, was last used no earlier than the command buffer that
\* refers to it, and is queued for no frame before its last use.
Tagged ==
  /\ \A w \in work : \A r \in w.uses : w.frame <= lastUse[r] /\ res[r] # "none"
  /\ \A r \in recorded : lastUse[r] = frame /\ res[r] # "none"
  /\ \A r \in Resources : res[r] \in {"leaving", "queued"} => lastUse[r] <= tag[r]
  /\ \A r \in Resources : lastUse[r] <= frame

\* Only an open command buffer refers to anything, and the image of a frame
\* that was begun is one of the swapchain's.
Located ==
  /\ recorded # {} => pc = "recording"
  /\ pc \in {"recording", "submitted"} => image \in Images
  /\ pc = "acquiring" => fence[slot]
  /\ pc = "recording" => ~fence[slot]

FrameInv ==
  /\ FrameTypeOK /\ Fenced /\ Newer /\ Indexed /\ Tagged /\ Located
  /\ SlotIsIdle /\ NoUseAfterFree

-----------------------------------------------------------------------------

\* Every slot is a slot's successor's predecessor: the ring stays in range.
LEMMA NextSlotInRange == ASSUME NEW s \in Slots PROVE NextSlot(s) \in Slots
BY FramesAssumption DEF NextSlot, Slots

\* What reclaim_retired_ does to a resource: it stays as it is, or it was queued
\* for a frame that is through and is deleted.
LEMMA ReclaimedLife ==
  ASSUME FrameTypeOK, NEW through \in Nat, res' = Reclaimed(through)
  PROVE  /\ res' \in [Resources -> Life]
         /\ \A r \in Resources :
              \/ res'[r] = res[r]
              \/ res'[r] = "freed" /\ res[r] = "queued" /\ tag[r] <= through
BY DEF FrameTypeOK, Reclaimed, Life

LEMMA WatermarkInRange == ASSUME FrameTypeOK PROVE Watermark \in 0 .. MaxFrame
BY BoundAssumption DEF FrameTypeOK, Watermark

LEMMA InitInductive == FrameInit => FrameInv
<1> SUFFICES ASSUME FrameInit PROVE FrameInv
  OBVIOUS
<1> USE FramesAssumption, BoundAssumption, SizeAssumption DEF FrameInit
<1>1. FrameTypeOK
  <2>1. 0 \in Slots /\ 0 \in 0 .. MaxFrame /\ 0 \in 0 .. MaxWindowEvents
    BY DEF Slots
  <2>2. fence \in [Slots -> BOOLEAN] /\ avail \in [Slots -> BOOLEAN]
        /\ slotFrame \in [Slots -> 0 .. MaxFrame]
    BY <2>1
  <2>3. res \in [Resources -> Life]
        /\ tag \in [Resources -> 0 .. MaxFrame] /\ lastUse \in [Resources -> 0 .. MaxFrame]
    BY <2>1 DEF Life
  <2>4. pc \in Location /\ window \in Sizes \cup {Minimized}
    BY DEF Location
  <2>5. /\ frame \in 0 .. MaxFrame /\ slot \in Slots /\ completed \in 0 .. MaxFrame
        /\ image \in Images \cup {NoImage} /\ onscreen \in Images \cup {NoImage}
        /\ events \in 0 .. MaxWindowEvents
    BY <2>1
  <2> QED
    BY <2>2, <2>3, <2>4, <2>5 DEF FrameTypeOK
<1>2. Fenced
  BY DEF Fenced
<1>3. Newer
  BY DEF Newer
<1>4. Indexed
  BY DEF Indexed, Begun
<1>5. Tagged
  BY DEF Tagged
<1>6. Located
  BY DEF Located
<1>7. SlotIsIdle
  BY DEF SlotIsIdle
<1>8. NoUseAfterFree
  BY DEF NoUseAfterFree
<1> QED
  BY <1>1, <1>2, <1>3, <1>4, <1>5, <1>6, <1>7, <1>8 DEF FrameInv

LEMMA CreateInductive == ASSUME FrameInv, NEW r \in Resources, Create(r) PROVE FrameInv'
<1> USE FramesAssumption, BoundAssumption, SizeAssumption
    DEF FrameInv, Create, cpu, sync, life, gpu, screen, surface
<1>1. FrameTypeOK'
  BY DEF FrameTypeOK, Location, Life
<1>2. (Fenced /\ Newer /\ Indexed /\ Located /\ SlotIsIdle)'
  BY DEF Fenced, Newer, Indexed, Begun, Located, SlotIsIdle
<1>3. Tagged'
  BY DEF Tagged
<1>4. NoUseAfterFree'
  BY DEF NoUseAfterFree
<1> QED
  BY <1>1, <1>2, <1>3, <1>4

\* The resource is in use from the current frame on.
LEMMA BindInductive == ASSUME FrameInv, NEW r \in Resources, Bind(r) PROVE FrameInv'
<1> USE FramesAssumption, BoundAssumption, SizeAssumption
    DEF FrameInv, Bind, cpu, sync, life, gpu, screen, surface
<1>1. FrameTypeOK'
  BY DEF FrameTypeOK, Location
<1>2. (Fenced /\ Newer /\ Indexed /\ Located /\ SlotIsIdle)'
  BY DEF Fenced, Newer, Indexed, Begun, Located, SlotIsIdle
<1>3. Tagged'
  BY DEF FrameTypeOK, Tagged, Fenced, Newer, Indexed, Begun
<1>4. NoUseAfterFree'
  BY DEF NoUseAfterFree
<1> QED
  BY <1>1, <1>2, <1>3, <1>4

\* The dropping thread reads an index no older than the last use.
LEMMA DropLastInductive == ASSUME FrameInv, NEW r \in Resources, DropLast(r) PROVE FrameInv'
<1> USE FramesAssumption, BoundAssumption, SizeAssumption
    DEF FrameInv, DropLast, cpu, sync, life, gpu, screen, surface
<1>1. FrameTypeOK'
  BY DEF FrameTypeOK, Life
<1>2. (Fenced /\ Newer /\ Indexed /\ Located /\ SlotIsIdle)'
  BY DEF Fenced, Newer, Indexed, Begun, Located, SlotIsIdle
<1>3. Tagged'
  BY DEF FrameTypeOK, Tagged
<1>4. NoUseAfterFree'
  BY DEF NoUseAfterFree
<1> QED
  BY <1>1, <1>2, <1>3, <1>4

LEMMA EnqueueInductive == ASSUME FrameInv, NEW r \in Resources, Enqueue(r) PROVE FrameInv'
<1> USE FramesAssumption, BoundAssumption, SizeAssumption
    DEF FrameInv, Enqueue, cpu, sync, life, gpu, screen, surface
<1>1. FrameTypeOK'
  BY DEF FrameTypeOK, Life
<1>2. (Fenced /\ Newer /\ Indexed /\ Located /\ SlotIsIdle)'
  BY DEF Fenced, Newer, Indexed, Begun, Located, SlotIsIdle
<1>3. Tagged'
  BY DEF FrameTypeOK, Tagged
<1>4. NoUseAfterFree'
  BY DEF NoUseAfterFree
<1> QED
  BY <1>1, <1>2, <1>3, <1>4

\* The new index is above that of everything in flight.
LEMMA BeginFrameInductive == ASSUME FrameInv, BeginFrame PROVE FrameInv'
<1> USE FramesAssumption, BoundAssumption, SizeAssumption
    DEF FrameInv, BeginFrame, cpu, sync, life, gpu, screen, surface
<1>1. FrameTypeOK'
  BY DEF FrameTypeOK, Location
<1>2. (Fenced /\ Newer /\ Located /\ SlotIsIdle /\ NoUseAfterFree)'
  BY DEF Fenced, Newer, Located, SlotIsIdle, NoUseAfterFree
<1>3. Indexed'
  BY DEF FrameTypeOK, Indexed, Begun
<1>4. Tagged'
  BY DEF FrameTypeOK, Tagged, Located
<1> QED
  BY <1>1, <1>2, <1>3, <1>4

\* The watermark moves: what is in flight is newer than the slot whose fence fired.
LEMMA FenceWaitedInductive ==
  ASSUME "wait" \notin Faults, FrameInv, FenceWaited
  PROVE  FrameInv'
<1> USE FramesAssumption, BoundAssumption, SizeAssumption
    DEF FrameInv, FenceWaited, cpu, sync, life, gpu, screen, surface
<1>1. completed' \in 0 .. MaxFrame
  BY WatermarkInRange
<1>2. res' \in [Resources -> Life]
      /\ \A r \in Resources : \/ res'[r] = res[r]
                             \/ /\ res'[r] = "freed" /\ res[r] = "queued"
                                /\ tag[r] <= completed'
  BY <1>1, ReclaimedLife
<1>3. FrameTypeOK'
  BY <1>1, <1>2 DEF FrameTypeOK, Location
<1>4. Fenced'
  BY DEF Fenced
<1>5. completed' < frame
  BY DEF Indexed, Begun, FrameTypeOK, Watermark
<1>6. Newer'
  BY DEF Newer, FrameTypeOK, Watermark
<1>7. Indexed'
  <2>1. \A t \in Slots : slotFrame[t] < frame
    BY DEF Indexed, Begun
  <2> QED
    BY <1>1, <1>5, <2>1 DEF Indexed, FrameTypeOK
<1>8. Tagged'
  BY <1>2 DEF Tagged, FrameTypeOK
<1>9. Located'
  BY DEF Located
<1>10. SlotIsIdle'
  BY DEF SlotIsIdle, Fenced
<1>11. NoUseAfterFree'
  <2>1. ASSUME NEW w \in work, NEW r \in w.uses PROVE res'[r] # "freed"
    <3>1. r \in Resources /\ completed' < w.frame /\ w.frame <= lastUse[r]
      BY <2>1, <1>6 DEF FrameTypeOK, Newer, Tagged
    <3>2. res[r] = "queued" => completed' < tag[r]
      BY <3>1, <2>1, <1>1 DEF Tagged, FrameTypeOK
    <3> QED
      BY <3>1, <3>2, <2>1, <1>1, <1>2 DEF NoUseAfterFree, FrameTypeOK
  <2>2. recorded = {}
    BY DEF Located
  <2> QED
    BY <2>1, <2>2 DEF NoUseAfterFree
<1> QED
  BY <1>3, <1>4, <1>6, <1>7, <1>8, <1>9, <1>10, <1>11

\* The slot is idle and its fence is reset.
LEMMA AcquireInductive == ASSUME FrameInv, NEW i \in Images, Acquire(i) PROVE FrameInv'
<1> USE FramesAssumption, BoundAssumption, SizeAssumption
    DEF FrameInv, Acquire, cpu, sync, life, gpu, screen, surface
<1>1. FrameTypeOK'
  BY DEF FrameTypeOK, Location
<1>2. (Fenced /\ Newer /\ Indexed /\ Tagged)'
  BY DEF Fenced, Newer, Indexed, Begun, Tagged, FrameTypeOK
<1>3. Located'
  BY DEF Located, FrameTypeOK
<1>4. (SlotIsIdle /\ NoUseAfterFree)'
  BY DEF SlotIsIdle, NoUseAfterFree
<1> QED
  BY <1>1, <1>2, <1>3, <1>4

LEMMA AcquireOutOfDateInductive == ASSUME FrameInv, AcquireOutOfDate PROVE FrameInv'
<1> USE FramesAssumption, BoundAssumption, SizeAssumption
    DEF FrameInv, AcquireOutOfDate, cpu, sync, life, gpu, screen, surface
<1>1. FrameTypeOK'
  BY DEF FrameTypeOK, Location
<1>2. (Fenced /\ Newer /\ Indexed /\ Tagged)'
  BY DEF Fenced, Newer, Indexed, Begun, Tagged
<1>3. (Located /\ SlotIsIdle /\ NoUseAfterFree)'
  BY DEF Located, SlotIsIdle, NoUseAfterFree
<1> QED
  BY <1>1, <1>2, <1>3

LEMMA AcquireFailsInductive == ASSUME FrameInv, AcquireFails PROVE FrameInv'
<1> USE FramesAssumption, BoundAssumption, SizeAssumption
    DEF FrameInv, AcquireFails, cpu, sync, life, gpu, screen, surface
<1>1. FrameTypeOK'
  BY DEF FrameTypeOK, Location
<1>2. (Fenced /\ Newer /\ Indexed /\ Tagged)'
  BY DEF Fenced, Newer, Indexed, Begun, Tagged
<1>3. (Located /\ SlotIsIdle /\ NoUseAfterFree)'
  BY DEF Located, SlotIsIdle, NoUseAfterFree
<1> QED
  BY <1>1, <1>2, <1>3

\* The new submission is newer than all others, and its slot had none.
LEMMA SubmitInductive == ASSUME FrameInv, Submit PROVE FrameInv'
<1> USE FramesAssumption, BoundAssumption, SizeAssumption
    DEF FrameInv, Submit, cpu, sync, life, gpu, screen, surface
<1> DEFINE s == Submission
<1>1. s.frame = frame /\ s.slot = slot /\ s.uses = recorded
  BY DEF Submission
<1> HIDE DEF s
<1>2. /\ work' = work \cup {s}
      /\ slotFrame' = [slotFrame EXCEPT ![slot] = frame] /\ ~fence[slot]
      /\ \A w \in work : w.slot # slot /\ w.frame < frame
      /\ completed < frame /\ \A t \in Slots : slotFrame[t] < frame
  BY DEF s, Located, SlotIsIdle, Indexed, Begun, Fenced, FrameTypeOK
<1>3. FrameTypeOK'
  BY <1>1, <1>2 DEF FrameTypeOK, Location
<1>4. Fenced'
  BY <1>1, <1>2 DEF Fenced, FrameTypeOK
<1>5. Newer'
  BY <1>1, <1>2 DEF Newer, FrameTypeOK
<1>6. Indexed'
  BY <1>2 DEF Indexed, Begun, FrameTypeOK
<1>7. Tagged'
  BY <1>1, <1>2 DEF Tagged, FrameTypeOK
<1>8. Located'
  BY DEF Located
<1>9. SlotIsIdle'
  BY DEF SlotIsIdle
<1>10. NoUseAfterFree'
  BY <1>1, <1>2 DEF NoUseAfterFree
<1> QED
  BY <1>3, <1>4, <1>5, <1>6, <1>7, <1>8, <1>9, <1>10

LEMMA SubmitFailsInductive == ASSUME FrameInv, SubmitFails PROVE FrameInv'
<1> USE FramesAssumption, BoundAssumption, SizeAssumption
    DEF FrameInv, SubmitFails, cpu, sync, life, gpu, screen, surface
<1>1. FrameTypeOK'
  BY DEF FrameTypeOK, Location
<1>2. (Fenced /\ Newer /\ Indexed /\ Tagged)'
  BY DEF Fenced, Newer, Indexed, Begun, Tagged
<1>3. (Located /\ SlotIsIdle /\ NoUseAfterFree)'
  BY DEF Located, SlotIsIdle, NoUseAfterFree
<1> QED
  BY <1>1, <1>2, <1>3

\* The next slot is up.
LEMMA EndFrameInductive == ASSUME FrameInv, EndFrame PROVE FrameInv'
<1> USE FramesAssumption, BoundAssumption, SizeAssumption
    DEF FrameInv, EndFrame, cpu, sync, life, gpu, screen, surface
<1>1. FrameTypeOK'
  BY NextSlotInRange DEF FrameTypeOK, Location, Located
<1>2. (Fenced /\ Newer /\ Indexed /\ Tagged)'
  BY DEF Fenced, Newer, Indexed, Begun, Tagged
<1>3. (Located /\ SlotIsIdle /\ NoUseAfterFree)'
  BY DEF Located, SlotIsIdle, NoUseAfterFree
<1> QED
  BY <1>1, <1>2, <1>3

LEMMA EndFrameLostInductive == ASSUME FrameInv, EndFrameLost PROVE FrameInv'
<1> USE FramesAssumption, BoundAssumption, SizeAssumption
    DEF FrameInv, EndFrameLost, cpu, sync, life, gpu, screen, surface
<1>1. FrameTypeOK'
  BY NextSlotInRange DEF FrameTypeOK, Location
<1>2. (Fenced /\ Newer /\ Indexed /\ Tagged)'
  BY DEF Fenced, Newer, Indexed, Begun, Tagged
<1>3. (Located /\ SlotIsIdle /\ NoUseAfterFree)'
  BY DEF Located, SlotIsIdle, NoUseAfterFree
<1> QED
  BY <1>1, <1>2, <1>3

LEMMA EndFrameSkippedInductive == ASSUME FrameInv, EndFrameSkipped PROVE FrameInv'
<1> USE FramesAssumption, BoundAssumption, SizeAssumption
    DEF FrameInv, EndFrameSkipped, cpu, sync, life, gpu, screen, surface
<1>1. FrameTypeOK'
  BY DEF FrameTypeOK, Location
<1>2. (Fenced /\ Newer /\ Indexed /\ Tagged)'
  BY DEF Fenced, Newer, Indexed, Begun, Tagged
<1>3. (Located /\ SlotIsIdle /\ NoUseAfterFree)'
  BY DEF Located, SlotIsIdle, NoUseAfterFree
<1> QED
  BY <1>1, <1>2, <1>3

LEMMA AppResizeInductive == ASSUME FrameInv, AppResize PROVE FrameInv'
<1> USE FramesAssumption, BoundAssumption, SizeAssumption
    DEF FrameInv, AppResize, cpu, sync, life, gpu, screen, surface
<1>1. FrameTypeOK'
  BY DEF FrameTypeOK, Location
<1>2. (Fenced /\ Newer /\ Indexed /\ Tagged)'
  BY DEF Fenced, Newer, Indexed, Begun, Tagged
<1>3. (Located /\ SlotIsIdle /\ NoUseAfterFree)'
  BY DEF Located, SlotIsIdle, NoUseAfterFree
<1> QED
  BY <1>1, <1>2, <1>3

LEMMA ResizeCheckInductive == ASSUME FrameInv, ResizeCheck PROVE FrameInv'
<1> USE FramesAssumption, BoundAssumption, SizeAssumption
    DEF FrameInv, ResizeCheck, cpu, sync, life, gpu, screen, surface
<1>1. FrameTypeOK'
  BY DEF FrameTypeOK, Location
<1>2. (Fenced /\ Newer /\ Indexed /\ Tagged)'
  BY DEF Fenced, Newer, Indexed, Begun, Tagged
<1>3. (Located /\ SlotIsIdle /\ NoUseAfterFree)'
  BY DEF Located, SlotIsIdle, NoUseAfterFree
<1> QED
  BY <1>1, <1>2, <1>3

LEMMA TearDownInductive == ASSUME FrameInv, TearDown PROVE FrameInv'
<1> USE FramesAssumption, BoundAssumption, SizeAssumption
    DEF FrameInv, TearDown, cpu, sync, life, gpu, screen, surface
<1>1. FrameTypeOK'
  BY DEF FrameTypeOK, Location
<1>2. (Fenced /\ Newer /\ Indexed /\ Tagged)'
  BY DEF Fenced, Newer, Indexed, Begun, Tagged
<1>3. (Located /\ SlotIsIdle /\ NoUseAfterFree)'
  BY DEF Located, SlotIsIdle, NoUseAfterFree
<1> QED
  BY <1>1, <1>2, <1>3

\* The device is idle: whatever is deleted, nothing refers to it.
LEMMA RebuildInductive == ASSUME FrameInv, Rebuild PROVE FrameInv'
<1> USE FramesAssumption, BoundAssumption, SizeAssumption
    DEF FrameInv, Rebuild, cpu, sync, life, gpu, screen, surface
<1>1. work = {} /\ recorded = {}
  BY DEF DeviceIdle, Located
<1>2. res' \in [Resources -> Life]
      /\ \A r \in Resources : res'[r] = res[r] \/ res'[r] = "freed"
  BY ReclaimedLife DEF EveryFrame
<1>3. FrameTypeOK'
  BY <1>1, <1>2 DEF FrameTypeOK, Location
<1>4. Fenced' /\ Newer' /\ SlotIsIdle' /\ NoUseAfterFree'
  BY <1>1 DEF Fenced, Newer, SlotIsIdle, NoUseAfterFree
<1>5. Indexed'
  BY DEF Indexed, Begun
<1>6. Tagged'
  BY <1>1, <1>2 DEF Tagged, FrameTypeOK
<1>7. Located'
  BY <1>1 DEF Located
<1> QED
  BY <1>3, <1>4, <1>5, <1>6, <1>7

LEMMA ShutdownInductive == ASSUME FrameInv, Shutdown PROVE FrameInv'
<1> USE FramesAssumption, BoundAssumption, SizeAssumption
    DEF FrameInv, Shutdown, cpu, sync, life, gpu, screen, surface
<1>1. work = {} /\ recorded = {}
  BY DEF DeviceIdle, Located
<1>2. res' \in [Resources -> Life]
      /\ \A r \in Resources : res'[r] = res[r] \/ res'[r] = "freed"
  BY ReclaimedLife DEF EveryFrame
<1>3. FrameTypeOK'
  BY <1>1, <1>2 DEF FrameTypeOK, Location
<1>4. Fenced' /\ Newer' /\ SlotIsIdle' /\ NoUseAfterFree'
  BY <1>1 DEF Fenced, Newer, SlotIsIdle, NoUseAfterFree
<1>5. Indexed'
  BY DEF Indexed, Begun
<1>6. Tagged'
  BY <1>1, <1>2 DEF Tagged, FrameTypeOK
<1>7. Located'
  BY <1>1 DEF Located
<1> QED
  BY <1>3, <1>4, <1>5, <1>6, <1>7

\* The oldest submission retires: those that remain are newer than its slot.
LEMMA RetireInductive == ASSUME FrameInv, NEW w \in work, RetireWork(w) PROVE FrameInv'
<1> USE FramesAssumption, BoundAssumption, SizeAssumption
    DEF FrameInv, RetireWork, cpu, sync, life, gpu, screen, surface
<1>1. FrameTypeOK'
  BY DEF FrameTypeOK
<1>2. Fenced'
  BY DEF Fenced, FrameTypeOK
<1>3. Newer'
  <2> SUFFICES ASSUME NEW v \in work, v # w
               PROVE  completed < v.frame /\ \A s \in Slots : fence'[s] => slotFrame[s] < v.frame
    BY DEF Newer
  <2>1. w.frame < v.frame
    BY DEF Fenced, FrameTypeOK
  <2>2. ASSUME NEW s \in Slots, fence'[s] PROVE slotFrame[s] < v.frame
    <3>1. CASE s = w.slot
      BY <3>1, <2>1 DEF Fenced
    <3>2. CASE s # w.slot
      BY <3>2, <2>2 DEF Newer, FrameTypeOK
    <3> QED
      BY <3>1, <3>2
  <2> QED
    BY <2>2 DEF Newer
<1>4. Indexed'
  BY DEF Indexed
<1>5. Tagged'
  BY DEF Tagged
<1>6. Located'
  BY DEF Located, SlotIsIdle, FrameTypeOK
<1>7. SlotIsIdle'
  BY DEF SlotIsIdle
<1>8. NoUseAfterFree'
  BY DEF NoUseAfterFree
<1> QED
  BY <1>1, <1>2, <1>3, <1>4, <1>5, <1>6, <1>7, <1>8

LEMMA ShowInductive == ASSUME FrameInv, NEW p \in presents, Show(p) PROVE FrameInv'
<1> USE FramesAssumption, BoundAssumption, SizeAssumption
    DEF FrameInv, Show, cpu, sync, life, gpu, screen, surface
<1>1. FrameTypeOK'
  BY DEF FrameTypeOK
<1>2. (Fenced /\ Newer /\ Indexed /\ Tagged)'
  BY DEF Fenced, Newer, Indexed, Begun, Tagged
<1>3. (Located /\ SlotIsIdle /\ NoUseAfterFree)'
  BY DEF Located, SlotIsIdle, NoUseAfterFree
<1> QED
  BY <1>1, <1>2, <1>3

LEMMA WindowEventInductive == ASSUME FrameInv, WindowEvent PROVE FrameInv'
<1> USE FramesAssumption, BoundAssumption, SizeAssumption
    DEF FrameInv, WindowEvent, cpu, sync, life, gpu, screen, surface
<1>1. FrameTypeOK'
  <2>1. events' \in 0 .. MaxWindowEvents
    BY DEF FrameTypeOK
  <2>2. window' \in Sizes \cup {Minimized} /\ altered' \in BOOLEAN
    BY DEF FrameTypeOK
  <2> QED
    BY <2>1, <2>2 DEF FrameTypeOK
<1>2. (Fenced /\ Newer /\ Indexed /\ Tagged)'
  BY DEF Fenced, Newer, Indexed, Begun, Tagged
<1>3. (Located /\ SlotIsIdle /\ NoUseAfterFree)'
  BY DEF Located, SlotIsIdle, NoUseAfterFree
<1> QED
  BY <1>1, <1>2, <1>3

LEMMA StutterInductive == ASSUME FrameInv, UNCHANGED frameVars PROVE FrameInv'
BY DEF FrameInv, frameVars, cpu, sync, life, gpu, screen, surface, FrameTypeOK, Fenced, Newer, Indexed,
       Tagged, Located, SlotIsIdle, NoUseAfterFree

LEMMA StepInductive ==
  ASSUME "wait" \notin Faults, FrameInv, [FrameNext]_frameVars
  PROVE  FrameInv'
<1>1. CASE FrameNext
  BY <1>1, CreateInductive, BindInductive, DropLastInductive, EnqueueInductive,
     BeginFrameInductive, FenceWaitedInductive, AcquireInductive, AcquireOutOfDateInductive,
     AcquireFailsInductive, SubmitInductive, SubmitFailsInductive, EndFrameInductive,
     EndFrameLostInductive, EndFrameSkippedInductive, AppResizeInductive,
     ResizeCheckInductive, TearDownInductive, RebuildInductive, ShutdownInductive,
     RetireInductive, ShowInductive, WindowEventInductive, StutterInductive
  DEF FrameNext, AcquireReturns, EndReturns, Down
<1>2. CASE UNCHANGED frameVars
  BY <1>2, StutterInductive
<1> QED
  BY <1>1, <1>2

\* The invariant of the frame loop, as long as vkWaitForFences returns because the
\* fence is signalled.
THEOREM FramesAreSound == ASSUME "wait" \notin Faults PROVE FrameSpec => []FrameInv
<1>1. FrameInv /\ [FrameNext]_frameVars => FrameInv'
  BY StepInductive
<1> QED
  BY InitInductive, <1>1, PTL DEF FrameSpec

\* Every variable keeps its type.
THEOREM TypesKept == ASSUME "wait" \notin Faults PROVE FrameSpec => []FrameTypeOK
<1>1. FrameInv => FrameTypeOK
  BY DEF FrameInv
<1> QED
  BY FramesAreSound, <1>1, PTL

\* No resource is deleted while a submission in flight or the open command
\* buffer refers to it, unless a wait for a fence failed.
THEOREM NoUseAfterFreeEver == ASSUME "wait" \notin Faults PROVE FrameSpec => []NoUseAfterFree
<1>1. FrameInv => NoUseAfterFree
  BY DEF FrameInv
<1> QED
  BY FramesAreSound, <1>1, PTL

\* A slot's command pool is reset and recorded only when its last submission has
\* retired, unless the wait for its fence failed.
THEOREM SlotAlwaysIdle == ASSUME "wait" \notin Faults PROVE FrameSpec => []SlotIsIdle
<1>1. FrameInv => SlotIsIdle
  BY DEF FrameInv
<1> QED
  BY FramesAreSound, <1>1, PTL

-----------------------------------------------------------------------------
\* Unless vkBeginCommandBuffer fails, a slot's fence is signalled, or about to be,
\* or its frame is being recorded, or rendering has halted.

Covered(s) == \E w \in work : w.slot = s

FencesLive ==
  /\ \A s \in Slots : fence[s] \/ Covered(s) \/ lost \/ (s = slot /\ pc = "recording")
  /\ pc \in Begun => ~lost

LEMMA FencesStayLive ==
  ASSUME "begin" \notin Faults, FrameInv, FencesLive, [FrameNext]_frameVars
  PROVE  FencesLive'
<1> USE DEF FrameInv, FrameTypeOK, FencesLive, cpu, sync, life, gpu, screen, surface, Begun
<1>1. ASSUME NEW i \in Images, Acquire(i) PROVE FencesLive'
  BY <1>1 DEF Acquire, Covered
<1>2. CASE Submit
  <2>1. work' = work \cup {Submission} /\ Submission.slot = slot
    BY <1>2 DEF Submit, Submission
  <2> QED
    BY <1>2, <2>1 DEF Submit, Covered
<1>3. ASSUME NEW w \in work, RetireWork(w) PROVE FencesLive'
  BY <1>3 DEF RetireWork, Covered
<1>4. CASE EndFrame \/ EndFrameLost \/ EndFrameSkipped \/ SubmitFails
  BY <1>4 DEF EndFrame, EndFrameLost, EndFrameSkipped, SubmitFails, Covered
<1>5. CASE BeginFrame
  BY <1>5 DEF BeginFrame, Covered
<1>6. CASE FenceWaited \/ AcquireOutOfDate \/ AcquireFails
  <2>1. slot' = slot /\ fence' = fence /\ work' = work /\ pc \in Begun /\ pc # "recording"
    BY <1>6 DEF FenceWaited, AcquireOutOfDate, AcquireFails
  <2>2. ~lost
    BY <2>1
  <2>3. pc' \in Begun => ~lost'
    BY <1>6, <2>2 DEF FenceWaited, AcquireOutOfDate, AcquireFails
  <2> QED
    BY <2>1, <2>2, <2>3 DEF Covered
<1>7. CASE AppResize \/ ResizeCheck \/ TearDown \/ Rebuild \/ Shutdown
  BY <1>7 DEF AppResize, ResizeCheck, TearDown, Rebuild, Shutdown, Covered
<1>8. ASSUME NEW r \in Resources, Create(r) \/ Bind(r) \/ DropLast(r) \/ Enqueue(r)
      PROVE  FencesLive'
  BY <1>8 DEF Create, Bind, DropLast, Enqueue, Covered
<1>9. ASSUME NEW p \in presents, Show(p) PROVE FencesLive'
  BY <1>9 DEF Show, Covered
<1>10. CASE WindowEvent
  BY <1>10 DEF WindowEvent, Covered
<1>11. CASE UNCHANGED frameVars
  BY <1>11 DEF frameVars, Covered
<1> QED
  BY <1>1, <1>2, <1>3, <1>4, <1>5, <1>6, <1>7, <1>8, <1>9, <1>10, <1>11
  DEF FrameNext, AcquireReturns, EndReturns, Down

\* The render thread never waits for a fence that nothing will signal, unless a
\* command buffer could not be begun or a wait for a fence failed.
THEOREM FenceAlwaysSignals ==
  ASSUME "begin" \notin Faults, "wait" \notin Faults
  PROVE  FrameSpec => []FenceWillSignal
<1>1. FrameInit => FencesLive
  BY DEF FrameInit, FencesLive, Begun
<1>2. FrameInv /\ FencesLive /\ [FrameNext]_frameVars => FencesLive'
  BY FencesStayLive
<1>3. FrameInv /\ FencesLive => FenceWillSignal
  BY DEF FrameInv, FrameTypeOK, FencesLive, Covered, FenceWillSignal, Begun
<1> QED
  BY FramesAreSound, <1>1, <1>2, <1>3, PTL DEF FrameSpec

-----------------------------------------------------------------------------
\* Semaphores.  An image that is acquired is neither queued for presentation nor on
\* its way to it, and its render-done semaphore is out of use until it is submitted.

\* An image-available semaphore stays signalled only after a frame that was not
\* submitted: the fence of its slot will never be signalled again.
AvailHeld == \A s \in Slots : avail[s] => ~fence[s] /\ ~Covered(s)

\* Signalled, or about to be.
Busy(i) == i \in done \/ \E w \in work : w.sem = i

\* Of each semaphore one signal is pending or done,
SignalledOnce ==
  \A w \in work : w.sem \notin done /\ \A v \in work : v.sem = w.sem => v = w

\* and unless rendering has halted, a present waits for it or is about to.
Awaited ==
  ~lost => \A i : Busy(i) =>
             (\E p \in presents : p.sem = i) \/ (pc = "submitted" /\ image = i)

\* Every present waits for a signal and has its image for itself.
Presented ==
  /\ \A p \in presents : /\ p.sem = p.image /\ p.image \notin owned /\ Busy(p.sem)
                         /\ \A q \in presents : q.image = p.image => q = p
  /\ pc = "submitted" /\ ~lost => Busy(image)

Held ==
  /\ pc \in {"recording", "submitted"} => image \in owned
  /\ pc \in Begun => ~lost

Paired == AvailHeld /\ SignalledOnce /\ Awaited /\ Presented /\ Held

LEMMA StaysPaired ==
  ASSUME FrameInv, Paired, [FrameNext]_frameVars
  PROVE  Paired'
<1> USE DEF Paired, cpu, sync, life, gpu, screen, surface
<1>1. ASSUME NEW i \in Images, Acquire(i) PROVE Paired'
  <2> USE <1>1 DEF Acquire
  <2>1. AvailHeld'
    BY DEF AvailHeld, Covered, FrameInv, SlotIsIdle, FrameTypeOK
  <2>2. SignalledOnce' /\ Awaited'
    BY DEF SignalledOnce, Awaited, Busy
  <2>3. Presented'
    BY DEF Presented, Busy, FreeImages
  <2>4. Held'
    BY DEF Held, Begun
  <2> QED
    BY <2>1, <2>2, <2>3, <2>4
<1>2. CASE Submit
  <2> DEFINE s == Submission
  <2>1. s.slot = slot /\ s.sem = image
    BY DEF Submission, RenderDone
  <2>2. work' = work \cup {s} /\ UNCHANGED <<done, presents, lost, image, owned, fence>>
        /\ pc = "recording" /\ pc' = "submitted"
        /\ avail' = [avail EXCEPT ![slot] = FALSE]
    BY <1>2 DEF Submit
  <2> HIDE DEF s
  <2>3. ~Busy(image) /\ image \in owned /\ ~lost
    BY <2>2 DEF Held, Awaited, Presented, Begun
  <2>4. AvailHeld'
    BY <2>1, <2>2 DEF AvailHeld, Covered, FrameInv, FrameTypeOK
  <2>5. SignalledOnce'
    BY <2>1, <2>2, <2>3 DEF SignalledOnce, Busy
  <2>6. \A i : Busy(i)' <=> (Busy(i) \/ i = image)
    BY <2>1, <2>2 DEF Busy
  <2>7. Awaited' /\ Presented'
    BY <2>2, <2>6 DEF Awaited, Presented, Busy
  <2>8. Held'
    BY <2>2, <2>3 DEF Held, Begun
  <2> QED
    BY <2>4, <2>5, <2>7, <2>8
<1>3. ASSUME NEW w \in work, RetireWork(w) PROVE Paired'
  <2> USE <1>3 DEF RetireWork
  <2>1. AvailHeld'
    BY DEF AvailHeld, Covered, FrameInv, FrameTypeOK
  <2>2. SignalledOnce'
    BY DEF SignalledOnce
  <2>3. \A i : Busy(i)' <=> Busy(i)
    BY DEF Busy
  <2>4. Awaited' /\ Presented'
    BY <2>3 DEF Awaited, Presented, Busy
  <2> QED
    BY <2>1, <2>2, <2>4 DEF Held, Begun
<1>4. ASSUME NEW p \in presents, Show(p) PROVE Paired'
  <2> USE <1>4 DEF Show
  <2>1. AvailHeld' /\ SignalledOnce'
    BY DEF AvailHeld, Covered, SignalledOnce
  <2>2. \A i : Busy(i)' <=> (Busy(i) /\ i # p.sem)
    BY DEF Busy, SignalledOnce
  <2>3. Awaited'
    BY <2>2 DEF Awaited, Presented, Busy
  <2>4. pc = "submitted" /\ ~lost => image # p.sem
    BY DEF Held, Presented
  <2>5. Presented'
    BY <2>2, <2>4 DEF Presented, Busy
  <2> QED
    BY <2>1, <2>3, <2>5 DEF Held, Begun
<1>5. CASE EndFrame
  <2> USE <1>5 DEF EndFrame, RenderDone
  <2>1. AvailHeld' /\ SignalledOnce' /\ \A i : Busy(i)' <=> Busy(i)
    BY DEF AvailHeld, Covered, SignalledOnce, Busy
  <2> DEFINE shown == [frame |-> frame, image |-> image, sem |-> RenderDone]
  <2>2. Awaited'
    <3>1. presents' = presents \cup {shown} /\ shown.sem = image /\ lost' = lost
      OBVIOUS
    <3> HIDE DEF shown
    <3>2. ASSUME ~lost, NEW i, Busy(i) PROVE \E p \in presents' : p.sem = i
      BY <3>1, <3>2 DEF Awaited
    <3> QED
      BY <2>1, <3>1, <3>2 DEF Awaited, Busy
  <2>3. Presented'
    BY <2>1 DEF Presented, Held, Busy
  <2> QED
    BY <2>1, <2>2, <2>3 DEF Held, Begun
<1>6. CASE EndFrameLost \/ EndFrameSkipped \/ SubmitFails
  BY <1>6 DEF EndFrameLost, EndFrameSkipped, SubmitFails, AvailHeld, Covered, SignalledOnce,
     Awaited, Presented, Busy, Held, Begun
<1>7. CASE BeginFrame \/ FenceWaited \/ AcquireOutOfDate \/ AcquireFails
  <2>1. UNCHANGED <<avail, fence, work, done, presents, image, owned>>
    BY <1>7 DEF BeginFrame, FenceWaited, AcquireOutOfDate, AcquireFails
  <2>2. /\ pc \in {"app", "waiting", "acquiring"} /\ pc' \notin {"recording", "submitted"}
        /\ pc' \in Begun => ~lost'
        /\ lost => lost'
    <3>1. CASE BeginFrame
      BY <3>1 DEF BeginFrame, Begun
    <3>2. CASE FenceWaited \/ AcquireOutOfDate
      BY <3>2 DEF FenceWaited, AcquireOutOfDate, Held, Begun
    <3>3. CASE AcquireFails
      <4>1. lost' = lost \/ lost' = TRUE
        BY <3>3 DEF AcquireFails
      <4>2. pc = "acquiring" /\ pc' = "app"
        BY <3>3 DEF AcquireFails
      <4>3. lost => lost'
        BY <4>1
      <4> QED
        BY <4>2, <4>3 DEF Begun
    <3> QED
      BY <1>7, <3>1, <3>2, <3>3
  <2> QED
    BY <2>1, <2>2 DEF AvailHeld, Covered, SignalledOnce, Awaited, Presented, Busy, Held, Begun
<1>8. CASE TearDown \/ Rebuild
  <2>1. work = {} /\ presents = {} /\ work' = {} /\ presents' = {} /\ done' = {} /\ pc' = "app"
        /\ UNCHANGED <<avail, fence>>
    BY <1>8 DEF TearDown, Rebuild, DeviceIdle
  <2> QED
    BY <2>1 DEF AvailHeld, Covered, SignalledOnce, Awaited, Presented, Busy, Held, Begun
<1>9. CASE AppResize \/ ResizeCheck \/ Shutdown
  <2>1. UNCHANGED <<avail, fence, work, done, presents, image, owned, lost>>
        /\ pc # "submitted" /\ pc' \notin Begun \cup {"submitted"}
    BY <1>9 DEF AppResize, ResizeCheck, Shutdown, Begun
  <2> QED
    BY <2>1 DEF AvailHeld, Covered, SignalledOnce, Awaited, Presented, Busy, Held, Begun
<1>10. ASSUME UNCHANGED <<pc, avail, fence, work, done, presents, image, owned, lost>>
       PROVE  Paired'
  BY <1>10 DEF AvailHeld, Covered, SignalledOnce, Awaited, Presented, Busy, Held, Begun
<1>11. ASSUME NEW r \in Resources, Create(r) \/ Bind(r) \/ DropLast(r) \/ Enqueue(r)
       PROVE  Paired'
  BY <1>10, <1>11 DEF Create, Bind, DropLast, Enqueue
<1>12. CASE WindowEvent \/ UNCHANGED frameVars
  BY <1>10, <1>12 DEF WindowEvent, frameVars
<1> QED
  BY <1>1, <1>2, <1>3, <1>4, <1>5, <1>6, <1>7, <1>8, <1>9, <1>11, <1>12
  DEF FrameNext, AcquireReturns, EndReturns, Down

\* Every binary semaphore of the frame loop alternates between a signal and a wait,
\* and no present waits for a signal that does not come, for any number of frames
\* in flight and of images, and whatever fails but a wait for a fence.
THEOREM SemaphoresAlwaysPaired == ASSUME "wait" \notin Faults PROVE FrameSpec => []SemaphoresPaired
<1>1. FrameInit => Paired
  BY DEF FrameInit, Paired, AvailHeld, SignalledOnce, Awaited, Presented, Busy, Held, Begun
<1>2. FrameInv /\ Paired /\ [FrameNext]_frameVars => Paired'
  BY StaysPaired
<1>3. ASSUME FrameInv, Paired PROVE SemaphoresPaired
  <2>1. pc = "acquiring" => ~avail[slot]
    BY <1>3 DEF FrameInv, FrameTypeOK, Located, Paired, AvailHeld
  <2>2. pc = "recording" => /\ ~Busy(image)
                            /\ \A p \in presents : p.sem # image
    BY <1>3 DEF Paired, Held, Begun, Awaited, Presented
  <2>3. \A p \in presents : Busy(p.sem)
    BY <1>3 DEF Paired, Presented
  <2> QED
    BY <2>1, <2>2, <2>3 DEF SemaphoresPaired, Busy, RenderDone
<1> QED
  BY FramesAreSound, <1>1, <1>2, <1>3, PTL DEF FrameSpec
=============================================================================
