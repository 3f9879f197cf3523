---------------------------- MODULE WorldProofs ----------------------------
(***************************************************************************)
(* Proofs about World, for every set of components, every chunk capacity    *)
(* and every size of the entity table: the state keeps its type, records    *)
(* and rows lead to each other, the free list holds the dead slots, the     *)
(* world implements the map of EntityStore, temporary handles resolve, a    *)
(* query visits each entity once and playback loses no command.             *)
(***************************************************************************)
EXTENDS World, FiniteSetTheorems, WellFoundedInduction, NaturalsInduction,
        SequenceTheorems, TLAPS

-----------------------------------------------------------------------------
\* The invariant of the world, in parts.

\* Row r of chunk c is one of the rows of the chunks q of an archetype.
In(q, c, r) == c \in 1..Len(q) /\ r \in 1..Len(q[c])

TableType ==
    /\ records \in [Slot -> EntityRecord]
    /\ used \in 0..MaxEntities /\ free \in Seq(Slot)
    /\ archetypes \in Seq(Key) /\ issued \subseteq Entity

\* The chunks of one archetype.
ChunksOf(key, q) ==
    /\ q \in Seq(Seq(Row))
    /\ \A c \in 1..Len(q) : Len(q[c]) <= Capacity[key]
    /\ \A c, r \in Nat : In(q, c, r) => DOMAIN q[c][r].data = key

ChunkType ==
    /\ chunks = [key \in Key |-> chunks[key]]
    /\ \A key \in Key : ChunksOf(key, chunks[key])

\* Where a slot's record says its row is, and what is there.
Place(s) == In(chunks[records[s].arch], records[s].chunk, records[s].row)
RowAt(s) == chunks[records[s].arch][records[s].chunk][records[s].row]
Alive(s) == s < used /\ records[s].alive

RecordsLead ==
    \A s \in Slot : Alive(s) =>
        /\ records[s].arch \in Key /\ Place(s)
        /\ RowAt(s).entity = HandleOf(s)

\* The row (key, c, r) belongs to the slot s.
Owns(s, key, c, r) ==
    /\ Alive(s)
    /\ chunks[key][c][r].entity = HandleOf(s)
    /\ records[s].arch = key /\ records[s].chunk = c /\ records[s].row = r

RowsLead ==
    \A key \in Key, c \in Nat, r \in Nat :
        In(chunks[key], c, r) => \E s \in Slot : Owns(s, key, c, r)

FreeList ==
    /\ \A s \in Slot :
         (s < used /\ ~records[s].alive) <=> (\E i \in 1..Len(free) : free[i] = s)
    /\ \A i, j \in 1..Len(free) : free[i] = free[j] => i = j
    /\ \A i \in 1..Len(free) : free[i] < used

\* A slot's generation is ahead of every handle of it but that of the entity
\* that lives there, and the handles bound the generations.
Handles ==
    /\ IsFiniteSet(issued) /\ Cardinality(issued) <= MaxWork
    /\ \A s \in Slot :
         /\ records[s].gen <= Cardinality(issued) + 1
         /\ records[s].alive => records[s].gen <= Cardinality(issued)
         /\ s >= used => records[s] = FreshRecord
    /\ \A h \in issued :
         /\ h.slot < used
         /\ h.gen <= records[h.slot].gen
         /\ h.gen = records[h.slot].gen => records[h.slot].alive

WorldOK ==
    TableType /\ ChunkType /\ RecordsLead /\ RowsLead /\ FreeList /\ Handles

\* What a command of the buffer is: the components it needs are there.
AnyCommand ==
    [op : {"create", "destroy", "add", "remove"},
     entity : [slot : Nat, gen : Generation \cup {TempGen}],
     comp : Component \cup {Nil}, datum : Data \cup {Nil}]
Commands ==
    {cmd \in AnyCommand :
       /\ cmd.op \in {"add", "remove"} => cmd.comp \in Component
       /\ cmd.op = "add" => cmd.datum \in Datum[cmd.comp]}

BufferOK ==
    /\ query \in [active : BOOLEAN, ids : Key, arch : Nat, chunk : Nat, seen : Seq(Entity)]
    /\ commands \in Seq(Commands)
    /\ tempCount \in Nat /\ playing \in BOOLEAN
    /\ tempToReal \in Seq(Entity \cup {NoEntity})
    /\ Cardinality(issued) + Len(commands) <= MaxWork

IInv == WorldOK /\ BufferOK

-----------------------------------------------------------------------------
\* Minimum, sequences of rows.

\* Min picks the least element of a non-empty set of naturals.
LEMMA MinOfNats ==
    ASSUME NEW S \in SUBSET Nat, S # {}
    PROVE  /\ Min(S) \in S
           /\ \A y \in S : Min(S) <= y
<1> DEFINE R == {ss \in Nat \X Nat : ss[1] < ss[2]}
<1>1. R = OpToRel(<, Nat)
  BY DEF OpToRel
<1>2. IsWellFoundedOn(R, Nat)
  BY <1>1, NatLessThanWellFounded
<1>3. \A x, y \in Nat : <<y, x>> \notin R => x <= y
  OBVIOUS
<1> HIDE DEF R
<1>4. PICK x \in S : \A y \in S : <<y, x>> \notin R
  BY <1>2, WFMin
<1>5. \A y \in S : x <= y
  BY <1>3, <1>4
<1>6. QED
  BY <1>5 DEF Min

\* append_entity() finds a chunk with room, or goes behind the last.
LEMMA RoomFound ==
    ASSUME NEW key \in Key, ChunksOf(key, chunks[key])
    PROVE  /\ Room(key) \in 1..Len(chunks[key])+1
           /\ Room(key) <= Len(chunks[key]) => Len(chunks[key][Room(key)]) < Capacity[key]
<1> DEFINE q == chunks[key]
           S == {c \in DOMAIN q : Len(q[c]) < Capacity[key]} \cup {Len(q) + 1}
<1>1. q \in Seq(Seq(Row)) /\ DOMAIN q = 1..Len(q) /\ Len(q) \in Nat
  BY LenProperties DEF ChunksOf
<1>2. S \in SUBSET Nat /\ S # {}
  BY <1>1
<1>3. Min(S) \in S
  BY <1>2, MinOfNats
<1>4. Room(key) = Min(S)
  BY DEF Room
<1>5. QED
  BY <1>1, <1>3, <1>4

\* A row appended to an archetype takes the place Room and NewRow name, which was
\* free, and moves no other row.
LEMMA AppendedRow ==
    ASSUME NEW key \in Key, ChunksOf(key, chunks[key]),
           NEW row \in Row, DOMAIN row.data = key
    PROVE  /\ ChunksOf(key, Appended(key, row))
           /\ Room(key) \in Nat /\ NewRow(key) \in Nat
           /\ ~In(chunks[key], Room(key), NewRow(key))
           /\ In(Appended(key, row), Room(key), NewRow(key))
           /\ Appended(key, row)[Room(key)][NewRow(key)] = row
           /\ \A c, r \in Nat :
                /\ In(chunks[key], c, r) => /\ In(Appended(key, row), c, r)
                                            /\ Appended(key, row)[c][r] = chunks[key][c][r]
                /\ In(Appended(key, row), c, r) =>
                     In(chunks[key], c, r) \/ (c = Room(key) /\ r = NewRow(key))
<1> DEFINE q == chunks[key]
           n == Room(key)
           a == Appended(key, row)
<1>1. /\ q \in Seq(Seq(Row)) /\ Len(q) \in Nat
      /\ \A c \in 1..Len(q) : q[c] \in Seq(Row) /\ Len(q[c]) \in Nat
  BY LenProperties, ElementOfSeq DEF ChunksOf
<1>2. n \in 1..Len(q)+1 /\ (n <= Len(q) => Len(q[n]) < Capacity[key])
  BY RoomFound
<1>3. Capacity[key] \in Nat \ {0}
  BY CapacityAssumption
<1>a. ChunksOf(key, q)
  OBVIOUS
<1>b. /\ \A c \in 1..Len(q) : Len(q[c]) <= Capacity[key]
      /\ \A c, r \in Nat : In(q, c, r) => DOMAIN q[c][r].data = key
  BY <1>a DEF ChunksOf
<1> DEFINE k == NewRow(key)
<1> SUFFICES /\ ChunksOf(key, a) /\ n \in Nat /\ k \in Nat
             /\ ~In(q, n, k) /\ In(a, n, k) /\ a[n][k] = row
             /\ \A c, r \in Nat :
                  /\ In(q, c, r) => In(a, c, r) /\ a[c][r] = q[c][r]
                  /\ In(a, c, r) => In(q, c, r) \/ (c = n /\ r = k)
  OBVIOUS
<1>4. CASE n = Len(q) + 1
  <2>1. k = 1 /\ a = Append(q, <<row>>)
    BY <1>4 DEF NewRow, NeedsChunk, Appended
  <2> DEFINE b == <<row>>
  <2>2. b \in Seq(Row) /\ Len(b) = 1 /\ b[1] = row
    OBVIOUS
  <2> HIDE DEF q, n, a, k, b
  <2>3. /\ a \in Seq(Seq(Row)) /\ Len(a) = Len(q) + 1
        /\ \A c \in 1..Len(q) : a[c] = q[c]
        /\ a[n] = b
    BY <1>1, <1>4, <2>1, <2>2, AppendProperties DEF b
  <2>4. \A c, r \in Nat :
          /\ In(q, c, r) => In(a, c, r) /\ a[c][r] = q[c][r]
          /\ In(a, c, r) => In(q, c, r) \/ (c = n /\ r = k)
    BY <1>1, <1>4, <2>1, <2>2, <2>3 DEF In
  <2>5. ChunksOf(key, a)
    <3>1. \A c \in 1..Len(a) : Len(a[c]) <= Capacity[key]
      <4> SUFFICES ASSUME NEW c \in 1..Len(a)
                   PROVE  Len(a[c]) <= Capacity[key]
        OBVIOUS
      <4>1. c = n \/ (c \in 1..Len(q) /\ a[c] = q[c])
        BY <1>1, <1>4, <2>3
      <4>2. c = n => Len(a[c]) = 1
        BY <2>2, <2>3
      <4>3. c \in 1..Len(q) /\ a[c] = q[c] => Len(a[c]) <= Capacity[key]
        BY <1>b, Zenon
      <4>4. 1 <= Capacity[key]
        BY <1>3
      <4>5. QED
        BY <4>1, <4>2, <4>3, <4>4, Zenon
    <3>2. \A c, r \in Nat : In(a, c, r) => DOMAIN a[c][r].data = key
      <4> SUFFICES ASSUME NEW c \in Nat, NEW r \in Nat, In(a, c, r)
                   PROVE  DOMAIN a[c][r].data = key
        OBVIOUS
      <4>1. (c = n /\ r = k) \/ (In(q, c, r) /\ a[c][r] = q[c][r])
        BY <2>4
      <4>2. c = n /\ r = k => a[c][r] = row
        BY <2>1, <2>2, <2>3
      <4>3. QED
        BY <1>b, <4>1, <4>2, Zenon
    <3>3. QED
      BY <2>3, <3>1, <3>2 DEF ChunksOf
  <2>6. ~In(q, n, k) /\ In(a, n, k) /\ a[n][k] = row
    BY <1>1, <1>4, <2>1, <2>2, <2>3 DEF In
  <2>7. n \in Nat /\ k \in Nat
    BY <1>1, <1>4, <2>1
  <2>8. QED
    BY <2>4, <2>5, <2>6, <2>7, Zenon
<1>5. CASE n # Len(q) + 1
  <2>1. n \in 1..Len(q) /\ q[n] \in Seq(Row) /\ Len(q[n]) < Capacity[key]
    BY <1>1, <1>2, <1>5
  <2>2. k = Len(q[n]) + 1 /\ a = [q EXCEPT ![n] = Append(q[n], row)]
    BY <1>5 DEF NewRow, NeedsChunk, Appended
  <2> HIDE DEF q, n, a, k
  <2>3. /\ Append(q[n], row) \in Seq(Row) /\ Len(Append(q[n], row)) = Len(q[n]) + 1
        /\ \A r \in 1..Len(q[n]) : Append(q[n], row)[r] = q[n][r]
        /\ Append(q[n], row)[Len(q[n])+1] = row
    BY <2>1, AppendProperties
  <2> DEFINE b == Append(q[n], row)
  <2>4. /\ a \in Seq(Seq(Row)) /\ Len(a) = Len(q)
        /\ \A c \in 1..Len(q) : a[c] = IF c = n THEN b ELSE q[c]
    BY <1>1, <2>1, <2>2, <2>3, ExceptSeq
  <2> HIDE DEF b
  <2>b. /\ b \in Seq(Row) /\ Len(b) = k /\ b[k] = row
        /\ \A r \in 1..k-1 : b[r] = q[n][r]
    BY <1>1, <2>1, <2>2, <2>3 DEF b
  <2>5. \A c, r \in Nat :
          /\ In(q, c, r) => In(a, c, r) /\ a[c][r] = q[c][r]
          /\ In(a, c, r) => In(q, c, r) \/ (c = n /\ r = k)
    BY <1>1, <2>1, <2>2, <2>b, <2>4 DEF In
  <2>6. ChunksOf(key, a)
    <3>1. \A c \in 1..Len(a) : Len(a[c]) <= Capacity[key]
      BY <1>a, <1>1, <1>3, <2>1, <2>2, <2>b, <2>4 DEF ChunksOf
    <3>2. \A c, r \in Nat : In(a, c, r) => DOMAIN a[c][r].data = key
      BY <1>a, <1>1, <2>1, <2>2, <2>b, <2>4, <2>5 DEF ChunksOf, In
    <3>3. QED
      BY <2>4, <3>1, <3>2 DEF ChunksOf
  <2>7. ~In(q, n, k) /\ In(a, n, k) /\ a[n][k] = row
    BY <1>1, <2>1, <2>2, <2>b, <2>4 DEF In
  <2>8. n \in Nat /\ k \in Nat
    BY <1>1, <2>1, <2>2
  <2>9. QED
    BY <2>5, <2>6, <2>7, <2>8, Zenon
<1>6. QED
  BY <1>4, <1>5

\* Swap-removal takes the last row of the chunk into the gap and touches no other.
LEMMA ErasedRow ==
    ASSUME NEW key \in Key, ChunksOf(key, chunks[key]),
           NEW x \in Nat, NEW y \in Nat, In(chunks[key], x, y)
    PROVE  /\ ChunksOf(key, Erased(key, x, y))
           /\ \A c, r \in Nat :
                /\ In(Erased(key, x, y), c, r) <=>
                     In(chunks[key], c, r) /\ ~(c = x /\ r = Len(chunks[key][x]))
                /\ In(Erased(key, x, y), c, r) =>
                     Erased(key, x, y)[c][r] =
                       IF c = x /\ r = y THEN chunks[key][x][Len(chunks[key][x])]
                       ELSE chunks[key][c][r]
<1> DEFINE q == chunks[key]
           a == Erased(key, x, y)
           n == Len(q[x])
           b == SwapRemoved(q[x], y)
<1>1. /\ q \in Seq(Seq(Row)) /\ Len(q) \in Nat
      /\ \A c \in 1..Len(q) : q[c] \in Seq(Row) /\ Len(q[c]) \in Nat
  BY LenProperties, ElementOfSeq DEF ChunksOf
<1>2. x \in 1..Len(q) /\ y \in 1..n /\ n \in Nat /\ q[x] \in Seq(Row)
  BY <1>1 DEF In
<1>3. /\ \A c \in 1..Len(q) : Len(q[c]) <= Capacity[key]
      /\ \A c, r \in Nat : In(q, c, r) => DOMAIN q[c][r].data = key
  BY DEF ChunksOf
<1>4. Capacity[key] \in Nat \ {0}
  BY CapacityAssumption
<1>5. a = [q EXCEPT ![x] = b]
  BY DEF Erased
<1>6. /\ b \in Seq(Row) /\ Len(b) = n - 1
      /\ \A r \in 1..n-1 : b[r] = IF r = y THEN q[x][n] ELSE q[x][r]
  <2>1. b = [i \in 1..n-1 |-> IF i = y THEN q[x][n] ELSE q[x][i]]
    BY DEF SwapRemoved
  <2>2. \A i \in 1..n : q[x][i] \in Row
    BY <1>2, ElementOfSeq
  <2> HIDE DEF q, n, b
  <2>3. b \in [1..n-1 -> Row] /\ n - 1 \in Nat
    BY <1>2, <2>1, <2>2
  <2>4. b \in Seq(Row)
    BY <2>3, SeqDef
  <2>5. Len(b) = n - 1
    BY <2>3, <2>4, LenProperties
  <2>6. QED
    BY <2>1, <2>4, <2>5
<1> HIDE DEF q, a, n, b
<1>7. /\ a \in Seq(Seq(Row)) /\ Len(a) = Len(q)
      /\ \A c \in 1..Len(q) : a[c] = IF c = x THEN b ELSE q[c]
  BY <1>1, <1>2, <1>5, <1>6, ExceptSeq
<1>8. \A c, r \in Nat : In(a, c, r) <=> In(q, c, r) /\ ~(c = x /\ r = n)
  BY <1>1, <1>2, <1>6, <1>7, SMTT(30) DEF In, n
<1>9. \A c, r \in Nat : In(a, c, r) =>
        a[c][r] = IF c = x /\ r = y THEN q[x][n] ELSE q[c][r]
  BY <1>1, <1>2, <1>6, <1>7 DEF In
<1>10. \A c \in 1..Len(a) : Len(a[c]) <= Capacity[key]
  <2> SUFFICES ASSUME NEW c \in 1..Len(a)
               PROVE  Len(a[c]) <= Capacity[key]
    OBVIOUS
  <2>1. c \in 1..Len(q) /\ Len(q[c]) \in Nat /\ (Len(a[c]) = Len(q[c]) \/ Len(a[c]) = Len(q[c]) - 1)
    BY <1>1, <1>6, <1>7 DEF n
  <2>2. Len(q[c]) <= Capacity[key]
    BY <1>3, <2>1
  <2>3. QED
    BY <1>4, <2>1, <2>2
<1>11. \A c, r \in Nat : In(a, c, r) => DOMAIN a[c][r].data = key
  <2> SUFFICES ASSUME NEW c \in Nat, NEW r \in Nat, In(a, c, r)
               PROVE  DOMAIN a[c][r].data = key
    OBVIOUS
  <2>1. In(q, x, n) /\ In(q, c, r)
    BY <1>2, <1>8 DEF In, n
  <2>2. a[c][r] = q[x][n] \/ a[c][r] = q[c][r]
    BY <1>9
  <2>3. QED
    BY <1>2, <1>3, <2>1, <2>2
<1>12. QED
  BY <1>7, <1>8, <1>9, <1>10, <1>11 DEF ChunksOf, a, q, n
-----------------------------------------------------------------------------
\* Taking the row of one entity away.

\* What erase_entity_at() leaves of the records and of the archetype of slot s.
Follow(s) == FollowMoved(records[s].arch, records[s].chunk, records[s].row)
Gap(s) == Erased(records[s].arch, records[s].chunk, records[s].row)

\* An entity that lives has a record of the right type and a row of its own.
LEMMA AliveFacts ==
    ASSUME WorldOK, NEW s \in Slot, Alive(s)
    PROVE  /\ records[s].arch \in Key /\ records[s].chunk \in Nat /\ records[s].row \in Nat
           /\ ChunksOf(records[s].arch, chunks[records[s].arch])
           /\ In(chunks[records[s].arch], records[s].chunk, records[s].row)
           /\ RowAt(s).entity = HandleOf(s)
           /\ RowAt(s) \in Row /\ DOMAIN RowAt(s).data = records[s].arch
<1>1. records[s] \in EntityRecord
  BY DEF WorldOK, TableType
<1>2. /\ records[s].arch \in Key /\ Place(s) /\ RowAt(s).entity = HandleOf(s)
  BY DEF WorldOK, RecordsLead
<1>3. records[s].chunk \in Nat /\ records[s].row \in Nat
  BY <1>1 DEF EntityRecord
<1>4. ChunksOf(records[s].arch, chunks[records[s].arch])
  BY <1>2 DEF WorldOK, ChunkType
<1>5. DOMAIN RowAt(s).data = records[s].arch
  BY <1>2, <1>3, <1>4 DEF ChunksOf, Place, RowAt
<1>6. RowAt(s) \in Row
  <2> DEFINE q == chunks[records[s].arch]
  <2>1. q \in Seq(Seq(Row)) /\ records[s].chunk \in 1..Len(q)
    BY <1>2, <1>4 DEF Place, In, ChunksOf
  <2>2. q[records[s].chunk] \in Seq(Row) /\ records[s].row \in 1..Len(q[records[s].chunk])
    BY <1>2, <2>1, ElementOfSeq DEF Place, In
  <2>3. QED
    BY <2>2, ElementOfSeq DEF RowAt
<1>7. QED
  BY <1>2, <1>3, <1>4, <1>5, <1>6 DEF Place

\* Two entities never share a row.
LEMMA RowsApart ==
    ASSUME WorldOK, NEW s \in Slot, NEW t \in Slot, Alive(s), Alive(t),
           records[s].arch = records[t].arch, records[s].chunk = records[t].chunk,
           records[s].row = records[t].row
    PROVE  s = t
<1>1. RowAt(s) = RowAt(t)
  BY DEF RowAt
<1>2. HandleOf(s) = HandleOf(t)
  BY <1>1, AliveFacts
<1>3. QED
  BY <1>2 DEF HandleOf

\* A row of an archetype has an owner.
LEMMA OwnerOf ==
    ASSUME WorldOK, NEW key \in Key, NEW c \in Nat, NEW r \in Nat, In(chunks[key], c, r)
    PROVE  \E s \in Slot : /\ Alive(s) /\ records[s].arch = key
                            /\ records[s].chunk = c /\ records[s].row = r
                            /\ chunks[key][c][r].entity = HandleOf(s)
BY DEF WorldOK, RowsLead, Owns

\* The records after the swap: the entity of the last row follows it into the gap.
LEMMA Followed ==
    ASSUME WorldOK, NEW s \in Slot, Alive(s), NEW last,
           last = Len(chunks[records[s].arch][records[s].chunk])
    PROVE  /\ Follow(s) \in [Slot -> EntityRecord]
           /\ Follow(s)[s] = records[s]
           /\ \A t \in Slot :
                /\ Follow(s)[t].gen = records[t].gen
                /\ Follow(s)[t].alive = records[t].alive
                /\ Follow(s)[t].arch = records[t].arch
                /\ Alive(t) /\ t # s =>
                     IF /\ records[t].arch = records[s].arch
                        /\ records[t].chunk = records[s].chunk /\ records[t].row = last
                     THEN /\ Follow(s)[t].chunk = records[s].chunk
                          /\ Follow(s)[t].row = records[s].row
                     ELSE Follow(s)[t] = records[t]
                /\ ~Alive(t) => Follow(s)[t] = records[t]
<1> DEFINE key == records[s].arch
           x == records[s].chunk
           y == records[s].row
           moved == chunks[key][x][last].entity.slot
<1>1. /\ key \in Key /\ x \in Nat /\ y \in Nat /\ last \in Nat
      /\ In(chunks[key], x, last) /\ In(chunks[key], x, y)
  <2>1. /\ key \in Key /\ x \in Nat /\ y \in Nat /\ In(chunks[key], x, y)
        /\ chunks[key] \in Seq(Seq(Row))
    BY AliveFacts DEF ChunksOf
  <2>2. x \in 1..Len(chunks[key]) /\ y \in 1..last
    BY <2>1 DEF In
  <2>3. last \in Nat
    BY <2>1, <2>2, ElementOfSeq, LenProperties
  <2>4. QED
    BY <2>1, <2>2, <2>3 DEF In
<1>2. PICK w \in Slot : /\ Alive(w) /\ records[w].arch = key /\ records[w].chunk = x
                         /\ records[w].row = last
                         /\ chunks[key][x][last].entity = HandleOf(w)
  <2> HIDE DEF key, x
  <2>1. RowsLead
    BY DEF WorldOK
  <2>2. PICK w \in Slot : Owns(w, key, x, last)
    BY <1>1, <2>1 DEF RowsLead
  <2> QED
    BY <2>2 DEF Owns
<1>3. moved = w
  BY <1>2 DEF HandleOf
<1>4. Follow(s) = IF y = last THEN records
                  ELSE [records EXCEPT ![w] = [@ EXCEPT !.chunk = x, !.row = y]]
  BY <1>3 DEF Follow, FollowMoved
<1>5. y = last <=> w = s
  BY <1>1, <1>2, RowsApart
<1>6. \A t \in Slot : /\ Alive(t) /\ records[t].arch = key /\ records[t].chunk = x
                        /\ records[t].row = last => t = w
  BY <1>2, RowsApart
<1>7. records \in [Slot -> EntityRecord]
  BY DEF WorldOK, TableType
<1> HIDE DEF key, x, y, moved
<1>8. CASE y = last
  BY <1>4, <1>5, <1>6, <1>7, <1>8 DEF key, x
<1>9. CASE y # last
  <2> DEFINE F == [records EXCEPT ![w] = [@ EXCEPT !.chunk = x, !.row = y]]
  <2>1. Follow(s) = F /\ w # s
    BY <1>4, <1>5, <1>9
  <2>2. /\ F \in [Slot -> EntityRecord]
        /\ \A t \in Slot : t # w => F[t] = records[t]
        /\ F[w].gen = records[w].gen /\ F[w].alive = records[w].alive
        /\ F[w].arch = records[w].arch /\ F[w].chunk = x /\ F[w].row = y
    BY <1>1, <1>7 DEF EntityRecord
  <2> HIDE DEF F
  <2>3. QED
    BY <1>2, <1>6, <2>1, <2>2 DEF key, x, y
<1>10. QED
  BY <1>8, <1>9

\* After the swap every other entity of the archetype still has its row, under the
\* place its record now names, and every row left has such an owner.
LEMMA Vacated ==
    ASSUME WorldOK, NEW s \in Slot, Alive(s)
    PROVE  /\ ChunksOf(records[s].arch, Gap(s))
           /\ \A t \in Slot : Alive(t) /\ t # s /\ records[t].arch = records[s].arch =>
                /\ In(Gap(s), Follow(s)[t].chunk, Follow(s)[t].row)
                /\ Gap(s)[Follow(s)[t].chunk][Follow(s)[t].row] = RowAt(t)
           /\ \A c, r \in Nat : In(Gap(s), c, r) =>
                \E t \in Slot : /\ Alive(t) /\ t # s /\ records[t].arch = records[s].arch
                                /\ Follow(s)[t].chunk = c /\ Follow(s)[t].row = r
<1> DEFINE key == records[s].arch
           x == records[s].chunk
           y == records[s].row
           q == chunks[key]
           last == Len(q[x])
           F == Follow(s)
           g == Gap(s)
<1>1. /\ key \in Key /\ x \in Nat /\ y \in Nat /\ ChunksOf(key, q) /\ In(q, x, y)
  BY AliveFacts
<1>2. last \in Nat /\ x \in 1..Len(q) /\ y \in 1..last /\ In(q, x, last)
  <2>1. q \in Seq(Seq(Row)) /\ x \in 1..Len(q) /\ y \in 1..last
    BY <1>1 DEF ChunksOf, In
  <2>2. last \in Nat
    BY <2>1, ElementOfSeq, LenProperties
  <2>3. QED
    BY <2>1, <2>2 DEF In
<1>3. /\ ChunksOf(key, g)
      /\ \A c, r \in Nat :
           /\ In(g, c, r) <=> In(q, c, r) /\ ~(c = x /\ r = last)
           /\ In(g, c, r) => g[c][r] = IF c = x /\ r = y THEN q[x][last] ELSE q[c][r]
  <2>1. g = Erased(key, x, y)
    BY DEF Gap
  <2> HIDE DEF key, x, y, g
  <2>2. QED
    BY <1>1, <2>1, ErasedRow
<1>4. \A t \in Slot : Alive(t) /\ t # s =>
        IF records[t].arch = key /\ records[t].chunk = x /\ records[t].row = last
        THEN F[t].chunk = x /\ F[t].row = y
        ELSE F[t] = records[t]
  <2>1. last = Len(chunks[records[s].arch][records[s].chunk])
    OBVIOUS
  <2> HIDE DEF last
  <2>2. QED
    BY <2>1, Followed
<1>5. \A t \in Slot : Alive(t) /\ records[t].arch = key =>
        /\ records[t].chunk \in Nat /\ records[t].row \in Nat
        /\ In(q, records[t].chunk, records[t].row)
        /\ RowAt(t) = q[records[t].chunk][records[t].row]
  <2> SUFFICES ASSUME NEW t \in Slot, Alive(t), records[t].arch = key
               PROVE  /\ records[t].chunk \in Nat /\ records[t].row \in Nat
                      /\ In(q, records[t].chunk, records[t].row)
                      /\ RowAt(t) = q[records[t].chunk][records[t].row]
    OBVIOUS
  <2>1. /\ records[t].chunk \in Nat /\ records[t].row \in Nat
        /\ In(chunks[records[t].arch], records[t].chunk, records[t].row)
    BY AliveFacts
  <2>2. QED
    BY <2>1 DEF RowAt
<1>6. \A t \in Slot : Alive(t) /\ t # s /\ records[t].arch = key =>
        ~(records[t].chunk = x /\ records[t].row = y)
  <2> SUFFICES ASSUME NEW t \in Slot, Alive(t), t # s, records[t].arch = key,
                      records[t].chunk = x, records[t].row = y
               PROVE  FALSE
    OBVIOUS
  <2>1. QED
    BY RowsApart
<1>7. \A c, r \in Nat : In(q, c, r) =>
        \E t \in Slot : /\ Alive(t) /\ records[t].arch = key
                        /\ records[t].chunk = c /\ records[t].row = r
  BY <1>1, OwnerOf
<1> HIDE DEF key, x, y, q, last, F, g
<1>8. ASSUME NEW t \in Slot, Alive(t), t # s, records[t].arch = key
      PROVE  In(g, F[t].chunk, F[t].row) /\ g[F[t].chunk][F[t].row] = RowAt(t)
  <2>1. CASE records[t].chunk = x /\ records[t].row = last
    <3>1. F[t].chunk = x /\ F[t].row = y
      BY <1>4, <1>8, <2>1
    <3>2. y # last
      BY <1>6, <1>8, <2>1
    <3>3. In(g, x, y) /\ g[x][y] = q[x][last]
      BY <1>1, <1>3, <3>2
    <3>4. QED
      BY <1>5, <1>8, <2>1, <3>1, <3>3
  <2>2. CASE ~(records[t].chunk = x /\ records[t].row = last)
    <3>1. F[t] = records[t]
      BY <1>4, <1>8, <2>2
    <3>2. QED
      BY <1>3, <1>5, <1>6, <1>8, <2>2, <3>1
  <2>3. QED
    BY <2>1, <2>2
<1>9. ASSUME NEW c \in Nat, NEW r \in Nat, In(g, c, r)
      PROVE  \E t \in Slot : /\ Alive(t) /\ t # s /\ records[t].arch = key
                             /\ F[t].chunk = c /\ F[t].row = r
  <2>1. In(q, c, r) /\ ~(c = x /\ r = last)
    BY <1>3, <1>9
  <2>2. CASE c = x /\ r = y
    <3>1. y # last
      BY <2>1, <2>2
    <3>2. PICK t \in Slot : /\ Alive(t) /\ records[t].arch = key
                            /\ records[t].chunk = x /\ records[t].row = last
      BY <1>1, <1>2, <1>7
    <3>3. t # s
      BY <3>1, <3>2 DEF y
    <3>4. QED
      BY <1>4, <2>2, <3>2, <3>3
  <2>3. CASE ~(c = x /\ r = y)
    <3>1. PICK t \in Slot : /\ Alive(t) /\ records[t].arch = key
                            /\ records[t].chunk = c /\ records[t].row = r
      BY <1>7, <2>1
    <3>2. t # s
      BY <2>3, <3>1 DEF x, y
    <3>3. F[t] = records[t]
      BY <1>4, <2>1, <3>1, <3>2
    <3>4. QED
      BY <3>1, <3>2, <3>3
  <2>4. QED
    BY <2>2, <2>3
<1>10. QED
  BY <1>3, <1>8, <1>9 DEF key, F, g

\* What a call on the entity of slot s leaves to every other one: whether it
\* lives, its generation, and the row that holds it.
OthersKept(s) ==
    \A t \in Slot \ {s} :
        /\ Alive(t)' <=> Alive(t)
        /\ records'[t].gen = records[t].gen
        /\ Alive(t) => RowAt(t)' = RowAt(t)

\* A step that erases the row of slot s and adds at most new rows elsewhere.
Erases(s) ==
    /\ used' = used
    /\ \A t \in Slot \ {s} : records'[t] = Follow(s)[t]
    /\ chunks'[records[s].arch] = Gap(s)
    /\ \A key \in Key \ {records[s].arch} : \A c, r \in Nat :
         In(chunks[key], c, r) =>
           In(chunks'[key], c, r) /\ chunks'[key][c][r] = chunks[key][c][r]

\* Such a step keeps every other entity, its record and its row.
LEMMA Survivors ==
    ASSUME WorldOK, NEW s \in Slot, Alive(s), Erases(s)
    PROVE  /\ OthersKept(s)
           /\ \A t \in Slot \ {s} : Alive(t) =>
                records'[t].arch \in Key /\ Place(t)' /\ RowAt(t)'.entity = HandleOf(t)'
<1> DEFINE src == records[s].arch
<1>1. \A t \in Slot \ {s} :
        /\ records'[t].gen = records[t].gen /\ records'[t].alive = records[t].alive
        /\ records'[t].arch = records[t].arch
        /\ Alive(t) /\ records[t].arch # src => records'[t] = records[t]
  <2> SUFFICES ASSUME NEW t \in Slot \ {s}
               PROVE  /\ records'[t].gen = records[t].gen
                      /\ records'[t].alive = records[t].alive
                      /\ records'[t].arch = records[t].arch
                      /\ Alive(t) /\ records[t].arch # src => records'[t] = records[t]
    OBVIOUS
  <2> DEFINE last == Len(chunks[src][records[s].chunk])
  <2>1. last = Len(chunks[records[s].arch][records[s].chunk])
    OBVIOUS
  <2> HIDE DEF last
  <2>2. records'[t] = Follow(s)[t]
    BY DEF Erases
  <2>3. QED
    BY <2>1, <2>2, Followed
<1>2. \A t \in Slot \ {s} : Alive(t)' <=> Alive(t)
  BY <1>1 DEF Alive, Erases
<1>3. ASSUME NEW t \in Slot \ {s}, Alive(t)
      PROVE  records'[t].arch \in Key /\ Place(t)' /\ RowAt(t)' = RowAt(t)
  <2>1. /\ records[t].arch \in Key /\ records[t].chunk \in Nat /\ records[t].row \in Nat
        /\ In(chunks[records[t].arch], records[t].chunk, records[t].row)
    BY <1>3, AliveFacts
  <2>2. CASE records[t].arch = src
    <3>1. records'[t] = Follow(s)[t] /\ records'[t].arch = src /\ chunks'[src] = Gap(s)
      BY <1>1, <2>2 DEF Erases
    <3>2. /\ In(Gap(s), Follow(s)[t].chunk, Follow(s)[t].row)
          /\ Gap(s)[Follow(s)[t].chunk][Follow(s)[t].row] = RowAt(t)
      BY <1>3, <2>2, Vacated
    <3>3. QED
      BY <2>1, <2>2, <3>1, <3>2 DEF Place, RowAt
  <2>3. CASE records[t].arch # src
    <3>1. records'[t] = records[t]
      BY <1>1, <1>3, <2>3
    <3>2. /\ In(chunks'[records[t].arch], records[t].chunk, records[t].row)
          /\ chunks'[records[t].arch][records[t].chunk][records[t].row] = RowAt(t)
      BY <2>1, <2>3 DEF Erases, RowAt
    <3>3. QED
      BY <2>1, <3>1, <3>2 DEF Place, RowAt
  <2>4. QED
    BY <2>2, <2>3
<1>4. ASSUME NEW t \in Slot \ {s}, Alive(t)
      PROVE  RowAt(t)'.entity = HandleOf(t)'
  <2>1. RowAt(t).entity = HandleOf(t)
    BY <1>4, AliveFacts
  <2>2. RowAt(t)' = RowAt(t) /\ HandleOf(t)' = HandleOf(t)
    BY <1>1, <1>3, <1>4 DEF HandleOf
  <2>3. QED
    BY <2>1, <2>2
<1>5. QED
  BY <1>1, <1>2, <1>3, <1>4 DEF OthersKept

\* After such a step the rows that were there before still have their owners.
LEMMA SurvivingRows ==
    ASSUME WorldOK, NEW s \in Slot, Alive(s), Erases(s),
           NEW key \in Key, NEW c \in Nat, NEW r \in Nat,
           IF key = records[s].arch THEN In(Gap(s), c, r) ELSE In(chunks[key], c, r)
    PROVE  \E t \in Slot \ {s} : Owns(t, key, c, r)'
<1> DEFINE src == records[s].arch
<1>1. ASSUME NEW t \in Slot \ {s}, Alive(t), records'[t].arch = key,
             records'[t].chunk = c, records'[t].row = r
      PROVE  Owns(t, key, c, r)'
  <2>1. Alive(t)' /\ RowAt(t)'.entity = HandleOf(t)'
    BY <1>1, Survivors DEF OthersKept
  <2>2. QED
    BY <1>1, <2>1 DEF Owns, RowAt
<1>2. CASE key = src
  <2>1. PICK t \in Slot : /\ Alive(t) /\ t # s /\ records[t].arch = src
                          /\ Follow(s)[t].chunk = c /\ Follow(s)[t].row = r
    BY <1>2, Vacated
  <2>2. records'[t] = Follow(s)[t] /\ records'[t].arch = src
    <3> DEFINE last == Len(chunks[src][records[s].chunk])
    <3>1. last = Len(chunks[records[s].arch][records[s].chunk])
      OBVIOUS
    <3> HIDE DEF last
    <3>2. records'[t] = Follow(s)[t]
      BY <2>1 DEF Erases
    <3>3. QED
      BY <2>1, <3>1, <3>2, Followed
  <2>3. QED
    BY <1>1, <1>2, <2>1, <2>2
<1>3. CASE key # src
  <2>1. PICK t \in Slot : /\ Alive(t) /\ records[t].arch = key
                          /\ records[t].chunk = c /\ records[t].row = r
    BY <1>3, OwnerOf
  <2>2. t # s
    BY <1>3, <2>1
  <2>3. records'[t] = records[t]
    <3> DEFINE last == Len(chunks[src][records[s].chunk])
    <3>1. last = Len(chunks[records[s].arch][records[s].chunk])
      OBVIOUS
    <3> HIDE DEF last
    <3>2. records'[t] = Follow(s)[t]
      BY <2>1, <2>2 DEF Erases
    <3>3. QED
      BY <1>3, <2>1, <2>2, <3>1, <3>2, Followed
  <2>4. QED
    BY <1>1, <2>1, <2>2, <2>3
<1>4. QED
  BY <1>2, <1>3
-----------------------------------------------------------------------------
\* The calls keep WorldOK, and name what they leave alone.

\* A step that only changes what rows hold besides their entity keeps WorldOK.
LEMMA ShapeKept ==
    ASSUME WorldOK, UNCHANGED <<records, used, free, issued>>,
           archetypes' \in Seq(Key), ChunkType',
           \A key \in Key, c \in Nat, r \in Nat :
             /\ In(chunks'[key], c, r) <=> In(chunks[key], c, r)
             /\ In(chunks[key], c, r) => chunks'[key][c][r].entity = chunks[key][c][r].entity
    PROVE  WorldOK' /\ \A s \in Slot : Alive(s)' <=> Alive(s)
<1>1. /\ records' = records /\ used' = used /\ free' = free /\ issued' = issued
  OBVIOUS
<1>2. \A s \in Slot : Alive(s)' <=> Alive(s)
  BY <1>1 DEF Alive
<1>3. TableType'
  BY <1>1 DEF WorldOK, TableType
<1>4. RecordsLead'
  <2> SUFFICES ASSUME NEW s \in Slot, Alive(s)'
               PROVE  (records[s].arch \in Key /\ Place(s) /\ RowAt(s).entity = HandleOf(s))'
    BY DEF RecordsLead
  <2>1. /\ records[s].arch \in Key /\ records[s].chunk \in Nat /\ records[s].row \in Nat
        /\ In(chunks[records[s].arch], records[s].chunk, records[s].row)
        /\ RowAt(s).entity = HandleOf(s)
    BY <1>2, AliveFacts
  <2>2. /\ In(chunks'[records[s].arch], records[s].chunk, records[s].row)
        /\ chunks'[records[s].arch][records[s].chunk][records[s].row].entity = RowAt(s).entity
    BY <2>1 DEF RowAt
  <2>3. QED
    BY <1>1, <2>1, <2>2 DEF Place, RowAt, HandleOf
<1>5. RowsLead'
  <2> SUFFICES ASSUME NEW key \in Key, NEW c \in Nat, NEW r \in Nat, In(chunks'[key], c, r)
               PROVE  \E t \in Slot : Owns(t, key, c, r)'
    BY DEF RowsLead
  <2>1. /\ In(chunks[key], c, r)
        /\ chunks'[key][c][r].entity = chunks[key][c][r].entity
    OBVIOUS
  <2>2. PICK t \in Slot : /\ Alive(t) /\ records[t].arch = key
                          /\ records[t].chunk = c /\ records[t].row = r
                          /\ chunks[key][c][r].entity = HandleOf(t)
    BY <2>1, OwnerOf
  <2>3. QED
    BY <1>1, <1>2, <2>1, <2>2 DEF Owns, HandleOf
<1>6. FreeList'
  BY <1>1 DEF WorldOK, FreeList
<1>7. Handles'
  BY <1>1 DEF WorldOK, Handles
<1>8. QED
  BY <1>2, <1>3, <1>4, <1>5, <1>6, <1>7 DEF WorldOK

\* Nothing but a new archetype, without a chunk.
LEMMA WorldUnchanged ==
    ASSUME WorldOK, UNCHANGED <<records, used, free, chunks, issued>>,
           archetypes' \in Seq(Key)
    PROVE  WorldOK' /\ \A s \in Slot : OthersKept(s) /\ (Alive(s)' <=> Alive(s))
<1>1. /\ records' = records /\ used' = used /\ free' = free /\ chunks' = chunks
      /\ issued' = issued
  OBVIOUS
<1>2. ChunkType'
  BY <1>1 DEF WorldOK, ChunkType
<1>3. WorldOK'
  BY <1>1, <1>2, ShapeKept
<1>4. \A s \in Slot : OthersKept(s) /\ (Alive(s)' <=> Alive(s))
  BY <1>1 DEF OthersKept, Alive, RowAt
<1>5. QED
  BY <1>3, <1>4

\* A valid handle names a slot in use.
LEMMA ValidSlot ==
    ASSUME WorldOK, NEW e, e.slot \in Nat, Valid(e)
    PROVE  /\ e.slot \in Slot /\ Alive(e.slot) /\ e.gen = records[e.slot].gen
           /\ KeyOf(e) = records[e.slot].arch /\ RowOf(e) = RowAt(e.slot)
           /\ records[e.slot] \in EntityRecord
<1>1. e.slot \in Slot
  BY NumbersAssumption DEF WorldOK, TableType, Valid, Slot
<1>2. QED
  BY <1>1 DEF WorldOK, TableType, Valid, Alive, KeyOf, RowOf, RowAt

\* Appending adds one element to what a sequence holds.
LEMMA Pushed ==
    ASSUME NEW S, NEW f \in Seq(S), NEW x \in S, NEW a, a = Append(f, x), NEW t
    PROVE  (\E i \in 1..Len(a) : a[i] = t) <=>
              t = x \/ \E i \in 1..Len(f) : f[i] = t
<1>1. /\ Len(f) \in Nat /\ Len(a) = Len(f) + 1 /\ a[Len(f) + 1] = x
      /\ \A i \in 1..Len(f) : a[i] = f[i]
  BY AppendProperties, LenProperties
<1>2. ASSUME NEW i \in 1..Len(a), a[i] = t
      PROVE  t = x \/ \E j \in 1..Len(f) : f[j] = t
  <2>1. i = Len(f) + 1 \/ i \in 1..Len(f)
    BY <1>1
  <2>2. QED
    BY <1>1, <1>2, <2>1, Zenon
<1>3. ASSUME t = x
      PROVE  \E i \in 1..Len(a) : a[i] = t
  BY <1>1, <1>3
<1>4. ASSUME NEW j \in 1..Len(f), f[j] = t
      PROVE  \E i \in 1..Len(a) : a[i] = t
  <2>1. j \in 1..Len(a)
    BY <1>1
  <2>2. QED
    BY <1>1, <1>4, <2>1, Zenon
<1>5. QED
  BY <1>2, <1>3, <1>4

\* A record that is cleared is a record, with its generation and not alive.
LEMMA FreshWith ==
    ASSUME NEW g \in Generation
    PROVE  /\ [FreshRecord EXCEPT !.gen = g] \in EntityRecord
           /\ [FreshRecord EXCEPT !.gen = g].gen = g
           /\ [FreshRecord EXCEPT !.gen = g].alive = FALSE
BY DEF FreshRecord, EntityRecord

\* destroy(): the entity is gone, the slot is free and one generation on.
LEMMA DestroyKeeps ==
    ASSUME WorldOK, NEW e, e.slot \in Nat, DestroyEntity(e)
    PROVE  /\ WorldOK' /\ issued' = issued
           /\ Valid(e) => ~Alive(e.slot)' /\ OthersKept(e.slot)
           /\ ~Valid(e) => UNCHANGED world
<1>1. CASE ~Valid(e)
  <2>1. UNCHANGED <<records, used, free, archetypes, chunks, issued>>
    BY <1>1 DEF DestroyEntity, world
  <2>2. archetypes' \in Seq(Key)
    BY <2>1 DEF WorldOK, TableType
  <2>3. QED
    BY <1>1, <2>1, <2>2, WorldUnchanged DEF world
<1>2. CASE Valid(e)
  <2> DEFINE s == e.slot
             src == records[s].arch
             new == [FreshRecord EXCEPT !.gen = NextGeneration(records[s].gen)]
  <2>1. /\ s \in Slot /\ Alive(s) /\ records[s] \in EntityRecord
    BY <1>2, ValidSlot
  <2>2. /\ chunks' = [chunks EXCEPT ![src] = Gap(s)]
        /\ records' = [Follow(s) EXCEPT ![s] = new]
        /\ free' = Append(free, s)
        /\ used' = used /\ archetypes' = archetypes /\ issued' = issued
    BY <1>2 DEF DestroyEntity, Gap, Follow
  <2>3. src \in Key /\ ChunksOf(src, Gap(s))
    BY <2>1, AliveFacts, Vacated
  <2> DEFINE last == Len(chunks[src][records[s].chunk])
  <2>4. last = Len(chunks[records[s].arch][records[s].chunk])
    OBVIOUS
  <2> HIDE DEF last
  <2>5. /\ Follow(s) \in [Slot -> EntityRecord]
        /\ \A t \in Slot :
             /\ Follow(s)[t].gen = records[t].gen /\ Follow(s)[t].alive = records[t].alive
             /\ ~Alive(t) => Follow(s)[t] = records[t]
    BY <2>1, <2>4, Followed
  <2>6. /\ IsFiniteSet(issued) /\ Cardinality(issued) \in Nat /\ Cardinality(issued) <= MaxWork
        /\ \A t \in Slot :
             /\ records[t].gen <= Cardinality(issued) + 1
             /\ records[t].alive => records[t].gen <= Cardinality(issued)
             /\ t >= used => records[t] = FreshRecord
        /\ \A h \in issued :
             /\ h.slot < used
             /\ h.gen <= records[h.slot].gen
             /\ h.gen = records[h.slot].gen => records[h.slot].alive
    BY FS_CardinalityType DEF WorldOK, Handles
  <2>7. records[s].gen \in Nat \ {0} /\ records[s].gen <= Cardinality(issued)
    BY <2>1, <2>6 DEF Alive, EntityRecord, Generation
  <2>8. NextGeneration(records[s].gen) = records[s].gen + 1
    BY <2>6, <2>7, NumbersAssumption DEF NextGeneration
  <2>9. /\ new \in EntityRecord /\ new.gen = records[s].gen + 1 /\ new.alive = FALSE
    <3>1. records[s].gen + 1 \in Generation
      BY <2>6, <2>7, NumbersAssumption DEF Generation
    <3>2. QED
      BY <2>8, <3>1, FreshWith
  <2> HIDE DEF new
  <2>10. /\ records' \in [Slot -> EntityRecord] /\ records'[s] = new
         /\ \A t \in Slot \ {s} : records'[t] = Follow(s)[t]
    BY <2>1, <2>2, <2>5, <2>9
  <2>11. /\ chunks'[src] = Gap(s)
         /\ \A key \in Key \ {src} : chunks'[key] = chunks[key]
         /\ chunks' = [key \in Key |-> chunks'[key]]
    BY <2>2, <2>3 DEF WorldOK, ChunkType
  <2>12. Erases(s)
    BY <2>2, <2>10, <2>11 DEF Erases
  <2>13. /\ OthersKept(s)
         /\ \A t \in Slot \ {s} : Alive(t) =>
              records'[t].arch \in Key /\ Place(t)' /\ RowAt(t)'.entity = HandleOf(t)'
    BY <2>1, <2>12, Survivors
  <2>14. ~Alive(s)'
    BY <2>9, <2>10 DEF Alive
  <2>15. TableType'
    <3>1. free \in Seq(Slot)
      BY DEF WorldOK, TableType
    <3>2. Append(free, s) \in Seq(Slot)
      BY <2>1, <3>1, AppendProperties
    <3>3. QED
      BY <2>2, <2>10, <3>2 DEF WorldOK, TableType
  <2>16. ChunkType'
    BY <2>3, <2>11 DEF WorldOK, ChunkType
  <2>17. RecordsLead'
    <3> SUFFICES ASSUME NEW t \in Slot, Alive(t)'
                 PROVE  (records[t].arch \in Key /\ Place(t) /\ RowAt(t).entity = HandleOf(t))'
      BY DEF RecordsLead
    <3>1. t # s
      BY <2>14
    <3>2. Alive(t)
      BY <2>13, <3>1 DEF OthersKept
    <3>3. QED
      BY <2>13, <3>1, <3>2
  <2>18. RowsLead'
    <3> SUFFICES ASSUME NEW key \in Key, NEW c \in Nat, NEW r \in Nat, In(chunks'[key], c, r)
                 PROVE  \E t \in Slot : Owns(t, key, c, r)'
      BY DEF RowsLead
    <3>1. IF key = src THEN In(Gap(s), c, r) ELSE In(chunks[key], c, r)
      BY <2>11
    <3>2. QED
      BY <2>1, <2>12, <3>1, SurvivingRows
  <2>19. FreeList'
    <3>1. /\ free \in Seq(Slot) /\ Len(free) \in Nat
          /\ Len(free') = Len(free) + 1 /\ free'[Len(free) + 1] = s
          /\ \A i \in 1..Len(free) : free'[i] = free[i]
      BY <2>1, <2>2, AppendProperties, LenProperties DEF WorldOK, TableType
    <3>2. /\ \A t \in Slot :
               (t < used /\ ~records[t].alive) <=> (\E i \in 1..Len(free) : free[i] = t)
          /\ \A i, j \in 1..Len(free) : free[i] = free[j] => i = j
          /\ \A i \in 1..Len(free) : free[i] < used
      BY DEF WorldOK, FreeList
    <3>3. s < used /\ records[s].alive
      BY <2>1 DEF Alive
    <3>4. \A i \in 1..Len(free) : free[i] # s
      BY <2>1, <3>2, <3>3
    <3>5. \A t \in Slot : records'[t].alive = IF t = s THEN FALSE ELSE records[t].alive
      BY <2>5, <2>9, <2>10
    <3>6. \A t \in Slot :
            (t < used /\ ~records'[t].alive) <=> (\E i \in 1..Len(free') : free'[i] = t)
      <4> SUFFICES ASSUME NEW t \in Slot
                   PROVE  (t < used /\ ~records'[t].alive) <=>
                            (\E i \in 1..Len(free') : free'[i] = t)
        OBVIOUS
      <4>1. (\E i \in 1..Len(free') : free'[i] = t) <=>
               t = s \/ \E i \in 1..Len(free) : free[i] = t
        <5>1. free \in Seq(Slot)
          BY DEF WorldOK, TableType
        <5>2. QED
          BY <2>1, <2>2, <5>1, Pushed
      <4>2. (t < used /\ ~records[t].alive) <=> (\E i \in 1..Len(free) : free[i] = t)
        BY <3>2, Zenon
      <4>3. records'[t].alive = IF t = s THEN FALSE ELSE records[t].alive
        BY <3>5, Zenon
      <4>4. QED
        BY <3>3, <4>1, <4>2, <4>3, Zenon
    <3>7. \A i, j \in 1..Len(free') : free'[i] = free'[j] => i = j
      BY <3>1, <3>2, <3>4
    <3>8. \A i \in 1..Len(free') : free'[i] < used
      BY <3>1, <3>2, <3>3
    <3>9. QED
      BY <2>2, <3>6, <3>7, <3>8 DEF FreeList
  <2>20. Handles'
    <3>1. \A t \in Slot : /\ records'[t].gen = IF t = s THEN records[s].gen + 1 ELSE records[t].gen
                          /\ records'[t].alive = IF t = s THEN FALSE ELSE records[t].alive
      BY <2>5, <2>9, <2>10
    <3>2. \A t \in Slot : t >= used => records'[t] = FreshRecord
      <4> SUFFICES ASSUME NEW t \in Slot, t >= used
                   PROVE  records'[t] = FreshRecord
        OBVIOUS
      <4>1. ~Alive(t) /\ t # s
        BY <2>1, NumbersAssumption DEF Alive, Slot, WorldOK, TableType
      <4>2. QED
        BY <2>5, <2>6, <2>10, <4>1
    <3>3. \A t \in Slot : records[t].gen \in Nat
      BY DEF WorldOK, TableType, EntityRecord, Generation
    <3>4. \A h \in issued : h.slot \in Slot /\ h.gen \in Nat
      BY DEF WorldOK, TableType, Entity, Generation
    <3>5. \A h \in issued :
            /\ h.slot < used
            /\ h.gen <= records'[h.slot].gen
            /\ h.gen = records'[h.slot].gen => records'[h.slot].alive
      <4> SUFFICES ASSUME NEW h \in issued
                   PROVE  /\ h.slot < used
                          /\ h.gen <= records'[h.slot].gen
                          /\ h.gen = records'[h.slot].gen => records'[h.slot].alive
        OBVIOUS
      <4>1. /\ h.slot < used /\ h.gen <= records[h.slot].gen
            /\ h.gen = records[h.slot].gen => records[h.slot].alive
            /\ h.slot \in Slot /\ h.gen \in Nat /\ records[h.slot].gen \in Nat
        BY <2>6, <3>3, <3>4
      <4>2. CASE h.slot = s
        <5>1. records'[h.slot].gen = records[h.slot].gen + 1
          BY <3>1, <4>1, <4>2
        <5>2. QED
          BY <4>1, <5>1
      <4>3. CASE h.slot # s
        <5>1. records'[h.slot].gen = records[h.slot].gen /\ records'[h.slot].alive = records[h.slot].alive
          BY <3>1, <4>1, <4>3, Zenon
        <5>2. QED
          BY <4>1, <5>1, Zenon
      <4>4. QED
        BY <4>2, <4>3
    <3>6. \A t \in Slot :
            /\ records'[t].gen <= Cardinality(issued) + 1
            /\ records'[t].alive => records'[t].gen <= Cardinality(issued)
      <4> DEFINE n == Cardinality(issued)
      <4>1. /\ n \in Nat /\ records[s].gen \in Nat /\ records[s].gen <= n
            /\ \A t \in Slot : /\ records[t].gen <= n + 1
                               /\ records[t].alive => records[t].gen <= n
        BY <2>6, <2>7
      <4> HIDE DEF n
      <4> SUFFICES ASSUME NEW t \in Slot
                   PROVE  /\ records'[t].gen <= n + 1
                          /\ records'[t].alive => records'[t].gen <= n
        BY DEF n
      <4>2. CASE t = s
        <5>1. records'[t].gen = records[s].gen + 1 /\ ~records'[t].alive
          BY <3>1, <4>2
        <5>2. QED
          BY <4>1, <5>1
      <4>3. CASE t # s
        <5>1. records'[t].gen = records[t].gen /\ records'[t].alive = records[t].alive
          BY <3>1, <4>3, Zenon
        <5>2. QED
          BY <4>1, <5>1, Zenon
      <4>4. QED
        BY <4>2, <4>3
    <3>7. QED
      BY <2>2, <2>6, <3>2, <3>5, <3>6 DEF Handles
  <2>21. QED
    BY <1>2, <2>2, <2>13, <2>14, <2>15, <2>16, <2>17, <2>18, <2>19, <2>20 DEF WorldOK
<1>3. QED
  BY <1>1, <1>2

\* A step that keeps every generation and every entity alive keeps the free list
\* and the handles.
LEMMA TablesKept ==
    ASSUME WorldOK, UNCHANGED <<used, free, issued>>,
           \A t \in Slot :
             /\ records'[t].gen = records[t].gen /\ records'[t].alive = records[t].alive
             /\ t >= used => records'[t] = records[t]
    PROVE  FreeList' /\ Handles'
<1>1. used' = used /\ free' = free /\ issued' = issued
  OBVIOUS
<1>2. FreeList'
  BY <1>1 DEF WorldOK, FreeList
<1>3. \A h \in issued : h.slot \in Slot
  BY DEF WorldOK, TableType, Entity
<1>4. Handles'
  BY <1>1, <1>3 DEF WorldOK, Handles
<1>5. QED
  BY <1>2, <1>4

\* get_or_create_archetype() lists keys.
LEMMA Listed ==
    ASSUME WorldOK, NEW key \in Key
    PROVE  WithArchetype(key) \in Seq(Key)
BY AppendProperties DEF WorldOK, TableType, WithArchetype

\* migrate(): the entity has a row in the other archetype, or nothing moved.
LEMMA MigrateKeeps ==
    ASSUME WorldOK, NEW e, e.slot \in Nat, Valid(e), e = HandleOf(e.slot),
           NEW dst \in Key, dst # records[e.slot].arch,
           NEW bundle, [entity |-> e, data |-> bundle] \in Row, DOMAIN bundle = dst,
           NEW memory, Migrate(e, dst, bundle, memory), UNCHANGED <<used, free, issued>>
    PROVE  /\ WorldOK' /\ OthersKept(e.slot) /\ Alive(e.slot)'
           /\ records'[e.slot].gen = records[e.slot].gen
           /\ IF NeedsChunk(dst) /\ ~memory THEN UNCHANGED <<records, chunks>>
              ELSE RowAt(e.slot)' = [entity |-> e, data |-> bundle]
<1> DEFINE s == e.slot
           src == records[s].arch
           row == [entity |-> e, data |-> bundle]
           n == Room(dst)
           k == NewRow(dst)
           a == Appended(dst, row)
<1>0. /\ s \in Slot /\ Alive(s) /\ records[s] \in EntityRecord
      /\ archetypes' = WithArchetype(dst)
      /\ archetypes' \in Seq(Key)
  BY ValidSlot, Listed DEF Migrate
<1>1. CASE NeedsChunk(dst) /\ ~memory
  <2>1. UNCHANGED <<records, used, free, chunks, issued>>
    BY <1>1 DEF Migrate
  <2>2. WorldOK' /\ OthersKept(s) /\ Alive(s)'
    BY <1>0, <2>1, WorldUnchanged
  <2>3. QED
    BY <1>1, <2>1, <2>2
<1>2. CASE ~(NeedsChunk(dst) /\ ~memory)
  <2>1. /\ chunks' = [chunks EXCEPT ![dst] = a, ![src] = Gap(s)]
        /\ records' = [Follow(s) EXCEPT ![s] =
              [@ EXCEPT !.arch = dst, !.chunk = n, !.row = k]]
    BY <1>2 DEF Migrate, Gap, Follow
  <2>2. src \in Key /\ ChunksOf(src, Gap(s)) /\ src # dst
    BY <1>0, AliveFacts, Vacated
  <2>3. ChunksOf(dst, chunks[dst])
    BY DEF WorldOK, ChunkType
  <2>4. row \in Row /\ DOMAIN row.data = dst /\ row.entity = e
    OBVIOUS
  <2> HIDE DEF row
  <2>5. /\ ChunksOf(dst, a) /\ n \in Nat /\ k \in Nat
        /\ In(a, n, k) /\ a[n][k] = row
        /\ \A c, r \in Nat :
             /\ In(chunks[dst], c, r) => In(a, c, r) /\ a[c][r] = chunks[dst][c][r]
             /\ In(a, c, r) => In(chunks[dst], c, r) \/ (c = n /\ r = k)
    BY <2>3, <2>4, AppendedRow
  <2> HIDE DEF a, n, k
  <2> DEFINE last == Len(chunks[src][records[s].chunk])
  <2>6. last = Len(chunks[records[s].arch][records[s].chunk])
    OBVIOUS
  <2> HIDE DEF last
  <2>7. /\ Follow(s) \in [Slot -> EntityRecord] /\ Follow(s)[s] = records[s]
        /\ \A t \in Slot :
             /\ Follow(s)[t].gen = records[t].gen /\ Follow(s)[t].alive = records[t].alive
             /\ ~Alive(t) => Follow(s)[t] = records[t]
    BY <1>0, <2>6, Followed
  <2>s. s = e.slot
    OBVIOUS
  <2>src. src = records[s].arch
    OBVIOUS
  <2> HIDE DEF s, src
  <2>8. /\ records' \in [Slot -> EntityRecord]
        /\ \A t \in Slot \ {s} : records'[t] = Follow(s)[t]
        /\ records'[s].gen = records[s].gen /\ records'[s].alive = records[s].alive
        /\ records'[s].arch = dst /\ records'[s].chunk = n /\ records'[s].row = k
    BY <1>0, <2>1, <2>5, <2>7 DEF EntityRecord
  <2>9. /\ chunks'[src] = Gap(s) /\ chunks'[dst] = a
        /\ \A key \in Key : key # src /\ key # dst => chunks'[key] = chunks[key]
        /\ chunks' = [key \in Key |-> chunks'[key]]
    BY <2>1, <2>2 DEF WorldOK, ChunkType
  <2>10. Erases(s)
    <3> SUFFICES ASSUME NEW key \in Key \ {src}, NEW c \in Nat, NEW r \in Nat,
                        In(chunks[key], c, r)
                 PROVE  In(chunks'[key], c, r) /\ chunks'[key][c][r] = chunks[key][c][r]
      BY <2>8, <2>9, <2>src DEF Erases
    <3>1. QED
      BY <2>5, <2>9
  <2>11. /\ OthersKept(s)
         /\ \A t \in Slot \ {s} : Alive(t) =>
              records'[t].arch \in Key /\ Place(t)' /\ RowAt(t)'.entity = HandleOf(t)'
    BY <1>0, <2>10, Survivors
  <2>12. Alive(s)' /\ Place(s)' /\ RowAt(s)' = row /\ HandleOf(s)' = e
    <3>1. Alive(s)'
      BY <1>0, <2>8 DEF Alive
    <3>2. Place(s)' /\ RowAt(s)' = row
      BY <2>5, <2>8, <2>9 DEF Place, RowAt
    <3>3. HandleOf(s)' = HandleOf(s)
      BY <2>8 DEF HandleOf
    <3>4. QED
      BY <2>s, <3>1, <3>2, <3>3
  <2>13. TableType'
    BY <1>0, <2>8 DEF WorldOK, TableType
  <2>14. ChunkType'
    <3>1. ASSUME NEW key \in Key PROVE ChunksOf(key, chunks'[key])
      <4>1. key # src /\ key # dst => ChunksOf(key, chunks'[key])
        BY <2>9 DEF WorldOK, ChunkType
      <4>2. QED
        BY <2>2, <2>5, <2>9, <4>1
    <3>2. QED
      BY <2>9, <3>1 DEF ChunkType
  <2>15. RecordsLead'
    <3> SUFFICES ASSUME NEW t \in Slot, Alive(t)'
                 PROVE  (records[t].arch \in Key /\ Place(t) /\ RowAt(t).entity = HandleOf(t))'
      BY DEF RecordsLead
    <3>1. CASE t = s
      BY <2>4, <2>8, <2>12, <3>1
    <3>2. CASE t # s
      BY <2>11, <3>2 DEF OthersKept
    <3>3. QED
      BY <3>1, <3>2
  <2>16. RowsLead'
    <3> SUFFICES ASSUME NEW key \in Key, NEW c \in Nat, NEW r \in Nat, In(chunks'[key], c, r)
                 PROVE  \E t \in Slot : Owns(t, key, c, r)'
      BY DEF RowsLead
    <3>1. CASE key = dst /\ c = n /\ r = k
      <4>1. Owns(s, key, c, r)'
        BY <2>4, <2>8, <2>12, <3>1 DEF Owns, RowAt
      <4>2. QED
        BY <1>0, <4>1
    <3>2. CASE ~(key = dst /\ c = n /\ r = k)
      <4>1. IF key = records[s].arch THEN In(Gap(s), c, r) ELSE In(chunks[key], c, r)
        BY <2>2, <2>5, <2>9, <2>src, <3>2
      <4>2. QED
        BY <1>0, <2>10, <4>1, SurvivingRows
    <3>3. QED
      BY <3>1, <3>2
  <2>17. FreeList' /\ Handles'
    <3> SUFFICES \A t \in Slot :
             /\ records'[t].gen = records[t].gen /\ records'[t].alive = records[t].alive
             /\ t >= used => records'[t] = records[t]
      BY TablesKept
    <3> TAKE t \in Slot
    <3>1. records'[t].gen = records[t].gen /\ records'[t].alive = records[t].alive
      BY <2>7, <2>8
    <3>2. ASSUME t >= used PROVE records'[t] = records[t]
      <4>1. ~Alive(t) /\ t # s
        BY <1>0, <3>2, NumbersAssumption DEF Alive, Slot, WorldOK, TableType
      <4>2. QED
        BY <2>7, <2>8, <4>1
    <3>3. QED
      BY <3>1, <3>2
  <2>18. QED
    BY <1>2, <2>8, <2>11, <2>12, <2>13, <2>14, <2>15, <2>16, <2>17, <2>s DEF WorldOK, row
<1>3. QED
  BY <1>1, <1>2

\* A row with one component set is a row of the same entity and archetype.
LEMMA RowWith ==
    ASSUME NEW row \in Row, NEW key \in Key, DOMAIN row.data = key,
           NEW c \in key, NEW v \in Datum[c]
    PROVE  /\ [row EXCEPT !.data = [@ EXCEPT ![c] = v]] \in Row
           /\ [row EXCEPT !.data = [@ EXCEPT ![c] = v]].entity = row.entity
           /\ [row EXCEPT !.data = [@ EXCEPT ![c] = v]].data = [row.data EXCEPT ![c] = v]
           /\ DOMAIN [row.data EXCEPT ![c] = v] = key
<1> DEFINE d == [row.data EXCEPT ![c] = v]
           w == [row EXCEPT !.data = d]
<1>1. row.entity \in Entity /\ row.data \in [key -> Data]
  BY DEF Row
<1>2. v \in Data
  BY DEF Data, Key
<1>3. d \in [key -> Data] /\ DOMAIN d = key
  BY <1>1, <1>2
<1> HIDE DEF d
<1>4. w.entity = row.entity /\ w.data = d /\ w = [entity |-> row.entity, data |-> d]
  BY DEF Row
<1>5. w \in Row
  BY <1>1, <1>3, <1>4 DEF Row
<1>6. QED
  BY <1>3, <1>4, <1>5 DEF d

\* Rows of chunk x of an archetype replaced by others.
Replaced(key, x, b) == chunks' = [chunks EXCEPT ![key] = [@ EXCEPT ![x] = b]]

\* A chunk whose rows keep their entities may be written over.
LEMMA ChunkWritten ==
    ASSUME WorldOK, NEW key \in Key, NEW c \in 1..Len(chunks[key]),
           NEW b \in Seq(Row), Len(b) = Len(chunks[key][c]),
           \A i \in 1..Len(b) : b[i].entity = chunks[key][c][i].entity /\ DOMAIN b[i].data = key,
           Replaced(key, c, b),
           UNCHANGED <<records, used, free, archetypes, issued>>
    PROVE  /\ WorldOK' /\ \A s \in Slot : Alive(s)' <=> Alive(s)
           /\ chunks'[key][c] = b
           /\ \A l \in Key, x, y \in Nat :
                In(chunks[l], x, y) /\ ~(l = key /\ x = c) => chunks'[l][x][y] = chunks[l][x][y]
<1> DEFINE q == chunks[key]
           p == [q EXCEPT ![c] = b]
<1>1. ChunksOf(key, q) /\ chunks = [l \in Key |-> chunks[l]]
  BY DEF WorldOK, ChunkType
<1>2. q \in Seq(Seq(Row)) /\ Len(q) \in Nat /\ c \in 1..Len(q)
  BY <1>1, LenProperties DEF ChunksOf
<1>3. /\ chunks'[key] = p
      /\ \A l \in Key : l # key => chunks'[l] = chunks[l]
      /\ chunks' = [l \in Key |-> chunks'[l]]
  BY <1>1 DEF Replaced
<1> HIDE DEF q
<1>4. /\ p \in Seq(Seq(Row)) /\ Len(p) = Len(q) /\ p[c] = b
      /\ \A x \in 1..Len(q) : x # c => p[x] = q[x]
  BY <1>2, ExceptSeq
<1> HIDE DEF p
<1>5. \A x \in 1..Len(q) : Len(p[x]) = Len(q[x])
  BY <1>4 DEF q
<1>6. \A x, y \in Nat : /\ In(p, x, y) <=> In(q, x, y)
                        /\ In(q, x, y) => p[x][y].entity = q[x][y].entity
                        /\ In(q, x, y) /\ x # c => p[x][y] = q[x][y]
                        /\ In(q, x, y) => DOMAIN p[x][y].data = key
  <2> SUFFICES ASSUME NEW x \in Nat, NEW y \in Nat
               PROVE  /\ In(p, x, y) <=> In(q, x, y)
                      /\ In(q, x, y) => p[x][y].entity = q[x][y].entity
                      /\ In(q, x, y) /\ x # c => p[x][y] = q[x][y]
                      /\ In(q, x, y) => DOMAIN p[x][y].data = key
    OBVIOUS
  <2>1. In(p, x, y) <=> In(q, x, y)
    BY <1>4, <1>5 DEF In
  <2>2. In(q, x, y) /\ x # c => p[x][y] = q[x][y]
    BY <1>4 DEF In
  <2>3. In(q, x, y) => DOMAIN q[x][y].data = key
    BY <1>1 DEF ChunksOf
  <2>4. ASSUME In(q, x, y), x = c
        PROVE  p[x][y].entity = q[x][y].entity /\ DOMAIN p[x][y].data = key
    <3>1. y \in 1..Len(b)
      BY <2>4 DEF In, q
    <3>2. QED
      BY <1>4, <2>4, <3>1 DEF q
  <2>5. QED
    BY <2>1, <2>2, <2>3, <2>4
<1>7. ChunksOf(key, p)
  <2>1. \A x \in 1..Len(p) : Len(p[x]) <= Capacity[key]
    BY <1>1, <1>4, <1>5 DEF ChunksOf
  <2>2. QED
    BY <1>4, <1>6, <2>1 DEF ChunksOf
<1>8. ChunkType'
  <2>1. ASSUME NEW l \in Key PROVE ChunksOf(l, chunks'[l])
    <3>1. l # key => ChunksOf(l, chunks'[l])
      BY <1>3 DEF WorldOK, ChunkType
    <3>2. QED
      BY <1>3, <1>7, <3>1
  <2>2. QED
    BY <1>3, <2>1 DEF ChunkType
<1>9. \A l \in Key, x \in Nat, y \in Nat :
        /\ In(chunks'[l], x, y) <=> In(chunks[l], x, y)
        /\ In(chunks[l], x, y) => chunks'[l][x][y].entity = chunks[l][x][y].entity
  <2> SUFFICES ASSUME NEW l \in Key, NEW x \in Nat, NEW y \in Nat
               PROVE  /\ In(chunks'[l], x, y) <=> In(chunks[l], x, y)
                      /\ In(chunks[l], x, y) =>
                           chunks'[l][x][y].entity = chunks[l][x][y].entity
    OBVIOUS
  <2>1. CASE l = key
    <3>1. chunks'[l] = p /\ chunks[l] = q
      BY <1>3, <2>1 DEF q
    <3>2. /\ In(p, x, y) <=> In(q, x, y)
          /\ In(q, x, y) => p[x][y].entity = q[x][y].entity
      BY <1>6
    <3>3. QED
      BY <3>1, <3>2
  <2>2. CASE l # key
    BY <1>3, <2>2
  <2>3. QED
    BY <2>1, <2>2
<1>10. archetypes' \in Seq(Key)
  BY DEF WorldOK, TableType
<1>11. WorldOK' /\ \A s \in Slot : Alive(s)' <=> Alive(s)
  BY <1>8, <1>9, <1>10, ShapeKept
<1>12. \A l \in Key, x, y \in Nat :
         In(chunks[l], x, y) /\ ~(l = key /\ x = c) => chunks'[l][x][y] = chunks[l][x][y]
  BY <1>3, <1>6 DEF q
<1>13. QED
  BY <1>3, <1>4, <1>11, <1>12

\* Writing a component in place changes it in that entity's row and nothing else.
LEMMA OverwriteKeeps ==
    ASSUME WorldOK, NEW e, e.slot \in Nat, Valid(e), NEW c \in KeyOf(e), NEW v \in Datum[c],
           Overwrite(e, c, v), UNCHANGED <<table, archetypes, issued>>
    PROVE  /\ WorldOK' /\ OthersKept(e.slot) /\ Alive(e.slot)'
           /\ records' = records
           /\ RowAt(e.slot)' = [RowAt(e.slot) EXCEPT !.data = [@ EXCEPT ![c] = v]]
<1> DEFINE s == e.slot
           key == records[s].arch
           x == records[s].chunk
           y == records[s].row
           row == RowAt(s)
           new == [row EXCEPT !.data = [@ EXCEPT ![c] = v]]
           old == chunks[key][x]
           b == [old EXCEPT ![y] = new]
<1>1. s \in Slot /\ Alive(s) /\ KeyOf(e) = key
  BY ValidSlot
<1>2. /\ key \in Key /\ x \in Nat /\ y \in Nat /\ In(chunks[key], x, y)
      /\ ChunksOf(key, chunks[key])
      /\ row \in Row /\ DOMAIN row.data = key
  BY <1>1, AliveFacts
<1>3. new \in Row /\ new.entity = row.entity /\ DOMAIN new.data = key
  BY <1>1, <1>2, RowWith
<1>4. x \in 1..Len(chunks[key]) /\ y \in 1..Len(old) /\ old \in Seq(Row) /\ row = old[y]
  <2>1. x \in 1..Len(chunks[key]) /\ y \in 1..Len(old) /\ chunks[key] \in Seq(Seq(Row))
    BY <1>2 DEF In, ChunksOf
  <2>2. QED
    BY <2>1, ElementOfSeq DEF RowAt
<1>5. Replaced(key, x, b)
  <2>1. chunks' = [chunks EXCEPT ![key] = [chunks[key] EXCEPT ![x] =
            [chunks[key][x] EXCEPT ![y] = [chunks[key][x][y] EXCEPT !.data =
               [chunks[key][x][y].data EXCEPT ![c] = v]]]]]
    BY DEF Overwrite
  <2>2. row = chunks[key][x][y]
    BY DEF RowAt
  <2>3. QED
    BY <2>1, <2>2 DEF Replaced
<1>6. UNCHANGED <<records, used, free, archetypes, issued>>
  BY DEF table
<1>7. \A i \in 1..Len(old) : DOMAIN old[i].data = key
  <2> SUFFICES ASSUME NEW i \in 1..Len(old) PROVE DOMAIN old[i].data = key
    OBVIOUS
  <2>1. Len(old) \in Nat
    BY <1>4, LenProperties
  <2>2. i \in Nat /\ In(chunks[key], x, i)
    BY <1>4, <2>1 DEF In
  <2>3. QED
    BY <1>2, <2>2 DEF ChunksOf
<1>old. old = chunks[key][x]
  OBVIOUS
<1>row. row = RowAt(s)
  OBVIOUS
<1> HIDE DEF s, key, x, y, row, new, old
<1>8. /\ b \in Seq(Row) /\ Len(b) = Len(old)
      /\ \A i \in 1..Len(old) : b[i] = IF i = y THEN new ELSE old[i]
  BY <1>3, <1>4, ExceptSeq
<1> HIDE DEF b
<1>9. \A i \in 1..Len(b) : b[i].entity = old[i].entity /\ DOMAIN b[i].data = key
  BY <1>3, <1>4, <1>7, <1>8
<1>10. /\ WorldOK' /\ \A t \in Slot : Alive(t)' <=> Alive(t)
       /\ chunks'[key][x] = b
       /\ \A l \in Key, i, j \in Nat :
            In(chunks[l], i, j) /\ ~(l = key /\ i = x) => chunks'[l][i][j] = chunks[l][i][j]
  <2>1. /\ key \in Key /\ x \in 1..Len(chunks[key]) /\ b \in Seq(Row)
        /\ Len(b) = Len(chunks[key][x])
        /\ \A i \in 1..Len(b) :
             b[i].entity = chunks[key][x][i].entity /\ DOMAIN b[i].data = key
    BY <1>2, <1>4, <1>8, <1>9, <1>old
  <2>2. QED
    BY <1>5, <1>6, <2>1, ChunkWritten
<1>11. RowAt(s)' = new
  BY <1>4, <1>6, <1>8, <1>10 DEF RowAt, key, x, y
<1>12. OthersKept(s)
  <2> SUFFICES ASSUME NEW t \in Slot \ {s}, Alive(t)
               PROVE  RowAt(t)' = RowAt(t)
    BY <1>6, <1>10 DEF OthersKept
  <2>1. /\ records[t].arch \in Key /\ records[t].chunk \in Nat /\ records[t].row \in Nat
        /\ In(chunks[records[t].arch], records[t].chunk, records[t].row)
    BY AliveFacts
  <2>2. CASE records[t].arch = key /\ records[t].chunk = x
    <3>1. records[t].row # y
      BY <1>1, <2>2, RowsApart DEF key, x, y
    <3>2. records[t].row \in 1..Len(old)
      BY <1>old, <2>1, <2>2 DEF In
    <3>3. b[records[t].row] = old[records[t].row]
      BY <1>8, <3>1, <3>2
    <3>4. QED
      BY <1>6, <1>10, <1>old, <2>2, <3>3 DEF RowAt
  <2>3. CASE ~(records[t].arch = key /\ records[t].chunk = x)
    BY <1>6, <1>10, <2>1, <2>3 DEF RowAt
  <2>4. QED
    BY <2>2, <2>3
<1>13. QED
  BY <1>1, <1>6, <1>10, <1>11, <1>12 DEF s, new, row

\* What a call with a handle may do to the entity of slot s: another set of
\* components, and every other entity as it was.
Becomes(s, d) ==
    /\ OthersKept(s) /\ Alive(s)' /\ records'[s].gen = records[s].gen
    /\ RowAt(s)'.data = d \/ RowAt(s)'.data = RowAt(s).data

\* The components of d with c set to v.
Having(d, c, v) == [k \in DOMAIN d \cup {c} |-> IF k = c THEN v ELSE d[k]]

\* The data of a live entity's row.
LEMMA RowData ==
    ASSUME WorldOK, NEW e \in [slot : Nat, gen : Nat], Valid(e)
    PROVE  /\ e = HandleOf(e.slot) /\ e \in Entity
           /\ KeyOf(e) \in Key /\ KeyOf(e) = records[e.slot].arch
           /\ RowOf(e) = RowAt(e.slot)
           /\ RowOf(e).data \in [KeyOf(e) -> Data]
<1> DEFINE s == e.slot
<1>1. /\ s \in Slot /\ Alive(s) /\ e.gen = records[s].gen
      /\ KeyOf(e) = records[s].arch /\ RowOf(e) = RowAt(s)
      /\ records[s] \in EntityRecord
  BY ValidSlot
<1>2. e = HandleOf(s) /\ e \in Entity
  BY <1>1 DEF HandleOf, Entity, EntityRecord
<1>3. records[s].arch \in Key /\ RowAt(s) \in Row /\ DOMAIN RowAt(s).data = records[s].arch
  BY <1>1, AliveFacts
<1>4. RowAt(s).data \in [records[s].arch -> Data]
  BY <1>3 DEF Row
<1>5. QED
  BY <1>1, <1>2, <1>3, <1>4

\* A wider or narrower bundle is a row of the other archetype.
LEMMA BundleIsRow ==
    ASSUME NEW e \in Entity, NEW key \in Key, NEW d \in [key -> Data]
    PROVE  [entity |-> e, data |-> d] \in Row /\ DOMAIN d = key
BY DEF Row

\* add_component(): the entity has the component, or all is as before.
LEMMA AddKeeps ==
    ASSUME WorldOK, NEW e \in [slot : Nat, gen : Nat], NEW c \in Component, NEW v \in Datum[c],
           NEW memory, AddComponent(e, c, v, memory)
    PROVE  /\ WorldOK' /\ issued' = issued
           /\ Valid(e) => Becomes(e.slot, Having(RowAt(e.slot).data, c, v))
           /\ Valid(e) /\ memory = TRUE =>
                RowAt(e.slot)'.data = Having(RowAt(e.slot).data, c, v)
           /\ ~Valid(e) => UNCHANGED world
<1> DEFINE s == e.slot
           d == RowOf(e).data
           key == KeyOf(e)
<1>1. CASE ~Valid(e)
  <2>1. UNCHANGED <<records, used, free, archetypes, chunks, issued>>
    BY <1>1 DEF AddComponent, world
  <2>2. archetypes' \in Seq(Key)
    BY <2>1 DEF WorldOK, TableType
  <2>3. QED
    BY <1>1, <2>1, <2>2, WorldUnchanged DEF world
<1>2. CASE Valid(e)
  <2>1. /\ e = HandleOf(s) /\ e \in Entity /\ key \in Key /\ key = records[s].arch
        /\ RowOf(e) = RowAt(s) /\ d \in [key -> Data] /\ e.slot \in Nat
    BY <1>2, RowData
  <2>2. CASE c \in key
    <3>1. Overwrite(e, c, v) /\ UNCHANGED <<table, archetypes, issued>>
      BY <1>2, <2>2 DEF AddComponent
    <3>2. /\ WorldOK' /\ OthersKept(s) /\ Alive(s)' /\ records' = records
          /\ RowAt(s)' = [RowAt(s) EXCEPT !.data = [@ EXCEPT ![c] = v]]
      BY <1>2, <2>1, <2>2, <3>1, OverwriteKeeps
    <3>3. RowAt(s)'.data = [d EXCEPT ![c] = v]
      <4>1. s \in Slot /\ Alive(s)
        BY <1>2, <2>1, ValidSlot
      <4>2. RowAt(s) \in Row
        BY <4>1, AliveFacts
      <4>3. QED
        BY <2>1, <3>2, <4>2 DEF Row
    <3>4. [d EXCEPT ![c] = v] = Having(d, c, v)
      BY <2>1, <2>2 DEF Having
    <3>5. QED
      BY <1>2, <2>1, <3>1, <3>2, <3>3, <3>4 DEF Becomes
  <2>3. CASE c \notin key
    <3> DEFINE dst == key \cup {c}
               bundle == [k \in dst |-> IF k = c THEN v ELSE d[k]]
    <3>1. /\ Migrate(e, dst, bundle, memory)
          /\ UNCHANGED <<used, free, issued>>
      BY <1>2, <2>3 DEF AddComponent
    <3>2. v \in Data /\ dst \in Key /\ dst # records[s].arch
      BY <2>1, <2>3 DEF Data, Key
    <3>3. bundle \in [dst -> Data]
      BY <2>1, <3>2
    <3>4. bundle = Having(d, c, v)
      BY <2>1 DEF Having
    <3> HIDE DEF bundle, dst
    <3>5. [entity |-> e, data |-> bundle] \in Row /\ DOMAIN bundle = dst
      BY <2>1, <3>2, <3>3, BundleIsRow
    <3>6. /\ WorldOK' /\ OthersKept(s) /\ Alive(s)'
          /\ records'[s].gen = records[s].gen
          /\ IF NeedsChunk(dst) /\ ~memory THEN UNCHANGED <<records, chunks>>
             ELSE RowAt(s)' = [entity |-> e, data |-> bundle]
      BY <1>2, <2>1, <3>1, <3>2, <3>5, MigrateKeeps
    <3>7. /\ RowAt(s)'.data = bundle \/ RowAt(s)' = RowAt(s)
          /\ memory = TRUE => RowAt(s)'.data = bundle
      <4>1. CASE NeedsChunk(dst) /\ ~memory
        <5>1. RowAt(s)' = RowAt(s)
          BY <3>6, <4>1 DEF RowAt
        <5> QED
          BY <4>1, <5>1
      <4>2. CASE ~(NeedsChunk(dst) /\ ~memory)
        <5>1. RowAt(s)' = [entity |-> e, data |-> bundle]
          BY <3>6, <4>2
        <5> QED
          BY <5>1
      <4> QED
        BY <4>1, <4>2
    <3>8. QED
      BY <1>2, <2>1, <3>1, <3>4, <3>6, <3>7 DEF Becomes
  <2>4. QED
    BY <2>2, <2>3
<1>3. QED
  BY <1>1, <1>2

\* remove_component(): the entity has lost the component, or all is as before.
LEMMA RemoveKeeps ==
    ASSUME WorldOK, NEW e \in [slot : Nat, gen : Nat], NEW c \in Component,
           NEW memory, RemoveComponent(e, c, memory)
    PROVE  /\ WorldOK' /\ issued' = issued
           /\ Valid(e) /\ c \in KeyOf(e) =>
                Becomes(e.slot, [k \in DOMAIN RowAt(e.slot).data \ {c} |-> RowAt(e.slot).data[k]])
           /\ Valid(e) /\ c \in KeyOf(e) /\ memory = TRUE =>
                RowAt(e.slot)'.data =
                  [k \in DOMAIN RowAt(e.slot).data \ {c} |-> RowAt(e.slot).data[k]]
           /\ ~(Valid(e) /\ c \in KeyOf(e)) => UNCHANGED world
<1> DEFINE s == e.slot
           d == RowOf(e).data
           key == KeyOf(e)
<1>1. CASE ~(Valid(e) /\ c \in key)
  <2>1. UNCHANGED <<records, used, free, archetypes, chunks, issued>>
    BY <1>1 DEF RemoveComponent, world
  <2>2. archetypes' \in Seq(Key)
    BY <2>1 DEF WorldOK, TableType
  <2>3. QED
    BY <1>1, <2>1, <2>2, WorldUnchanged DEF world
<1>2. CASE Valid(e) /\ c \in key
  <2>1. /\ e = HandleOf(s) /\ e \in Entity /\ key \in Key /\ key = records[s].arch
        /\ RowOf(e) = RowAt(s) /\ d \in [key -> Data] /\ e.slot \in Nat
    BY <1>2, RowData
  <2> DEFINE dst == key \ {c}
             bundle == [k \in dst |-> d[k]]
  <2>2. /\ Migrate(e, dst, bundle, memory)
        /\ UNCHANGED <<used, free, issued>>
    BY <1>2 DEF RemoveComponent
  <2>3. dst \in Key /\ dst # records[s].arch
    BY <1>2, <2>1 DEF Key
  <2>4. bundle \in [dst -> Data]
    BY <2>1
  <2>5. bundle = [k \in DOMAIN d \ {c} |-> d[k]]
    BY <2>1
  <2> HIDE DEF bundle, dst
  <2>6. [entity |-> e, data |-> bundle] \in Row /\ DOMAIN bundle = dst
    BY <2>1, <2>3, <2>4, BundleIsRow
  <2>7. /\ WorldOK' /\ OthersKept(s) /\ Alive(s)'
        /\ records'[s].gen = records[s].gen
        /\ IF NeedsChunk(dst) /\ ~memory THEN UNCHANGED <<records, chunks>>
           ELSE RowAt(s)' = [entity |-> e, data |-> bundle]
    BY <1>2, <2>1, <2>2, <2>3, <2>6, MigrateKeeps
  <2>8. /\ RowAt(s)'.data = bundle \/ RowAt(s)' = RowAt(s)
        /\ memory = TRUE => RowAt(s)'.data = bundle
    <3>1. CASE NeedsChunk(dst) /\ ~memory
      <4>1. RowAt(s)' = RowAt(s)
        BY <2>7, <3>1 DEF RowAt
      <4> QED
        BY <3>1, <4>1
    <3>2. CASE ~(NeedsChunk(dst) /\ ~memory)
      <4>1. RowAt(s)' = [entity |-> e, data |-> bundle]
        BY <2>7, <3>2
      <4> QED
        BY <4>1
    <3> QED
      BY <3>1, <3>2
  <2>9. QED
    BY <1>2, <2>1, <2>2, <2>5, <2>7, <2>8 DEF Becomes
<1>3. QED
  BY <1>1, <1>2

-----------------------------------------------------------------------------
\* create().

\* The slot create() takes is dead and its next handle was never given out.
LEMMA SlotFound ==
    ASSUME WorldOK, ~TableFull
    PROVE  /\ NextSlot \in Slot /\ ~records[NextSlot].alive
           /\ IF free = <<>> THEN NextSlot = used ELSE NextSlot < used
           /\ [slot |-> NextSlot, gen |-> records[NextSlot].gen] \in Entity \ issued
<1> DEFINE s == NextSlot
<1>1. used \in Nat /\ used <= MaxEntities /\ free \in Seq(Slot) /\ MaxEntities \in Nat
  BY NumbersAssumption DEF WorldOK, TableType
<1>2. ASSUME free = <<>>
      PROVE  s \in Slot /\ ~records[s].alive /\ s = used
  <2>1. s = used /\ used \in Slot
    BY <1>1, <1>2 DEF NextSlot, TableFull, Slot
  <2>2. records[used] = FreshRecord
    BY <1>1, <2>1 DEF WorldOK, Handles
  <2>3. ~records[used].alive
    BY <2>2 DEF FreshRecord
  <2>4. QED
    BY <2>1, <2>3
<1>3. ASSUME free # <<>>
      PROVE  s \in Slot /\ ~records[s].alive /\ s < used
  <2>1. Len(free) \in Nat /\ Len(free) # 0 /\ s = free[Len(free)]
    BY <1>1, <1>3, LenProperties, EmptySeq DEF NextSlot
  <2>2. Len(free) \in 1..Len(free) /\ s \in Slot
    BY <1>1, <2>1, ElementOfSeq
  <2>3. ~records[s].alive /\ s < used
    BY <2>1, <2>2 DEF WorldOK, FreeList
  <2>4. QED
    BY <2>2, <2>3
<1>4. s \in Slot /\ ~records[s].alive
  BY <1>2, <1>3
<1> HIDE DEF s
<1>5. records[s].gen \in Generation
  BY <1>4 DEF WorldOK, TableType, EntityRecord
<1>6. ASSUME [slot |-> s, gen |-> records[s].gen] \in issued PROVE FALSE
  BY <1>4, <1>6 DEF WorldOK, Handles
<1>7. [slot |-> s, gen |-> records[s].gen] \in Entity
  BY <1>4, <1>5 DEF Entity
<1>8. QED
  BY <1>2, <1>3, <1>4, <1>6, <1>7 DEF s

\* The length of what is left when the last element is taken.
LEMMA OneLess ==
    \A n \in Nat \ {0} : (IF 1 <= n - 1 THEN n - 1 - 1 + 1 ELSE 0) = n - 1
OBVIOUS

\* Taking the last element leaves the others.
LEMMA Popped ==
    ASSUME NEW S, NEW f \in Seq(S), f # <<>>, NEW a, a = SubSeq(f, 1, Len(f) - 1)
    PROVE  /\ a \in Seq(S) /\ Len(f) \in Nat /\ Len(a) = Len(f) - 1
           /\ \A i \in 1..Len(f)-1 : a[i] = f[i]
<1>1. Len(f) \in Nat /\ Len(f) # 0
  BY LenProperties, EmptySeq
<1>2. \A i \in 1..Len(f)-1 : f[i] \in S
  BY <1>1, ElementOfSeq
<1>3. /\ a \in Seq(S)
      /\ Len(a) = IF 1 <= Len(f) - 1 THEN Len(f) - 1 - 1 + 1 ELSE 0
      /\ \A i \in 1..Len(f)-1-1+1 : a[i] = f[1 + i - 1]
  BY <1>1, <1>2, SubSeqProperties
<1>4. Len(a) = Len(f) - 1
  <2>1. Len(f) \in Nat \ {0}
    BY <1>1, Zenon
  <2>2. Len(a) = IF 1 <= Len(f) - 1 THEN Len(f) - 1 - 1 + 1 ELSE 0
    BY <1>3, Zenon
  <2>3. QED
    BY <2>1, <2>2, OneLess, Zenon
<1>5. ASSUME NEW i \in 1..Len(f)-1 PROVE a[i] = f[i]
  <2>1. i \in 1..Len(f)-1-1+1 /\ 1 + i - 1 = i
    BY <1>1
  <2>2. a[i] = f[1 + i - 1]
    BY <1>3, <2>1, Zenon
  <2>3. QED
    BY <2>1, <2>2, Zenon
<1>6. QED
  BY <1>1, <1>3, <1>4, <1>5, Zenon

\* A create() that fails changes no entity: the slot it took is back.
LEMMA CreateFails ==
    ASSUME WorldOK, NEW memory, CreateEntity(memory), Created(memory) = NoEntity
    PROVE  /\ WorldOK' /\ issued' = issued /\ records' = records /\ chunks' = chunks
           /\ \A s \in Slot : Alive(s)' <=> Alive(s)
<1>1. /\ archetypes' = WithArchetype({}) /\ records' = records /\ chunks' = chunks
      /\ issued' = issued /\ free' = FreeAfter(NoEntity)
      /\ used' = IF free = <<>> /\ ~TableFull THEN used + 1 ELSE used
  BY DEF CreateEntity
<1>2. archetypes' \in Seq(Key)
  BY <1>1, Listed DEF Key
<1>3. CASE free = <<>> /\ ~TableFull
  <2>1. used' = used + 1 /\ free' = <<used>>
    BY <1>1, <1>3 DEF FreeAfter
  <2>2. used \in Slot /\ ~records[used].alive
    BY <1>3, SlotFound
  <2>3. used \in Nat /\ used + 1 \in 0..MaxEntities
    BY <2>2, NumbersAssumption DEF Slot
  <2>4. \A s \in Slot : Alive(s)' <=> Alive(s)
    <3> SUFFICES ASSUME NEW s \in Slot PROVE Alive(s)' <=> Alive(s)
      OBVIOUS
    <3>1. s < used + 1 <=> s < used \/ s = used
      BY <2>3 DEF Slot
    <3>2. QED
      BY <1>1, <2>1, <2>2, <3>1 DEF Alive
  <2>5. TableType'
    <3>1. <<used>> \in Seq(Slot)
      BY <2>2
    <3>2. QED
      BY <1>1, <1>2, <2>1, <2>3, <3>1 DEF WorldOK, TableType
  <2>6. ChunkType'
    BY <1>1 DEF WorldOK, ChunkType
  <2>7. RecordsLead'
    BY <1>1, <2>4 DEF WorldOK, RecordsLead, Place, RowAt, HandleOf
  <2>8. RowsLead'
    BY <1>1, <2>4 DEF WorldOK, RowsLead, Owns, HandleOf
  <2>9. FreeList'
    <3>1. \A s \in Slot : (s < used' /\ ~records'[s].alive) <=>
                            (\E i \in 1..Len(free') : free'[i] = s)
      <4> SUFFICES ASSUME NEW s \in Slot
                   PROVE  (s < used + 1 /\ ~records[s].alive) <=> s = used
        BY <1>1, <2>1
      <4>1. s < used + 1 <=> s < used \/ s = used
        BY <2>3 DEF Slot
      <4>2. ~(s < used /\ ~records[s].alive)
        BY <1>3 DEF WorldOK, FreeList
      <4>3. QED
        BY <2>2, <4>1, <4>2
    <3>2. /\ \A i, j \in 1..Len(free') : free'[i] = free'[j] => i = j
          /\ \A i \in 1..Len(free') : free'[i] < used'
      BY <2>1, <2>3
    <3>3. QED
      BY <3>1, <3>2 DEF FreeList
  <2>10. Handles'
    <3>1. \A s \in Slot : s >= used' => s >= used
      BY <2>1, <2>3 DEF Slot
    <3>2. \A h \in issued : h.slot < used => h.slot < used'
      BY <2>1, <2>3 DEF WorldOK, TableType, Entity, Slot
    <3>3. QED
      BY <1>1, <3>1, <3>2 DEF WorldOK, Handles
  <2>11. \A s \in Slot : OthersKept(s)
    BY <1>1, <2>4 DEF OthersKept, RowAt
  <2>12. QED
    BY <1>1, <2>4, <2>5, <2>6, <2>7, <2>8, <2>9, <2>10, <2>11 DEF WorldOK
<1>4. CASE ~(free = <<>> /\ ~TableFull)
  <2>1. UNCHANGED <<records, used, free, chunks, issued>>
    BY <1>1, <1>4 DEF FreeAfter
  <2>2. QED
    BY <1>1, <1>2, <2>1, WorldUnchanged
<1>5. QED
  BY <1>3, <1>4

\* A create() that succeeds adds one entity without components, in a slot that
\* was dead, under a handle that is new.
LEMMA CreateKeeps ==
    ASSUME WorldOK, Cardinality(issued) < MaxWork,
           NEW memory, CreateEntity(memory), Created(memory) # NoEntity
    PROVE  /\ WorldOK'
           /\ Created(memory) \in Entity \ issued
           /\ issued' = issued \cup {Created(memory)}
           /\ Cardinality(issued') = Cardinality(issued) + 1
           /\ \E s \in Slot :
                /\ Created(memory) = HandleOf(s)
                /\ ~Alive(s) /\ OthersKept(s)
                /\ Alive(s)' /\ records'[s].gen = records[s].gen
                /\ RowAt(s)'.data = [c \in {} |-> Nil]
<1>s. PICK s : s = NextSlot
  OBVIOUS
<1> DEFINE e == [slot |-> s, gen |-> records[s].gen]
           none == [c \in {} |-> Nil]
           row == [entity |-> e, data |-> none]
           key == {}
           n == Room(key)
           k == NewRow(key)
           a == Appended(key, row)
<1>1. ~TableFull /\ Created(memory) = e
  BY <1>s DEF Created
<1>2. /\ s \in Slot /\ ~records[s].alive /\ e \in Entity \ issued
      /\ IF free = <<>> THEN s = used ELSE s < used
  BY <1>1, <1>s, SlotFound
<1>3. /\ archetypes' = WithArchetype(key)
      /\ records' = [records EXCEPT ![s] = [@ EXCEPT
            !.alive = TRUE, !.arch = key, !.chunk = n, !.row = k]]
      /\ chunks' = [chunks EXCEPT ![key] = a]
      /\ issued' = issued \cup {e}
      /\ used' = IF free = <<>> THEN used + 1 ELSE used
      /\ free' = FreeUsed
  BY <1>1 DEF CreateEntity, FreeAfter, NoEntity
<1>4. key \in Key /\ ChunksOf(key, chunks[key])
  BY DEF WorldOK, ChunkType, Key
<1>5. row \in Row /\ DOMAIN row.data = key /\ row.entity = e /\ row.data = none
  <2>1. none \in [key -> Data] /\ DOMAIN none = key
    OBVIOUS
  <2> HIDE DEF none
  <2>2. QED
    BY <1>2, <1>4, <2>1 DEF Row
<1>6. archetypes' \in Seq(Key)
  BY <1>3, <1>4, Listed
<1>key. key = {}
  OBVIOUS
<1> HIDE DEF row, none, key
<1>7. /\ ChunksOf(key, a) /\ n \in Nat /\ k \in Nat
      /\ In(a, n, k) /\ a[n][k] = row
      /\ \A c, r \in Nat :
           /\ In(chunks[key], c, r) => In(a, c, r) /\ a[c][r] = chunks[key][c][r]
           /\ In(a, c, r) => In(chunks[key], c, r) \/ (c = n /\ r = k)
  BY <1>4, <1>5, AppendedRow
<1> HIDE DEF a, n, k
<1>8. /\ records' \in [Slot -> EntityRecord]
      /\ \A t \in Slot : t # s => records'[t] = records[t]
      /\ records'[s].gen = records[s].gen /\ records'[s].alive = TRUE
      /\ records'[s].arch = key /\ records'[s].chunk = n /\ records'[s].row = k
  <2>1. records \in [Slot -> EntityRecord]
    BY DEF WorldOK, TableType
  <2>2. QED
    BY <1>2, <1>3, <1>4, <1>7, <2>1, ZenonT(40) DEF EntityRecord
<1> HIDE DEF e
<1>9. /\ chunks'[key] = a
      /\ \A l \in Key : l # key => chunks'[l] = chunks[l]
      /\ chunks' = [l \in Key |-> chunks'[l]]
  BY <1>3, <1>4 DEF WorldOK, ChunkType
<1>10. /\ used \in Nat /\ used <= used' /\ s < used' /\ used' \in 0..MaxEntities
       /\ \A t \in Slot : t # s => (t < used' <=> t < used)
  <2>1. used \in Nat /\ used <= MaxEntities /\ MaxEntities \in Nat /\ s \in Nat /\ s < MaxEntities
    BY <1>2, NumbersAssumption DEF WorldOK, TableType, Slot
  <2>2. CASE free = <<>>
    <3>1. s = used /\ used' = used + 1
      BY <1>2, <1>3, <2>2
    <3>2. QED
      BY <2>1, <3>1 DEF Slot
  <2>3. CASE free # <<>>
    <3>1. s < used /\ used' = used
      BY <1>2, <1>3, <2>3
    <3>2. QED
      BY <2>1, <3>1
  <2>4. QED
    BY <2>2, <2>3
<1>11. ~Alive(s) /\ Alive(s)' /\ \A t \in Slot : t # s => (Alive(t)' <=> Alive(t))
  BY <1>2, <1>8, <1>10 DEF Alive
<1>12. \A l \in Key, c \in Nat, r \in Nat :
         /\ In(chunks[l], c, r) => In(chunks'[l], c, r) /\ chunks'[l][c][r] = chunks[l][c][r]
         /\ In(chunks'[l], c, r) => In(chunks[l], c, r) \/ (l = key /\ c = n /\ r = k)
  BY <1>7, <1>9
<1>13. \A t \in Slot : t # s /\ Alive(t) =>
         records'[t].arch \in Key /\ Place(t)' /\ RowAt(t)' = RowAt(t)
  <2> SUFFICES ASSUME NEW t \in Slot, t # s, Alive(t)
               PROVE  records'[t].arch \in Key /\ Place(t)' /\ RowAt(t)' = RowAt(t)
    OBVIOUS
  <2>1. /\ records[t].arch \in Key /\ records[t].chunk \in Nat /\ records[t].row \in Nat
        /\ In(chunks[records[t].arch], records[t].chunk, records[t].row)
    BY AliveFacts
  <2>2. QED
    BY <1>8, <1>12, <2>1 DEF Place, RowAt
<1>14. OthersKept(s)
  BY <1>8, <1>11, <1>13 DEF OthersKept
<1>15. Place(s)' /\ RowAt(s)' = row /\ HandleOf(s)' = e
  BY <1>7, <1>8, <1>9 DEF Place, RowAt, HandleOf, e
<1>16. ChunkType'
  <2>1. ASSUME NEW l \in Key PROVE ChunksOf(l, chunks'[l])
    <3>1. l # key => ChunksOf(l, chunks'[l])
      BY <1>9 DEF WorldOK, ChunkType
    <3>2. QED
      BY <1>7, <1>9, <3>1
  <2>2. QED
    BY <1>9, <2>1 DEF ChunkType
<1>17. RecordsLead'
  <2> SUFFICES ASSUME NEW t \in Slot, Alive(t)'
               PROVE  (records[t].arch \in Key /\ Place(t) /\ RowAt(t).entity = HandleOf(t))'
    BY DEF RecordsLead
  <2>1. CASE t = s
    BY <1>4, <1>5, <1>8, <1>15, <2>1
  <2>2. CASE t # s
    <3>1. Alive(t) /\ RowAt(t).entity = HandleOf(t)
      BY <1>11, <2>2, AliveFacts
    <3>2. HandleOf(t)' = HandleOf(t)
      BY <1>8, <2>2 DEF HandleOf
    <3>3. QED
      BY <1>13, <2>2, <3>1, <3>2
  <2>3. QED
    BY <2>1, <2>2
<1>18. RowsLead'
  <2> SUFFICES ASSUME NEW l \in Key, NEW c \in Nat, NEW r \in Nat, In(chunks'[l], c, r)
               PROVE  \E t \in Slot : Owns(t, l, c, r)'
    BY DEF RowsLead
  <2>1. CASE l = key /\ c = n /\ r = k
    <3>1. Owns(s, l, c, r)'
      BY <1>5, <1>8, <1>11, <1>15, <2>1 DEF Owns, RowAt
    <3>2. QED
      BY <1>2, <3>1
  <2>2. CASE ~(l = key /\ c = n /\ r = k)
    <3>1. In(chunks[l], c, r) /\ chunks'[l][c][r] = chunks[l][c][r]
      BY <1>12, <2>2
    <3>2. PICK t \in Slot : /\ Alive(t) /\ records[t].arch = l
                            /\ records[t].chunk = c /\ records[t].row = r
                            /\ chunks[l][c][r].entity = HandleOf(t)
      BY <3>1, OwnerOf
    <3>3. t # s
      BY <1>11, <3>2
    <3>4. Owns(t, l, c, r)'
      BY <1>8, <1>11, <3>1, <3>2, <3>3 DEF Owns, HandleOf
    <3>5. QED
      BY <3>4
  <2>3. QED
    BY <2>1, <2>2
<1>19. free' \in Seq(Slot) /\ FreeList'
  <2>1. /\ \A t \in Slot :
             (t < used /\ ~records[t].alive) <=> (\E i \in 1..Len(free) : free[i] = t)
        /\ \A i, j \in 1..Len(free) : free[i] = free[j] => i = j
        /\ \A i \in 1..Len(free) : free[i] < used
        /\ free \in Seq(Slot)
    BY DEF WorldOK, FreeList, TableType
  <2>2. \A t \in Slot : (t < used' /\ ~records'[t].alive) <=>
                          (t < used /\ ~records[t].alive /\ t # s)
    <3> SUFFICES ASSUME NEW t \in Slot
                 PROVE  (t < used' /\ ~records'[t].alive) <=>
                          (t < used /\ ~records[t].alive /\ t # s)
      OBVIOUS
    <3>1. t = s => records'[t].alive
      BY <1>8
    <3>2. t # s => records'[t] = records[t] /\ (t < used' <=> t < used)
      BY <1>8, <1>10
    <3>3. QED
      BY <3>1, <3>2, Zenon
  <2>3. CASE free = <<>>
    <3>1. free' = free /\ s = used
      BY <1>2, <1>3, <2>3 DEF FreeUsed
    <3>2. \A t \in Slot : ~(t < used /\ ~records[t].alive)
      BY <2>1, <2>3
    <3>3. FreeList'
      <4>1. \A t \in Slot :
              (t < used' /\ ~records'[t].alive) <=> (\E i \in 1..Len(free') : free'[i] = t)
        BY <2>1, <2>2, <3>1, <3>2, Zenon
      <4>2. \A i, j \in 1..Len(free') : free'[i] = free'[j] => i = j
        BY <2>1, <3>1, Zenon
      <4>3. \A i \in 1..Len(free') : free'[i] < used'
        BY <2>3, <3>1
      <4>4. QED
        BY <4>1, <4>2, <4>3 DEF FreeList
    <3>4. QED
      BY <2>1, <3>1, <3>3
  <2>4. CASE free # <<>>
    <3> DEFINE m == Len(free)
    <3>1. free' = SubSeq(free, 1, m - 1) /\ s = free[m] /\ used' = used
      BY <1>3, <1>s, <2>4 DEF FreeUsed, NextSlot
    <3>2. /\ free' \in Seq(Slot) /\ m \in Nat /\ Len(free') = m - 1
          /\ \A i \in 1..m-1 : free'[i] = free[i]
      <4>1. /\ free \in Seq(Slot) /\ free # <<>>
            /\ free' = SubSeq(free, 1, Len(free) - 1)
        BY <2>1, <2>4, <3>1, Zenon
      <4>2. /\ free' \in Seq(Slot) /\ Len(free) \in Nat /\ Len(free') = Len(free) - 1
            /\ \A i \in 1..Len(free)-1 : free'[i] = free[i]
        BY <4>1, Popped, Zenon
      <4>3. QED
        BY <4>2, Zenon
    <3>3. m # 0
      BY <2>1, <2>4, EmptySeq
    <3>m. /\ \A t \in Slot : (t < used /\ ~records[t].alive) <=> (\E i \in 1..m : free[i] = t)
          /\ \A i, j \in 1..m : free[i] = free[j] => i = j
          /\ \A i \in 1..m : free[i] < used
      BY <2>1
    <3>4. free' = FreeUsed /\ free[m] = s
      BY <1>3, <3>1
    <3> HIDE DEF m
    <3>5. \A i \in 1..m-1 : i \in 1..m /\ i # m
      BY <3>2, <3>3
    <3>6. m \in 1..m /\ \A i \in 1..m : i # m => i \in 1..m-1
      BY <3>2, <3>3
    <3>7. ASSUME NEW t \in Slot
          PROVE  (t < used' /\ ~records'[t].alive) <=> (\E i \in 1..Len(free') : free'[i] = t)
      <4>1. (t < used' /\ ~records'[t].alive) <=> (\E i \in 1..m : free[i] = t) /\ t # s
        BY <2>2, <3>m, Zenon
      <4>2. ASSUME NEW i \in 1..m, free[i] = t, t # s
            PROVE  \E j \in 1..m-1 : free'[j] = t
        <5>1. i \in 1..m-1
          BY <3>1, <3>4, <3>6, <4>2
        <5>2. QED
          BY <3>2, <4>2, <5>1
      <4>3. ASSUME NEW i \in 1..m-1, free'[i] = t
            PROVE  (\E j \in 1..m : free[j] = t) /\ t # s
        <5>1. i \in 1..m /\ i # m /\ free[i] = t
          BY <3>2, <3>5, <4>3
        <5>2. t # s
          BY <3>m, <3>4, <3>6, <5>1
        <5>3. QED
          BY <5>1, <5>2
      <4>4. QED
        BY <3>2, <4>1, <4>2, <4>3, Zenon
    <3>8. \A i, j \in 1..Len(free') : free'[i] = free'[j] => i = j
      BY <3>2, <3>5, <3>m, Zenon
    <3>9. \A i \in 1..Len(free') : free'[i] < used'
      BY <3>1, <3>2, <3>5, <3>m, Zenon
    <3>10. QED
      BY <3>2, <3>7, <3>8, <3>9 DEF FreeList
  <2>5. QED
    BY <2>3, <2>4
<1>20. TableType'
  BY <1>2, <1>3, <1>6, <1>8, <1>10, <1>19 DEF WorldOK, TableType
<1>21. Handles' /\ Cardinality(issued') = Cardinality(issued) + 1
  <2> DEFINE w == Cardinality(issued)
  <2>1. /\ IsFiniteSet(issued) /\ w \in Nat
        /\ \A t \in Slot :
             /\ records[t].gen <= w + 1
             /\ records[t].alive => records[t].gen <= w
             /\ t >= used => records[t] = FreshRecord
        /\ \A h \in issued :
             /\ h.slot < used
             /\ h.gen <= records[h.slot].gen
             /\ h.gen = records[h.slot].gen => records[h.slot].alive
    BY FS_CardinalityType DEF WorldOK, Handles
  <2>2. IsFiniteSet(issued') /\ Cardinality(issued') = w + 1
    BY <1>2, <1>3, <2>1, FS_AddElement
  <2>3. w < MaxWork /\ MaxWork \in Nat
    BY NumbersAssumption
  <2>w. w = Cardinality(issued)
    OBVIOUS
  <2> HIDE DEF w
  <2>4. \A t \in Slot : t \in Nat /\ records[t].gen \in Nat
    BY DEF WorldOK, TableType, EntityRecord, Generation, Slot
  <2>5. ASSUME NEW t \in Slot
        PROVE  /\ records'[t].gen <= w + 1 + 1
               /\ records'[t].alive => records'[t].gen <= w + 1
               /\ t >= used' => records'[t] = FreshRecord
    <3>1. records'[t].gen = records[t].gen
      BY <1>8
    <3>2. records'[t].gen <= w + 1
      BY <2>1, <3>1
    <3>3. ASSUME t >= used' PROVE records'[t] = FreshRecord
      <4>1. t >= used /\ t # s
        BY <1>2, <1>10, <2>4, <3>3
      <4>2. QED
        BY <1>8, <2>1, <4>1
    <3>4. QED
      BY <2>1, <2>4, <3>1, <3>2, <3>3
  <2>6. ASSUME NEW h \in issued'
        PROVE  /\ h.slot < used'
               /\ h.gen <= records'[h.slot].gen
               /\ h.gen = records'[h.slot].gen => records'[h.slot].alive
    <3>1. CASE h = e
      BY <1>2, <1>8, <1>10, <2>4, <3>1 DEF e
    <3>2. CASE h \in issued
      <4>1. /\ h.slot < used /\ h.gen <= records[h.slot].gen
            /\ h.gen = records[h.slot].gen => records[h.slot].alive
        BY <2>1, <3>2
      <4>2. h.slot \in Slot /\ h.slot \in Nat
        BY <3>2 DEF WorldOK, TableType, Entity, Slot
      <4>3. h.slot < used'
        BY <1>10, <4>1, <4>2
      <4>4. records'[h.slot].gen = records[h.slot].gen /\ (records[h.slot].alive => records'[h.slot].alive)
        BY <1>8, <4>2
      <4>5. QED
        BY <4>1, <4>3, <4>4
    <3>3. QED
      BY <1>3, <3>1, <3>2
  <2>7. QED
    <3>1. Cardinality(issued') <= MaxWork /\ Cardinality(issued') = w + 1
      BY <2>1, <2>2, <2>3
    <3>2. QED
      BY <2>2, <2>5, <2>6, <2>w, <3>1 DEF Handles
<1>22. WorldOK'
  BY <1>16, <1>17, <1>18, <1>19, <1>20, <1>21 DEF WorldOK
<1>23. /\ Created(memory) = HandleOf(s) /\ ~Alive(s) /\ OthersKept(s)
       /\ Alive(s)' /\ records'[s].gen = records[s].gen
       /\ RowAt(s)'.data = [c \in {} |-> Nil]
  BY <1>1, <1>5, <1>8, <1>11, <1>14, <1>15 DEF HandleOf, none, e
<1>24. QED
  BY <1>1, <1>2, <1>3, <1>21, <1>22, <1>23

-----------------------------------------------------------------------------
\* The invariant.

\* An empty world satisfies the invariant.
LEMMA InitHolds == Init => IInv
<1> SUFFICES ASSUME Init PROVE IInv
  OBVIOUS
<1>1. /\ records = [s \in Slot |-> FreshRecord] /\ used = 0 /\ free = <<>>
      /\ archetypes = <<>> /\ chunks = [key \in Key |-> <<>>] /\ issued = {}
  BY DEF Init
<1>2. TableType
  <2>1. FreshRecord \in EntityRecord
    BY NumbersAssumption DEF FreshRecord, EntityRecord, Generation
  <2>2. 0 \in 0..MaxEntities
    BY NumbersAssumption
  <2>3. QED
    BY <1>1, <2>1, <2>2 DEF TableType
<1>3. ChunkType
  <2>1. ASSUME NEW key \in Key PROVE ChunksOf(key, <<>>)
    BY DEF ChunksOf, In
  <2>2. QED
    BY <1>1, <2>1 DEF ChunkType
<1>4. RecordsLead
  BY <1>1 DEF RecordsLead, Alive, Slot
<1>5. RowsLead
  BY <1>1 DEF RowsLead, In
<1>6. FreeList
  BY <1>1 DEF FreeList, Slot
<1>7. Handles
  <2>1. IsFiniteSet({}) /\ Cardinality({}) = 0
    BY FS_EmptySet
  <2>2. \A s \in Slot : records[s] = FreshRecord
    BY <1>1
  <2>3. QED
    BY <1>1, <2>1, <2>2, NumbersAssumption DEF Handles, FreshRecord
<1>8. BufferOK
  <2>1. Cardinality({}) = 0
    BY FS_EmptySet
  <2>2. query \in [active : BOOLEAN, ids : Key, arch : Nat, chunk : Nat, seen : Seq(Entity)]
    BY DEF Init, NoQuery, Key
  <2>3. /\ issued = {} /\ commands = <<>> /\ tempCount = 0 /\ tempToReal = <<>>
        /\ playing = FALSE
    BY DEF Init
  <2>4. Cardinality(issued) + Len(commands) <= MaxWork
    BY <2>1, <2>3, NumbersAssumption
  <2>5. commands \in Seq(Commands) /\ tempToReal \in Seq(Entity \cup {NoEntity})
    BY <2>3, EmptySeq
  <2>6. QED
    BY <2>2, <2>3, <2>4, <2>5 DEF BufferOK
<1>9. QED
  BY <1>2, <1>3, <1>4, <1>5, <1>6, <1>7, <1>8 DEF IInv, WorldOK

\* A handle the buffer resolves is a handle, or NoEntity.
LEMMA Resolved ==
    ASSUME BufferOK, NEW e \in [slot : Nat, gen : Generation \cup {TempGen}]
    PROVE  Resolve(e) \in [slot : Nat, gen : Nat]
<1>1. NoEntity \in [slot : Nat, gen : Nat] /\ Entity \subseteq [slot : Nat, gen : Nat]
  BY DEF NoEntity, Entity, Slot, Generation
<1>2. e \in [slot : Nat, gen : Nat]
  BY NumbersAssumption DEF Generation
<1>3. CASE e.gen < TempGen
  BY <1>2, <1>3 DEF Resolve
<1>4. CASE ~(e.gen < TempGen) /\ e.gen = TempGen /\ e.slot < Len(tempToReal)
  <2>1. tempToReal \in Seq(Entity \cup {NoEntity})
    BY DEF BufferOK
  <2>2. Len(tempToReal) \in Nat
    BY <2>1, LenProperties
  <2>3. e.slot + 1 \in 1..Len(tempToReal)
    BY <1>2, <1>4, <2>2
  <2>4. tempToReal[e.slot + 1] \in Entity \cup {NoEntity}
    BY <2>1, <2>3, ElementOfSeq
  <2>5. QED
    BY <1>1, <1>4, <2>4 DEF Resolve
<1>5. CASE ~(e.gen < TempGen) /\ ~(e.gen = TempGen /\ e.slot < Len(tempToReal))
  BY <1>1, <1>5 DEF Resolve
<1>6. QED
  BY <1>3, <1>4, <1>5

\* create(), with or without a slot and memory.
LEMMA CreateStep ==
    ASSUME WorldOK, Cardinality(issued) < MaxWork, NEW memory, CreateEntity(memory)
    PROVE  /\ WorldOK' /\ Cardinality(issued') \in Nat
           /\ Cardinality(issued') <= Cardinality(issued) + 1
           /\ Created(memory) \in Entity \cup {NoEntity}
<1>1. Cardinality(issued) \in Nat
  BY FS_CardinalityType DEF WorldOK, Handles
<1>2. CASE Created(memory) = NoEntity
  BY <1>1, <1>2, CreateFails
<1>3. CASE Created(memory) # NoEntity
  BY <1>1, <1>3, CreateKeeps
<1>4. QED
  BY <1>2, <1>3

\* The slot of any handle is a number.
LEMMA HandleSlots == \A e \in [slot : Nat, gen : Nat] : e.slot \in Nat
OBVIOUS

\* A step of the calls or of playback keeps the buffer's part of the invariant.
LEMMA BufferKept ==
    ASSUME BufferOK, UNCHANGED <<query, buffer>>, Cardinality(issued') <= Cardinality(issued),
           Cardinality(issued) \in Nat, Cardinality(issued') \in Nat
    PROVE  BufferOK'
<1>1. /\ query' = query /\ commands' = commands /\ tempCount' = tempCount
      /\ tempToReal' = tempToReal /\ playing' = playing
  BY DEF buffer
<1>2. Len(commands) \in Nat /\ MaxWork \in Nat
  BY NumbersAssumption, LenProperties DEF BufferOK
<1>3. Cardinality(issued') + Len(commands) <= MaxWork
  BY <1>2 DEF BufferOK
<1>4. QED
  BY <1>1, <1>3 DEF BufferOK

\* The calls of a program.
LEMMA CallKeeps == IInv /\ Call => IInv'
<1> SUFFICES ASSUME IInv, Call PROVE IInv'
  OBVIOUS
<1>1. WorldOK /\ BufferOK
  BY DEF IInv
<1>2. Cardinality(issued) \in Nat /\ Len(commands) \in Nat /\ MaxWork \in Nat
  BY <1>1, FS_CardinalityType, LenProperties, NumbersAssumption DEF WorldOK, Handles, BufferOK
<1>3. issued \subseteq [slot : Nat, gen : Nat]
  BY <1>1 DEF WorldOK, TableType, Entity, Slot, Generation
<1>4. ASSUME WorldOK', issued' = issued, UNCHANGED <<query, buffer>> PROVE IInv'
  BY <1>1, <1>2, <1>4, BufferKept DEF IInv
<1>5. ASSUME NEW memory \in BOOLEAN, Create(memory) PROVE IInv'
  <2>1. /\ CreateEntity(memory) /\ UNCHANGED <<query, buffer>>
        /\ Cardinality(issued) + Len(commands) < MaxWork
    BY <1>5 DEF Create, Within
  <2>2. Cardinality(issued) < MaxWork
    BY <1>2, <2>1
  <2>3. /\ WorldOK' /\ Cardinality(issued') \in Nat
        /\ Cardinality(issued') <= Cardinality(issued) + 1
    BY <1>1, <2>1, <2>2, CreateStep
  <2>4. Cardinality(issued') + Len(commands) <= MaxWork
    BY <1>2, <2>1, <2>3
  <2>5. BufferOK'
    BY <1>1, <2>1, <2>4 DEF BufferOK, buffer
  <2>6. QED
    BY <2>3, <2>5 DEF IInv
<1>6. ASSUME NEW e \in issued, Destroy(e) PROVE IInv'
  BY <1>1, <1>3, <1>4, <1>6, DestroyKeeps DEF Destroy
<1>7. ASSUME NEW e \in issued, NEW c \in Component, NEW memory \in BOOLEAN, Remove(e, c, memory)
      PROVE  IInv'
  BY <1>1, <1>3, <1>4, <1>7, RemoveKeeps DEF Remove
<1>8. ASSUME NEW e \in issued, NEW c \in Component, NEW v \in Datum[c],
             NEW memory \in BOOLEAN, Add(e, c, v, memory)
      PROVE  IInv'
  BY <1>1, <1>3, <1>4, <1>8, AddKeeps DEF Add
<1>9. ASSUME NEW e \in issued, NEW c \in Component, NEW v \in Datum[c], Write(e, c, v)
      PROVE  IInv'
  <2>1. /\ Valid(e) /\ c \in KeyOf(e) /\ Overwrite(e, c, v)
        /\ UNCHANGED <<table, archetypes, issued>> /\ UNCHANGED <<query, buffer>>
    BY <1>9 DEF Write
  <2>2. WorldOK'
    BY <1>1, <1>3, <2>1, OverwriteKeeps
  <2>3. QED
    BY <1>4, <2>1, <2>2
<1>10. QED
  BY <1>5, <1>6, <1>7, <1>8, <1>9 DEF Call

\* The rows of a chunk with component c set to v in each.
WithAll(rows, c, v) == [i \in DOMAIN rows |-> [rows[i] EXCEPT !.data[c] = v]]

\* They are rows of the same entities.
LEMMA WrittenRows ==
    ASSUME NEW key \in Key, NEW q, ChunksOf(key, q), NEW x \in 1..Len(q),
           NEW c \in key, NEW v \in Datum[c], NEW b, b = WithAll(q[x], c, v)
    PROVE  /\ b \in Seq(Row) /\ Len(b) = Len(q[x])
           /\ \A i \in 1..Len(b) : /\ b[i].entity = q[x][i].entity
                                   /\ DOMAIN b[i].data = key
                                   /\ b[i].data = [q[x][i].data EXCEPT ![c] = v]
<1> DEFINE old == q[x]
<1>1. q \in Seq(Seq(Row)) /\ Len(q) \in Nat
  BY LenProperties DEF ChunksOf
<1>2. old \in Seq(Row) /\ Len(old) \in Nat /\ DOMAIN old = 1..Len(old)
  BY <1>1, ElementOfSeq, LenProperties
<1>3. \A i \in 1..Len(old) : old[i] \in Row /\ DOMAIN old[i].data = key
  <2> SUFFICES ASSUME NEW i \in 1..Len(old)
               PROVE  old[i] \in Row /\ DOMAIN old[i].data = key
    OBVIOUS
  <2>1. x \in Nat /\ i \in Nat /\ In(q, x, i)
    BY <1>1, <1>2 DEF In
  <2>2. DOMAIN old[i].data = key
    BY <2>1 DEF ChunksOf
  <2>3. old[i] \in Row
    BY <1>2, ElementOfSeq
  <2>4. QED
    BY <2>2, <2>3
<1>4. b = [i \in 1..Len(old) |-> [old[i] EXCEPT !.data[c] = v]]
  BY <1>2 DEF WithAll
<1> HIDE DEF old
<1>5. \A i \in 1..Len(old) : /\ b[i] \in Row /\ b[i].entity = old[i].entity
                             /\ DOMAIN b[i].data = key
                             /\ b[i].data = [old[i].data EXCEPT ![c] = v]
  <2> SUFFICES ASSUME NEW i \in 1..Len(old)
               PROVE  /\ b[i] \in Row /\ b[i].entity = old[i].entity
                      /\ DOMAIN b[i].data = key
                      /\ b[i].data = [old[i].data EXCEPT ![c] = v]
    OBVIOUS
  <2>1. b[i] = [old[i] EXCEPT !.data = [@ EXCEPT ![c] = v]]
    BY <1>4
  <2>2. old[i] \in Row /\ DOMAIN old[i].data = key
    BY <1>3
  <2> DEFINE o == old[i]
  <2> HIDE DEF o
  <2>3. /\ [o EXCEPT !.data = [@ EXCEPT ![c] = v]] \in Row
        /\ [o EXCEPT !.data = [@ EXCEPT ![c] = v]].entity = o.entity
        /\ [o EXCEPT !.data = [@ EXCEPT ![c] = v]].data = [o.data EXCEPT ![c] = v]
        /\ DOMAIN [o.data EXCEPT ![c] = v] = key
    <3>1. o \in Row /\ DOMAIN o.data = key
      BY <2>2 DEF o
    <3>2. QED
      BY <3>1, RowWith
  <2>4. QED
    BY <2>1, <2>3 DEF o
<1>6. b \in [1..Len(old) -> Row]
  BY <1>4, <1>5
<1>7. b \in Seq(Row)
  BY <1>2, <1>6, SeqDef
<1>8. Len(b) = Len(old)
  BY <1>2, <1>6, <1>7, LenProperties
<1>9. QED
  BY <1>5, <1>7, <1>8 DEF old

\* Component c is v in every row of that chunk and all other data is as it was.
Swept(key, x, c, v) ==
    \A l \in Key, i, j \in Nat : In(chunks[l], i, j) =>
        chunks'[l][i][j].data =
           IF l = key /\ i = x THEN [chunks[l][i][j].data EXCEPT ![c] = v]
           ELSE chunks[l][i][j].data

\* The write of a callback is a write over one chunk.
LEMMA SweepKeeps ==
    ASSUME WorldOK, NEW key \in Key, NEW x \in 1..Len(chunks[key]),
           NEW c \in key, NEW v \in Datum[c],
           NEW b, b = WithAll(chunks[key][x], c, v),
           Replaced(key, x, b),
           UNCHANGED <<records, used, free, archetypes, issued>>
    PROVE  /\ WorldOK' /\ \A s \in Slot : Alive(s)' <=> Alive(s)
           /\ Swept(key, x, c, v)
<1>1. ChunksOf(key, chunks[key])
  BY DEF WorldOK, ChunkType
<1>2. /\ b \in Seq(Row) /\ Len(b) = Len(chunks[key][x])
      /\ \A i \in 1..Len(b) : /\ b[i].entity = chunks[key][x][i].entity
                              /\ DOMAIN b[i].data = key
                              /\ b[i].data = [chunks[key][x][i].data EXCEPT ![c] = v]
  <2> DEFINE q == chunks[key]
  <2>1. ChunksOf(key, q) /\ x \in 1..Len(q) /\ b = WithAll(q[x], c, v)
    BY <1>1
  <2> HIDE DEF q
  <2>2. /\ b \in Seq(Row) /\ Len(b) = Len(q[x])
        /\ \A i \in 1..Len(b) : /\ b[i].entity = q[x][i].entity
                                /\ DOMAIN b[i].data = key
                                /\ b[i].data = [q[x][i].data EXCEPT ![c] = v]
    BY <2>1, WrittenRows
  <2>3. QED
    BY <2>2 DEF q
<1>3. /\ WorldOK' /\ \A s \in Slot : Alive(s)' <=> Alive(s)
      /\ chunks'[key][x] = b
      /\ \A l \in Key, i, j \in Nat :
           In(chunks[l], i, j) /\ ~(l = key /\ i = x) => chunks'[l][i][j] = chunks[l][i][j]
  <2>1. \A i \in 1..Len(b) :
          b[i].entity = chunks[key][x][i].entity /\ DOMAIN b[i].data = key
    BY <1>2
  <2>2. b \in Seq(Row) /\ Len(b) = Len(chunks[key][x])
    BY <1>2
  <2>3. QED
    BY <2>1, <2>2, ChunkWritten, ZenonT(60)
<1>4. ASSUME NEW l \in Key, NEW i \in Nat, NEW j \in Nat, In(chunks[l], i, j)
      PROVE  chunks'[l][i][j].data =
               IF l = key /\ i = x THEN [chunks[l][i][j].data EXCEPT ![c] = v]
               ELSE chunks[l][i][j].data
  <2>1. CASE l = key /\ i = x
    <3>1. j \in 1..Len(b)
      BY <1>2, <1>4, <2>1 DEF In
    <3>2. b[j].data = [chunks[key][x][j].data EXCEPT ![c] = v] /\ chunks'[key][x][j] = b[j]
      BY <1>2, <1>3, <3>1, Zenon
    <3>3. QED
      BY <2>1, <3>2, Zenon
  <2>2. CASE ~(l = key /\ i = x)
    <3>1. chunks'[l][i][j] = chunks[l][i][j]
      BY <1>3, <1>4, <2>2, Zenon
    <3>2. QED
      BY <2>2, <3>1, Zenon
  <2>3. QED
    BY <2>1, <2>2
<1>5. QED
  BY <1>3, <1>4, Zenon DEF Swept

\* A chunk that lies ahead of a query: an archetype with its components, a chunk
\* of it.
LEMMA AheadFacts ==
    ASSUME WorldOK, NEW p \in Ahead
    PROVE  /\ p[1] \in Nat /\ p[2] \in Nat
           /\ archetypes[p[1]] \in Key /\ query.ids \subseteq archetypes[p[1]]
           /\ p[2] \in 1..Len(chunks[archetypes[p[1]]])
<1>1. PICK a \in DOMAIN archetypes : p \in {a} \X DOMAIN chunks[archetypes[a]]
  BY DEF Ahead
<1>2. archetypes \in Seq(Key)
  BY DEF WorldOK, TableType
<1>3. DOMAIN archetypes = 1..Len(archetypes) /\ Len(archetypes) \in Nat
  BY <1>2, LenProperties
<1>4. p[1] = a /\ p[2] \in DOMAIN chunks[archetypes[a]] /\ query.ids \subseteq archetypes[p[1]]
  BY <1>1 DEF Ahead
<1>5. archetypes[a] \in Key
  BY <1>1, <1>2, <1>3, ElementOfSeq
<1>6. ChunksOf(archetypes[a], chunks[archetypes[a]])
  BY <1>5 DEF WorldOK, ChunkType
<1>7. /\ DOMAIN chunks[archetypes[a]] = 1..Len(chunks[archetypes[a]])
      /\ Len(chunks[archetypes[a]]) \in Nat
  BY <1>6, LenProperties DEF ChunksOf
<1>8. QED
  BY <1>1, <1>3, <1>4, <1>5, <1>7

\* What a visit does to the world.
LEMMA VisitWrites ==
    ASSUME WorldOK, NEW p \in Ahead, NEW c \in query.ids, NEW v \in Datum[c],
           NEW writes \in BOOLEAN, VisitChunk(p, c, v, writes)
    PROVE  /\ UNCHANGED <<records, used, free, archetypes, issued>>
           /\ IF writes THEN Replaced(archetypes[p[1]], p[2],
                               WithAll(chunks[archetypes[p[1]]][p[2]], c, v))
              ELSE chunks' = chunks
BY DEF VisitChunk, Replaced, WithAll, table

\* The steps of a query keep the invariant: a visit only writes a column.
LEMMA QueryKeeps == IInv /\ Query => IInv'
<1> SUFFICES ASSUME IInv, Query PROVE IInv'
  OBVIOUS
<1>1. WorldOK /\ BufferOK
  BY DEF IInv
<1>2. ASSUME UNCHANGED <<records, used, free, archetypes, chunks, issued>>
      PROVE  WorldOK'
  <2>1. archetypes' \in Seq(Key)
    BY <1>1, <1>2 DEF WorldOK, TableType
  <2>2. QED
    BY <1>1, <1>2, <2>1, WorldUnchanged
<1>3. ASSUME UNCHANGED <<issued, buffer>>,
             query' \in [active : BOOLEAN, ids : Key, arch : Nat, chunk : Nat, seen : Seq(Entity)]
      PROVE  BufferOK'
  BY <1>1, <1>3 DEF BufferOK, buffer
<1>4. NoQuery \in [active : BOOLEAN, ids : Key, arch : Nat, chunk : Nat, seen : Seq(Entity)]
  BY DEF NoQuery, Key
<1>5. ASSUME NEW ids \in Key \ {{}}, BeginQuery(ids) PROVE IInv'
  <2>1. /\ UNCHANGED <<records, used, free, archetypes, chunks, issued>> /\ UNCHANGED buffer
        /\ query' = [NoQuery EXCEPT !.active = TRUE, !.ids = ids]
    BY <1>5 DEF BeginQuery, world
  <2>2. query' \in [active : BOOLEAN, ids : Key, arch : Nat, chunk : Nat, seen : Seq(Entity)]
    BY <1>4, <2>1
  <2>3. QED
    BY <1>2, <1>3, <2>1, <2>2 DEF IInv
<1>6. ASSUME EndQuery PROVE IInv'
  <2>1. /\ UNCHANGED <<records, used, free, archetypes, chunks, issued>> /\ UNCHANGED buffer
        /\ query' = NoQuery
    BY <1>6 DEF EndQuery, world
  <2>2. QED
    BY <1>2, <1>3, <1>4, <2>1 DEF IInv
<1>7. ASSUME NEW p \in Ahead, NEW c \in query.ids, NEW writes \in BOOLEAN, NEW v \in Datum[c],
             VisitChunk(p, c, v, writes)
      PROVE  IInv'
  <2> DEFINE key == archetypes[p[1]]
             x == p[2]
             rows == chunks[key][x]
             q == [i \in DOMAIN rows |-> rows[i].entity]
             b == WithAll(rows, c, v)
  <2>1. /\ p[1] \in Nat /\ x \in Nat /\ key \in Key /\ c \in key /\ x \in 1..Len(chunks[key])
    BY <1>1, AheadFacts
  <2>2. /\ UNCHANGED <<records, used, free, archetypes, issued>> /\ UNCHANGED buffer
        /\ query' = [query EXCEPT !.arch = p[1], !.chunk = x, !.seen = @ \o q]
    BY <1>7 DEF VisitChunk, table
  <2>3. IF writes THEN Replaced(key, x, b) ELSE chunks' = chunks
    BY <1>1, <1>7, VisitWrites
  <2>4. q \in Seq(Entity)
    <3>1. ChunksOf(key, chunks[key])
      BY <1>1, <2>1 DEF WorldOK, ChunkType
    <3>2. rows \in Seq(Row)
      BY <2>1, <3>1, ElementOfSeq DEF ChunksOf
    <3>3. DOMAIN rows = 1..Len(rows) /\ Len(rows) \in Nat
      BY <3>2, LenProperties
    <3>4. \A i \in 1..Len(rows) : rows[i] \in Row
      BY <3>2, ElementOfSeq
    <3>5. q \in [1..Len(rows) -> Entity]
      BY <3>3, <3>4 DEF Row
    <3> PICK m : m = Len(rows)
      OBVIOUS
    <3>6. q \in [1..m -> Entity] /\ m \in Nat
      BY <3>3, <3>5
    <3> HIDE DEF q
    <3>7. QED
      BY ONLY <3>6, SeqDef
  <2>rows. rows = chunks[key][x]
    OBVIOUS
  <2> HIDE DEF key, x, q, b, rows
  <2>5. query' \in [active : BOOLEAN, ids : Key, arch : Nat, chunk : Nat, seen : Seq(Entity)]
    <3>1. query \in [active : BOOLEAN, ids : Key, arch : Nat, chunk : Nat, seen : Seq(Entity)]
      BY <1>1 DEF BufferOK
    <3>2. query.seen \o q \in Seq(Entity)
      BY <2>4, <3>1, ConcatProperties
    <3> DEFINE all == query.seen \o q
    <3>3. query' = [query EXCEPT !.arch = p[1], !.chunk = x, !.seen = all] /\ all \in Seq(Entity)
      BY <2>2, <3>2
    <3> HIDE DEF all
    <3>4. QED
      BY <2>1, <3>1, <3>3
  <2>6. WorldOK'
    <3>1. CASE writes
      <4>1. Replaced(key, x, b) /\ b = WithAll(chunks[key][x], c, v)
        BY <2>3, <2>rows, <3>1 DEF b
      <4>2. QED
        BY <1>1, <2>1, <2>2, <4>1, SweepKeeps
    <3>2. CASE ~writes
      BY <1>2, <2>2, <2>3, <3>2
    <3>3. QED
      BY <3>1, <3>2
  <2>7. QED
    BY <1>3, <2>2, <2>5, <2>6 DEF IInv
<1>8. QED
  BY <1>5, <1>6, <1>7 DEF Query

\* Recording, clearing and playing back commands keep the invariant.
LEMMA DeferKeeps == IInv /\ Defer => IInv'
<1> SUFFICES ASSUME IInv, Defer PROVE IInv'
  OBVIOUS
<1>1. WorldOK /\ BufferOK
  BY DEF IInv
<1>2. /\ Cardinality(issued) \in Nat /\ Len(commands) \in Nat /\ MaxWork \in Nat
      /\ commands \in Seq(Commands)
  BY <1>1, FS_CardinalityType, LenProperties, NumbersAssumption DEF WorldOK, Handles, BufferOK
<1>3. issued \subseteq [slot : Nat, gen : Generation \cup {TempGen}]
  BY <1>1 DEF WorldOK, TableType, Entity, Slot
<1>4. Temps \subseteq [slot : Nat, gen : Generation \cup {TempGen}]
  BY <1>1 DEF Temps, Temp, BufferOK
<1>5. ASSUME UNCHANGED world PROVE WorldOK'
  <2>1. UNCHANGED <<records, used, free, archetypes, chunks, issued>>
    BY <1>5 DEF world
  <2>2. archetypes' \in Seq(Key)
    BY <1>1, <2>1 DEF WorldOK, TableType
  <2>3. QED
    BY <1>1, <2>1, <2>2, WorldUnchanged
<1>6. ASSUME NEW cmd \in Commands, Record(cmd), tempCount' \in Nat PROVE IInv'
  <2>1. /\ UNCHANGED world /\ issued' = issued /\ query' = query /\ tempToReal' = tempToReal
        /\ playing' = playing
        /\ commands' = Append(commands, cmd) /\ Cardinality(issued) + Len(commands) < MaxWork
    BY <1>6 DEF Record, Within, world
  <2>2. commands' \in Seq(Commands) /\ Len(commands') = Len(commands) + 1
    BY <1>2, <2>1, AppendProperties
  <2>3. Cardinality(issued') + Len(commands') <= MaxWork
    <3>1. Cardinality(issued') = Cardinality(issued)
      BY <2>1
    <3>2. QED
      BY <1>2, <2>1, <2>2, <3>1
  <2>4. BufferOK'
    BY <1>1, <1>6, <2>1, <2>2, <2>3 DEF BufferOK
  <2>5. QED
    BY <1>5, <2>1, <2>4 DEF IInv
<1>7. ASSUME UNCHANGED world, query' = query, commands' = <<>> \/ commands' = commands,
             tempCount' \in Nat, playing' \in BOOLEAN,
             tempToReal' = <<>> \/ tempToReal' = tempToReal
      PROVE  IInv'
  <2>1. commands' \in Seq(Commands) /\ Len(commands') <= Len(commands)
    <3>1. CASE commands' = commands
      BY <1>2, <3>1
    <3>2. CASE commands' = <<>>
      <4>1. Len(commands') = 0 /\ commands' \in Seq(Commands)
        BY <3>2, EmptySeq
      <4>2. QED
        BY <1>2, <4>1
    <3>3. QED
      BY <1>7, <3>1, <3>2
  <2>2. tempToReal' \in Seq(Entity \cup {NoEntity})
    BY <1>1, <1>7, EmptySeq DEF BufferOK
  <2>3. issued' = issued /\ Cardinality(issued') = Cardinality(issued)
    BY <1>7 DEF world
  <2>4. Len(commands') \in Nat
    BY <2>1, LenProperties
  <2>5. Cardinality(issued') + Len(commands') <= MaxWork
    BY <1>1, <1>2, <2>1, <2>3, <2>4 DEF BufferOK
  <2>6. BufferOK'
    BY <1>1, <1>7, <2>1, <2>2, <2>5 DEF BufferOK
  <2>7. QED
    BY <1>5, <1>7, <2>6 DEF IInv
<1>8. ASSUME NEW memory \in BOOLEAN, PlayCommand(memory) PROVE IInv'
  <2> DEFINE cmd == Head(commands)
             e == Resolve(cmd.entity)
  <2>1. /\ commands # <<>> /\ commands' = Tail(commands)
        /\ query' = query /\ tempCount' = tempCount /\ playing' = playing
    BY <1>8 DEF PlayCommand
  <2>2. cmd \in Commands /\ commands' \in Seq(Commands) /\ Len(commands') = Len(commands) - 1
        /\ Len(commands') \in Nat
    BY <1>2, <2>1, HeadTailProperties, LenProperties
  <2>3. e \in [slot : Nat, gen : Nat]
    <3>1. cmd.entity \in [slot : Nat, gen : Generation \cup {TempGen}]
      BY <2>2 DEF Commands, AnyCommand
    <3>2. QED
      BY <1>1, <3>1, Resolved
  <2>4. ASSUME WorldOK', Cardinality(issued') \in Nat,
               Cardinality(issued') <= Cardinality(issued) + 1,
               tempToReal' \in Seq(Entity \cup {NoEntity})
        PROVE  IInv'
    <3>1. Cardinality(issued) + Len(commands) <= MaxWork
      BY <1>1 DEF BufferOK
    <3>2. Cardinality(issued') + Len(commands') <= MaxWork
      BY <1>2, <2>2, <2>4, <3>1
    <3>3. BufferOK'
      BY <1>1, <2>1, <2>2, <2>4, <3>2 DEF BufferOK
    <3>4. QED
      BY <2>4, <3>3 DEF IInv
  <2>5. tempToReal \in Seq(Entity \cup {NoEntity})
    BY <1>1 DEF BufferOK
  <2>e. e.slot \in Nat
    BY <2>3, HandleSlots
  <2> HIDE DEF e
  <2>6. CASE cmd.op = "create" /\ CreateEntity(memory)
                /\ tempToReal' = Append(tempToReal, Created(memory))
    <3>1. Cardinality(issued) < MaxWork
      <4>1. Cardinality(issued) + Len(commands) <= MaxWork
        BY <1>1 DEF BufferOK
      <4>2. QED
        BY <1>2, <2>2, <4>1
    <3>2. /\ WorldOK' /\ Cardinality(issued') \in Nat
          /\ Cardinality(issued') <= Cardinality(issued) + 1
          /\ Created(memory) \in Entity \cup {NoEntity}
      BY <1>1, <2>6, <3>1, CreateStep
    <3>3. tempToReal' \in Seq(Entity \cup {NoEntity})
      BY <2>5, <2>6, <3>2, AppendProperties
    <3>4. QED
      BY <2>4, <3>2, <3>3
  <2>7. ASSUME WorldOK', issued' = issued, tempToReal' = tempToReal PROVE IInv'
    BY <1>2, <2>4, <2>5, <2>7
  <2>8. CASE cmd.op = "destroy" /\ DestroyEntity(e) /\ UNCHANGED tempToReal
    BY <1>1, <2>7, <2>8, <2>e, DestroyKeeps
  <2>9. CASE cmd.op = "add" /\ AddComponent(e, cmd.comp, cmd.datum, memory)
               /\ UNCHANGED tempToReal
    <3>1. cmd.comp \in Component /\ cmd.datum \in Datum[cmd.comp]
      BY <2>2, <2>9 DEF Commands
    <3>2. WorldOK' /\ issued' = issued
      BY <1>1, <2>3, <2>9, <3>1, AddKeeps
    <3>3. QED
      BY <2>7, <2>9, <3>2
  <2>10. CASE cmd.op = "remove" /\ RemoveComponent(e, cmd.comp, memory)
                /\ UNCHANGED tempToReal
    <3>1. cmd.comp \in Component
      BY <2>2, <2>10 DEF Commands
    <3>2. WorldOK' /\ issued' = issued
      BY <1>1, <2>3, <2>10, <3>1, RemoveKeeps
    <3>3. QED
      BY <2>7, <2>10, <3>2
  <2>11. QED
    BY <1>8, <2>6, <2>8, <2>9, <2>10 DEF PlayCommand, e
<1>9. CASE RecordCreate
  <2>1. Record(Command("create", Temp(tempCount), Nil, Nil)) /\ tempCount' = tempCount + 1
    BY <1>9 DEF RecordCreate
  <2>2. Temp(tempCount) \in [slot : Nat, gen : Generation \cup {TempGen}] /\ tempCount \in Nat
    BY <1>1 DEF Temp, BufferOK
  <2>3. Command("create", Temp(tempCount), Nil, Nil) \in Commands
    BY <2>2 DEF Command, Commands, AnyCommand
  <2>4. QED
    BY <1>6, <2>1, <2>2, <2>3
<1>10. ASSUME NEW e \in issued \cup Temps, RecordDestroy(e) PROVE IInv'
  <2>1. Record(Command("destroy", e, Nil, Nil)) /\ tempCount' = tempCount
    BY <1>10 DEF RecordDestroy
  <2>2. Command("destroy", e, Nil, Nil) \in Commands
    BY <1>3, <1>4, <1>10 DEF Command, Commands, AnyCommand
  <2>3. QED
    BY <1>1, <1>6, <2>1, <2>2 DEF BufferOK
<1>11. ASSUME NEW e \in issued \cup Temps, NEW c \in Component, NEW v \in Datum[c],
              RecordAdd(e, c, v)
       PROVE  IInv'
  <2>1. Record(Command("add", e, c, v)) /\ tempCount' = tempCount
    BY <1>11 DEF RecordAdd
  <2>2. Command("add", e, c, v) \in Commands
    BY <1>3, <1>4, <1>11 DEF Command, Commands, AnyCommand, Data
  <2>3. QED
    BY <1>1, <1>6, <2>1, <2>2 DEF BufferOK
<1>12. ASSUME NEW e \in issued \cup Temps, NEW c \in Component, RecordRemove(e, c)
       PROVE  IInv'
  <2>1. Record(Command("remove", e, c, Nil)) /\ tempCount' = tempCount
    BY <1>12 DEF RecordRemove
  <2>2. Command("remove", e, c, Nil) \in Commands
    BY <1>3, <1>4, <1>12 DEF Command, Commands, AnyCommand
  <2>3. QED
    BY <1>1, <1>6, <2>1, <2>2 DEF BufferOK
<1>13. CASE Clear
  BY <1>1, <1>7, <1>13 DEF Clear, Cleared, BufferOK
<1>14. CASE BeginPlayback
  BY <1>1, <1>7, <1>14 DEF BeginPlayback, BufferOK
<1>15. CASE EndPlayback
  BY <1>1, <1>7, <1>15 DEF EndPlayback, Cleared, BufferOK
<1>16. QED
  BY <1>8, <1>9, <1>10, <1>11, <1>12, <1>13, <1>14, <1>15 DEF Defer

\* A step that changes nothing keeps the invariant.
LEMMA StutterKeeps == IInv /\ UNCHANGED vars => IInv'
<1> SUFFICES ASSUME IInv, UNCHANGED vars PROVE IInv'
  OBVIOUS
<1>1. UNCHANGED <<records, used, free, archetypes, chunks, issued>> /\ UNCHANGED <<query, buffer>>
  BY DEF vars, world
<1>2. archetypes' \in Seq(Key)
  BY <1>1 DEF IInv, WorldOK, TableType
<1>3. WorldOK'
  BY <1>1, <1>2, WorldUnchanged DEF IInv
<1>4. BufferOK'
  BY <1>1 DEF IInv, BufferOK, buffer
<1>5. QED
  BY <1>3, <1>4 DEF IInv

\* Every step keeps the invariant.
LEMMA NextKeeps == IInv /\ [Next]_vars => IInv'
BY CallKeeps, QueryKeeps, DeferKeeps, StutterKeeps DEF Next

\* The state always satisfies the invariant.
THEOREM WorldIsSound == Spec => []IInv
<1>1. Init => IInv
  BY InitHolds
<1>2. IInv /\ [Next]_vars => IInv'
  BY NextKeeps
<1>3. QED
  BY <1>1, <1>2, PTL DEF Spec

\* The invariant implies that every variable has its type.
LEMMA InvTypes == IInv => TypeOK
<1> SUFFICES ASSUME IInv PROVE TypeOK
  OBVIOUS
<1>1. WorldOK /\ BufferOK
  BY DEF IInv
<1>2. \A key \in Key : ChunksOf(key, chunks[key])
  BY <1>1 DEF WorldOK, ChunkType
<1>3. chunks \in [Key -> Seq(Seq(Row))]
  BY <1>1, <1>2 DEF WorldOK, ChunkType, ChunksOf
<1>4. ASSUME NEW key \in Key, NEW c \in DOMAIN chunks[key]
      PROVE  /\ Len(chunks[key][c]) <= Capacity[key]
             /\ \A r \in DOMAIN chunks[key][c] : DOMAIN chunks[key][c][r].data = key
  <2>1. /\ chunks[key] \in Seq(Seq(Row)) /\ c \in 1..Len(chunks[key])
        /\ Len(chunks[key]) \in Nat
    BY <1>2, <1>4, LenProperties DEF ChunksOf
  <2>2. Len(chunks[key][c]) <= Capacity[key]
    BY <1>2, <2>1 DEF ChunksOf
  <2>3. DOMAIN chunks[key][c] = 1..Len(chunks[key][c]) /\ Len(chunks[key][c]) \in Nat
    BY <2>1, ElementOfSeq, LenProperties
  <2>4. ASSUME NEW r \in DOMAIN chunks[key][c] PROVE DOMAIN chunks[key][c][r].data = key
    <3>1. c \in Nat /\ r \in Nat /\ In(chunks[key], c, r)
      BY <2>1, <2>3, <2>4 DEF In
    <3>2. ChunksOf(key, chunks[key])
      BY <1>2
    <3>3. QED
      BY <3>1, <3>2 DEF ChunksOf
  <2>5. QED
    BY <2>2, <2>4
<1>5. commands \in Seq(AnyCommand)
  <2>1. commands \in Seq(Commands) /\ Commands \subseteq AnyCommand
    BY <1>1 DEF BufferOK, Commands
  <2>2. QED
    BY <2>1
<1>6. QED
  BY <1>1, <1>3, <1>4, <1>5 DEF TypeOK, WorldOK, TableType, BufferOK, AnyCommand

\* The live slots, read off the records alone.
LEMMA LivingAre == WorldOK => Living = {s \in Slot : Alive(s)}
BY NumbersAssumption DEF Living, Slot, Alive, WorldOK, TableType

\* The invariant implies that records and rows lead to each other.
LEMMA InvMatches == IInv => RecordsMatchRows
<1> SUFFICES ASSUME IInv PROVE RecordsMatchRows
  OBVIOUS
<1>1. WorldOK
  BY DEF IInv
<1>2. ASSUME NEW key \in Key
      PROVE  /\ DOMAIN chunks[key] = 1..Len(chunks[key]) /\ Len(chunks[key]) \in Nat
             /\ \A c \in 1..Len(chunks[key]) :
                  /\ DOMAIN chunks[key][c] = 1..Len(chunks[key][c])
                  /\ Len(chunks[key][c]) \in Nat
  <2>1. chunks[key] \in Seq(Seq(Row))
    BY <1>1 DEF WorldOK, ChunkType, ChunksOf
  <2>2. QED
    BY <2>1, ElementOfSeq, LenProperties
<1>3. ASSUME NEW s \in Living
      PROVE  /\ records[s].arch \in Key /\ records[s].chunk \in DOMAIN chunks[records[s].arch]
             /\ records[s].row \in DOMAIN chunks[records[s].arch][records[s].chunk]
             /\ RowOf(HandleOf(s)).entity = HandleOf(s)
  <2>1. s \in Slot /\ Alive(s)
    BY <1>1, <1>3, LivingAre
  <2>2. /\ records[s].arch \in Key
        /\ In(chunks[records[s].arch], records[s].chunk, records[s].row)
        /\ RowAt(s).entity = HandleOf(s)
    BY <1>1, <2>1, AliveFacts
  <2>3. RowOf(HandleOf(s)) = RowAt(s)
    BY DEF RowOf, RowAt, HandleOf
  <2>4. QED
    BY <1>2, <2>2, <2>3 DEF In
<1>4. ASSUME NEW key \in Key, NEW c \in DOMAIN chunks[key], NEW r \in DOMAIN chunks[key][c]
      PROVE  LET e == chunks[key][c][r].entity IN
             /\ e.slot \in Living /\ e = HandleOf(e.slot)
             /\ records[e.slot].arch = key /\ records[e.slot].chunk = c
             /\ records[e.slot].row = r
  <2>1. c \in Nat /\ r \in Nat /\ In(chunks[key], c, r)
    BY <1>2, <1>4 DEF In
  <2>2. PICK s \in Slot : /\ Alive(s) /\ records[s].arch = key
                          /\ records[s].chunk = c /\ records[s].row = r
                          /\ chunks[key][c][r].entity = HandleOf(s)
    BY <1>1, <2>1, OwnerOf
  <2>3. HandleOf(s).slot = s /\ s \in Living
    BY <1>1, <2>2, LivingAre DEF HandleOf
  <2>4. QED
    BY <2>2, <2>3
<1>5. QED
  BY <1>3, <1>4 DEF RecordsMatchRows

\* The invariant implies that the free list holds the dead slots, each once.
LEMMA InvFrees == IInv => FreeListIsDead
<1> SUFFICES ASSUME IInv PROVE FreeListIsDead
  OBVIOUS
<1>1. WorldOK
  BY DEF IInv
<1>2. free \in Seq(Slot) /\ DOMAIN free = 1..Len(free) /\ \A i \in 1..Len(free) : free[i] \in Slot
  BY <1>1, LenProperties, ElementOfSeq DEF WorldOK, TableType
<1>3. \A s : s \in 0..used-1 <=> s \in Slot /\ s < used
  BY <1>1, NumbersAssumption DEF WorldOK, TableType, Slot
<1>4. \A s \in Slot : s \in Living <=> s < used /\ records[s].alive
  BY <1>1, LivingAre DEF Alive
<1>5. \A s \in Slot : s \in (0..used-1) \ Living <=> \E i \in 1..Len(free) : free[i] = s
  BY <1>1, <1>3, <1>4 DEF WorldOK, FreeList
<1>6. {free[i] : i \in DOMAIN free} = (0..used-1) \ Living
  BY <1>2, <1>3, <1>5
<1>7. QED
  BY <1>1, <1>2, <1>6 DEF FreeListIsDead, WorldOK, FreeList

\* Every variable keeps to the values its declaration allows.
THEOREM TypesKept == Spec => []TypeOK
BY WorldIsSound, InvTypes, PTL

\* Records and rows lead to each other, whatever calls, queries and playbacks
\* come in whatever order, and whenever the memory for a chunk is missing.
THEOREM RecordsAlwaysMatchRows == Spec => []RecordsMatchRows
BY WorldIsSound, InvMatches, PTL

\* The free list holds the dead slots, each once.
THEOREM FreeListAlwaysDead == Spec => []FreeListIsDead
BY WorldIsSound, InvFrees, PTL

-----------------------------------------------------------------------------
\* The refinement: the world is a map from handles to components.

LiveHandles == {HandleOf(s) : s \in Living}

\* The handles of the map are those of the entities alive, each with the data of
\* its row.
LiveAre ==
    /\ \A s \in Slot : Alive(s) => HandleOf(s) \in LiveHandles
    /\ \A h \in LiveHandles : /\ h.slot \in Slot /\ Alive(h.slot) /\ h = HandleOf(h.slot)
                              /\ h \in Entity
    /\ Stored = [h \in LiveHandles |-> RowAt(h.slot).data]

\* The map the world stands for, handle by handle.
LEMMA StoredIs == WorldOK => LiveAre
<1> SUFFICES ASSUME WorldOK PROVE LiveAre
  OBVIOUS
<1>1. Living = {s \in Slot : Alive(s)}
  BY LivingAre
<1>2. \A s \in Slot : HandleOf(s).slot = s /\ HandleOf(s).gen = records[s].gen
  BY DEF HandleOf
<1>3. \A s \in Slot : HandleOf(s) \in Entity
  BY DEF HandleOf, Entity, WorldOK, TableType, EntityRecord
<1>4. Stored = [h \in LiveHandles |-> RowAt(h.slot).data]
  BY DEF Stored, LiveHandles, RowOf, RowAt
<1>5. \A s \in Slot : Alive(s) => HandleOf(s) \in LiveHandles
  BY <1>1 DEF LiveHandles
<1>6. ASSUME NEW h \in LiveHandles
      PROVE  h.slot \in Slot /\ Alive(h.slot) /\ h = HandleOf(h.slot) /\ h \in Entity
  <2>1. PICK s \in Living : h = HandleOf(s)
    BY <1>6 DEF LiveHandles
  <2>2. QED
    BY <1>1, <1>2, <1>3, <2>1
<1>7. QED
  BY <1>4, <1>5, <1>6 DEF LiveAre

\* The same of the state after a step.
LEMMA StoredIsAfter == WorldOK' => LiveAre'
BY StoredIs, PTL

\* The map after a step that keeps every entity but that of slot s.
LEMMA OthersStored ==
    ASSUME WorldOK, WorldOK', NEW s \in Slot, OthersKept(s), NEW h, h.slot # s
    PROVE  /\ h \in LiveHandles' <=> h \in LiveHandles
           /\ h \in LiveHandles => Stored'[h] = Stored[h]
<1>1. LiveAre /\ LiveAre'
  BY StoredIs, StoredIsAfter
<1>2. ASSUME h \in LiveHandles
      PROVE  h \in LiveHandles' /\ Stored'[h] = Stored[h]
  <2>1. /\ h.slot \in Slot \ {s} /\ Alive(h.slot) /\ h = HandleOf(h.slot)
        /\ Stored[h] = RowAt(h.slot).data
    BY <1>1, <1>2 DEF LiveAre
  <2>2. Alive(h.slot)' /\ records'[h.slot].gen = records[h.slot].gen /\ RowAt(h.slot)' = RowAt(h.slot)
    BY <2>1 DEF OthersKept
  <2>3. HandleOf(h.slot)' = HandleOf(h.slot)
    BY <2>2 DEF HandleOf
  <2>4. h \in LiveHandles'
    BY <1>1, <2>1, <2>2, <2>3 DEF LiveAre
  <2>5. Stored'[h] = RowAt(h.slot)'.data
    BY <1>1, <2>4 DEF LiveAre
  <2>6. QED
    BY <2>1, <2>2, <2>4, <2>5
<1>3. ASSUME h \in LiveHandles'
      PROVE  h \in LiveHandles
  <2>1. h.slot \in Slot \ {s} /\ Alive(h.slot)' /\ h = HandleOf(h.slot)'
    BY <1>1, <1>3 DEF LiveAre
  <2>2. Alive(h.slot) /\ records'[h.slot].gen = records[h.slot].gen
    BY <2>1 DEF OthersKept
  <2>3. HandleOf(h.slot)' = HandleOf(h.slot)
    BY <2>2 DEF HandleOf
  <2>4. QED
    BY <1>1, <2>1, <2>2, <2>3 DEF LiveAre
<1>4. QED
  BY <1>2, <1>3

\* The map after a step that moves no entity at all.
LEMMA AllStored ==
    ASSUME WorldOK, WorldOK', records' = records, chunks' = chunks,
           \A s \in Slot : Alive(s)' <=> Alive(s)
    PROVE  Stored' = Stored
<1>1. LiveAre /\ LiveAre'
  BY StoredIs, StoredIsAfter
<1>2. \A h : HandleOf(h.slot)' = HandleOf(h.slot) /\ RowAt(h.slot)' = RowAt(h.slot)
  BY DEF HandleOf, RowAt
<1>3. LiveHandles' = LiveHandles
  <2>1. \A h \in LiveHandles : h \in LiveHandles'
    BY <1>1, <1>2 DEF LiveAre
  <2>2. \A h \in LiveHandles' : h \in LiveHandles
    BY <1>1, <1>2 DEF LiveAre
  <2>3. QED
    BY <2>1, <2>2
<1>4. QED
  BY <1>1, <1>2, <1>3 DEF LiveAre

\* destroy() takes the handle out of the map.
LEMMA DestroyStored ==
    ASSUME WorldOK, NEW e \in [slot : Nat, gen : Nat], DestroyEntity(e)
    PROVE  (\E h \in Entity : Store!Destroy(h)) \/ UNCHANGED <<issued, Stored>>
<1>1. /\ WorldOK' /\ issued' = issued
      /\ Valid(e) => ~Alive(e.slot)' /\ OthersKept(e.slot)
      /\ ~Valid(e) => UNCHANGED world
  BY HandleSlots, DestroyKeeps
<1>2. CASE ~Valid(e)
  <2>1. records' = records /\ chunks' = chunks /\ used' = used
    BY <1>1, <1>2 DEF world
  <2>2. \A s \in Slot : Alive(s)' <=> Alive(s)
    BY <2>1 DEF Alive
  <2>3. QED
    BY <1>1, <2>1, <2>2, AllStored
<1>3. CASE Valid(e)
  <2>1. e.slot \in Slot /\ Alive(e.slot) /\ e = HandleOf(e.slot) /\ e \in Entity
    BY <1>3, HandleSlots, ValidSlot, RowData
  <2>2. LiveAre /\ LiveAre'
    BY <1>1, StoredIs, StoredIsAfter
  <2>3. e \in LiveHandles /\ \A h \in LiveHandles : h.slot = e.slot => h = e
    BY <2>1, <2>2 DEF LiveAre
  <2>4. \A h \in LiveHandles' : h.slot # e.slot
    BY <1>1, <1>3, <2>2 DEF LiveAre
  <2>5. \A h : h.slot # e.slot => /\ h \in LiveHandles' <=> h \in LiveHandles
                                  /\ h \in LiveHandles => Stored'[h] = Stored[h]
    BY <1>1, <1>3, <2>1, OthersStored
  <2>6. LiveHandles' = LiveHandles \ {e}
    BY <2>3, <2>4, <2>5
  <2>7. /\ DOMAIN Stored = LiveHandles /\ DOMAIN Stored' = LiveHandles'
        /\ Stored' = [h \in LiveHandles' |-> Stored'[h]]
    BY <2>2 DEF LiveAre
  <2>8. \A h \in LiveHandles \ {e} : Stored'[h] = Stored[h]
    BY <2>3, <2>5
  <2>9. Stored' = [n \in LiveHandles \ {e} |-> Stored[n]]
    BY <2>6, <2>7, <2>8
  <2>10. Store!Destroy(e)
    BY <1>1, <2>3, <2>7, <2>9 DEF Store!Destroy, Store!Live
  <2>11. QED
    BY <2>1, <2>10
<1>4. QED
  BY <1>2, <1>3

\* A step that gives the entity of slot s the components d, or leaves it.
LEMMA BecomesStored ==
    ASSUME WorldOK, WorldOK', NEW e \in Entity, Valid(e), NEW d, Becomes(e.slot, d)
    PROVE  /\ DOMAIN Stored = LiveHandles /\ e \in LiveHandles
           /\ Stored[e] = RowAt(e.slot).data
           /\ Stored' = [Stored EXCEPT ![e] = d] \/ Stored' = Stored
<1>1. LiveAre /\ LiveAre'
  BY StoredIs, StoredIsAfter
<1>2. e.slot \in Slot /\ Alive(e.slot) /\ e = HandleOf(e.slot)
  <2>1. e \in [slot : Nat, gen : Nat]
    BY DEF Entity, Slot, Generation
  <2>2. QED
    BY <2>1, HandleSlots, ValidSlot, RowData
<1>3. e \in LiveHandles /\ \A h \in LiveHandles : h.slot = e.slot => h = e
  BY <1>1, <1>2 DEF LiveAre
<1>4. /\ OthersKept(e.slot) /\ Alive(e.slot)' /\ HandleOf(e.slot)' = HandleOf(e.slot)
      /\ RowAt(e.slot)'.data = d \/ RowAt(e.slot)'.data = RowAt(e.slot).data
  BY DEF Becomes, HandleOf
<1>5. e \in LiveHandles' /\ \A h \in LiveHandles' : h.slot = e.slot => h = e
  BY <1>1, <1>2, <1>4 DEF LiveAre
<1>6. \A h : h.slot # e.slot => /\ h \in LiveHandles' <=> h \in LiveHandles
                                /\ h \in LiveHandles => Stored'[h] = Stored[h]
  BY <1>2, <1>4, OthersStored
<1>7. LiveHandles' = LiveHandles
  <2>1. ASSUME NEW h PROVE h \in LiveHandles' <=> h \in LiveHandles
    <3>1. CASE h.slot = e.slot
      BY <1>3, <1>5, <3>1, Zenon
    <3>2. CASE h.slot # e.slot
      BY <1>6, <3>2, Zenon
    <3>3. QED
      BY <3>1, <3>2
  <2>2. QED
    BY <2>1, Zenon
<1>8. /\ Stored = [h \in LiveHandles |-> Stored[h]]
      /\ Stored' = [h \in LiveHandles |-> Stored'[h]]
      /\ Stored[e] = RowAt(e.slot).data /\ Stored'[e] = RowAt(e.slot)'.data
  BY <1>1, <1>3, <1>5, <1>7 DEF LiveAre
<1>9. \A h \in LiveHandles : h # e => Stored'[h] = Stored[h]
  BY <1>3, <1>6
<1> DEFINE S == Stored
           T == Stored'
<1>10. /\ S = [h \in LiveHandles |-> S[h]] /\ T = [h \in LiveHandles |-> T[h]]
       /\ \A h \in LiveHandles : h # e => T[h] = S[h]
       /\ T[e] = d \/ T[e] = S[e]
  BY <1>4, <1>8, <1>9
<1> HIDE DEF S, T
<1>11. DOMAIN S = LiveHandles /\ (T = [S EXCEPT ![e] = d] \/ T = S)
  <2>1. DOMAIN S = LiveHandles
    BY <1>10
  <2>2. CASE T[e] = d
    <3>1. [S EXCEPT ![e] = d] = [h \in LiveHandles |-> IF h = e THEN d ELSE S[h]]
      BY <2>1
    <3>2. \A h \in LiveHandles : T[h] = IF h = e THEN d ELSE S[h]
      BY <1>10, <2>2
    <3>3. T = [h \in LiveHandles |-> IF h = e THEN d ELSE S[h]]
      BY <1>10, <3>2
    <3>4. QED
      BY <2>1, <3>1, <3>3
  <2>3. CASE T[e] = S[e]
    <3>1. \A h \in LiveHandles : T[h] = S[h]
      BY <1>10, <2>3
    <3>2. T = S
      BY <1>10, <3>1
    <3>3. QED
      BY <2>1, <3>2
  <2>4. QED
    BY <1>10, <2>2, <2>3
<1>12. QED
  BY <1>3, <1>8, <1>11 DEF S, T

\* A step that moves no entity and leaves the handles stutters.
StoreStep == Store!Next \/ UNCHANGED <<issued, Stored>>

\* An empty world stands for the empty map.
LEMMA NothingStored ==
    ASSUME WorldOK, WorldOK', UNCHANGED <<records, used, chunks, issued>>
    PROVE  StoreStep
<1>1. \A s \in Slot : Alive(s)' <=> Alive(s)
  BY DEF Alive
<1>2. QED
  BY <1>1, AllStored DEF StoreStep

\* add_component() puts the component, or changes nothing.
LEMMA AddStored ==
    ASSUME WorldOK, NEW e \in [slot : Nat, gen : Nat], NEW c \in Component, NEW v \in Datum[c],
           NEW memory, AddComponent(e, c, v, memory)
    PROVE  StoreStep
<1>1. /\ WorldOK' /\ issued' = issued
      /\ Valid(e) => Becomes(e.slot, Having(RowAt(e.slot).data, c, v))
      /\ ~Valid(e) => UNCHANGED world
  BY AddKeeps
<1>2. CASE ~Valid(e)
  <2>1. UNCHANGED <<records, used, chunks, issued>>
    BY <1>1, <1>2 DEF world
  <2>2. QED
    BY <1>1, <2>1, NothingStored
<1>3. CASE Valid(e)
  <2> DEFINE d == Having(RowAt(e.slot).data, c, v)
  <2>1. e \in Entity
    BY <1>3, RowData
  <2>2. /\ DOMAIN Stored = LiveHandles /\ e \in LiveHandles
        /\ Stored[e] = RowAt(e.slot).data
        /\ Stored' = [Stored EXCEPT ![e] = d] \/ Stored' = Stored
    BY <1>1, <1>3, <2>1, BecomesStored
  <2>3. d = [k \in DOMAIN Stored[e] \cup {c} |-> IF k = c THEN v ELSE Stored[e][k]]
    BY <2>2 DEF Having
  <2>4. CASE Stored' = [Stored EXCEPT ![e] = d]
    <3>1. e \in DOMAIN Stored /\ issued' = issued
      BY <1>1, <2>2
    <3>2. Store!Put(e, c, v)
      BY <2>3, <2>4, <3>1 DEF Store!Put, Store!Live
    <3>3. QED
      BY <3>1, <3>2 DEF StoreStep, Store!Next, Store!Live
  <2>5. CASE Stored' = Stored
    BY <1>1, <2>5 DEF StoreStep
  <2>6. QED
    BY <2>2, <2>4, <2>5
<1>4. QED
  BY <1>2, <1>3

\* remove_component() drops the component, or changes nothing.
LEMMA RemoveStored ==
    ASSUME WorldOK, NEW e \in [slot : Nat, gen : Nat], NEW c \in Component,
           NEW memory, RemoveComponent(e, c, memory)
    PROVE  StoreStep
<1>1. /\ WorldOK' /\ issued' = issued
      /\ Valid(e) /\ c \in KeyOf(e) =>
           Becomes(e.slot, [k \in DOMAIN RowAt(e.slot).data \ {c} |-> RowAt(e.slot).data[k]])
      /\ ~(Valid(e) /\ c \in KeyOf(e)) => UNCHANGED world
  BY RemoveKeeps
<1>2. CASE ~(Valid(e) /\ c \in KeyOf(e))
  <2>1. UNCHANGED <<records, used, chunks, issued>>
    BY <1>1, <1>2 DEF world
  <2>2. QED
    BY <1>1, <2>1, NothingStored
<1>3. CASE Valid(e) /\ c \in KeyOf(e)
  <2> DEFINE d == [k \in DOMAIN RowAt(e.slot).data \ {c} |-> RowAt(e.slot).data[k]]
  <2>1. /\ e \in Entity /\ DOMAIN RowAt(e.slot).data = KeyOf(e)
    BY <1>3, RowData
  <2>2. /\ DOMAIN Stored = LiveHandles /\ e \in LiveHandles
        /\ Stored[e] = RowAt(e.slot).data
        /\ Stored' = [Stored EXCEPT ![e] = d] \/ Stored' = Stored
    BY <1>1, <1>3, <2>1, BecomesStored
  <2>3. d = [k \in DOMAIN Stored[e] \ {c} |-> Stored[e][k]]
    BY <2>2
  <2>4. CASE Stored' = [Stored EXCEPT ![e] = d]
    <3>1. e \in DOMAIN Stored /\ issued' = issued /\ c \in DOMAIN Stored[e]
      BY <1>1, <1>3, <2>1, <2>2
    <3> HIDE DEF d
    <3>2. Store!Drop(e, c)
      BY <2>3, <2>4, <3>1 DEF Store!Drop, Store!Live
    <3>3. QED
      BY <3>1, <3>2 DEF StoreStep, Store!Next, Store!Live
  <2>5. CASE Stored' = Stored
    BY <1>1, <2>5 DEF StoreStep
  <2>6. QED
    BY <2>2, <2>4, <2>5
<1>4. QED
  BY <1>2, <1>3

\* A write through get() is a put of a component that is there.
LEMMA WriteStored ==
    ASSUME WorldOK, NEW e \in [slot : Nat, gen : Nat], Valid(e),
           NEW c \in Component, c \in KeyOf(e), NEW v \in Datum[c],
           Overwrite(e, c, v), UNCHANGED <<table, archetypes, issued>>
    PROVE  StoreStep
<1>1. AddComponent(e, c, v, TRUE)
  BY DEF AddComponent
<1>2. QED
  BY <1>1, AddStored

\* create() puts an entity without components under a new handle, or nothing.
LEMMA CreateStored ==
    ASSUME WorldOK, Cardinality(issued) < MaxWork, NEW memory, CreateEntity(memory)
    PROVE  StoreStep
<1>1. CASE Created(memory) = NoEntity
  <2>1. /\ WorldOK' /\ issued' = issued /\ records' = records /\ chunks' = chunks
        /\ \A s \in Slot : Alive(s)' <=> Alive(s)
    BY <1>1, CreateFails
  <2>2. QED
    BY <2>1, AllStored DEF StoreStep
<1>2. CASE Created(memory) # NoEntity
  <2>0. PICK e : e = Created(memory)
    OBVIOUS
  <2>1. /\ WorldOK' /\ e \in Entity \ issued /\ issued' = issued \cup {e}
    BY <1>2, <2>0, CreateKeeps
  <2>2. PICK s \in Slot :
          /\ e = HandleOf(s) /\ ~Alive(s) /\ OthersKept(s)
          /\ Alive(s)' /\ records'[s].gen = records[s].gen
          /\ RowAt(s)'.data = [c \in {} |-> Nil]
    BY <1>2, <2>0, CreateKeeps
  <2>3. LiveAre /\ LiveAre'
    BY <2>1, StoredIs, StoredIsAfter
  <2>4. e.slot = s /\ HandleOf(s)' = e
    BY <2>2 DEF HandleOf
  <2>5. \A h \in LiveHandles : h.slot # s
    BY <2>2, <2>3 DEF LiveAre
  <2>6. e \in LiveHandles' /\ \A h \in LiveHandles' : h.slot = s => h = e
    BY <2>2, <2>3, <2>4 DEF LiveAre
  <2>7. \A h : h.slot # s => /\ h \in LiveHandles' <=> h \in LiveHandles
                             /\ h \in LiveHandles => Stored'[h] = Stored[h]
    BY <2>1, <2>2, OthersStored
  <2>8. LiveHandles' = LiveHandles \cup {e}
    BY <2>4, <2>5, <2>6, <2>7
  <2>9. /\ DOMAIN Stored = LiveHandles
        /\ Stored' = [h \in LiveHandles \cup {e} |-> Stored'[h]]
        /\ Stored'[e] = [c \in {} |-> Nil]
    BY <2>2, <2>3, <2>4, <2>6, <2>8 DEF LiveAre
  <2>10. [c \in {} |-> Nil] = [c \in {} |-> {}]
    OBVIOUS
  <2>11. \A n \in LiveHandles \cup {e} :
           Stored'[n] = IF n = e THEN [c \in {} |-> {}] ELSE Stored[n]
    BY <2>5, <2>7, <2>9, <2>10
  <2>12. Stored' = [n \in LiveHandles \cup {e} |->
                      IF n = e THEN [c \in {} |-> {}] ELSE Stored[n]]
    BY <2>9, <2>11
  <2>13. Store!Create(e)
    BY <2>1, <2>9, <2>12 DEF Store!Create, Store!Live
  <2>14. QED
    BY <2>1, <2>13 DEF StoreStep, Store!Next
<1>3. QED
  BY <1>1, <1>2

\* The callback of a query writes one component of the entities of a chunk.
LEMMA VisitStored ==
    ASSUME WorldOK, NEW p \in Ahead, NEW c \in Component, c \in query.ids, NEW v \in Datum[c],
           NEW writes \in BOOLEAN, VisitChunk(p, c, v, writes)
    PROVE  WorldOK' => StoreStep
<1> SUFFICES ASSUME WorldOK' PROVE StoreStep
  OBVIOUS
<1>1. PICK key \in Key, x \in Nat :
        key = archetypes[p[1]] /\ x = p[2] /\ c \in key /\ x \in 1..Len(chunks[key])
  BY AheadFacts
<1>2. /\ UNCHANGED <<records, used, free, archetypes, issued>>
      /\ IF writes THEN Replaced(key, x, WithAll(chunks[key][x], c, v))
         ELSE chunks' = chunks
  BY <1>1, VisitWrites
<1>3. CASE ~writes
  BY <1>2, <1>3, NothingStored
<1>4. CASE writes
  <2>1. PICK b : b = WithAll(chunks[key][x], c, v) /\ Replaced(key, x, b)
    BY <1>2, <1>4
  <2>2. /\ \A s \in Slot : Alive(s)' <=> Alive(s)
        /\ Swept(key, x, c, v)
    BY <1>1, <1>2, <2>1, SweepKeeps
  <2>3. LiveAre /\ LiveAre'
    BY StoredIs, StoredIsAfter
  <2>4. records' = records /\ issued' = issued
    BY <1>2
  <2>5. LiveHandles' = LiveHandles
    <3>1. \A s : HandleOf(s)' = HandleOf(s)
      BY <2>4 DEF HandleOf
    <3>2. ASSUME NEW h PROVE h \in LiveHandles' <=> h \in LiveHandles
      BY <2>2, <2>3, <3>1 DEF LiveAre
    <3>3. QED
      BY <3>2, Zenon
  <2> DEFINE some == {h \in LiveHandles : records[h.slot].arch = key /\ records[h.slot].chunk = x}
  <2>6. ASSUME NEW h \in LiveHandles
        PROVE  /\ h \in some => c \in DOMAIN Stored[h]
               /\ Stored'[h] = IF h \in some THEN [Stored[h] EXCEPT ![c] = v] ELSE Stored[h]
    <3>1. h.slot \in Slot /\ Alive(h.slot) /\ Stored[h] = RowAt(h.slot).data
      BY <2>3, <2>6 DEF LiveAre
    <3>2. Stored'[h] = RowAt(h.slot)'.data
      BY <2>3, <2>5, <2>6 DEF LiveAre
    <3> DEFINE l == records[h.slot].arch
               i == records[h.slot].chunk
               j == records[h.slot].row
    <3>3. /\ l \in Key /\ i \in Nat /\ j \in Nat /\ In(chunks[l], i, j)
          /\ DOMAIN RowAt(h.slot).data = l
      BY <3>1, AliveFacts
    <3>4. RowAt(h.slot) = chunks[l][i][j] /\ RowAt(h.slot)' = chunks'[l][i][j]
      BY <2>4 DEF RowAt
    <3>5. h \in some <=> l = key /\ i = x
      OBVIOUS
    <3> HIDE DEF some, l, i, j
    <3>6. chunks'[l][i][j].data = IF l = key /\ i = x THEN [chunks[l][i][j].data EXCEPT ![c] = v]
                                  ELSE chunks[l][i][j].data
      BY <2>2, <3>3, Zenon DEF Swept
    <3>7. h \in some => c \in DOMAIN Stored[h]
      BY <1>1, <3>1, <3>3, <3>5
    <3>8. Stored'[h] = IF h \in some THEN [Stored[h] EXCEPT ![c] = v] ELSE Stored[h]
      <4>1. Stored'[h] = chunks'[l][i][j].data /\ Stored[h] = chunks[l][i][j].data
        BY <3>1, <3>2, <3>4
      <4>2. CASE h \in some
        BY <3>5, <3>6, <4>1, <4>2
      <4>3. CASE h \notin some
        BY <3>5, <3>6, <4>1, <4>3
      <4>4. QED
        BY <4>2, <4>3
    <3>9. QED
      BY <3>7, <3>8
  <2>7. DOMAIN Stored = LiveHandles /\ Stored' = [h \in LiveHandles |-> Stored'[h]]
    BY <2>3, <2>5 DEF LiveAre
  <2>8. some \in SUBSET LiveHandles
    OBVIOUS
  <2> HIDE DEF some
  <2>9. Stored' = [h \in LiveHandles |-> IF h \in some THEN [Stored[h] EXCEPT ![c] = v] ELSE Stored[h]]
    BY <2>6, <2>7
  <2>10. \A h \in some : c \in DOMAIN Stored[h]
    BY <2>6, <2>8
  <2>11. Store!Sweep(some, c, v)
    BY <2>4, <2>7, <2>9, <2>10 DEF Store!Sweep, Store!Live
  <2>12. some \in SUBSET Store!Live
    BY <2>7, <2>8 DEF Store!Live
  <2>13. QED
    BY <2>11, <2>12 DEF StoreStep, Store!Next
<1>5. QED
  BY <1>3, <1>4

\* Every step is one of the map, or leaves it.
LEMMA StepImplements == IInv /\ IInv' /\ [Next]_vars => StoreStep
<1> SUFFICES ASSUME IInv, IInv', [Next]_vars PROVE StoreStep
  OBVIOUS
<1>1. WorldOK /\ WorldOK' /\ BufferOK
  BY DEF IInv
<1>2. /\ Cardinality(issued) \in Nat /\ Len(commands) \in Nat /\ MaxWork \in Nat
      /\ commands \in Seq(Commands) /\ Cardinality(issued) + Len(commands) <= MaxWork
  BY <1>1, FS_CardinalityType, LenProperties, NumbersAssumption DEF WorldOK, Handles, BufferOK
<1>3. issued \subseteq [slot : Nat, gen : Nat]
  BY <1>1 DEF WorldOK, TableType, Entity, Slot, Generation
<1>4. ASSUME UNCHANGED world PROVE StoreStep
  <2>1. UNCHANGED <<records, used, chunks, issued>>
    BY <1>4 DEF world
  <2>2. QED
    BY <1>1, <2>1, NothingStored
<1>5. ASSUME NEW memory \in BOOLEAN, Create(memory) PROVE StoreStep
  <2>1. CreateEntity(memory) /\ Cardinality(issued) < MaxWork
    BY <1>2, <1>5 DEF Create, Within
  <2>2. QED
    BY <1>1, <2>1, CreateStored
<1>6. ASSUME NEW e \in [slot : Nat, gen : Nat], DestroyEntity(e) PROVE StoreStep
  <2>1. (\E h \in Entity : Store!Destroy(h)) \/ UNCHANGED <<issued, Stored>>
    BY <1>1, <1>6, DestroyStored
  <2>2. QED
    BY <2>1 DEF StoreStep, Store!Next
<1>7. ASSUME Call PROVE StoreStep
  <2>1. ASSUME NEW e \in issued, Destroy(e) PROVE StoreStep
    BY <1>3, <1>6, <2>1 DEF Destroy
  <2>2. ASSUME NEW e \in issued, NEW c \in Component, NEW memory \in BOOLEAN, Remove(e, c, memory)
        PROVE  StoreStep
    BY <1>1, <1>3, <2>2, RemoveStored DEF Remove
  <2>3. ASSUME NEW e \in issued, NEW c \in Component, NEW v \in Datum[c],
               NEW memory \in BOOLEAN, Add(e, c, v, memory)
        PROVE  StoreStep
    BY <1>1, <1>3, <2>3, AddStored DEF Add
  <2>4. ASSUME NEW e \in issued, NEW c \in Component, NEW v \in Datum[c], Write(e, c, v)
        PROVE  StoreStep
    BY <1>1, <1>3, <2>4, WriteStored DEF Write
  <2>5. QED
    BY <1>5, <1>7, <2>1, <2>2, <2>3, <2>4 DEF Call
<1>8. ASSUME Query PROVE StoreStep
  <2>1. ASSUME NEW ids \in Key \ {{}}, BeginQuery(ids) PROVE StoreStep
    BY <1>4, <2>1 DEF BeginQuery
  <2>2. ASSUME EndQuery PROVE StoreStep
    BY <1>4, <2>2 DEF EndQuery
  <2>3. ASSUME NEW p \in Ahead, NEW c \in query.ids, NEW writes \in BOOLEAN, NEW v \in Datum[c],
               VisitChunk(p, c, v, writes)
        PROVE  StoreStep
    <3>1. c \in Component
      BY <1>1 DEF BufferOK, Key
    <3>2. QED
      BY <1>1, <2>3, <3>1, VisitStored
  <2>4. QED
    BY <1>8, <2>1, <2>2, <2>3 DEF Query
<1>9. ASSUME NEW memory \in BOOLEAN, PlayCommand(memory) PROVE StoreStep
  <2> DEFINE cmd == Head(commands)
             e == Resolve(cmd.entity)
  <2>1. commands # <<>>
    BY <1>9 DEF PlayCommand
  <2>2. cmd \in Commands /\ Len(commands) >= 1
    BY <1>2, <2>1, HeadTailProperties, EmptySeq
  <2>3. e \in [slot : Nat, gen : Nat]
    <3>1. cmd.entity \in [slot : Nat, gen : Generation \cup {TempGen}]
      BY <2>2 DEF Commands, AnyCommand
    <3>2. QED
      BY <1>1, <3>1, Resolved
  <2>4. /\ cmd.op \in {"add", "remove"} => cmd.comp \in Component
        /\ cmd.op = "add" => cmd.datum \in Datum[cmd.comp]
    BY <2>2 DEF Commands
  <2>5. \/ cmd.op = "create" /\ CreateEntity(memory)
        \/ cmd.op = "destroy" /\ DestroyEntity(e)
        \/ cmd.op = "add" /\ AddComponent(e, cmd.comp, cmd.datum, memory)
        \/ cmd.op = "remove" /\ RemoveComponent(e, cmd.comp, memory)
    BY <1>9 DEF PlayCommand
  <2> HIDE DEF cmd, e
  <2>6. CASE cmd.op = "create" /\ CreateEntity(memory)
    <3>1. Cardinality(issued) < MaxWork
      BY <1>2, <2>2
    <3>2. QED
      BY <1>1, <2>6, <3>1, CreateStored
  <2>7. CASE cmd.op = "destroy" /\ DestroyEntity(e)
    BY <1>6, <2>3, <2>7
  <2>8. CASE cmd.op = "add" /\ AddComponent(e, cmd.comp, cmd.datum, memory)
    BY <1>1, <2>3, <2>4, <2>8, AddStored
  <2>9. CASE cmd.op = "remove" /\ RemoveComponent(e, cmd.comp, memory)
    BY <1>1, <2>3, <2>4, <2>9, RemoveStored
  <2>10. QED
    BY <2>5, <2>6, <2>7, <2>8, <2>9
<1>10. ASSUME Defer PROVE StoreStep
  <2>1. ASSUME NEW cmd, Record(cmd) PROVE StoreStep
    BY <1>4, <2>1 DEF Record
  <2>2. CASE RecordCreate \/ (\E e \in issued \cup Temps :
               \/ RecordDestroy(e)
               \/ \E c \in Component : RecordRemove(e, c) \/ \E v \in Datum[c] : RecordAdd(e, c, v))
    BY <2>1, <2>2 DEF RecordCreate, RecordDestroy, RecordRemove, RecordAdd
  <2>3. CASE Clear \/ BeginPlayback \/ EndPlayback
    BY <1>4, <2>3 DEF Clear, BeginPlayback, EndPlayback
  <2>4. QED
    BY <1>9, <1>10, <2>2, <2>3 DEF Defer
<1>11. ASSUME UNCHANGED vars PROVE StoreStep
  BY <1>4, <1>11 DEF vars
<1>12. QED
  BY <1>7, <1>8, <1>10, <1>11 DEF Next

\* An empty world is an initial state of the map.
LEMMA InitImplements == Init => Store!Init
<1> SUFFICES ASSUME Init PROVE Store!Init
  OBVIOUS
<1>1. issued = {} /\ used = 0
  BY DEF Init
<1>2. Living = {}
  BY <1>1 DEF Living
<1>3. Stored = [h \in {} |-> {}]
  BY <1>2 DEF Stored
<1>4. QED
  BY <1>1, <1>3 DEF Store!Init

\* The world implements the map from handles to components: a handle is given out
\* once, a stale one changes nothing, and no call, swap, migration or failed
\* allocation changes an entity the call did not name.
THEOREM WorldImplementsStore == Spec => ImplementsEntityStore
<1>1. Init => Store!Init
  BY InitImplements
<1>2. IInv /\ IInv' /\ [Next]_vars => [Store!Next]_<<issued, Stored>>
  BY StepImplements DEF StoreStep
<1>3. QED
  BY <1>1, <1>2, WorldIsSound, PTL DEF Spec, ImplementsEntityStore, Store!Spec

-----------------------------------------------------------------------------

\* Temporary handles.  The creates that are still to be played are in the order of
\* their numbers, from the number of those played; every other command that means
\* one of them comes later.

Creates(i) == commands[i].op = "create"

Numbered ==
    /\ ~playing => tempToReal = <<>>
    /\ \A i \in DOMAIN commands : Creates(i) =>
         /\ commands[i].entity = Temp(commands[i].entity.slot)
         /\ commands[i].entity.slot \in Len(tempToReal)..tempCount-1
    /\ \A n \in Len(tempToReal)..tempCount-1 :
         \E i \in DOMAIN commands : Creates(i) /\ commands[i].entity = Temp(n)
    /\ \A i, j \in DOMAIN commands : Creates(i) /\ Creates(j) /\ i < j =>
         commands[i].entity.slot < commands[j].entity.slot

Behind ==
    \A i \in DOMAIN commands : ~Creates(i) /\ commands[i].entity.gen = TempGen =>
        \/ commands[i].entity.slot < Len(tempToReal)
        \/ \E j \in DOMAIN commands : j < i /\ Creates(j) /\ commands[j].entity = commands[i].entity

Temporaries == Numbered /\ Behind

LEMMA TempSlots == ASSUME NEW n PROVE Temp(n).slot = n /\ Temp(n).gen = TempGen
BY DEF Temp

LEMMA BufferTypes ==
    ASSUME BufferOK
    PROVE  /\ commands \in Seq(Commands) /\ DOMAIN commands = 1..Len(commands)
           /\ Len(commands) \in Nat /\ tempCount \in Nat
           /\ tempToReal \in Seq(Entity \cup {NoEntity}) /\ Len(tempToReal) \in Nat
           /\ \A i \in DOMAIN commands : commands[i].entity.slot \in Nat
<1>1. commands \in Seq(Commands) /\ tempToReal \in Seq(Entity \cup {NoEntity}) /\ tempCount \in Nat
  BY DEF BufferOK
<1>2. \A i \in DOMAIN commands : commands[i] \in Commands
  BY <1>1
<1> QED
  BY <1>1, <1>2 DEF Commands, AnyCommand

\* The first create of the buffer has the number of those already played.
LEMMA FirstCreate ==
    ASSUME BufferOK, Temporaries, commands # <<>>, Creates(1)
    PROVE  commands[1].entity = Temp(Len(tempToReal)) /\ Len(tempToReal) < tempCount
<1>1. 1 \in DOMAIN commands
  BY BufferTypes
<1>2. /\ commands[1].entity.slot \in Len(tempToReal)..tempCount-1
      /\ commands[1].entity = Temp(commands[1].entity.slot)
  BY <1>1 DEF Temporaries, Numbered
<1>3. PICK i \in DOMAIN commands : Creates(i) /\ commands[i].entity = Temp(Len(tempToReal))
  BY <1>2, BufferTypes DEF Temporaries, Numbered
<1>4. i = 1
  <2> SUFFICES ASSUME i # 1 PROVE FALSE
    OBVIOUS
  <2>1. commands[1].entity.slot < commands[i].entity.slot
    BY <1>1, <1>3, BufferTypes DEF Temporaries, Numbered
  <2> QED
    BY <1>2, <1>3, <2>1, TempSlots, BufferTypes
<1> QED
  BY <1>2, <1>3, <1>4, BufferTypes

\* A command added behind the others.
LEMMA RecordNumbered ==
    ASSUME BufferOK, Temporaries, NEW cmd, commands' = Append(commands, cmd),
           UNCHANGED <<tempToReal, playing>>, ~playing,
           \/ cmd.op = "create" /\ cmd.entity = Temp(tempCount) /\ tempCount' = tempCount + 1
           \/ /\ cmd.op # "create" /\ tempCount' = tempCount
              /\ cmd.entity.gen = TempGen => cmd.entity \in Temps
    PROVE  Temporaries'
<1> DEFINE n == Len(commands)
<1>1. /\ n \in Nat /\ DOMAIN commands = 1..n /\ tempCount \in Nat /\ Len(tempToReal) = 0
      /\ tempToReal = <<>> /\ \A i \in DOMAIN commands : commands[i].entity.slot \in Nat
  BY BufferTypes DEF Temporaries, Numbered
<1>2. /\ DOMAIN commands' = 1..n+1 /\ commands'[n+1] = cmd
      /\ \A i \in 1..n : commands'[i] = commands[i]
  BY BufferTypes
<1> HIDE DEF n
<1>3. \A i \in 1..n : Creates(i)' <=> Creates(i)
  BY <1>2 DEF Creates
<1>4. /\ \A i \in DOMAIN commands' : i \in DOMAIN commands \/ i = n+1
      /\ DOMAIN commands \subseteq DOMAIN commands' /\ n+1 \in DOMAIN commands'
      /\ \A i \in DOMAIN commands : i < n+1
  BY <1>1, <1>2
<1>5. CASE cmd.op = "create"
  <2>1. /\ cmd.entity = Temp(tempCount) /\ cmd.entity.slot = tempCount /\ tempCount' = tempCount + 1
        /\ commands'[n+1].op = "create"
    BY <1>2, <1>5, TempSlots
  <2>2. Numbered'
    <3>1. \A i \in DOMAIN commands' : Creates(i)' =>
            /\ commands'[i].entity = Temp(commands'[i].entity.slot)
            /\ commands'[i].entity.slot \in 0..tempCount
      BY <1>1, <1>2, <1>3, <1>4, <2>1 DEF Temporaries, Numbered
    <3>2. \A k \in 0..tempCount : \E i \in DOMAIN commands' :
            Creates(i)' /\ commands'[i].entity = Temp(k)
      <4> SUFFICES ASSUME NEW k \in 0..tempCount
                   PROVE  \E i \in DOMAIN commands' : Creates(i)' /\ commands'[i].entity = Temp(k)
        OBVIOUS
      <4>1. CASE k = tempCount
        BY <1>2, <1>4, <2>1, <4>1 DEF Creates
      <4>2. CASE k # tempCount
        <5>1. PICK i \in DOMAIN commands : Creates(i) /\ commands[i].entity = Temp(k)
          BY <1>1, <4>2 DEF Temporaries, Numbered
        <5> QED
          BY <1>1, <1>2, <1>3, <1>4, <5>1
      <4> QED
        BY <4>1, <4>2
    <3>3. \A i, j \in DOMAIN commands' : Creates(i)' /\ Creates(j)' /\ i < j =>
            commands'[i].entity.slot < commands'[j].entity.slot
      BY <1>1, <1>2, <1>3, <1>4, <2>1 DEF Temporaries, Numbered
    <3> QED
      BY <1>1, <2>1, <3>1, <3>2, <3>3 DEF Numbered, Temp
  <2>3. Behind'
    <3>1. \A i \in DOMAIN commands' : ~Creates(i)' => i \in 1..n
      BY <1>1, <1>4, <2>1 DEF Creates
    <3> QED
      BY <1>1, <1>2, <1>3, <1>4, <3>1 DEF Temporaries, Behind
  <2> QED
    BY <2>2, <2>3 DEF Temporaries
<1>6. CASE cmd.op # "create"
  <2>1. tempCount' = tempCount /\ (cmd.entity.gen = TempGen => cmd.entity \in Temps) /\ commands'[n+1].op # "create"
    BY <1>2, <1>6
  <2>2. Numbered'
    <3>1. \A k \in 0..tempCount-1 : \E i \in DOMAIN commands' :
            Creates(i)' /\ commands'[i].entity = Temp(k)
      BY <1>1, <1>2, <1>3, <1>4 DEF Temporaries, Numbered
    <3>2. \A i \in DOMAIN commands' : Creates(i)' => i \in 1..n
      BY <1>1, <1>4, <2>1 DEF Creates
    <3> QED
      BY <1>1, <1>2, <1>3, <2>1, <3>1, <3>2 DEF Temporaries, Numbered, Temp
  <2>3. Behind'
    <3> SUFFICES ASSUME NEW i \in DOMAIN commands', ~Creates(i)', commands'[i].entity.gen = TempGen
                 PROVE  \E j \in DOMAIN commands' : /\ j < i /\ Creates(j)'
                                                    /\ commands'[j].entity = commands'[i].entity
      BY DEF Behind
    <3>1. CASE i = n+1
      <4>1. PICK k \in 0..tempCount-1 : cmd.entity = Temp(k)
        BY <1>2, <2>1, <3>1 DEF Temps
      <4>2. PICK j \in DOMAIN commands : Creates(j) /\ commands[j].entity = Temp(k)
        BY <1>1 DEF Temporaries, Numbered
      <4> QED
        BY <1>1, <1>2, <1>3, <1>4, <3>1, <4>1, <4>2
    <3>2. CASE i # n+1
      BY <1>1, <1>2, <1>3, <1>4, <3>2 DEF Temporaries, Behind
    <3> QED
      BY <3>1, <3>2
  <2> QED
    BY <2>2, <2>3 DEF Temporaries
<1> QED
  BY <1>5, <1>6

\* The first command is played.
LEMMA PlayNumbered ==
    ASSUME BufferOK, Temporaries, playing, UNCHANGED <<tempCount, playing>>,
           commands # <<>>, commands' = Tail(commands),
           \/ Creates(1) /\ \E e : tempToReal' = Append(tempToReal, e)
           \/ ~Creates(1) /\ UNCHANGED tempToReal
    PROVE  Temporaries'
<1> DEFINE n == Len(commands)
           m == Len(tempToReal)
<1>1. /\ n \in Nat \ {0} /\ DOMAIN commands = 1..n /\ tempCount \in Nat /\ m \in Nat
      /\ \A i \in DOMAIN commands : commands[i].entity.slot \in Nat
  BY BufferTypes
<1>2. /\ DOMAIN commands' = 1..n-1
      /\ \A i \in 1..n-1 : commands'[i] = commands[i+1]
  BY BufferTypes
<1>3. Len(tempToReal') = IF Creates(1) THEN m + 1 ELSE m
  BY BufferTypes
<1> HIDE DEF n, m
<1>4. /\ \A i \in DOMAIN commands' : i+1 \in DOMAIN commands /\ (Creates(i)' <=> Creates(i+1))
      /\ \A i \in DOMAIN commands : i = 1 \/ (i-1 \in DOMAIN commands' /\ i-1+1 = i)
  BY <1>1, <1>2 DEF Creates
<1>5. Creates(1) => commands[1].entity = Temp(m) /\ commands[1].entity.slot = m
  BY FirstCreate, TempSlots DEF m
<1>6. Numbered'
  <2>1. ASSUME NEW i \in DOMAIN commands', Creates(i)'
        PROVE  /\ commands'[i].entity = Temp(commands'[i].entity.slot)
               /\ commands'[i].entity.slot \in Len(tempToReal')..tempCount-1
    <3>1. /\ commands[i+1].entity = Temp(commands[i+1].entity.slot)
          /\ commands[i+1].entity.slot \in m..tempCount-1
      BY <1>4, <2>1 DEF Temporaries, Numbered, m
    <3>2. Creates(1) => m < commands[i+1].entity.slot
      <4>1. 1 \in DOMAIN commands /\ 1 < i+1 /\ i+1 \in DOMAIN commands /\ Creates(i+1)
        BY <1>1, <1>2, <1>4, <2>1
      <4> QED
        BY <1>5, <4>1 DEF Temporaries, Numbered
    <3> QED
      BY <1>1, <1>2, <1>3, <3>1, <3>2
  <2>2. ASSUME NEW k \in Len(tempToReal')..tempCount-1
        PROVE  \E i \in DOMAIN commands' : Creates(i)' /\ commands'[i].entity = Temp(k)
    <3>1. k \in m..tempCount-1 /\ (Creates(1) => k # m)
      BY <1>1, <1>3
    <3>2. PICK i \in DOMAIN commands : Creates(i) /\ commands[i].entity = Temp(k)
      BY <3>1 DEF Temporaries, Numbered, m
    <3>3. i # 1
      BY <1>5, <3>1, <3>2, TempSlots
    <3> QED
      BY <1>2, <1>4, <3>2, <3>3
  <2>3. ASSUME NEW i \in DOMAIN commands', NEW j \in DOMAIN commands', Creates(i)', Creates(j)', i < j
        PROVE  commands'[i].entity.slot < commands'[j].entity.slot
    <3>1. i+1 < j+1 /\ i+1 \in DOMAIN commands /\ j+1 \in DOMAIN commands /\ Creates(i+1) /\ Creates(j+1)
      BY <1>1, <1>2, <1>4, <2>3
    <3> QED
      BY <1>2, <3>1 DEF Temporaries, Numbered
  <2> QED
    BY <2>1, <2>2, <2>3 DEF Numbered, Temp
<1>7. Behind'
  <2> SUFFICES ASSUME NEW i \in DOMAIN commands', ~Creates(i)', commands'[i].entity.gen = TempGen
               PROVE  \/ commands'[i].entity.slot < Len(tempToReal')
                      \/ \E j \in DOMAIN commands' : /\ j < i /\ Creates(j)'
                                                     /\ commands'[j].entity = commands'[i].entity
    BY DEF Behind
  <2>1. i+1 \in DOMAIN commands /\ ~Creates(i+1) /\ commands'[i] = commands[i+1]
        /\ commands[i+1].entity.gen = TempGen /\ commands[i+1].entity.slot \in Nat
    BY <1>1, <1>2, <1>4
  <2>2. CASE commands[i+1].entity.slot < m
    BY <1>1, <1>3, <2>1, <2>2
  <2>3. ASSUME NEW j \in DOMAIN commands, j < i+1, Creates(j), commands[j].entity = commands[i+1].entity
        PROVE  \/ commands'[i].entity.slot < Len(tempToReal')
               \/ \E l \in DOMAIN commands' : /\ l < i /\ Creates(l)'
                                              /\ commands'[l].entity = commands'[i].entity
    <3>1. CASE j = 1
      BY <1>1, <1>3, <1>5, <2>1, <2>3, <3>1
    <3>2. CASE j # 1
      <4>1. j-1 \in DOMAIN commands' /\ j-1 < i /\ Creates(j-1)' /\ commands'[j-1] = commands[j]
        BY <1>1, <1>2, <1>4, <2>3, <3>2
      <4> QED
        BY <2>1, <2>3, <4>1
    <3> QED
      BY <3>1, <3>2
  <2> QED
    BY <2>1, <2>2, <2>3 DEF Temporaries, Behind, m
<1> QED
  BY <1>6, <1>7 DEF Temporaries

LEMMA TemporariesKept == ASSUME IInv, Temporaries, [Next]_vars PROVE Temporaries'
<1>0. BufferOK /\ issued \subseteq Entity
  BY DEF IInv, WorldOK, TableType
<1>1. ASSUME UNCHANGED <<commands, tempCount, tempToReal, playing>> PROVE Temporaries'
  BY <1>1 DEF Temporaries, Numbered, Behind, Creates, Temp
<1>2. ASSUME Cleared, ~playing' PROVE Temporaries'
  BY <1>2 DEF Cleared, Temporaries, Numbered, Behind
<1>3. CASE Call
  BY <1>1, <1>3 DEF Call, Create, Destroy, Add, Remove, Write, buffer
<1>4. CASE Query
  BY <1>1, <1>4, ZenonT(40) DEF Query, BeginQuery, VisitChunk, EndQuery, buffer
<1>5. CASE RecordCreate
  BY <1>0, <1>5, RecordNumbered DEF RecordCreate, Record, Command
<1>6. ASSUME NEW e \in issued \cup Temps,
             \/ RecordDestroy(e)
             \/ \E c \in Component : RecordRemove(e, c) \/ \E v \in Datum[c] : RecordAdd(e, c, v)
      PROVE  Temporaries'
  <2>1. e.gen = TempGen => e \in Temps
    BY <1>0, NumbersAssumption DEF Entity, Generation
  <2>2. PICK cmd : cmd.op # "create" /\ cmd.entity = e /\ Record(cmd) /\ UNCHANGED tempCount
    BY <1>6 DEF RecordDestroy, RecordRemove, RecordAdd, Command
  <2> QED
    BY <1>0, <2>1, <2>2, RecordNumbered DEF Record
<1>7. CASE Clear
  BY <1>2, <1>7 DEF Clear
<1>8. CASE BeginPlayback
  BY <1>1, <1>8 DEF BeginPlayback, Outside, Temporaries, Numbered, Behind, Creates, Temp
<1>9. CASE EndPlayback
  BY <1>2, <1>9 DEF EndPlayback
<1>10. ASSUME NEW memory \in BOOLEAN, PlayCommand(memory) PROVE Temporaries'
  <2>1. Creates(1) <=> Head(commands).op = "create"
    BY <1>0, <1>10, BufferTypes DEF Creates, PlayCommand
  <2>2. /\ playing /\ commands # <<>> /\ commands' = Tail(commands) /\ UNCHANGED <<tempCount, playing>>
        /\ \/ Creates(1) /\ \E e : tempToReal' = Append(tempToReal, e)
           \/ ~Creates(1) /\ UNCHANGED tempToReal
    BY <1>10, <2>1 DEF PlayCommand
  <2> QED
    BY <1>0, <2>2, PlayNumbered
<1>11. CASE UNCHANGED vars
  BY <1>1, <1>11 DEF vars, buffer
<1> QED
  BY <1>3, <1>4, <1>5, <1>6, <1>7, <1>8, <1>9, <1>10, <1>11 DEF Next, Defer

\* CommandBuffer::resolve: playback reaches a create with as many entities made as
\* its temporary handle says, and no command before the create of its target.
THEOREM DeferredTargetsAlwaysResolve == Spec => []DeferredTargetsResolve
<1>1. Init => Temporaries
  BY DEF Init, Temporaries, Numbered, Behind
<1>2. IInv /\ Temporaries /\ [Next]_vars => Temporaries'
  BY TemporariesKept
<1>3. ASSUME IInv, Temporaries PROVE DeferredTargetsResolve
  <2>0. BufferOK
    BY <1>3 DEF IInv
  <2>1. ASSUME commands # <<>>, Head(commands).op = "create"
        PROVE  Head(commands).entity = Temp(Len(tempToReal))
    <3>1. Head(commands) = commands[1]
      BY <2>0, <2>1, BufferTypes
    <3> QED
      BY <1>3, <2>0, <2>1, <3>1, FirstCreate DEF Creates
  <2>2. ASSUME NEW i \in DOMAIN commands, commands[i].op # "create", commands[i].entity.gen = TempGen
        PROVE  \/ playing /\ commands[i].entity.slot < Len(tempToReal)
               \/ \E j \in 1..i-1 : commands[j].op = "create" /\ commands[j].entity = commands[i].entity
    <3>1. ~playing => Len(tempToReal) = 0
      BY <1>3 DEF Temporaries, Numbered
    <3>2. commands[i].entity.slot \in Nat /\ DOMAIN commands = 1..Len(commands) /\ Len(commands) \in Nat
      BY <2>0, BufferTypes
    <3>3. CASE commands[i].entity.slot < Len(tempToReal)
      BY <3>1, <3>2, <3>3
    <3>4. ASSUME NEW j \in DOMAIN commands, j < i, Creates(j), commands[j].entity = commands[i].entity
          PROVE  \E k \in 1..i-1 : commands[k].op = "create" /\ commands[k].entity = commands[i].entity
      BY <3>2, <3>4 DEF Creates
    <3> QED
      BY <1>3, <2>2, <3>3, <3>4 DEF Temporaries, Behind, Creates
  <2> QED
    BY <2>1, <2>2 DEF DeferredTargetsResolve
<1> QED
  BY WorldIsSound, <1>1, <1>2, <1>3, PTL DEF Spec

-----------------------------------------------------------------------------

\* The query.  What it has handed out is told by the records alone: the chunks
\* it walks are written to on the way, but nobody changes places.

\* Every archetype is listed once, and the ones with chunks are listed.
Registered ==
    /\ \A i, j \in DOMAIN archetypes : archetypes[i] = archetypes[j] => i = j
    /\ \A key \in Key : chunks[key] # <<>> =>
         \E i \in DOMAIN archetypes : archetypes[i] = key

\* The entity of slot s stands in an archetype the query asks for, at position a,
\* and in a chunk that comes no later than the last one visited.
PassedAt(s, a) ==
    /\ archetypes[a] = records[s].arch /\ query.ids \subseteq records[s].arch
    /\ a < query.arch \/ (a = query.arch /\ records[s].chunk <= query.chunk)
Passed(s) == \E a \in DOMAIN archetypes : PassedAt(s, a)

\* The query has handed out the entities it has passed, each once.
Handed ==
    /\ \A i \in DOMAIN query.seen :
         \E s \in Slot : Alive(s) /\ Passed(s) /\ query.seen[i] = HandleOf(s)
    /\ \A s \in Slot : Alive(s) /\ Passed(s) =>
         \E i \in DOMAIN query.seen : query.seen[i] = HandleOf(s)
    /\ \A i, j \in DOMAIN query.seen : query.seen[i] = query.seen[j] => i = j

Walk ==
    /\ Registered
    /\ query.active => ~playing /\ Handed

LEMMA RegisteredAfter ==
    ASSUME archetypes \in Seq(Key), Registered, NEW dst \in Key,
           archetypes' = WithArchetype(dst),
           \A key \in Key : key # dst /\ chunks[key] = <<>> => chunks'[key] = <<>>
    PROVE  Registered'
<1> DEFINE n == Len(archetypes)
<1>1. DOMAIN archetypes = 1..n /\ n \in Nat
  BY LenProperties
<1>2. CASE \E i \in DOMAIN archetypes : archetypes[i] = dst
  <2>1. archetypes' = archetypes
    BY <1>2 DEF WithArchetype
  <2>2. ASSUME NEW key \in Key, chunks'[key] # <<>>
        PROVE  \E i \in DOMAIN archetypes : archetypes[i] = key
    BY <1>2, <2>2 DEF Registered
  <2> QED
    BY <2>1, <2>2 DEF Registered
<1>3. CASE ~\E i \in DOMAIN archetypes : archetypes[i] = dst
  <2>1. archetypes' = Append(archetypes, dst)
    BY <1>3 DEF WithArchetype
  <2> DEFINE a == archetypes'
  <2>2. /\ DOMAIN a = 1..n+1 /\ a[n+1] = dst
        /\ \A i \in 1..n : a[i] = archetypes[i]
    BY <1>1, <2>1, AppendProperties
  <2>3. ASSUME NEW i \in DOMAIN a, NEW j \in DOMAIN a, a[i] = a[j]
        PROVE  i = j
    <3>1. i \in 1..n \/ i = n+1
      BY <1>1, <2>2
    <3>2. j \in 1..n \/ j = n+1
      BY <1>1, <2>2
    <3> QED
      BY <1>1, <1>3, <2>2, <2>3, <3>1, <3>2 DEF Registered
  <2>4. ASSUME NEW key \in Key, chunks'[key] # <<>>
        PROVE  \E i \in DOMAIN a : a[i] = key
    <3>1. CASE key = dst
      BY <1>1, <2>2, <3>1
    <3>2. CASE key # dst
      <4>1. PICK i \in DOMAIN archetypes : archetypes[i] = key
        BY <2>4, <3>2 DEF Registered
      <4>2. i \in DOMAIN a /\ a[i] = key
        BY <1>1, <2>2, <4>1
      <4> QED
        BY <4>2
    <3> QED
      BY <3>1, <3>2
  <2> QED
    BY <2>3, <2>4 DEF Registered
<1> QED
  BY <1>2, <1>3

LEMMA RegisteredStill ==
    ASSUME Registered, archetypes' = archetypes,
           \A key \in Key : chunks[key] = <<>> => chunks'[key] = <<>>
    PROVE  Registered'
BY DEF Registered

\* A live entity's archetype has chunks.
LEMMA ChunksThere ==
    ASSUME WorldOK, NEW e, e.slot \in Nat, Valid(e)
    PROVE  /\ records[e.slot].arch \in Key /\ KeyOf(e) = records[e.slot].arch
           /\ chunks[records[e.slot].arch] # <<>>
<1>1. e.slot \in Slot /\ Alive(e.slot) /\ KeyOf(e) = records[e.slot].arch
  BY ValidSlot
<1>2. /\ records[e.slot].arch \in Key
      /\ In(chunks[records[e.slot].arch], records[e.slot].chunk, records[e.slot].row)
  BY <1>1, AliveFacts
<1>3. Len(<<>>) = 0
  OBVIOUS
<1>4. chunks[records[e.slot].arch] # <<>>
  BY <1>2, <1>3 DEF In
<1> QED
  BY <1>1, <1>2, <1>4

\* The calls register the archetypes they add chunks to.
LEMMA MigrateRegisters ==
    ASSUME WorldOK, Registered, NEW e, e.slot \in Nat, Valid(e), NEW dst \in Key,
           NEW bundle, NEW memory \in BOOLEAN, Migrate(e, dst, bundle, memory)
    PROVE  Registered'
<1>1. archetypes \in Seq(Key) /\ chunks = [key \in Key |-> chunks[key]]
  BY DEF WorldOK, TableType, ChunkType
<1>2. archetypes' = WithArchetype(dst)
  BY DEF Migrate
<1> DEFINE src == records[e.slot].arch
<1>3. src \in Key /\ chunks[src] # <<>>
  BY ChunksThere
<1> HIDE DEF src
<1>4. ASSUME NEW key \in Key, key # dst, chunks[key] = <<>>
      PROVE  chunks'[key] = <<>>
  <2>1. CASE chunks' = chunks
    BY <1>4, <2>1
  <2>2. CASE chunks' # chunks
    <3>1. PICK a, b : chunks' = [chunks EXCEPT ![dst] = a, ![src] = b]
      BY <2>2 DEF Migrate, src
    <3> QED
      BY <1>1, <1>3, <1>4, <3>1
  <2> QED
    BY <2>1, <2>2
<1> QED
  BY <1>1, <1>2, <1>4, RegisteredAfter

LEMMA DestroyRegisters ==
    ASSUME WorldOK, Registered, NEW e, e.slot \in Nat, DestroyEntity(e)
    PROVE  Registered'
<1>1. CASE ~Valid(e)
  <2>1. archetypes' = archetypes /\ chunks' = chunks
    BY <1>1 DEF DestroyEntity, world
  <2> QED
    BY <2>1, RegisteredStill
<1>2. CASE Valid(e)
  <2> DEFINE src == records[e.slot].arch
  <2>1. src \in Key /\ chunks[src] # <<>>
    BY <1>2, ChunksThere
  <2> HIDE DEF src
  <2>2. archetypes' = archetypes
    BY <1>2 DEF DestroyEntity
  <2>3. PICK b : chunks' = [chunks EXCEPT ![src] = b]
    BY <1>2 DEF DestroyEntity, src
  <2>4. chunks = [key \in Key |-> chunks[key]]
    BY DEF WorldOK, ChunkType
  <2>5. \A key \in Key : chunks[key] = <<>> => chunks'[key] = <<>>
    BY <2>1, <2>3, <2>4
  <2> QED
    BY <2>2, <2>5, RegisteredStill
<1> QED
  BY <1>1, <1>2

LEMMA OverwriteRegisters ==
    ASSUME WorldOK, Registered, NEW e, e.slot \in Nat, Valid(e), NEW c, NEW v,
           Overwrite(e, c, v), archetypes' = archetypes
    PROVE  Registered'
<1> DEFINE src == records[e.slot].arch
<1>1. src \in Key /\ chunks[src] # <<>>
  BY ChunksThere
<1> HIDE DEF src
<1>2. PICK b : chunks' = [chunks EXCEPT ![src] = b]
  BY DEF Overwrite, src
<1>3. chunks = [key \in Key |-> chunks[key]]
  BY DEF WorldOK, ChunkType
<1>4. \A key \in Key : chunks[key] = <<>> => chunks'[key] = <<>>
  BY <1>1, <1>2, <1>3
<1> QED
  BY <1>4, RegisteredStill

LEMMA AddRegisters ==
    ASSUME WorldOK, Registered, NEW e, e.slot \in Nat, NEW c \in Component, NEW v,
           NEW memory \in BOOLEAN, AddComponent(e, c, v, memory)
    PROVE  Registered'
<1>1. CASE ~Valid(e)
  <2>1. archetypes' = archetypes /\ chunks' = chunks
    BY <1>1 DEF AddComponent, world
  <2> QED
    BY <2>1, RegisteredStill
<1>2. CASE Valid(e) /\ c \in KeyOf(e)
  BY <1>2, OverwriteRegisters DEF AddComponent
<1>3. CASE Valid(e) /\ c \notin KeyOf(e)
  <2>1. PICK bundle : Migrate(e, KeyOf(e) \cup {c}, bundle, memory)
    BY <1>3 DEF AddComponent
  <2>2. KeyOf(e) \cup {c} \in Key
    BY <1>3, ChunksThere DEF Key
  <2> QED
    BY <1>3, <2>1, <2>2, MigrateRegisters
<1> QED
  BY <1>1, <1>2, <1>3

LEMMA RemoveRegisters ==
    ASSUME WorldOK, Registered, NEW e, e.slot \in Nat, NEW c \in Component,
           NEW memory \in BOOLEAN, RemoveComponent(e, c, memory)
    PROVE  Registered'
<1>1. CASE ~Valid(e) \/ c \notin KeyOf(e)
  <2>1. archetypes' = archetypes /\ chunks' = chunks
    BY <1>1 DEF RemoveComponent, world
  <2> QED
    BY <2>1, RegisteredStill
<1>2. CASE Valid(e) /\ c \in KeyOf(e)
  <2>1. PICK bundle : Migrate(e, KeyOf(e) \ {c}, bundle, memory)
    BY <1>2 DEF RemoveComponent
  <2>2. KeyOf(e) \ {c} \in Key
    BY <1>2, ChunksThere DEF Key
  <2> QED
    BY <1>2, <2>1, <2>2, MigrateRegisters
<1> QED
  BY <1>1, <1>2

LEMMA CreateRegisters ==
    ASSUME WorldOK, Registered, NEW memory \in BOOLEAN, CreateEntity(memory)
    PROVE  Registered'
<1>1. archetypes \in Seq(Key) /\ chunks = [key \in Key |-> chunks[key]]
  BY DEF WorldOK, TableType, ChunkType
<1>2. archetypes' = WithArchetype({}) /\ {} \in Key
  BY DEF CreateEntity, Key
<1>3. ASSUME NEW key \in Key, key # {}, chunks[key] = <<>>
      PROVE  chunks'[key] = <<>>
  <2>1. CASE chunks' = chunks
    BY <1>3, <2>1
  <2>2. CASE chunks' # chunks
    <3>1. PICK a : chunks' = [chunks EXCEPT ![{}] = a]
      BY <2>2 DEF CreateEntity
    <3> QED
      BY <1>1, <1>3, <3>1
  <2> QED
    BY <2>1, <2>2
<1> QED
  BY <1>1, <1>2, <1>3, RegisteredAfter

\* Where the entity of a slot stands: the position of its archetype.
LEMMA Standing ==
    ASSUME WorldOK, Registered, NEW s \in Slot, Alive(s)
    PROVE  \E a \in DOMAIN archetypes :
             /\ archetypes[a] = records[s].arch /\ a \in Nat
             /\ records[s].chunk \in DOMAIN chunks[archetypes[a]]
             /\ records[s].row \in DOMAIN chunks[archetypes[a]][records[s].chunk]
             /\ chunks[archetypes[a]][records[s].chunk] # <<>>
             /\ chunks[archetypes[a]][records[s].chunk][records[s].row].entity = HandleOf(s)
<1> DEFINE key == records[s].arch
           c == records[s].chunk
           r == records[s].row
<1>1. /\ key \in Key /\ c \in Nat /\ r \in Nat /\ In(chunks[key], c, r)
      /\ ChunksOf(key, chunks[key]) /\ RowAt(s).entity = HandleOf(s)
  BY AliveFacts
<1>2. /\ DOMAIN chunks[key] = 1..Len(chunks[key])
      /\ chunks[key] \in Seq(Seq(Row)) /\ Len(chunks[key]) \in Nat
  BY <1>1, LenProperties DEF ChunksOf
<1>3. c \in DOMAIN chunks[key] /\ chunks[key][c] \in Seq(Row)
  BY <1>1, <1>2, ElementOfSeq DEF In
<1>4. r \in DOMAIN chunks[key][c]
  BY <1>1, <1>3, LenProperties DEF In
<1>5. chunks[key][c] # <<>>
  BY <1>4
<1>6. chunks[key] # <<>>
  BY <1>3
<1>7. PICK a \in DOMAIN archetypes : archetypes[a] = key
  BY <1>1, <1>6 DEF Registered
<1>8. a \in Nat
  BY LenProperties DEF WorldOK, TableType
<1> QED
  BY <1>1, <1>3, <1>4, <1>5, <1>7, <1>8 DEF RowAt

\* What is asked for and not passed lies ahead.
LEMMA PassedOrAhead ==
    ASSUME WorldOK, BufferOK, NEW s \in Slot, Alive(s), query.ids \subseteq records[s].arch,
           NEW a \in DOMAIN archetypes, archetypes[a] = records[s].arch, a \in Nat,
           records[s].chunk \in DOMAIN chunks[archetypes[a]],
           chunks[archetypes[a]][records[s].chunk] # <<>>
    PROVE  PassedAt(s, a) \/ <<a, records[s].chunk>> \in Ahead
<1>1. records[s].chunk \in Nat /\ query.arch \in Nat /\ query.chunk \in Nat
  BY AliveFacts DEF BufferOK
<1>2. <<a, records[s].chunk>> \in {a} \X DOMAIN chunks[archetypes[a]]
  OBVIOUS
<1> DEFINE all == UNION {{x} \X DOMAIN chunks[archetypes[x]] : x \in DOMAIN archetypes}
           p == <<a, records[s].chunk>>
<1>3. p \in all
  BY <1>2
<1>4. p[1] = a /\ p[2] = records[s].chunk
  OBVIOUS
<1>5. ~PassedAt(s, a) => a > query.arch \/ (a = query.arch /\ records[s].chunk > query.chunk)
  BY <1>1 DEF PassedAt
<1> HIDE DEF p, all
<1>6. ~PassedAt(s, a) =>
         p \in {x \in all : /\ query.ids \subseteq archetypes[x[1]]
                          /\ chunks[archetypes[x[1]]][x[2]] # <<>>
                          /\ \/ x[1] > query.arch
                             \/ x[1] = query.arch /\ x[2] > query.chunk}
  BY <1>3, <1>4, <1>5
<1> QED
  BY <1>6 DEF Ahead, all, p

\* A visit passes the entities of its chunk and nobody else.
LEMMA VisitPasses ==
    ASSUME WorldOK, BufferOK, Registered, NEW p \in Ahead,
           \A q \in Ahead : p[1] < q[1] \/ (p[1] = q[1] /\ p[2] <= q[2]),
           query' = [query EXCEPT !.arch = p[1], !.chunk = p[2], !.seen = query'.seen],
           records' = records, archetypes' = archetypes,
           NEW s \in Slot, Alive(s)
    PROVE  /\ Passed(s)' <=> Passed(s) \/ (records[s].arch = archetypes[p[1]] /\ records[s].chunk = p[2])
           /\ ~(Passed(s) /\ records[s].arch = archetypes[p[1]] /\ records[s].chunk = p[2])
<1>1. /\ p[1] \in Nat /\ p[2] \in Nat /\ archetypes[p[1]] \in Key
      /\ query.ids \subseteq archetypes[p[1]] /\ p[1] \in DOMAIN archetypes
      /\ p[1] > query.arch \/ (p[1] = query.arch /\ p[2] > query.chunk)
  BY AheadFacts DEF Ahead
<1>2. /\ query.arch \in Nat /\ query.chunk \in Nat
      /\ query'.arch = p[1] /\ query'.chunk = p[2] /\ query'.ids = query.ids
  BY DEF BufferOK
<1>3. PICK a \in DOMAIN archetypes :
        /\ archetypes[a] = records[s].arch /\ a \in Nat
        /\ records[s].chunk \in DOMAIN chunks[archetypes[a]]
        /\ chunks[archetypes[a]][records[s].chunk] # <<>>
  BY Standing
<1>4. \A b \in DOMAIN archetypes : archetypes[b] = records[s].arch => b = a
  BY <1>3 DEF Registered
<1>5. records[s].chunk \in Nat
  BY AliveFacts
<1> DEFINE k == records[s].chunk
           ids == query.ids \subseteq records[s].arch
<1>6. Passed(s) <=> ids /\ (a < query.arch \/ (a = query.arch /\ k <= query.chunk))
  BY <1>3, <1>4 DEF Passed, PassedAt
<1>7. Passed(s)' <=> ids /\ (a < p[1] \/ (a = p[1] /\ k <= p[2]))
  BY <1>2, <1>3, <1>4 DEF Passed, PassedAt
<1>8. records[s].arch = archetypes[p[1]] <=> a = p[1]
  BY <1>1, <1>3, <1>4
<1>9. a = p[1] => ids
  BY <1>1, <1>3
<1>10. ids /\ ~Passed(s) => <<a, k>> \in Ahead
  BY <1>3, PassedOrAhead DEF Passed
<1>11. ids /\ ~Passed(s) => p[1] < a \/ (p[1] = a /\ p[2] <= k)
  <2> SUFFICES ASSUME ids, ~Passed(s) PROVE p[1] < a \/ (p[1] = a /\ p[2] <= k)
    OBVIOUS
  <2> DEFINE q == <<a, k>>
  <2>1. q \in Ahead /\ q[1] = a /\ q[2] = k
    BY <1>10
  <2> HIDE DEF q
  <2> QED
    BY <2>1
<1> HIDE DEF k, ids
<1>12. k \in Nat
  BY <1>5 DEF k
<1>13. /\ Passed(s)' <=> Passed(s) \/ (a = p[1] /\ k = p[2])
       /\ ~(Passed(s) /\ a = p[1] /\ k = p[2])
  BY <1>1, <1>2, <1>3, <1>6, <1>7, <1>9, <1>11, <1>12
<1> QED
  BY <1>8, <1>13 DEF k

\* A visit hands out the entities of its chunk, each once and none before.
LEMMA VisitHands ==
    ASSUME IInv, Registered, Handed, NEW p \in Ahead, NEW c, NEW v, NEW writes,
           VisitChunk(p, c, v, writes)
    PROVE  Handed'
<1> DEFINE key == archetypes[p[1]]
           x == p[2]
           rows == chunks[key][x]
           here == [i \in DOMAIN rows |-> rows[i].entity]
           seen == query.seen
           n == Len(seen)
           m == Len(here)
           At(s) == records[s].arch = key /\ records[s].chunk = x
<1>1. WorldOK /\ BufferOK /\ seen \in Seq(Entity)
  BY DEF IInv, BufferOK
<1>2. /\ key \in Key /\ x \in Nat /\ x \in 1..Len(chunks[key]) /\ ChunksOf(key, chunks[key])
  BY <1>1, AheadFacts DEF WorldOK, ChunkType
<1>3. /\ rows \in Seq(Row) /\ DOMAIN rows = 1..Len(rows) /\ Len(rows) \in Nat
  BY <1>2, ElementOfSeq, LenProperties DEF ChunksOf
<1>4. /\ here \in Seq(Entity) /\ m = Len(rows) /\ DOMAIN here = 1..m /\ m \in Nat
      /\ \A i \in 1..m : here[i] = rows[i].entity
  <2> HIDE DEF rows
  <2>0. \A i \in 1..Len(rows) : rows[i] \in Row
    BY <1>3, ElementOfSeq
  <2>1. \A i \in 1..Len(rows) : rows[i].entity \in Entity
    BY <2>0 DEF Row
  <2>2. here \in [1..Len(rows) -> Entity]
    BY <1>3, <2>1
  <2>3. here \in Seq(Entity)
    BY <1>3, <2>2, SeqDef
  <2> QED
    BY <1>3, <2>2, <2>3, LenProperties
<1>5. /\ query' = [query EXCEPT !.arch = p[1], !.chunk = x, !.seen = seen \o here]
      /\ UNCHANGED <<records, used, archetypes>>
      /\ \A q \in Ahead : p[1] < q[1] \/ (p[1] = q[1] /\ p[2] <= q[2])
  BY DEF VisitChunk, table
<1> DEFINE all == query'.seen
<1>6. /\ query' = [query EXCEPT !.arch = p[1], !.chunk = p[2], !.seen = query'.seen]
      /\ all = seen \o here
  BY <1>1, <1>5 DEF BufferOK
<1>7. \A s \in Slot : Alive(s)' <=> Alive(s)
  BY <1>5 DEF Alive
<1>8. \A s \in Slot : Alive(s) => /\ Passed(s)' <=> Passed(s) \/ At(s)
                                  /\ ~(Passed(s) /\ At(s))
  BY <1>1, <1>5, <1>6, VisitPasses
\* The rows of the chunk are the entities that stand there.
<1>9. ASSUME NEW i \in 1..m
      PROVE  \E s \in Slot : Alive(s) /\ At(s) /\ records[s].row = i /\ here[i] = HandleOf(s)
  <2> HIDE DEF here
  <2>0. Len(rows) = Len(chunks[key][x])
    OBVIOUS
  <2> HIDE DEF rows
  <2>1. In(chunks[key], x, i) /\ i \in Nat
    <3>1. i \in 1..Len(rows) /\ i \in Nat
      BY <1>4
    <3> QED
      BY <1>2, <2>0, <3>1 DEF In
  <2> HIDE DEF key, x
  <2>2. PICK s \in Slot : /\ Alive(s) /\ records[s].arch = key
                          /\ records[s].chunk = x /\ records[s].row = i
                          /\ chunks[key][x][i].entity = HandleOf(s)
    BY <1>1, <1>2, <2>1, OwnerOf
  <2>3. here[i] = HandleOf(s)
    BY <1>4, <2>2 DEF rows
  <2> QED
    BY <2>2, <2>3
<1>10. ASSUME NEW s \in Slot, Alive(s), At(s)
       PROVE  records[s].row \in 1..m /\ here[records[s].row] = HandleOf(s)
  <2>1. In(chunks[key], x, records[s].row) /\ RowAt(s) = rows[records[s].row] /\ RowAt(s).entity = HandleOf(s)
    BY <1>1, <1>10, AliveFacts DEF RowAt
  <2> QED
    BY <1>4, <2>1 DEF In
<1> HIDE DEF here, rows, seen, key, x, At
<1>11. /\ DOMAIN seen = 1..n /\ n \in Nat /\ DOMAIN all = 1..n+m
       /\ \A i \in 1..n : all[i] = seen[i]
       /\ \A i \in 1..m : all[n+i] = here[i]
  <2>1. /\ all \in Seq(Entity) /\ Len(all) = n + m /\ DOMAIN seen = 1..n /\ n \in Nat
    <3>1. DOMAIN seen = 1..n /\ n \in Nat
      BY <1>1, LenProperties
    <3>2. seen \o here \in Seq(Entity) /\ Len(seen \o here) = n + m
      BY <1>1, <1>4, ConcatProperties
    <3> QED
      BY <1>6, <3>1, <3>2
  <2>2. \A i \in 1..n+m : all[i] = IF i <= n THEN seen[i] ELSE here[i-n]
    BY <1>1, <1>4, <1>6, ConcatProperties
  <2>3. \A i \in 1..n : all[i] = seen[i]
    BY <1>4, <2>1, <2>2
  <2>4. ASSUME NEW i \in 1..m PROVE all[n+i] = here[i]
    <3>1. n + i \in 1..n+m /\ ~(n + i <= n) /\ (n+i)-n = i
      BY <1>4, <2>1
    <3> QED
      BY <2>2, <3>1
  <2> QED
    BY <2>1, <2>3, <2>4, LenProperties
<1>12. \A s \in Slot : HandleOf(s)' = HandleOf(s) /\ HandleOf(s).slot = s
  BY <1>5 DEF HandleOf
<1>13. /\ \A i \in 1..n : \E s \in Slot : Alive(s) /\ Passed(s) /\ seen[i] = HandleOf(s)
       /\ \A s \in Slot : Alive(s) /\ Passed(s) => \E i \in 1..n : seen[i] = HandleOf(s)
       /\ \A i, j \in 1..n : seen[i] = seen[j] => i = j
  BY <1>11 DEF Handed, seen
<1>14. \A i \in DOMAIN all : i \in 1..n \/ \E k \in 1..m : i = n + k
  <2> SUFFICES ASSUME NEW i \in 1..n+m, i \notin 1..n PROVE \E k \in 1..m : i = n + k
    BY <1>11
  <2>1. i - n \in 1..m /\ i = n + (i - n)
    BY <1>4, <1>11
  <2> QED
    BY <2>1
<1>15. ASSUME NEW i \in DOMAIN all
       PROVE  \E s \in Slot : Alive(s)' /\ Passed(s)' /\ all[i] = HandleOf(s)'
  <2>1. CASE i \in 1..n
    <3>1. PICK s \in Slot : Alive(s) /\ Passed(s) /\ seen[i] = HandleOf(s)
      BY <1>13, <2>1
    <3> QED
      BY <1>7, <1>8, <1>11, <1>12, <2>1, <3>1
  <2>2. ASSUME NEW k \in 1..m, i = n + k
        PROVE  \E s \in Slot : Alive(s)' /\ Passed(s)' /\ all[i] = HandleOf(s)'
    <3>1. PICK s \in Slot : Alive(s) /\ At(s) /\ here[k] = HandleOf(s)
      BY <1>9
    <3> QED
      BY <1>7, <1>8, <1>11, <1>12, <2>2, <3>1
  <2> QED
    BY <1>14, <2>1, <2>2
<1>16. ASSUME NEW s \in Slot, Alive(s)', Passed(s)'
       PROVE  \E i \in DOMAIN all : all[i] = HandleOf(s)'
  <2>1. Alive(s) /\ (Passed(s) \/ At(s))
    BY <1>7, <1>8, <1>16
  <2>2. CASE Passed(s)
    <3>1. PICK i \in 1..n : seen[i] = HandleOf(s)
      BY <1>13, <2>1, <2>2
    <3>2. i \in DOMAIN all /\ all[i] = seen[i]
      BY <1>4, <1>11
    <3> QED
      BY <1>12, <3>1, <3>2
  <2>3. CASE At(s)
    <3> DEFINE k == records[s].row
    <3>1. k \in 1..m /\ here[k] = HandleOf(s)
      BY <1>10, <2>1, <2>3
    <3> HIDE DEF k
    <3>2. n + k \in DOMAIN all /\ all[n + k] = here[k]
      BY <1>4, <1>11, <3>1
    <3> QED
      BY <1>12, <3>1, <3>2
  <2> QED
    BY <2>1, <2>2, <2>3
\* No entity is in two rows, nor in a row and passed before.
<1>17. ASSUME NEW k \in 1..m, NEW l \in 1..m, here[k] = here[l]
       PROVE  k = l
  <2>1. PICK s \in Slot : Alive(s) /\ At(s) /\ records[s].row = k /\ here[k] = HandleOf(s)
    BY <1>9
  <2>2. PICK t \in Slot : Alive(t) /\ At(t) /\ records[t].row = l /\ here[l] = HandleOf(t)
    BY <1>9
  <2>3. s = t
    BY <1>12, <1>17, <2>1, <2>2
  <2> QED
    BY <2>1, <2>2, <2>3
<1>18. ASSUME NEW i \in 1..n, NEW k \in 1..m
       PROVE  seen[i] # here[k]
  <2>1. PICK s \in Slot : Alive(s) /\ Passed(s) /\ seen[i] = HandleOf(s)
    BY <1>13
  <2>2. PICK t \in Slot : Alive(t) /\ At(t) /\ here[k] = HandleOf(t)
    BY <1>9
  <2> QED
    BY <1>8, <1>12, <2>1, <2>2
<1>19. ASSUME NEW i \in DOMAIN all, NEW j \in DOMAIN all, all[i] = all[j]
       PROVE  i = j
  <2>1. CASE i \in 1..n /\ j \in 1..n
    BY <1>11, <1>13, <1>19, <2>1
  <2>2. ASSUME NEW k \in 1..m, i = n + k, j \in 1..n PROVE FALSE
    BY <1>11, <1>18, <1>19, <2>2
  <2>3. ASSUME NEW k \in 1..m, j = n + k, i \in 1..n PROVE FALSE
    BY <1>11, <1>18, <1>19, <2>3
  <2>4. ASSUME NEW k \in 1..m, i = n + k, NEW l \in 1..m, j = n + l PROVE i = j
    BY <1>11, <1>17, <1>19, <2>4
  <2> QED
    BY <1>14, <2>1, <2>2, <2>3, <2>4
<1> QED
  BY <1>15, <1>16, <1>19 DEF Handed

\* The command at the head of the buffer names a slot, and the components it needs.
LEMMA HeadCommand ==
    ASSUME BufferOK, commands # <<>>, NEW cmd, cmd = Head(commands)
    PROVE  /\ Resolve(cmd.entity) \in [slot : Nat, gen : Nat] /\ Resolve(cmd.entity).slot \in Nat
           /\ cmd.op \in {"add", "remove"} => cmd.comp \in Component
           /\ cmd.op = "add" => cmd.datum \in Datum[cmd.comp]
<1>1. cmd \in Commands
  BY HeadTailProperties DEF BufferOK
<1>2. cmd.entity \in [slot : Nat, gen : Generation \cup {TempGen}]
  BY <1>1 DEF Commands, AnyCommand
<1>3. Resolve(cmd.entity) \in [slot : Nat, gen : Nat]
  BY <1>2, Resolved
<1>4. Resolve(cmd.entity).slot \in Nat
  BY <1>3, HandleSlots
<1> QED
  BY <1>1, <1>3, <1>4 DEF Commands

\* Every step keeps it.
LEMMA WalkKept == IInv /\ Walk /\ [Next]_vars => Walk'
<1> SUFFICES ASSUME IInv, Walk, [Next]_vars PROVE Walk'
  OBVIOUS
<1>1. WorldOK /\ BufferOK /\ Registered
  BY DEF IInv, Walk
<1>2. issued \subseteq [slot : Nat, gen : Nat] /\ \A e \in issued : e.slot \in Nat
  BY <1>1 DEF WorldOK, TableType, Entity, Slot, Generation
<1>3. ASSUME Registered', ~query.active, query' = query PROVE Walk'
  BY <1>3 DEF Walk
<1>4. ASSUME archetypes' = archetypes, chunks' = chunks PROVE Registered'
  BY <1>1, <1>4, RegisteredStill
<1>5. ASSUME NEW memory \in BOOLEAN, Create(memory) PROVE Walk'
  <2>1. Registered'
    BY <1>1, <1>5, CreateRegisters DEF Create
  <2> QED
    BY <1>3, <1>5, <2>1 DEF Create, Outside
<1>6. ASSUME NEW e \in issued, Destroy(e) PROVE Walk'
  <2>1. Registered'
    BY <1>1, <1>2, <1>6, DestroyRegisters DEF Destroy
  <2> QED
    BY <1>3, <1>6, <2>1 DEF Destroy, Outside
<1>7. ASSUME NEW memory \in BOOLEAN, NEW e \in issued, NEW c \in Component, Remove(e, c, memory)
      PROVE  Walk'
  <2>1. Registered'
    BY <1>1, <1>2, <1>7, RemoveRegisters DEF Remove
  <2> QED
    BY <1>3, <1>7, <2>1 DEF Remove, Outside
<1>8. ASSUME NEW memory \in BOOLEAN, NEW e \in issued, NEW c \in Component, NEW v \in Datum[c],
             Add(e, c, v, memory)
      PROVE  Walk'
  <2>1. Registered'
    BY <1>1, <1>2, <1>8, AddRegisters DEF Add
  <2> QED
    BY <1>3, <1>8, <2>1 DEF Add, Outside
<1>9. ASSUME UNCHANGED <<table, archetypes, query, playing>>, Registered' PROVE Walk'
  <2>1. \A s \in Slot : /\ Alive(s)' <=> Alive(s)
                        /\ Passed(s)' <=> Passed(s)
                        /\ HandleOf(s)' = HandleOf(s)
    BY <1>9 DEF Alive, Passed, PassedAt, HandleOf, table
  <2>2. query' = query /\ playing' = playing
    BY <1>9
  <2>3. query.active => Handed'
    BY <2>1, <2>2 DEF Walk, Handed
  <2> QED
    BY <1>9, <2>2, <2>3 DEF Walk
<1>10. ASSUME NEW e \in issued, NEW c \in Component, NEW v \in Datum[c], Write(e, c, v)
       PROVE  Walk'
  <2>1. Registered'
    BY <1>1, <1>2, <1>10, OverwriteRegisters DEF Write
  <2> QED
    BY <1>9, <1>10, <2>1 DEF Write, buffer
<1>11. ASSUME NEW ids \in Key \ {{}}, BeginQuery(ids) PROVE Walk'
  <2>1. /\ archetypes' = archetypes /\ chunks' = chunks /\ playing' = playing /\ ~playing
        /\ query' = [active |-> TRUE, ids |-> ids, arch |-> 0, chunk |-> 0, seen |-> <<>>]
    BY <1>11 DEF BeginQuery, world, buffer, NoQuery
  <2>2. \A a \in DOMAIN archetypes : a \in Nat /\ a > 0
    BY <1>1, LenProperties DEF WorldOK, TableType
  <2>3. \A s \in Slot : ~Passed(s)'
    BY <2>1, <2>2 DEF Passed, PassedAt
  <2>4. DOMAIN query'.seen = {}
    BY <2>1
  <2>5. Handed'
    BY <2>3, <2>4 DEF Handed
  <2> QED
    BY <1>4, <2>1, <2>5 DEF Walk
<1>12. ASSUME EndQuery PROVE Walk'
  <2>1. archetypes' = archetypes /\ chunks' = chunks /\ query' = NoQuery
    BY <1>12 DEF EndQuery, world
  <2>2. ~query'.active
    BY <2>1 DEF NoQuery
  <2> QED
    BY <1>4, <2>1, <2>2 DEF Walk
<1>13. ASSUME NEW p \in Ahead, NEW c \in query.ids, NEW writes \in BOOLEAN, NEW v \in Datum[c],
              VisitChunk(p, c, v, writes)
       PROVE  Walk'
  <2>1. query.active /\ ~playing /\ Handed /\ playing' = playing /\ archetypes' = archetypes
    BY <1>13 DEF VisitChunk, Walk, buffer
  <2>2. Handed'
    BY <1>1, <1>13, <2>1, VisitHands
  <2> DEFINE key == archetypes[p[1]]
  <2>3. key \in Key /\ p[2] \in 1..Len(chunks[key])
    BY <1>1, AheadFacts
  <2>4. chunks[key] # <<>>
    <3>1. Len(<<>>) = 0
      OBVIOUS
    <3> QED
      BY <2>3, <3>1
  <2>5. chunks' = chunks \/ \E b : chunks' = [chunks EXCEPT ![key] = b]
    BY <1>13 DEF VisitChunk
  <2> HIDE DEF key
  <2>6. chunks = [k \in Key |-> chunks[k]]
    BY <1>1 DEF WorldOK, ChunkType
  <2>7. \A k \in Key : chunks[k] = <<>> => chunks'[k] = <<>>
    BY <2>3, <2>4, <2>5, <2>6
  <2>8. Registered'
    BY <1>1, <2>1, <2>7, RegisteredStill
  <2> QED
    BY <2>1, <2>2, <2>8 DEF Walk
<1>14. ASSUME UNCHANGED world, UNCHANGED <<query, playing>> PROVE Walk'
  BY <1>4, <1>9, <1>14 DEF world, table
<1>15. ASSUME NEW cmd, Record(cmd) PROVE Walk'
  BY <1>14, <1>15 DEF Record
<1>16. ASSUME Clear PROVE Walk'
  BY <1>14, <1>16 DEF Clear
<1>17. ASSUME BeginPlayback PROVE Walk'
  <2>1. Registered'
    BY <1>4, <1>17 DEF BeginPlayback, world
  <2> QED
    BY <1>3, <1>17, <2>1 DEF BeginPlayback, Outside
<1>18. ASSUME EndPlayback PROVE Walk'
  <2>1. Registered'
    BY <1>4, <1>18 DEF EndPlayback, world
  <2> QED
    BY <1>3, <1>18, <2>1 DEF EndPlayback, Walk
<1>19. ASSUME NEW memory \in BOOLEAN, PlayCommand(memory) PROVE Walk'
  <2> DEFINE cmd == Head(commands)
             e == Resolve(cmd.entity)
  <2>1. playing /\ commands # <<>> /\ query' = query
    BY <1>19 DEF PlayCommand
  <2>2. \/ cmd.op = "create" /\ CreateEntity(memory)
        \/ cmd.op = "destroy" /\ DestroyEntity(e)
        \/ cmd.op = "add" /\ AddComponent(e, cmd.comp, cmd.datum, memory)
        \/ cmd.op = "remove" /\ RemoveComponent(e, cmd.comp, memory)
    BY <1>19 DEF PlayCommand
  <2>3. e.slot \in Nat /\ (cmd.op \in {"add", "remove"} => cmd.comp \in Component)
    BY <1>1, <2>1, HeadCommand
  <2> HIDE DEF e, cmd
  <2>4. ASSUME CreateEntity(memory) PROVE Registered'
    BY <1>1, <2>4, CreateRegisters
  <2>5. ASSUME DestroyEntity(e) PROVE Registered'
    BY <1>1, <2>3, <2>5, DestroyRegisters
  <2>6. ASSUME cmd.op = "add", AddComponent(e, cmd.comp, cmd.datum, memory)
        PROVE  Registered'
    BY <1>1, <2>3, <2>6, AddRegisters
  <2>7. ASSUME cmd.op = "remove", RemoveComponent(e, cmd.comp, memory)
        PROVE  Registered'
    BY <1>1, <2>3, <2>7, RemoveRegisters
  <2>8. Registered'
    BY <2>2, <2>4, <2>5, <2>6, <2>7
  <2> QED
    BY <1>3, <2>1, <2>8 DEF Walk
<1>20. CASE Defer
  BY <1>15, <1>16, <1>17, <1>18, <1>19, <1>20 DEF Defer, RecordCreate, RecordDestroy, RecordAdd, RecordRemove
<1>21. CASE UNCHANGED vars
  BY <1>14, <1>21 DEF vars, buffer
<1> QED
  BY <1>5, <1>6, <1>7, <1>8, <1>10, <1>11, <1>12, <1>13, <1>20, <1>21 DEF Next, Call, Query

\* QueryVisitsEachOnce, for every world: when nothing lies ahead of a query, it has
\* handed out the live entities with the components it asked for, each once.
THEOREM QueriesAlwaysVisitEachOnce == Spec => []QueryVisitsEachOnce
<1>1. Init => Walk
  BY DEF Init, Walk, Registered, NoQuery
<1>2. IInv /\ Walk => QueryVisitsEachOnce
  <2> SUFFICES ASSUME IInv, Walk, query.active, Ahead = {}
               PROVE  /\ {query.seen[i] : i \in DOMAIN query.seen}
                           = {HandleOf(s) : s \in {t \in Living : query.ids \subseteq records[t].arch}}
                      /\ \A i, j \in DOMAIN query.seen : query.seen[i] = query.seen[j] => i = j
    BY DEF QueryVisitsEachOnce
  <2>1. WorldOK /\ BufferOK /\ Registered /\ Handed
    BY DEF IInv, Walk
  <2>2. \A s : s \in Living <=> s \in Slot /\ Alive(s)
    BY <2>1, LivingAre
  <2>3. ASSUME NEW s \in Slot, Alive(s) PROVE Passed(s) <=> query.ids \subseteq records[s].arch
    <3>1. Passed(s) => query.ids \subseteq records[s].arch
      BY DEF Passed, PassedAt
    <3>2. PICK a \in DOMAIN archetypes :
            /\ archetypes[a] = records[s].arch /\ a \in Nat
            /\ records[s].chunk \in DOMAIN chunks[archetypes[a]]
            /\ chunks[archetypes[a]][records[s].chunk] # <<>>
      BY <2>1, <2>3, Standing
    <3>3. query.ids \subseteq records[s].arch => PassedAt(s, a)
      BY <2>1, <2>3, <3>2, PassedOrAhead
    <3> QED
      BY <3>1, <3>3 DEF Passed
  <2> QED
    BY <2>1, <2>2, <2>3 DEF Handed
<1> QED
  BY WorldIsSound, WalkKept, <1>1, <1>2, PTL DEF Spec

-----------------------------------------------------------------------------
\* A row has the components of its archetype.
LEMMA RowKeys ==
    WorldOK => \A s \in Slot : Alive(s) => DOMAIN RowAt(s).data = records[s].arch
BY AliveFacts

\* A command that is played is the call it stands for.
LEMMA PlayedIs ==
    ASSUME NEW op, NEW e, NEW c, NEW v, Played(op, e, c, v)
    PROVE  /\ op = "destroy" => DestroyEntity(e)
           /\ op = "add" => AddComponent(e, c, v, TRUE)
           /\ op = "remove" => RemoveComponent(e, c, TRUE)
<1> DEFINE cmd == Head(commands)
<1>1. cmd = [op |-> op, entity |-> cmd.entity, comp |-> c, datum |-> v] /\ e = Resolve(cmd.entity)
  BY DEF Played, Command
<1>2. \/ cmd.op = "create"
      \/ cmd.op = "destroy" /\ DestroyEntity(e)
      \/ cmd.op = "add" /\ AddComponent(e, cmd.comp, cmd.datum, TRUE)
      \/ cmd.op = "remove" /\ RemoveComponent(e, cmd.comp, TRUE)
  BY <1>1 DEF Played, PlayCommand
<1> HIDE DEF cmd
<1>3. cmd.op = op /\ cmd.comp = c /\ cmd.datum = v
  BY <1>1
<1> QED
  BY <1>2, <1>3

\* A handle that was valid, and whose slot keeps its generation, is valid.
LEMMA StaysValid ==
    ASSUME WorldOK, WorldOK', NEW e, e.slot \in Nat, Valid(e),
           Alive(e.slot)', records'[e.slot].gen = records[e.slot].gen
    PROVE  /\ Valid(e)' /\ KeyOf(e)' = DOMAIN RowAt(e.slot)'.data
           /\ RowOf(e)' = RowAt(e.slot)'
<1>1. e.slot \in Slot
  BY ValidSlot
<1>2. Valid(e)'
  BY DEF Valid, Alive
<1>3. (\A s \in Slot : Alive(s) => DOMAIN RowAt(s).data = records[s].arch)'
  BY RowKeys, PTL
<1>4. \A s \in Slot : Alive(s)' => DOMAIN RowAt(s)'.data = records'[s].arch
  BY <1>3
<1>5. KeyOf(e)' = DOMAIN RowAt(e.slot)'.data /\ RowOf(e)' = RowAt(e.slot)'
  BY <1>1, <1>4 DEF KeyOf, RowOf, RowAt
<1> QED
  BY <1>2, <1>5

\* PlaybackTakesEffect, for every world: no command on an entity that is alive when
\* its turn comes is lost, whatever the commands before it moved.
THEOREM PlaybackAlwaysTakesEffect == Spec => PlaybackTakesEffect
<1>1. ASSUME IInv, NEW e \in issued, Played("destroy", e, Nil, Nil)
      PROVE  ~Valid(e)'
  <2>1. WorldOK /\ e.slot \in Nat
    BY <1>1 DEF IInv, WorldOK, TableType, Entity, Slot
  <2>2. DestroyEntity(e) /\ Valid(e)
    BY <1>1, PlayedIs DEF Played
  <2>3. ~Alive(e.slot)'
    BY <2>1, <2>2, DestroyKeeps
  <2> QED
    BY <2>3 DEF Valid, Alive
<1>2. ASSUME IInv, NEW e \in issued, NEW c \in Component, Played("remove", e, c, Nil)
      PROVE  Valid(e)' /\ c \notin KeyOf(e)'
  <2>1. WorldOK /\ e \in [slot : Nat, gen : Nat] /\ e.slot \in Nat
    BY <1>2 DEF IInv, WorldOK, TableType, Entity, Slot, Generation
  <2>2. RemoveComponent(e, c, TRUE) /\ Valid(e)
    BY <1>2, PlayedIs DEF Played
  <2>3. CASE c \notin KeyOf(e)
    <3>1. UNCHANGED world
      BY <2>1, <2>2, <2>3, RemoveKeeps
    <3> QED
      BY <2>2, <2>3, <3>1 DEF world, Valid, KeyOf
  <2>4. CASE c \in KeyOf(e)
    <3> DEFINE d == [k \in DOMAIN RowAt(e.slot).data \ {c} |-> RowAt(e.slot).data[k]]
    <3>1. WorldOK' /\ Becomes(e.slot, d) /\ RowAt(e.slot)'.data = d
      BY <2>1, <2>2, <2>4, RemoveKeeps
    <3>2. c \notin DOMAIN d
      OBVIOUS
    <3> HIDE DEF d
    <3>3. Valid(e)' /\ KeyOf(e)' = DOMAIN RowAt(e.slot)'.data
      BY <2>1, <2>2, <3>1, StaysValid DEF Becomes
    <3> QED
      BY <3>1, <3>2, <3>3
  <2> QED
    BY <2>3, <2>4
<1>3. ASSUME IInv, NEW e \in issued, NEW c \in Component, NEW v \in Datum[c],
             Played("add", e, c, v)
      PROVE  Valid(e)' /\ c \in KeyOf(e)' /\ RowOf(e)'.data[c] = v
  <2>1. WorldOK /\ e \in [slot : Nat, gen : Nat] /\ e.slot \in Nat
    BY <1>3 DEF IInv, WorldOK, TableType, Entity, Slot, Generation
  <2>2. AddComponent(e, c, v, TRUE) /\ Valid(e)
    BY <1>3, PlayedIs DEF Played
  <2> DEFINE d == Having(RowAt(e.slot).data, c, v)
  <2>3. WorldOK' /\ Becomes(e.slot, d) /\ RowAt(e.slot)'.data = d
    BY <2>1, <2>2, AddKeeps
  <2>4. c \in DOMAIN d /\ d[c] = v
    BY DEF Having
  <2> HIDE DEF d
  <2>5. Valid(e)' /\ KeyOf(e)' = DOMAIN RowAt(e.slot)'.data /\ RowOf(e)' = RowAt(e.slot)'
    BY <2>1, <2>2, <2>3, StaysValid DEF Becomes
  <2> QED
    BY <2>3, <2>4, <2>5
<1> DEFINE Effect ==
      \A e \in issued :
         /\ Played("destroy", e, Nil, Nil) => ~Valid(e)'
         /\ \A c \in Component :
              /\ Played("remove", e, c, Nil) => Valid(e)' /\ c \notin KeyOf(e)'
              /\ \A v \in Datum[c] :
                   Played("add", e, c, v) =>
                     Valid(e)' /\ c \in KeyOf(e)' /\ RowOf(e)'.data[c] = v
<1>4. IInv => Effect
  BY <1>1, <1>2, <1>3
<1>5. PlaybackTakesEffect <=> [][Effect]_vars
  BY PTL DEF PlaybackTakesEffect
<1> QED
  BY <1>4, <1>5, WorldIsSound, PTL
=============================================================================
