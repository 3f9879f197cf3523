------------------------------- MODULE World -------------------------------
(***************************************************************************)
(* The ECS of engine/scene: World (entity records, archetypes, chunks, the  *)
(* query) and the CommandBuffer that defers structural changes.  One        *)
(* thread drives a world, so an action is one call; a query is cut into one *)
(* step per chunk it hands to its callback, and playback() into one step    *)
(* per command, because the properties speak of the states in between.      *)
(*                                                                         *)
(* Chunks and rows count from 1 here and from 0 in the code.  A chunk holds *)
(* Capacity[key] rows (see ChunkLayout); the bytes beyond its count are     *)
(* never read and are left out.                                             *)
(***************************************************************************)
EXTENDS Integers, Sequences, FiniteSets, FiniteSetsExt

CONSTANTS
    Component,      \* the registered component types
    Datum,          \* Datum[c]: the values of component c
    Capacity,       \* Capacity[key]: the rows of a chunk of that archetype
    MaxEntities,    \* kInvalidIndex + 1: the entity table grows no further
    TempGen,        \* the generation whose top bit is kTempBit, 2^31
    Nil,            \* no component, no data
    MaxWork         \* bound: the entities ever created and the commands
                    \* recorded at one time, together

Key == SUBSET Component
Data == UNION {Datum[c] : c \in Component}

ASSUME CapacityAssumption == Capacity \in [Key -> Nat \ {0}]
ASSUME NumbersAssumption ==
    /\ MaxEntities \in Nat \ {0}
    /\ MaxWork \in Nat /\ TempGen \in Nat /\ MaxWork + 1 < TempGen
ASSUME NilAssumption == Nil \notin Component /\ Nil \notin Data

VARIABLES
    records,        \* WorldState.entities: slot -> EntityRecord
    used,           \* its size
    free,           \* free_entities, a stack
    archetypes,     \* the keys of WorldState.archetypes, in order of creation
    chunks,         \* key -> the chunks of that archetype, sequences of rows
    issued,         \* history: the handles create() has returned
    query,          \* the for_each_chunk() in flight, if any
    commands,       \* CommandBuffer: commands_
    tempCount,      \* temp_count_
    tempToReal,     \* temp_to_real_
    playing         \* whether playback() is running

table == <<records, used, free>>
world == <<records, used, free, archetypes, chunks, issued>>
buffer == <<commands, tempCount, tempToReal, playing>>
vars == <<world, query, buffer>>

Slot == 0..MaxEntities-1
Generation == 1..MaxWork+1
Entity == [slot : Slot, gen : Generation]
NoEntity == [slot |-> 0, gen |-> 0]
NoArchetype == {Nil}     \* the null pointer
FreshRecord == [gen |-> 1, alive |-> FALSE, arch |-> NoArchetype, chunk |-> 0, row |-> 0]
NoQuery == [active |-> FALSE, ids |-> {}, arch |-> 0, chunk |-> 0, seen |-> <<>>]

-----------------------------------------------------------------------------
\* Reading the world.

Valid(e) ==
    /\ e.gen # 0 /\ e.slot < used
    /\ records[e.slot].alive /\ records[e.slot].gen = e.gen

Living == {s \in 0..used-1 : records[s].alive}
HandleOf(s) == [slot |-> s, gen |-> records[s].gen]
KeyOf(e) == records[e.slot].arch
RowOf(e) == LET r == records[e.slot] IN chunks[r.arch][r.chunk][r.row]

-----------------------------------------------------------------------------
\* Archetypes and chunks.

\* get_or_create_archetype().
WithArchetype(key) ==
    IF \E i \in DOMAIN archetypes : archetypes[i] = key
    THEN archetypes ELSE Append(archetypes, key)

\* append_entity(): the first chunk with room, or a new one behind the last.
Room(key) ==
    Min({c \in DOMAIN chunks[key] : Len(chunks[key][c]) < Capacity[key]}
          \cup {Len(chunks[key]) + 1})
NeedsChunk(key) == Room(key) = Len(chunks[key]) + 1
NewRow(key) == IF NeedsChunk(key) THEN 1 ELSE Len(chunks[key][Room(key)]) + 1
Appended(key, row) ==
    IF NeedsChunk(key) THEN Append(chunks[key], <<row>>)
    ELSE [chunks[key] EXCEPT ![Room(key)] = Append(@, row)]

\* erase_entity_at(): the last row of the chunk takes the place of the erased
\* one, and the record of the entity that moved follows it.
SwapRemoved(rows, r) ==
    [i \in 1..Len(rows)-1 |-> IF i = r THEN rows[Len(rows)] ELSE rows[i]]
Erased(key, c, r) == [chunks[key] EXCEPT ![c] = SwapRemoved(@, r)]

\* Mutant: the record of the entity that moved stays as it was.
FollowNothing(key, c, r) == records
FollowMoved(key, c, r) ==
    LET rows == chunks[key][c]
        moved == rows[Len(rows)].entity.slot
    IN  IF r = Len(rows) THEN records
        ELSE [records EXCEPT ![moved] = [@ EXCEPT !.chunk = c, !.row = r]]

\* migrate(): append to dst with the given components, erase from the source.
\* Without memory for a new chunk the entity stays as it was, though the
\* archetype exists from now on.
Migrate(e, dst, bundle, memory) ==
    LET r == records[e.slot] IN
    /\ archetypes' = WithArchetype(dst)
    /\ IF NeedsChunk(dst) /\ ~memory THEN UNCHANGED <<records, chunks>>
       ELSE /\ chunks' = [chunks EXCEPT
                  ![dst] = Appended(dst, [entity |-> e, data |-> bundle]),
                  ![r.arch] = Erased(r.arch, r.chunk, r.row)]
            /\ records' = [FollowMoved(r.arch, r.chunk, r.row) EXCEPT ![e.slot] =
                  [@ EXCEPT !.arch = dst, !.chunk = Room(dst), !.row = NewRow(dst)]]

-----------------------------------------------------------------------------
\* The calls, on the world alone.  `memory` says whether a chunk can be had.

NextSlot == IF free = <<>> THEN used ELSE free[Len(free)]
TableFull == free = <<>> /\ used = MaxEntities
Created(memory) ==
    IF TableFull \/ (NeedsChunk({}) /\ ~memory) THEN NoEntity
    ELSE [slot |-> NextSlot, gen |-> records[NextSlot].gen]

FreeUsed == IF free = <<>> THEN free ELSE SubSeq(free, 1, Len(free) - 1)
\* The free list after a create() that returns e: without memory the slot goes
\* back to it, or on to it if it was new.
FreeAfter(e) ==
    IF e # NoEntity THEN FreeUsed
    ELSE IF free = <<>> /\ ~TableFull THEN <<used>> ELSE free

\* create().
CreateEntity(memory) ==
    LET e == Created(memory) IN
    /\ archetypes' = WithArchetype({})
    /\ used' = IF free = <<>> /\ ~TableFull THEN used + 1 ELSE used
    /\ free' = FreeAfter(e)
    /\ IF e = NoEntity THEN UNCHANGED <<records, chunks, issued>>
       ELSE /\ records' = [records EXCEPT ![e.slot] = [@ EXCEPT
                   !.alive = TRUE, !.arch = {}, !.chunk = Room({}), !.row = NewRow({})]]
            /\ chunks' = [chunks EXCEPT
                   ![{}] = Appended({}, [entity |-> e, data |-> [c \in {} |-> Nil]])]
            /\ issued' = issued \cup {e}

\* Mutant: the generation stays.
SameGeneration(gen) == gen
\* next_generation(): 32 bits, of which TempGen is the top one; 0 is left out.
NextGeneration(gen) == IF gen + 1 = 2 * TempGen THEN 1 ELSE gen + 1

\* destroy().
DestroyEntity(e) ==
    LET r == records[e.slot] IN
    IF ~Valid(e) THEN UNCHANGED world
    ELSE /\ chunks' = [chunks EXCEPT ![r.arch] = Erased(r.arch, r.chunk, r.row)]
         /\ records' = [FollowMoved(r.arch, r.chunk, r.row) EXCEPT ![e.slot] =
               [FreshRecord EXCEPT !.gen = NextGeneration(r.gen)]]
         /\ free' = Append(free, e.slot)
         /\ UNCHANGED <<used, archetypes, issued>>

\* The row e stands in, with component c set to v.
Overwrite(e, c, v) ==
    LET r == records[e.slot] IN
    chunks' = [chunks EXCEPT ![r.arch][r.chunk][r.row].data[c] = v]

\* Mutant: a component that is there already is left alone.
AddComponentOnce(e, c, v, memory) ==
    IF ~Valid(e) \/ c \in KeyOf(e) THEN UNCHANGED world
    ELSE /\ Migrate(e, KeyOf(e) \cup {c},
                    [k \in KeyOf(e) \cup {c} |-> IF k = c THEN v ELSE RowOf(e).data[k]],
                    memory)
         /\ UNCHANGED <<used, free, issued>>

\* add_component(): overwrite what is there, or move to the wider archetype.
AddComponent(e, c, v, memory) ==
    IF ~Valid(e) THEN UNCHANGED world
    ELSE IF c \in KeyOf(e) THEN
         Overwrite(e, c, v) /\ UNCHANGED <<table, archetypes, issued>>
    ELSE /\ Migrate(e, KeyOf(e) \cup {c},
                    [k \in KeyOf(e) \cup {c} |-> IF k = c THEN v ELSE RowOf(e).data[k]],
                    memory)
         /\ UNCHANGED <<used, free, issued>>

\* remove_component().
RemoveComponent(e, c, memory) ==
    IF ~Valid(e) \/ c \notin KeyOf(e) THEN UNCHANGED world
    ELSE /\ Migrate(e, KeyOf(e) \ {c},
                    [k \in KeyOf(e) \ {c} |-> RowOf(e).data[k]], memory)
         /\ UNCHANGED <<used, free, issued>>

-----------------------------------------------------------------------------
\* The calls a program makes.  Structural ones are forbidden inside a query
\* (PSY_WORLD_NO_ITERATION); a stale handle may be passed to any of them.

\* Mutant: structural changes while a query is in flight.
AnyTime == ~playing
Outside == ~playing /\ ~query.active

\* The bound.
Within == Cardinality(issued) + Len(commands) < MaxWork

Create(memory) ==
    /\ Outside /\ Within
    /\ CreateEntity(memory)
    /\ UNCHANGED <<query, buffer>>

Destroy(e) == Outside /\ DestroyEntity(e) /\ UNCHANGED <<query, buffer>>

Add(e, c, v, memory) ==
    Outside /\ AddComponent(e, c, v, memory) /\ UNCHANGED <<query, buffer>>

Remove(e, c, memory) ==
    Outside /\ RemoveComponent(e, c, memory) /\ UNCHANGED <<query, buffer>>

\* A write through the pointer get() returned, before anything else moves.
Write(e, c, v) ==
    /\ ~playing /\ Valid(e) /\ c \in KeyOf(e)
    /\ Overwrite(e, c, v)
    /\ UNCHANGED <<table, archetypes, issued, query, buffer>>

-----------------------------------------------------------------------------
\* The query (query_chunks): every archetype that has the ids, in order of
\* creation, and in it every chunk that is not empty.

\* The chunks still ahead, as pairs of an archetype's position and a chunk.
Ahead ==
    {p \in UNION {{a} \X DOMAIN chunks[archetypes[a]] : a \in DOMAIN archetypes} :
       /\ query.ids \subseteq archetypes[p[1]]
       /\ chunks[archetypes[p[1]]][p[2]] # <<>>
       /\ p[1] > query.arch \/ (p[1] = query.arch /\ p[2] > query.chunk)}

BeginQuery(ids) ==
    /\ ~playing /\ ~query.active
    /\ query' = [NoQuery EXCEPT !.active = TRUE, !.ids = ids]
    /\ UNCHANGED <<world, buffer>>

\* The next chunk, handed to a callback that may leave its column c as it is
\* or fill it with v.
VisitChunk(p, c, v, writes) ==
    /\ query.active /\ p \in Ahead /\ c \in query.ids
    /\ \A q \in Ahead : p[1] < q[1] \/ (p[1] = q[1] /\ p[2] <= q[2])
    /\ LET rows == chunks[archetypes[p[1]]][p[2]] IN
       /\ query' = [query EXCEPT !.arch = p[1], !.chunk = p[2],
                                 !.seen = @ \o [i \in DOMAIN rows |-> rows[i].entity]]
       /\ chunks' = IF ~writes THEN chunks
                    ELSE [chunks EXCEPT ![archetypes[p[1]]][p[2]] =
                      [i \in DOMAIN rows |-> [rows[i] EXCEPT !.data[c] = v]]]
    /\ UNCHANGED <<table, archetypes, issued, buffer>>

EndQuery ==
    /\ query.active /\ Ahead = {}
    /\ query' = NoQuery
    /\ UNCHANGED <<world, buffer>>

-----------------------------------------------------------------------------
\* CommandBuffer.

Temp(n) == [slot |-> n, gen |-> TempGen]
Temps == {Temp(n) : n \in 0..tempCount-1}
Command(op, e, c, v) == [op |-> op, entity |-> e, comp |-> c, datum |-> v]

Record(cmd) ==
    /\ ~playing /\ Within
    /\ commands' = Append(commands, cmd)
    /\ UNCHANGED <<world, query, tempToReal, playing>>

\* create(): the code leaves the entity of the command unset; here it is the
\* handle the call returned.
RecordCreate ==
    /\ Record(Command("create", Temp(tempCount), Nil, Nil))
    /\ tempCount' = tempCount + 1
RecordDestroy(e) == Record(Command("destroy", e, Nil, Nil)) /\ UNCHANGED tempCount
RecordAdd(e, c, v) == Record(Command("add", e, c, v)) /\ UNCHANGED tempCount
RecordRemove(e, c) == Record(Command("remove", e, c, Nil)) /\ UNCHANGED tempCount

\* Mutant: the numbering of temporary handles goes on.
ClearedCommands == commands' = <<>> /\ tempToReal' = <<>> /\ UNCHANGED tempCount
\* clear().
Cleared == commands' = <<>> /\ tempToReal' = <<>> /\ tempCount' = 0

Clear == ~playing /\ Cleared /\ UNCHANGED <<world, query, playing>>

\* resolve(): a handle with kTempBit set stands for what its create() made.
Resolve(e) ==
    IF e.gen < TempGen THEN e
    ELSE IF e.gen = TempGen /\ e.slot < Len(tempToReal) THEN tempToReal[e.slot + 1]
    ELSE NoEntity

\* playback(): the commands in the order of recording, then clear().
BeginPlayback ==
    /\ Outside
    /\ playing' = TRUE /\ tempToReal' = <<>>
    /\ UNCHANGED <<world, query, commands, tempCount>>

PlayCommand(memory) ==
    /\ playing /\ commands # <<>>
    /\ commands' = Tail(commands)
    /\ LET cmd == Head(commands)
           e == Resolve(cmd.entity)
       IN  \/ /\ cmd.op = "create" /\ CreateEntity(memory)
              /\ tempToReal' = Append(tempToReal, Created(memory))
           \/ /\ cmd.op = "destroy" /\ DestroyEntity(e)
              /\ UNCHANGED tempToReal
           \/ /\ cmd.op = "add" /\ AddComponent(e, cmd.comp, cmd.datum, memory)
              /\ UNCHANGED tempToReal
           \/ /\ cmd.op = "remove" /\ RemoveComponent(e, cmd.comp, memory)
              /\ UNCHANGED tempToReal
    /\ UNCHANGED <<query, tempCount, playing>>

EndPlayback ==
    /\ playing /\ commands = <<>>
    /\ Cleared /\ playing' = FALSE
    /\ UNCHANGED <<world, query>>

-----------------------------------------------------------------------------
Init ==
    /\ records = [s \in Slot |-> FreshRecord] /\ used = 0 /\ free = <<>>
    /\ archetypes = <<>> /\ chunks = [key \in Key |-> <<>>] /\ issued = {}
    /\ query = NoQuery
    /\ commands = <<>> /\ tempCount = 0 /\ tempToReal = <<>> /\ playing = FALSE

Call ==
    \E memory \in BOOLEAN :
      \/ Create(memory)
      \/ \E e \in issued :
           \/ Destroy(e)
           \/ \E c \in Component :
                \/ Remove(e, c, memory)
                \/ \E v \in Datum[c] : Add(e, c, v, memory) \/ Write(e, c, v)

Query ==
    \/ \E ids \in Key \ {{}} : BeginQuery(ids)
    \/ \E p \in Ahead, c \in query.ids, writes \in BOOLEAN :
         \E v \in Datum[c] : VisitChunk(p, c, v, writes)
    \/ EndQuery

Defer ==
    \/ RecordCreate
    \/ \E e \in issued \cup Temps :
         \/ RecordDestroy(e)
         \/ \E c \in Component :
              RecordRemove(e, c) \/ \E v \in Datum[c] : RecordAdd(e, c, v)
    \/ Clear \/ BeginPlayback \/ EndPlayback
    \/ \E memory \in BOOLEAN : PlayCommand(memory)

Next == Call \/ Query \/ Defer

Spec == Init /\ [][Next]_vars

-----------------------------------------------------------------------------
\* Correctness.

Row == [entity : Entity, data : UNION {[key -> Data] : key \in Key}]
EntityRecord == [gen : Generation, alive : BOOLEAN, arch : Key \cup {NoArchetype},
                 chunk : Nat, row : Nat]

\* Every variable keeps to the values its declaration allows, and a row has a
\* column for each component of its archetype and for no other.
TypeOK ==
    /\ records \in [Slot -> EntityRecord]
    /\ used \in 0..MaxEntities /\ free \in Seq(Slot)
    /\ archetypes \in Seq(Key) /\ issued \subseteq Entity
    /\ chunks \in [Key -> Seq(Seq(Row))]
    /\ \A key \in Key : \A c \in DOMAIN chunks[key] :
         /\ Len(chunks[key][c]) <= Capacity[key]
         /\ \A r \in DOMAIN chunks[key][c] : DOMAIN chunks[key][c][r].data = key
    /\ query \in [active : BOOLEAN, ids : Key, arch : Nat, chunk : Nat, seen : Seq(Entity)]
    /\ commands \in Seq([op : {"create", "destroy", "add", "remove"},
                         entity : [slot : Nat, gen : Generation \cup {TempGen}],
                         comp : Component \cup {Nil}, datum : Data \cup {Nil}])
    /\ tempCount \in Nat /\ playing \in BOOLEAN
    /\ tempToReal \in Seq(Entity \cup {NoEntity})

\* Records and rows lead to each other: the record of every live entity to the row
\* that holds it, and every row to a live entity whose record leads back.  No
\* swap-removal, migration or destroy() leaves a row behind, holds an entity twice
\* or lets a record point to a row that has moved.
RecordsMatchRows ==
    /\ \A s \in Living :
         LET r == records[s] IN
         /\ r.arch \in Key /\ r.chunk \in DOMAIN chunks[r.arch]
         /\ r.row \in DOMAIN chunks[r.arch][r.chunk]
         /\ RowOf(HandleOf(s)).entity = HandleOf(s)
    /\ \A key \in Key : \A c \in DOMAIN chunks[key] : \A r \in DOMAIN chunks[key][c] :
         LET e == chunks[key][c][r].entity IN
         /\ e.slot \in Living /\ e = HandleOf(e.slot)
         /\ records[e.slot].arch = key /\ records[e.slot].chunk = c
         /\ records[e.slot].row = r

\* The free list holds each dead slot of the table once: create() neither
\* hands out a slot in use nor loses one, also when it fails half-way.
FreeListIsDead ==
    /\ {free[i] : i \in DOMAIN free} = (0..used-1) \ Living
    /\ \A i, j \in DOMAIN free : free[i] = free[j] => i = j

\* A query hands every live entity that has the components to its callback
\* exactly once, whatever order swap-removal and migration left the rows in
\* (for_each_chunk).
QueryVisitsEachOnce ==
    query.active /\ Ahead = {} =>
      /\ {query.seen[i] : i \in DOMAIN query.seen}
           = {HandleOf(s) : s \in {t \in Living : query.ids \subseteq records[t].arch}}
      /\ \A i, j \in DOMAIN query.seen : query.seen[i] = query.seen[j] => i = j

\* A temporary handle stands for the entity its own create() makes: playback
\* reaches the n-th create with n entities made, and no command comes before
\* the create of its target (CommandBuffer::resolve).
DeferredTargetsResolve ==
    /\ playing /\ commands # <<>> /\ Head(commands).op = "create"
         => Head(commands).entity = Temp(Len(tempToReal))
    /\ \A i \in DOMAIN commands : commands[i].op # "create" /\ commands[i].entity.gen = TempGen =>
         \/ playing /\ commands[i].entity.slot < Len(tempToReal)
         \/ \E j \in 1..i-1 : commands[j].op = "create" /\ commands[j].entity = commands[i].entity

\* A deferred command on an entity that is alive when its turn comes has its
\* effect, as long as a chunk can be had: playback drops nothing, however the
\* commands before it moved the entity about (CommandBuffer::playback).
Played(op, e, c, v) ==
    /\ playing /\ commands # <<>> /\ Head(commands) = Command(op, Head(commands).entity, c, v)
    /\ e = Resolve(Head(commands).entity) /\ Valid(e)
    /\ PlayCommand(TRUE)
PlaybackTakesEffect ==
    [][\A e \in issued :
         /\ Played("destroy", e, Nil, Nil) => ~Valid(e)'
         /\ \A c \in Component :
              /\ Played("remove", e, c, Nil) => Valid(e)' /\ c \notin KeyOf(e)'
              /\ \A v \in Datum[c] :
                   Played("add", e, c, v) =>
                     Valid(e)' /\ c \in KeyOf(e)' /\ RowOf(e)'.data[c] = v]_vars

\* The world implements the map from entities to components: a handle is never
\* given out twice, a stale one changes nothing, and no call, migration, swap
\* or failed allocation changes an entity the call did not name.
Stored == [h \in {HandleOf(s) : s \in Living} |-> RowOf(h).data]
Store == INSTANCE EntityStore WITH Name <- Entity, store <- Stored
ImplementsEntityStore == Store!Spec
=============================================================================
