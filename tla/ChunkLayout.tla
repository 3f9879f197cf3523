---------------------------- MODULE ChunkLayout ----------------------------
(***************************************************************************)
(* How an archetype lays out a chunk (build_layout in scene/World.cpp):     *)
(* the entity column first, then one column per component in the order of   *)
(* their ids, each aligned, and as many rows as fit in the target size.     *)
(***************************************************************************)
EXTENDS Integers, Sequences, SequencesExt

CONSTANTS
    Component,      \* component ids, which are numbers
    Size, Align,    \* bytes and alignment of each component
    EntityBytes,    \* sizeof(Entity), which is also its alignment
    TargetBytes,    \* kTargetChunkBytes
    MaxRows         \* kMaxChunkEntities

\* What registration guarantees, for the module that instantiates this one to assume.
LayoutAssumption ==
    /\ Component \subseteq Nat \ {0}
    /\ Size \in [Component -> Nat \ {0}] /\ Align \in [Component -> Nat \ {0}]
    /\ \A c \in Component : Size[c] % Align[c] = 0
    /\ {EntityBytes, TargetBytes, MaxRows} \subseteq Nat \ {0}

AlignUp(n, align) == ((n + align - 1) \div align) * align

Columns(key) == SetToSortSeq(key, <)

Clamp(n, lo, hi) == IF n < lo THEN lo ELSE IF n > hi THEN hi ELSE n

RowBytes(key) == FoldLeft(LAMBDA n, c : n + Size[c], EntityBytes, Columns(key))
RowAlign(key) ==
    FoldLeft(LAMBDA n, c : IF Align[c] > n THEN Align[c] ELSE n, EntityBytes, Columns(key))

\* Mutant: columns follow each other without padding.
PackedLayout(key, rows) ==
    FoldLeft(LAMBDA l, c : [offset |-> [l.offset EXCEPT ![c] = l.end],
                            end |-> l.end + Size[c] * rows],
             [offset |-> [c \in key |-> 0], end |-> EntityBytes * rows], Columns(key))

\* The offset of every column and the end of the last one, for `rows` rows.
Layout(key, rows) ==
    FoldLeft(LAMBDA l, c : LET at == AlignUp(l.end, Align[c]) IN
                           [offset |-> [l.offset EXCEPT ![c] = at],
                            end |-> at + Size[c] * rows],
             [offset |-> [c \in key |-> 0], end |-> EntityBytes * rows], Columns(key))

ChunkBytes(key, rows) == AlignUp(Layout(key, rows).end, RowAlign(key))

\* The loop of build_layout: from the estimate down to the first count that
\* fits, one row at least.
Fitting(key) ==
    LET estimate == Clamp(TargetBytes \div RowBytes(key), 1, MaxRows)
    IN  CHOOSE n \in 1..estimate :
          /\ n = 1 \/ ChunkBytes(key, n) <= TargetBytes
          /\ \A m \in n+1..estimate : ChunkBytes(key, m) > TargetBytes

RowCapacity == [key \in SUBSET Component |-> Fitting(key)]

-----------------------------------------------------------------------------
\* The bytes of a column, and of the entity column.
ColumnBytes(key, c) ==
    LET at == Layout(key, RowCapacity[key]).offset[c]
    IN  at..at + Size[c] * RowCapacity[key] - 1
EntityColumn(key) == 0..EntityBytes * RowCapacity[key] - 1

\* Every column is aligned, inside the chunk and apart from every other one:
\* writing a component through a column pointer disturbs nothing else, and no
\* chunk is larger than the target unless a single row is.
Sound(key) ==
    LET rows == RowCapacity[key]
        bytes == ChunkBytes(key, rows)
    IN  /\ rows = 1 \/ bytes <= TargetBytes
        /\ \A c \in key :
             /\ Layout(key, rows).offset[c] % Align[c] = 0
             /\ ColumnBytes(key, c) \subseteq 0..bytes - 1
             /\ ColumnBytes(key, c) \cap EntityColumn(key) = {}
             /\ \A d \in key \ {c} : ColumnBytes(key, c) \cap ColumnBytes(key, d) = {}
=============================================================================
