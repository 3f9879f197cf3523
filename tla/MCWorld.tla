------------------------------ MODULE MCWorld ------------------------------
\* A component with data and a tag.  The byte sizes are chosen so that the
\* archetype with both is the one that loses a row to alignment.
EXTENDS World, TLC

CONSTANTS x, y

MCSize == (1 :> 4) @@ (2 :> 16)
MCAlign == (1 :> 4) @@ (2 :> 16)
MCDatum == (1 :> {x, y}) @@ (2 :> {"t"})

\* No call looks at the data it moves.
DataSymmetry == Permutations({x, y})

CL == INSTANCE ChunkLayout WITH
        Size <- MCSize, Align <- MCAlign,
        EntityBytes <- 8, TargetBytes <- 56, MaxRows <- 2
MCCapacity == CL!RowCapacity
ASSUME CL!LayoutAssumption

\* In every archetype the program has made, columns are aligned, apart from each
\* other and inside the chunk: a system that writes one column disturbs no other
\* component and no entity id (build_layout).
SoundKeys == UNION {IF CL!Sound(key) THEN {key} ELSE {} : key \in Key}
LayoutsSound == \A i \in DOMAIN archetypes : archetypes[i] \in SoundKeys
=============================================================================
