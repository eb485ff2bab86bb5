----------------------------- MODULE SlateLayout -----------------------------
(***************************************************************************)
(* Where SlateLayout puts the elements of a shard: each at an offset that  *)
(* suits its alignment, in a hole left by the alignment of earlier ones    *)
(* when one is large enough.  Sizes and alignments are those of the types  *)
(* of elements; offsets have a width, here MaxOffset + 1 instead of 2^32.  *)
(***************************************************************************)
EXTENDS Integers, FiniteSets, Sequences

CONSTANTS
    Kinds,         \* of values: pairs of a size and an alignment
    MaxAlignment,  \* AlignedBuffer::max_alignment
    MaxOffset      \* the largest slate_offset_t

VARIABLES
    shard_size,
    free_list,     \* chunks: pairs of a size and an offset
    elements,      \* what was allocated: offset, size and alignment
    wasted,        \* allocated for a path that turned out to be taken
    aborted        \* why nothing more is created: a creation failed after it had changed the layout

vars == <<shard_size, free_list, elements, wasted, aborted>>

Width == MaxOffset + 1
Powers == <<1, 2, 4, 8, 16>>

TypeOK ==
    /\ shard_size \in 0..MaxOffset
    /\ free_list \subseteq (1..MaxAlignment) \X (0..MaxOffset)
    /\ wasted \subseteq elements
    /\ aborted \in {"no", "wrapped", "bad chunk"}

Init ==
    /\ shard_size = 0 /\ free_list = {}
    /\ elements = {} /\ wasted = {}
    /\ aborted = "no"

Bug_Carve(offset, size) ==
    [chunks |-> IF size = 0 THEN {} ELSE {<<size, offset>>}, left |-> 0]

\* The free space cut into chunks as long as they are aligned, and what is left then.
Carve(offset, size) ==
    LET carved[n \in 0..Len(Powers)] ==
          IF n = 0 THEN [at |-> offset, left |-> size, chunks |-> {}]
          ELSE LET c     == carved[n - 1]
                   power == Powers[n]
               IN  IF power > c.left \/ (c.at \div power) % 2 = 0 THEN c
                   ELSE [at |-> c.at + power, left |-> c.left - power,
                         chunks |-> c.chunks \cup {<<power, c.at>>}]
        end == carved[Len(Powers)]
    IN  [chunks |-> end.chunks, left |-> end.left]

\* The element of kind k gets the memory at offset; the space from freeAt on is free.
Place(k, offset, freeAt, freeSize, list, taken) ==
    LET carved == Carve(freeAt, freeSize)
        element == [off |-> offset, len |-> k[1], align |-> k[2]]
    IN  IF freeSize >= MaxAlignment \/ carved.left # 0
        THEN /\ aborted' = "bad chunk"
             /\ UNCHANGED <<free_list, elements, wasted>>
        ELSE /\ free_list' = list \cup carved.chunks
             /\ elements' = elements \cup {element}
             /\ wasted' = IF taken THEN wasted \cup {element} ELSE wasted
             /\ UNCHANGED aborted

\* The chunks lower_bound may find: the smallest ones that are large enough.
Fitting(size) ==
    {c \in free_list : /\ c[1] >= size
                       /\ \A d \in free_list : d[1] >= size => c[1] <= d[1]}

\* allocate_element out of a hole.
Reuse(k, c, taken) ==
    /\ aborted = "no"
    /\ c \in Fitting(k[1])
    /\ Place(k, c[2], c[2] + k[1], c[1] - k[1], free_list \ {c}, taken)
    /\ UNCHANGED shard_size

Bug_AlignedUp(k) == shard_size

AlignedUp(k) == ((shard_size + k[2] - 1) \div k[2]) * k[2]

Bug_HasRoom(k) == shard_size <= MaxOffset - MaxAlignment + 1

\* The checks before the shard grows; what they refuse changes nothing, and
\* smaller values may still be created in the holes.
HasRoom(k) == shard_size <= MaxOffset - MaxAlignment + 1 /\ k[1] <= MaxOffset

\* allocate_element at the end of the shard; the new size is stored before it is
\* seen to have wrapped around.  What is created in such a shard lies over
\* what is there: the programs stop, and so does the model.
Grow(k, taken) ==
    /\ aborted = "no"
    /\ Fitting(k[1]) = {}
    /\ HasRoom(k)
    /\ shard_size' = (AlignedUp(k) + k[1]) % Width
    /\ IF AlignedUp(k) >= shard_size'
       THEN /\ aborted' = "wrapped"
            /\ UNCHANGED <<free_list, elements, wasted>>
       ELSE Place(k, AlignedUp(k), shard_size, AlignedUp(k) - shard_size, free_list, taken)

Next ==
    \E k \in Kinds, taken \in BOOLEAN :
        \/ Grow(k, taken)
        \/ \E c \in free_list : Reuse(k, c, taken)

Spec == Init /\ [][Next]_vars

-----------------------------------------------------------------------------
Bytes(off, len) == off..(off + len - 1)

(***************************************************************************)
(* No two elements, and no element and hole, share a byte; everything is   *)
(* aligned and within the shard; and the space next to an element can      *)
(* always be cut into aligned chunks: the layout only ever fails for       *)
(* being full, however large and small elements were created in turn, some *)
(* too large for an offset and some refused while others still found room. *)
(***************************************************************************)
LayoutIsSound ==
    LET spans == {Bytes(e.off, e.len) : e \in elements} \cup {Bytes(c[2], c[1]) : c \in free_list}
    IN  /\ aborted # "bad chunk"
        /\ \A s, t \in spans : s = t \/ s \cap t = {}
        /\ Cardinality(spans) = Cardinality(elements) + Cardinality(free_list)
        /\ \A e \in elements : e.off % e.align = 0
        /\ aborted = "no" => \A s \in spans : s \subseteq 0..(shard_size - 1)
=============================================================================
