---------------------------- MODULE ComplexVector ----------------------------
(***************************************************************************)
(* complex_vector: values in the blocks of a vector or of a cached file    *)
(* (CachedFile).  With large blocks many values share a block, and those of*)
(* the block not yet full wait in memory; the node log is of this kind.    *)
(* With small blocks a value takes several, and none waits.                *)
(***************************************************************************)
EXTENDS Integers, Sequences

CONSTANTS
    Values,
    UseLargeBlocks,
    ElementsPerBlock,  \* m_elementsPerBlock, with large blocks
    ElementSize        \* m_elementSize, the blocks a value takes, with small ones

VARIABLES
    data,  \* m_data: the blocks
    back,  \* m_cache: the values of the block not yet full
    size   \* m_size, with large blocks

vectorVars == <<data, back, size>>
-----------------------------------------------------------------------------
PushLarge(v) ==
    /\ size' = size + 1
    /\ IF Len(back) + 1 = ElementsPerBlock
       THEN data' = Append(data, Append(back, v)) /\ back' = << >>
       ELSE back' = Append(back, v) /\ UNCHANGED data

GetLarge(i) ==
    LET block  == i \div ElementsPerBlock
        offset == i % ElementsPerBlock
    IN  IF block < Len(data) THEN data[block + 1][offset + 1] ELSE back[offset + 1]

(* A value as it is written: ElementSize blocks, each with its part of it. *)
Parts(v) == [p \in 1..ElementSize |-> <<v, p>>]

PushSmall(v) ==
    /\ data' = data \o Parts(v)
    /\ UNCHANGED <<back, size>>

(* As many blocks as a value takes are read, from this one on. *)
ElementAddress(i) == i \div ElementSize

GetSmall(i) == [p \in 1..ElementSize |-> data[ElementAddress(i) + p]]

Size == IF UseLargeBlocks THEN size ELSE Len(data) \div ElementSize

GetValue(i) == IF UseLargeBlocks THEN GetLarge(i) ELSE GetSmall(i)

Pushed(v) == IF UseLargeBlocks THEN v ELSE Parts(v)

Push(v) == IF UseLargeBlocks THEN PushLarge(v) ELSE PushSmall(v)

VectorInit == data = << >> /\ back = << >> /\ size = 0

VectorNext == \E v \in Values : Push(v)

VectorSpec == VectorInit /\ [][VectorNext]_vectorVars
-----------------------------------------------------------------------------
Contents == [i \in 1..Size |-> GetValue(i - 1)]

(* The vector is an array: a value is read back at the place it was pushed *)
(* to, whatever is pushed later (test_complex_vector.cpp:96).              *)
PushAppends ==
    [][\E v \in Values : Push(v) /\ Contents' = Append(Contents, Pushed(v))]_vectorVars
=============================================================================
