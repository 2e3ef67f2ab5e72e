-------------------------- MODULE MCHybridMessageMap --------------------------
(***************************************************************************)
(* Small instances of HybridMessageMapProps for TLC.                       *)
(***************************************************************************)
EXTENDS HybridMessageMapProps, TLC

CONSTANT MaxWire   \* the longest map an object is asked to unpack

\* Every map of up to MaxWire entries, duplicate keys included.
MCWires == UNION {[1 .. n -> Entry] : n \in 0 .. MaxWire}

\* The maps of up to MaxWire entries that pack() writes without duplicates.
MCDistinctWires == {w \in MCWires : IsDistinct(w)}

\* No hint, and one above the capacity.
MCHints == {0, SMALL_CAPACITY + 1}

DataSymmetry == Permutations(Key) \cup Permutations(Val)

Symmetry == DataSymmetry \cup Permutations(Object)
=============================================================================
