--------------------------- MODULE MCParameterValue ---------------------------
(***************************************************************************)
(* Small instances of ParameterValue for TLC.                              *)
(***************************************************************************)
EXTENDS ParameterValue, TLC

\* Everything unpack() tells apart, with any payload.
MCAllWire == WireObject

Symmetry == Permutations(Slot) \cup Permutations(Data \ {Zero})
=============================================================================
