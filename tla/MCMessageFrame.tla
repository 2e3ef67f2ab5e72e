---------------------------- MODULE MCMessageFrame ----------------------------
(***************************************************************************)
(* A small instance of MessageFrame for TLC.  Keys are only compared with  *)
(* each other, and so are the values of header fields.                     *)
(***************************************************************************)
EXTENDS MessageFrameProps, TLC

Symmetry == Permutations(Key) \cup Permutations(Field)
=============================================================================
