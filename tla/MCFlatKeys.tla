------------------------------ MODULE MCFlatKeys ------------------------------
(***************************************************************************)
(* FlatKeys with every name and every received key up to a length.         *)
(***************************************************************************)
EXTENDS FlatKeys

CONSTANTS MaxName, MaxKey

Strings(n) == UNION {[1 .. m -> Char] : m \in 0 .. n}

MCNames == Strings(MaxName)

MCWireKeys == Strings(MaxKey)
=============================================================================
