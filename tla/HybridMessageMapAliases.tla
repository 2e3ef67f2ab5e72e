----------------------- MODULE HybridMessageMapAliases -----------------------
(***************************************************************************)
(* Calls of set() whose value argument is a reference into the container   *)
(* itself, as in map.set(device, "copy", *map.find(device, param)).  The   *)
(* lvalue overloads of add_impl() and add_flat() take the value by const   *)
(* reference and read it after convert_to_map() has moved the entries to   *)
(* the map and freed the vector, so that a reference into the vector no    *)
(* longer refers to anything.                                              *)
(***************************************************************************)
EXTENDS HybridMessageMap

CONSTANT NoCall   \* the last call was not a set(); not a record

VARIABLE lastSet   \* the last call, if it was a set(), with the value its
                   \* argument referred to when it was called

aliasVars == <<vars, lastSet>>

\* Whether inserting k converts c, which ends the life of what find() returned.
ConvertsFor(c, k) ==
    /\ ~Has(c, k)
    /\ c.is_vector_mode
    /\ Len(c.vector_storage) >= SMALL_CAPACITY

Remember(o, k, v) == lastSet' = [on |-> o, key |-> k, val |-> v]

\* map.set(k, *map.find(s)): what is read from the freed vector is any value.
SetOwn(o, k, s) ==
    /\ Usable(o)
    /\ Has(maps[o], s)
    /\ LET arg == Lookup(maps[o], s)
       IN  /\ Remember(o, k, arg)
           /\ \/ ~ConvertsFor(maps[o], k) /\ Set(o, k, arg)
              \/ ConvertsFor(maps[o], k) /\ \E v \in Val : Set(o, k, v)

AliasInit == Init /\ lastSet = NoCall

AliasNext ==
    \E o \in Object :
       \/ \E k \in Key, v \in Val : Set(o, k, v) /\ Remember(o, k, v)
       \/ \E k, s \in Key : SetOwn(o, k, s)
       \/ /\ \/ \E hint \in Hints : Construct(o, hint)
             \/ Destroy(o) \/ Clear(o)
             \/ \E k \in Key : Find(o, k)
          /\ lastSet' = NoCall

AliasSpec == AliasInit /\ [][AliasNext]_aliasVars

-----------------------------------------------------------------------------
\* README.md: beyond SMALL_CAPACITY the container switches to a hash map
\* "transparently ... the API doesn't change either way".  So after set(k, v),
\* find(k) gives the value v had at the call, wherever v is stored.
SetStoresItsArgument ==
    (status = "running" /\ lastSet # NoCall) =>
        Lookup(maps[lastSet.on], lastSet.key) = lastSet.val
=============================================================================
