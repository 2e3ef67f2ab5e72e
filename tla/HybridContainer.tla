--------------------------- MODULE HybridContainer ---------------------------
(***************************************************************************)
(* One HybridMessageMap object as a value, and its member functions as     *)
(* operators from the object before the call to the object after it.       *)
(*                                                                         *)
(* A container keeps its parameters in vector_storage while there are few  *)
(* of them (vector mode) and in a robin_map behind the pointer map_storage *)
(* once SMALL_CAPACITY is exceeded (map mode).                             *)
(***************************************************************************)
EXTENDS Entries, FiniteSets

CONSTANTS SMALL_CAPACITY,   \* how many parameters the vector may hold
          NullPtr           \* the null map_storage, and find()'s "no such key"

ASSUME CapacityAssumption == SMALL_CAPACITY \in Nat
ASSUME NullPtrAssumption == NullPtr \notin Dictionary /\ NullPtr \notin Val

Container == [is_vector_mode  : BOOLEAN,
              vector_storage  : Seq(Entry),
              map_storage     : Dictionary \cup {NullPtr},
              initial_reserve : Nat]                     \* cfg_

\* In map mode every access goes through map_storage, which is null only in an
\* object whose map was moved out of it.
Hollow(c) == ~c.is_vector_mode /\ c.map_storage = NullPtr

\* Only one store of c is in use, and the vector is not outgrown.
OneStore(c) ==
    IF c.is_vector_mode
    THEN /\ Len(c.vector_storage) <= SMALL_CAPACITY
         /\ c.map_storage \in {NullPtr, EmptyMap}
    ELSE c.vector_storage = << >>

StoredKeys(c) ==
    IF c.is_vector_mode THEN KeysOf(c.vector_storage) ELSE DOMAIN c.map_storage

Has(c, k) == k \in StoredKeys(c)

\* find(), find_flat(), map_find_mutable().
Lookup(c, k) ==
    IF ~Has(c, k) THEN NullPtr
    ELSE IF c.is_vector_mode
         THEN c.vector_storage[FirstIndex(c.vector_storage, k)].val
         ELSE c.map_storage[k]

Size(c) == IF c.is_vector_mode
           THEN Len(c.vector_storage)
           ELSE Cardinality(DOMAIN c.map_storage)

\* A mutant of PrimeStorage: only the excess over the vector's capacity is kept.
PrimeStorageKeepsExcess(hint) ==
    [is_vector_mode  |-> hint <= SMALL_CAPACITY,
     vector_storage  |-> << >>,
     map_storage     |-> IF hint <= SMALL_CAPACITY THEN NullPtr ELSE EmptyMap,
     initial_reserve |-> hint - SMALL_CAPACITY]

\* A hint above SMALL_CAPACITY selects map mode from the start.
PrimeStorage(hint) ==
    [is_vector_mode  |-> hint <= SMALL_CAPACITY,
     vector_storage  |-> << >>,
     map_storage     |-> IF hint <= SMALL_CAPACITY THEN NullPtr ELSE EmptyMap,
     initial_reserve |-> hint]

\* A mutant of Cleared: both stores are reset, but not the mode.
ClearedKeepsMode(c) ==
    [PrimeStorage(c.initial_reserve) EXCEPT !.is_vector_mode = c.is_vector_mode]

\* clear() empties both stores and primes them again with the object's hint.
Cleared(c) == PrimeStorage(c.initial_reserve)

\* "if (!map_storage) map_storage = make_unique": an allocated map is reused.
AllocatedMap(c) == IF c.map_storage = NullPtr THEN EmptyMap ELSE c.map_storage

\* The vector's entries are emplaced into the map in order, so that of several
\* entries for one key the first survives.
ConvertToMap(c) ==
    [c EXCEPT !.is_vector_mode = FALSE,
              !.vector_storage = << >>,
              !.map_storage    = Emplace(AllocatedMap(c), c.vector_storage)]

\* A mutant of Insert: the vector takes one entry too many.
InsertOffByOne(c, k, v) ==
    IF c.is_vector_mode /\ Len(c.vector_storage) <= SMALL_CAPACITY
    THEN [c EXCEPT !.vector_storage = Append(@, [key |-> k, val |-> v])]
    ELSE LET m == IF c.is_vector_mode THEN ConvertToMap(c) ELSE c
         IN  [m EXCEPT !.map_storage = Emplace(@, << [key |-> k, val |-> v] >>)]

\* A mutant of Insert: insert_or_assign() instead of emplace() in map mode.
InsertOverwrites(c, k, v) ==
    IF c.is_vector_mode /\ Len(c.vector_storage) < SMALL_CAPACITY
    THEN [c EXCEPT !.vector_storage = Append(@, [key |-> k, val |-> v])]
    ELSE LET m == IF c.is_vector_mode THEN ConvertToMap(c) ELSE c
         IN  [m EXCEPT !.map_storage = [x \in DOMAIN @ \cup {k} |-> IF x = k THEN v ELSE @[x]]]

\* A mutant of Insert: a new parameter goes to the front of the vector.
InsertInFront(c, k, v) ==
    IF c.is_vector_mode /\ Len(c.vector_storage) < SMALL_CAPACITY
    THEN [c EXCEPT !.vector_storage = << [key |-> k, val |-> v] >> \o @]
    ELSE LET m == IF c.is_vector_mode THEN ConvertToMap(c) ELSE c
         IN  [m EXCEPT !.map_storage = Emplace(@, << [key |-> k, val |-> v] >>)]

\* The tail of add_impl() and add_flat(), after the Debug assertion.
Insert(c, k, v) ==
    IF c.is_vector_mode /\ Len(c.vector_storage) < SMALL_CAPACITY
    THEN [c EXCEPT !.vector_storage = Append(@, [key |-> k, val |-> v])]
    ELSE LET m == IF c.is_vector_mode THEN ConvertToMap(c) ELSE c
         IN  [m EXCEPT !.map_storage = Emplace(@, << [key |-> k, val |-> v] >>)]

\* A mutant of Assign: in the vector, the entry is erased and inserted again.
AssignReinserts(c, k, v) ==
    LET NotOf(e) == e.key # k
    IN  IF c.is_vector_mode
        THEN [c EXCEPT !.vector_storage =
                 Append(SelectSeq(@, NotOf), [key |-> k, val |-> v])]
        ELSE [c EXCEPT !.map_storage[k] = v]

\* *found = val, the common end of set_impl() and update_impl().
Assign(c, k, v) ==
    IF c.is_vector_mode
    THEN [c EXCEPT !.vector_storage = Overwrite(@, k, v)]
    ELSE [c EXCEPT !.map_storage[k] = v]

\* A mutant of Unpacked: no "else is_vector_mode = true" for a small map.
UnpackedKeepsMode(c, w, n) ==
    LET e == Cleared(c)
        decoded == SubSeq(w, 1, n)
    IN  IF Len(w) > SMALL_CAPACITY
        THEN [e EXCEPT !.is_vector_mode = FALSE,
                       !.map_storage    = Emplace(AllocatedMap(e), decoded)]
        ELSE [e EXCEPT !.vector_storage = decoded]

\* The rest of unpack() of a MAP object w after clear() has made e: the mode is
\* chosen by the size of the whole map; entry n + 1 does not decode, or n = Len(w).
Filled(e, w, n) ==
    LET decoded == SubSeq(w, 1, n)
    IN  IF Len(w) > SMALL_CAPACITY
        THEN [e EXCEPT !.is_vector_mode = FALSE,
                       !.map_storage    = Emplace(AllocatedMap(e), decoded)]
        ELSE [e EXCEPT !.is_vector_mode = TRUE,
                       !.vector_storage = decoded]

Unpacked(c, w, n) == Filled(Cleared(c), w, n)

\* A mutant of MovedOut: the vector is copied instead of moved.
MovedOutCopiesVector(c) == [c EXCEPT !.map_storage = NullPtr]

\* What a move leaves of its source: is_vector_mode is copied, not reset.
MovedOut(c) == [c EXCEPT !.vector_storage = << >>, !.map_storage = NullPtr]

\* A mutant of Traversals: the vector is traversed in either mode.
TraversalsOfVector(c) == {c.vector_storage}

\* The sequences of entries iterate() may visit and pack() may write: the
\* vector in order, the map in any order.
Traversals(c) ==
    IF c.is_vector_mode THEN {c.vector_storage}
    ELSE LET keys == DOMAIN c.map_storage
             orders == {f \in [1 .. Cardinality(keys) -> keys] :
                           \A i, j \in DOMAIN f : f[i] = f[j] => i = j}
         IN  {[i \in DOMAIN f |-> [key |-> f[i], val |-> c.map_storage[f[i]]]] :
                 f \in orders}

\* The dictionary a usable container stands for.
Contents(c) == IF c.is_vector_mode THEN FirstWins(c.vector_storage)
                                   ELSE c.map_storage
=============================================================================
