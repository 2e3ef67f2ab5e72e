------------------------ MODULE HybridMessageMapMemory ------------------------
(***************************************************************************)
(* One HybridMessageMap and its memory: the capacity of vector_storage,    *)
(* allocations that fail wherever the code makes one, and where entries    *)
(* are, on which a pointer returned by find() and an iterate() in progress *)
(* depend.  iterate() runs a callback of the program after each entry; the *)
(* callback may call the container again, so iterate() is the one member   *)
(* function modelled step by step.                                         *)
(*                                                                         *)
(* Release build.  Every other call is one action; the ways it can end are *)
(* a set of results.  Where an allocation depends on the length of a key   *)
(* or on the type of a value, both are possible.  A copy assignment that   *)
(* throws leaves a value with the tag of a string and no string: whatever  *)
(* destroys, moves, assigns or reads that value is undefined and ends the  *)
(* behaviour, and what does not touch it goes on.                          *)
(*                                                                         *)
(* Moves: the container is followed into the object it is moved to, or the *)
(* object is followed that it is moved out of or that another is moved to. *)
(***************************************************************************)
EXTENDS HybridContainer

CONSTANTS Unknown,   \* the value a move leaves of its source
          Broken,    \* a value that was half assigned
          Hints,     \* the values of FrameConfig::initial_reserve
          Wires,     \* the MessagePack maps that are unpacked
          Others,    \* the containers that are moved in, with their capacity
          Followed,  \* what is followed between calls: "pointer", "iterate"
          NoRef,     \* no pointer is kept
          NoWalk     \* no iterate() is in progress

ASSUME ValueAssumption == Unknown \in Val /\ Broken \in Val /\ Unknown # Broken
ASSUME HintsAssumption == Hints \subseteq Nat

\* What is unpacked is whole.
ASSUME WiresAssumption ==
    /\ Wires \subseteq Seq(Entry)
    /\ \A w \in Wires : \A i \in DOMAIN w : w[i].val # Broken

ASSUME OthersAssumption ==
    \A x \in Others : /\ x.map \in Container /\ x.room \in Nat
                      /\ x.map.is_vector_mode => OneStore(x.map)
                      /\ x.map.map_storage # NullPtr => IsFiniteSet(DOMAIN x.map.map_storage)

\* A vector that is full holds something.
ASSUME FullAssumption == SMALL_CAPACITY > 0

VARIABLES map,        \* the container
          room,       \* vector_storage.capacity()
          kept,       \* the last pointer that find() returned
          walk,       \* the iterate() in progress
          relocated,  \* it was moved since it was constructed or reset (for properties)
          ended       \* which call ended last, and how

vars == <<map, room, kept, walk, relocated, ended>>

Stores == {"vector", "map"}

Ref == [store : Stores, key : Key, at : Nat, dangling : BOOLEAN]

Walk == [store : Stores, order : Seq(Key), next : Nat, dangling : BOOLEAN]

ASSUME NoneAssumption == NoRef \notin Ref /\ NoWalk \notin Walk

\* How a call ends that is not the last: most say "ok", or throw.
Returns == {"ok", "exception", "cleared", "unpacked", "interrupted", "moved", "emptied",
            "received"}

Stops == {"destroyed", "terminated", "crashed", "undefined", "half_unpacked", "astray"}

MemoryTypeOK ==
    /\ map \in Container
    /\ room \in Nat
    /\ kept \in Ref \cup {NoRef}
    /\ walk \in Walk \cup {NoWalk}
    /\ relocated \in BOOLEAN
    /\ ended \in Returns \cup Stops

-----------------------------------------------------------------------------
StoreOf(c) == IF c.is_vector_mode THEN "vector" ELSE "map"

\* A migration that failed: map mode with entries left in the vector.
Torn(c) == ~c.is_vector_mode /\ c.vector_storage # << >>

\* Where c holds a value with the tag of a string and no string.
BrokenInVector(c) == \E i \in DOMAIN c.vector_storage : c.vector_storage[i].val = Broken

BrokenInMap(c) ==
    c.map_storage # NullPtr /\ \E k \in DOMAIN c.map_storage : c.map_storage[k] = Broken

BrokenIn(c) == BrokenInVector(c) \/ BrokenInMap(c)

\* How a call may end: moved are the stores whose entries are no longer where
\* they were, reallocated or destroyed.
Result(c, r, moved, how) == [map |-> c, room |-> r, moved |-> moved, how |-> how]

\* A broken value is destroyed, moved, assigned or read.
Undefined(c, r) == Result(c, r, {}, "undefined")

\* The capacities a vector of capacity r may have that has grown to n elements.
GrownTo(r, n) == IF n <= r THEN {r} ELSE n .. 2 * n - 1

\* emplace_back(): the key, the value or a larger buffer may not be allocated; a
\* larger buffer takes every value along.
PushResults(c, r, k, v) ==
    {Result(c, r, {}, "exception")}
    \cup {IF new # r /\ BrokenInVector(c) THEN Undefined(c, r)
          ELSE Result(Insert(c, k, v), new, IF new = r THEN {} ELSE {"vector"}, "ok") :
             new \in GrownTo(r, Len(c.vector_storage) + 1)}

\* robin_map::emplace() of c in map mode, after the stores in moved have moved: a
\* new key may displace entries or all of them.
EmplaceResults(c, r, k, v, moved) ==
    {Result(c, r, moved, "exception"),
     Result(Insert(c, k, v), r, IF Has(c, k) THEN moved ELSE moved \cup {"map"}, "ok")}
    \cup {x \in {Undefined(c, r)} : ~Has(c, k) /\ BrokenInMap(c)}

\* convert_to_map() when the map has been allocated and n entries moved to it.
TornAt(c, n) ==
    LET MovedOutOf(e) == [e EXCEPT !.val = Unknown]
        s == c.vector_storage
    IN  [c EXCEPT !.is_vector_mode = FALSE,
                  !.vector_storage = [i \in DOMAIN s |-> IF i <= n THEN MovedOutOf(s[i]) ELSE s[i]],
                  !.map_storage    = Emplace(AllocatedMap(c), SubSeq(s, 1, n))]

\* A mutant of FailedConversions: is_vector_mode is cleared last.
FailedConversionsFlagLast(c) ==
    {c} \cup {[TornAt(c, n) EXCEPT !.is_vector_mode = TRUE] :
                  n \in {0} \cup 1 .. Len(c.vector_storage) - 1}

\* is_vector_mode is cleared first; then the map, its buckets, or the copy of the
\* key of one of the entries cannot be allocated, before a broken value is moved.
FailedConversions(c) ==
    {[c EXCEPT !.is_vector_mode = FALSE]}
    \cup {TornAt(c, n) : n \in {m \in {0} \cup 1 .. Len(c.vector_storage) - 1 :
                                   \A i \in 1 .. m : c.vector_storage[i].val # Broken}}

\* convert_to_map() and the emplace() after it.  shrink_to_fit() need not free the
\* vector's buffer.
ConversionResults(c, r, k, v) ==
    {Result(d, r, {}, "exception") : d \in FailedConversions(c)}
    \cup IF BrokenInVector(c) THEN {Undefined(c, r)}
         ELSE UNION {EmplaceResults(ConvertToMap(c), new, k, v, {"vector"}) : new \in {0, r}}

\* A mutant of InsertResults: the vector is migrated with one place left.
InsertResultsEarly(c, r, k, v) ==
    IF ~c.is_vector_mode THEN EmplaceResults(c, r, k, v, {})
    ELSE IF Len(c.vector_storage) < SMALL_CAPACITY - 1 THEN PushResults(c, r, k, v)
    ELSE ConversionResults(c, r, k, v)

\* add_impl(), add_flat().
InsertResults(c, r, k, v) ==
    IF ~c.is_vector_mode THEN EmplaceResults(c, r, k, v, {})
    ELSE IF Len(c.vector_storage) < SMALL_CAPACITY THEN PushResults(c, r, k, v)
    ELSE ConversionResults(c, r, k, v)

\* A mutant of AssignResults: the entry is erased and inserted again.
AssignResultsReinsert(c, r, k, v) ==
    {Result(Assign(c, k, v), r, {StoreOf(c)}, "ok"),
     Result(Assign(c, k, Broken), r, {}, "exception")}

\* *found = val: what is found is destroyed first; a copy assignment that throws
\* has set its tag.
AssignResults(c, r, k, v) ==
    IF Lookup(c, k) = Broken THEN {Undefined(c, r)}
    ELSE {Result(Assign(c, k, v), r, {}, "ok"),
          Result(Assign(c, k, Broken), r, {}, "exception")}

-----------------------------------------------------------------------------
\* A mutant of ClearResults: the vector is not cleared.
ClearResultsKeepVector(c, r) ==
    LET reserved == IF r < SMALL_CAPACITY THEN SMALL_CAPACITY ELSE r
    IN  {Result([Cleared(c) EXCEPT !.vector_storage = c.vector_storage], reserved, {"map"},
                "cleared")}

\* A mutant of ClearResults: prime_storage() does not reserve for the vector.
ClearResultsUnreserved(c, r) == {Result(Cleared(c), r, Stores, "cleared")}

\* A mutant of ClearResults: clear() does not catch what prime_storage() throws.
ClearResultsUncaught(c, r) ==
    LET hinted == c.initial_reserve > SMALL_CAPACITY
        reserved == IF r < SMALL_CAPACITY THEN SMALL_CAPACITY ELSE r
    IN  {Result(Cleared(c), IF hinted THEN r ELSE reserved, Stores, "cleared")}
        \cup {x \in {Result(Cleared(c), r, Stores, "terminated")} :
                 hinted \/ r < SMALL_CAPACITY}

\* clear() is noexcept.  It destroys every value.  If the map of a hinted container
\* cannot be allocated, the container is left in vector mode; the reserve() for it
\* may fail in turn, and then, or if it fails twice in a container without a hint,
\* the process ends.
ClearResults(c, r) ==
    LET lazy == [PrimeStorage(0) EXCEPT !.initial_reserve = c.initial_reserve]
        hinted == c.initial_reserve > SMALL_CAPACITY
        reserved == IF r < SMALL_CAPACITY THEN SMALL_CAPACITY ELSE r
    IN  IF BrokenIn(c) THEN {Undefined(c, r)}
        ELSE {Result(Cleared(c), IF hinted THEN r ELSE reserved, Stores, "cleared"),
              Result(lazy, reserved, Stores, "cleared")}
             \cup {x \in {Result(lazy, r, Stores, "terminated")} : r < SMALL_CAPACITY}

\* unpack() of a MAP object; a map that cannot be allocated leaves e or an empty map.
\* The value that fails has the tag of a string or not: it is a local of the loop
\* and is destroyed.
UnpackResults(c, r, w, n) ==
    LET how == IF n < Len(w) THEN "interrupted" ELSE "unpacked"
        Filling(e) ==
            IF Len(w) > SMALL_CAPACITY
            THEN {Result(Filled(e.map, w, n), e.room, Stores, how),
                  Result(e.map, e.room, Stores, "interrupted"),
                  Result([e.map EXCEPT !.map_storage = AllocatedMap(e.map)], e.room,
                         Stores, "interrupted")}
            ELSE {Result(Filled(e.map, w, n), new, Stores, how) : new \in GrownTo(e.room, n)}
        Failing == {x \in {Result(c, r, {}, "half_unpacked")} : n < Len(w)}
    IN  UNION {IF e.how = "cleared" THEN Filling(e) \cup Failing ELSE {e} :
                  e \in ClearResults(c, r)}

-----------------------------------------------------------------------------
Running == ended \in Returns

Dangles(x, none, moved) ==
    IF x # none /\ x.store \in moved THEN [x EXCEPT !.dangling = TRUE] ELSE x

Ends(results) ==
    \E res \in results :
       /\ map' = res.map
       /\ room' = res.room
       /\ ended' = res.how
       /\ kept' = Dangles(kept, NoRef, res.moved)
       /\ walk' = Dangles(walk, NoWalk, res.moved)

Stop(how) == ended' = how /\ UNCHANGED <<map, room, kept, walk, relocated>>

\* The calls that need the map of a container whose migration or a move left none.
UseHollow == Running /\ Hollow(map) /\ Stop("crashed")

\* find(device, param) is noexcept and composes the key in a string in map mode.
LookupTerminates == Running /\ ~map.is_vector_mode /\ Stop("terminated")

Usable == Running /\ ~Hollow(map)

Add(k, v) == Usable /\ Ends(InsertResults(map, room, k, v)) /\ UNCHANGED relocated

Set(k, v) ==
    /\ Usable
    /\ \/ Has(map, k) /\ Ends(AssignResults(map, room, k, v))
       \/ ~Has(map, k) /\ Ends(InsertResults(map, room, k, v))
    /\ UNCHANGED relocated

Update(k, v) ==
    /\ Usable
    /\ \/ Has(map, k) /\ Ends(AssignResults(map, room, k, v))
       \/ ~Has(map, k) /\ Ends({Result(map, room, {}, "ok")})
    /\ UNCHANGED relocated

\* The pointer that is returned is kept, if any is followed.  Either a pointer or
\* an iterate() is followed, never both, which bounds the model.
Find(k) ==
    /\ Usable
    /\ walk = NoWalk
    /\ kept' = IF ~Has(map, k) \/ "pointer" \notin Followed THEN NoRef
               ELSE [store    |-> StoreOf(map),
                     key      |-> k,
                     at       |-> IF map.is_vector_mode THEN FirstIndex(map.vector_storage, k) ELSE 0,
                     dangling |-> FALSE]
    /\ ended' = "ok"
    /\ UNCHANGED <<map, room, walk, relocated>>

\* pack() reads every value of the store in use; its buffer may not be allocated.
Pack ==
    /\ Usable
    /\ LET broken == IF map.is_vector_mode THEN BrokenInVector(map) ELSE BrokenInMap(map)
       IN  Ends({Result(map, room, {}, "exception"),
                 IF broken THEN Undefined(map, room) ELSE Result(map, room, {}, "ok")})
    /\ UNCHANGED relocated

Clear == Running /\ Ends(ClearResults(map, room)) /\ relocated' = FALSE

Unpack(w, n) == Running /\ Ends(UnpackResults(map, room, w, n)) /\ relocated' = FALSE

\* The container is moved to an object that is constructed, without a hint, or
\* assigned and whole, with its own hint; entries stay where they are.
Relocate(hint) ==
    /\ Running
    /\ map' = [map EXCEPT !.initial_reserve = hint]
    /\ relocated' = TRUE
    /\ ended' = "moved"
    /\ UNCHANGED <<room, kept, walk>>

\* The container is moved to an object that is not followed, nor are its entries.
MoveOut ==
    /\ Running
    /\ walk = NoWalk
    /\ map' = MovedOut(map)
    /\ room' = 0
    /\ kept' = NoRef
    /\ relocated' = TRUE
    /\ ended' = "emptied"
    /\ UNCHANGED walk

\* The container x is assigned to this one, whose values are destroyed.
MoveIn(x) ==
    /\ Running
    /\ Ends({IF BrokenIn(map) THEN Undefined(map, room)
             ELSE Result([x.map EXCEPT !.initial_reserve = map.initial_reserve], x.room,
                         Stores, "received")})
    /\ relocated' = TRUE

\* The destructor destroys every value; an iterate() does not survive it.
Destroy ==
    /\ Running
    /\ Stop(IF BrokenIn(map) THEN "undefined"
            ELSE IF walk # NoWalk THEN "astray" ELSE "destroyed")

\* iterate(): the entries that the loop will visit, in their order.  A callback
\* does not start another iterate(), which bounds the model.
StartWalk ==
    /\ "iterate" \in Followed
    /\ Running
    /\ walk = NoWalk
    /\ ~Hollow(map)
    /\ \E t \in Traversals(map) :
          walk' = [store    |-> StoreOf(map),
                   order    |-> [i \in DOMAIN t |-> t[i].key],
                   next     |-> 1,
                   dangling |-> FALSE]
    /\ kept' = NoRef
    /\ ended' = "ok"
    /\ UNCHANGED <<map, room, relocated>>

\* The loop advances to the next entry and calls back.
Visit ==
    /\ Running
    /\ walk # NoWalk /\ ~walk.dangling
    /\ walk.next <= Len(walk.order)
    /\ walk' = [walk EXCEPT !.next = @ + 1]
    /\ UNCHANGED <<map, room, kept, relocated, ended>>

EndWalk ==
    /\ Running
    /\ walk # NoWalk /\ ~walk.dangling
    /\ walk.next > Len(walk.order)
    /\ walk' = NoWalk
    /\ UNCHANGED <<map, room, kept, relocated, ended>>

\* The loop goes on with an iterator of a store that was moved or destroyed.
WalkAstray == Running /\ walk # NoWalk /\ walk.dangling /\ Stop("astray")

Init ==
    /\ \E hint \in Hints :
          /\ map = PrimeStorage(hint)
          /\ room = IF hint > SMALL_CAPACITY THEN 0 ELSE SMALL_CAPACITY
    /\ kept = NoRef
    /\ walk = NoWalk
    /\ relocated = FALSE
    /\ ended = "ok"

Writes == \E k \in Key, v \in Val \ {Broken} : Add(k, v) \/ Set(k, v) \/ Update(k, v)

Resets == Clear \/ \E w \in Wires : \E n \in 0 .. Len(w) : Unpack(w, n)

Receives == \E x \in Others : MoveIn(x)

Moves == (\E hint \in Hints \cup {0} : Relocate(hint)) \/ MoveOut \/ Receives

WalkStep == Visit \/ EndWalk \/ WalkAstray

Next ==
    \/ Writes
    \/ \E k \in Key : Find(k)
    \/ Pack \/ UseHollow \/ LookupTerminates \/ Resets
    \/ Moves \/ Destroy \/ StartWalk \/ WalkStep

Spec == Init /\ [][Next]_vars

-----------------------------------------------------------------------------
Reads(ref) == IF ref.store = "vector" THEN map.vector_storage[ref.at].val
                                      ELSE map.map_storage[ref.key]

\* As long as nothing has moved the store it points into, a pointer from find()
\* reads what find() would answer now, after other keys were inserted, values
\* assigned, calls failed and the container itself was moved; only a migration that
\* failed, which leaves the container in neither mode, is excepted (find,
\* emplace_back, update_impl, the moves).
KeptReferenceHolds ==
    (kept # NoRef /\ ~kept.dangling /\ ~Torn(map)) =>
        /\ kept.store = StoreOf(map)
        /\ Has(map, kept.key)
        /\ Reads(kept) = Lookup(map, kept.key)

\* The container has its buffer from prime_storage(): it has no hint, and was not
\* moved since.
Primed == map.initial_reserve <= SMALL_CAPACITY /\ ~relocated

\* Which calls end the life of what find() returned: clear(), unpack() and a move
\* into the container; in map mode the insertion of a new key; in vector mode only
\* the migration, unless a hint or a move has left the vector without the reserve
\* (add_impl, prime_storage, move constructor).  set() and update() of a present
\* key, and moves of the container itself, never do.
ReferencesDangleOnlyBy ==
    [][(kept # NoRef /\ ~kept.dangling /\ kept' = [kept EXCEPT !.dangling = TRUE]) =>
          \/ Resets \/ Receives
          \/ kept.store = "map" /\ StoredKeys(map') # StoredKeys(map)
          \/ map.is_vector_mode /\ ~map'.is_vector_mode
          \/ ~Primed /\ Len(map'.vector_storage) > room]_vars

\* Whatever the callbacks called, an iterate() that nothing moved under finds every
\* entry it has yet to visit where it was when it started (iterate).
WalkStaysOnEntries ==
    (walk # NoWalk /\ ~walk.dangling) =>
        \A i \in walk.next .. Len(walk.order) :
            IF walk.store = "vector"
            THEN i <= Len(map.vector_storage) /\ map.vector_storage[i].key = walk.order[i]
            ELSE walk.order[i] \in DOMAIN map.map_storage

\* architecture.md: the vector "keeps insertion allocation-free": in vector mode
\* all of SMALL_CAPACITY is reserved.  It holds of every container without a hint
\* that was not moved since it was constructed or reset, through migrations,
\* unpacking and failures, and every reset of a moved one establishes it again
\* (prime_storage, clear).  A container with a hint that unpacks a small map, and
\* one that is moved, is in vector mode with whatever it has.
ReserveHolds == (Running /\ map.is_vector_mode /\ Primed) => room >= SMALL_CAPACITY

\* What noexcept makes of an allocation that fails: clear() and unpack() end the
\* process only in map mode or where a hint or a move has left the vector without
\* the reserve; find(), and set() and update() through it, only in map mode (clear,
\* find, move constructor).
TerminatesOnlyBy ==
    [][(ended' = "terminated" /\ Running) =>
          ~map.is_vector_mode \/ (~Primed /\ room < SMALL_CAPACITY)]_vars

\* A call that throws leaves every parameter but its own as it was, and its own as
\* it was or broken, with one exception: the insertion that finds the vector full.
\* It alone can leave the container torn, or without any store (add_impl,
\* convert_to_map, update_impl).
FailuresAreContained ==
    [][(Writes /\ ended' = "exception") =>
          \/ /\ map.is_vector_mode
             /\ Len(map.vector_storage) >= SMALL_CAPACITY
             /\ Torn(map')
          \/ /\ ~Hollow(map')
             /\ Torn(map') <=> Torn(map)
             /\ StoredKeys(map') = StoredKeys(map)
             /\ \E own \in Key :
                   /\ Lookup(map', own) \in {Lookup(map, own), Broken}
                   /\ \A k \in Key \ {own} : Lookup(map', k) = Lookup(map, k)]_vars

\* A container with one store in use and no broken value.
Whole(c) == ~Hollow(c) /\ ~Torn(c) /\ OneStore(c) /\ ~BrokenIn(c)

\* clear() and unpack() that return or throw have made the container whole, even a
\* torn one and even if they ran out of memory themselves; it holds nothing, or all
\* of the map received, or, when unpack() threw, the entries before some entry of
\* it, and nothing from before the call (clear, unpack).
ClearRepairs ==
    [][/\ (Clear /\ ended' = "cleared") => Whole(map') /\ Contents(map') = EmptyMap
       /\ \A w \in Wires : \A n \in 0 .. Len(w) : Unpack(w, n) =>
             /\ ended' = "unpacked" => Whole(map') /\ Contents(map') = FirstWins(w)
             /\ ended' = "interrupted" =>
                   /\ Whole(map')
                   /\ \E i \in 0 .. Len(w) - 1 :
                         Contents(map') = FirstWins(SubSeq(w, 1, i))]_vars

\* What a container is to its callers, unusable or a dictionary.
SeenOf(c) == IF Hollow(c) THEN NullPtr ELSE Contents(c)

Abstract == INSTANCE FallibleMap
    WITH Lost     <- NullPtr,
         contents <- SeenOf(map),
         settled  <- ~map.is_vector_mode,
         broken   <- BrokenIn(map),
         Received <- {[contents |-> SeenOf(x.map),
                       settled  |-> ~x.map.is_vector_mode,
                       broken   |-> BrokenIn(x.map)] : x \in Others}

\* A call that returns has done its work on the dictionary completely, whatever
\* allocations failed in it or before it; parameters other than a call's own are
\* lost at most once between two resets; and what a throwing assignment has broken
\* is the end of no call that does not destroy, move, assign or read it
\* (convert_to_map, clear, unpack, ParameterValue::operator=, the moves).
ImplementsFallibleMap == Abstract!Spec
=============================================================================
