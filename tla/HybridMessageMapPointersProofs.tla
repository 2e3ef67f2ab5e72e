-------------------- MODULE HybridMessageMapPointersProofs --------------------
(***************************************************************************)
(* HybridMessageMapMemory for every value of its constants: what a pointer *)
(* from find() and an iterate() in progress may rely on.                   *)
(***************************************************************************)
EXTENDS HybridMessageMapMemoryProofs

\* A call from c to d left the stores that are not in moved where they were.
Stays(c, d, moved) ==
    /\ "vector" \notin moved =>
          /\ Len(c.vector_storage) <= Len(d.vector_storage)
          /\ \A i \in 1 .. Len(c.vector_storage) :
                d.vector_storage[i].key = c.vector_storage[i].key
          /\ Torn(c) => Torn(d)
          /\ c.is_vector_mode => d.is_vector_mode \/ Torn(d)
    /\ ("map" \notin moved /\ ~c.is_vector_mode) =>
          /\ ~d.is_vector_mode /\ ~Hollow(d)
          /\ DOMAIN c.map_storage \subseteq DOMAIN d.map_storage

\* What ReferencesDangleOnlyBy gives as reasons to move a store, in a container that
\* was itself moved or was not.
Reason(c, r, was, d, store) ==
    \/ store = "map" /\ StoredKeys(d) # StoredKeys(c)
    \/ c.is_vector_mode /\ ~d.is_vector_mode
    \/ ~(c.initial_reserve <= SMALL_CAPACITY /\ ~was) /\ Len(d.vector_storage) > r

\* Both for a result.
Respects(c, r, was, x) ==
    Stays(c, x.map, x.moved) /\ \A store \in x.moved : Reason(c, r, was, x.map, store)

-----------------------------------------------------------------------------
(***************************************************************************)
(* Every insertion and assignment respects what points into the stores.    *)
(***************************************************************************)
LEMMA VectorFacts ==
    ASSUME NEW c, Sound(c)
    PROVE  /\ c \in Container /\ c.vector_storage \in Seq(Entry)
           /\ Len(c.vector_storage) \in Nat
           /\ DOMAIN c.vector_storage = 1 .. Len(c.vector_storage)
           /\ \A i \in 1 .. Len(c.vector_storage) : c.vector_storage[i] \in Entry
           /\ c.is_vector_mode \in BOOLEAN
<1>1. c \in Container /\ c.vector_storage \in Seq(Entry) /\ c.is_vector_mode \in BOOLEAN
  BY DEF Sound, Container
<1> QED BY <1>1, LenProperties, ElementOfSeq

LEMMA StaysMore ==
    ASSUME NEW c, NEW d, NEW moved, Stays(c, d, {})
    PROVE  Stays(c, d, moved)
BY DEF Stays

LEMMA StaysSame ==
    ASSUME NEW c, Sound(c), ~Hollow(c), NEW moved
    PROVE  Stays(c, c, moved)
BY VectorFacts DEF Stays

LEMMA PushRespects ==
    ASSUME NEW c, Sound(c), c.is_vector_mode, Len(c.vector_storage) < SMALL_CAPACITY,
           NEW r \in Nat, NEW was, Reserved(c, r, was), NEW k \in Key, NEW v \in Val,
           NEW x \in PushResults(c, r, k, v)
    PROVE  Respects(c, r, was, x)
<1>1. ~Hollow(c)
  BY DEF Hollow
<1>2. CASE x = Result(c, r, {}, "exception")
  BY <1>1, <1>2, ResultFields, StaysSame DEF Respects
<1>4. CASE x = Undefined(c, r)
  BY <1>1, <1>4, UndefinedFields, StaysSame DEF Respects
<1>3. ASSUME NEW new \in GrownTo(r, Len(c.vector_storage) + 1),
             x = Result(Insert(c, k, v), new, IF new = r THEN {} ELSE {"vector"}, "ok")
      PROVE  Respects(c, r, was, x)
  <2> DEFINE e == [key |-> k, val |-> v]
             s == Append(c.vector_storage, e)
             d == Insert(c, k, v)
  <2>1. e \in Entry
    BY DEF Entry
  <2>2. /\ s \in Seq(Entry) /\ Len(s) = Len(c.vector_storage) + 1
        /\ \A i \in 1 .. Len(c.vector_storage) : s[i] = c.vector_storage[i]
    BY <2>1, VectorFacts, AppendProperties
  <2>3. d = [c EXCEPT !.vector_storage = s]
    BY DEF Insert
  <2> HIDE DEF s
  <2>4. d.vector_storage = s /\ d.is_vector_mode
    BY <2>3, VectorFacts DEF Container
  <2> HIDE DEF d
  <2>5. Stays(c, d, {})
    BY <2>2, <2>4, VectorFacts DEF Stays, Torn
  <2>6. x.map = d /\ x.moved = IF new = r THEN {} ELSE {"vector"}
    BY <1>3, ResultFields DEF d
  <2>7. ASSUME new # r PROVE Reason(c, r, was, d, "vector")
    <3>1. Len(c.vector_storage) + 1 > r
      BY <2>7, VectorFacts DEF GrownTo
    <3>2. SMALL_CAPACITY \in Nat
      BY CapacityAssumption
    <3>3. ~(c.initial_reserve <= SMALL_CAPACITY /\ ~was)
      BY <3>1, <3>2, VectorFacts DEF Reserved
    <3> QED BY <2>2, <2>4, <3>1, <3>3 DEF Reason
  <2> QED BY <2>5, <2>6, <2>7, StaysMore DEF Respects
<1> QED BY <1>2, <1>3, <1>4 DEF PushResults

\* emplace() in map mode, and what it adds to the stores that had moved before.
LEMMA EmplaceStays ==
    ASSUME NEW c, Sound(c), ~c.is_vector_mode, ~Hollow(c), NEW k \in Key, NEW v \in Val
    PROVE  LET d == Insert(c, k, v)
           IN  /\ Stays(c, d, {}) /\ ~d.is_vector_mode
               /\ ~Has(c, k) => StoredKeys(d) # StoredKeys(c)
<1> DEFINE m == Emplace(c.map_storage, << [key |-> k, val |-> v] >>)
           d == Insert(c, k, v)
<1>1. c.map_storage \in Dictionary
  BY VectorFacts DEF Container, Hollow
<1>2. DOMAIN m = DOMAIN c.map_storage \cup {k}
  <2> DEFINE s == << [key |-> k, val |-> v] >>
  <2>1. s \in Seq(Entry)
    BY SingleEntry
  <2>2. KeysOf(s) = {k}
    BY DEF KeysOf
  <2> HIDE DEF s
  <2> QED BY <1>1, <2>1, <2>2, EmplaceType DEF s
<1>3. d = [c EXCEPT !.map_storage = m]
  BY DEF Insert
<1> HIDE DEF m
<1>4. d.map_storage = m /\ d.vector_storage = c.vector_storage /\ ~d.is_vector_mode
  BY <1>3, VectorFacts DEF Container
<1>5. ~Hollow(d)
  BY EmplaceSound
<1> HIDE DEF d
<1>6. Stays(c, d, {})
  BY <1>2, <1>4, <1>5, VectorFacts DEF Stays, Torn
<1>7. ~Has(c, k) => StoredKeys(d) # StoredKeys(c)
  BY <1>2, <1>4 DEF Has, StoredKeys
<1> QED BY <1>4, <1>6, <1>7 DEF d

\* Whatever a migration of c leads to in map mode, the vector having moved.
LEMMA MigrationRespects ==
    ASSUME NEW c, c.is_vector_mode, NEW r, NEW was, NEW x, "vector" \in x.moved,
           ~x.map.is_vector_mode
    PROVE  Respects(c, r, was, x)
BY DEF Respects, Stays, Reason

LEMMA TornAtStays ==
    ASSUME NEW c, Sound(c), c.is_vector_mode, Len(c.vector_storage) >= SMALL_CAPACITY,
           NEW d \in FailedConversions(c)
    PROVE  Stays(c, d, {})
<1> DEFINE old == c.vector_storage
<1>1. Torn(d) /\ ~d.is_vector_mode
  BY FailedConversionSound
<1>2. CASE d = [c EXCEPT !.is_vector_mode = FALSE]
  <2>1. d.vector_storage = old
    BY <1>2, VectorFacts DEF Container
  <2> QED BY <1>1, <2>1, VectorFacts DEF Stays
<1>3. ASSUME NEW n \in {0} \cup 1 .. Len(old) - 1, d = TornAt(c, n)
      PROVE  Stays(c, d, {})
  <2> DEFINE s == [i \in DOMAIN old |->
                      IF i <= n THEN [old[i] EXCEPT !.val = Unknown] ELSE old[i]]
  <2>1. n \in 0 .. Len(old)
    BY VectorFacts
  <2>2. Len(d.vector_storage) = Len(old)
    BY <1>3, <2>1, TornAtSound
  <2>3. d.vector_storage = s
    BY <1>3, VectorFacts DEF TornAt, Container
  <2>4. \A i \in 1 .. Len(old) : s[i].key = old[i].key
    BY VectorFacts DEF Entry
  <2> HIDE DEF s
  <2> QED BY <1>1, <2>2, <2>3, <2>4, VectorFacts DEF Stays
<1> QED BY <1>2, <1>3 DEF FailedConversions

LEMMA InsertRespects ==
    ASSUME NEW c, Sound(c), ~Hollow(c), NEW r \in Nat, NEW was, Reserved(c, r, was),
           NEW k \in Key, NEW v \in Val, NEW x \in InsertResults(c, r, k, v)
    PROVE  Respects(c, r, was, x)
<1>1. CASE ~c.is_vector_mode
  <2> DEFINE d == Insert(c, k, v)
  <2>1. \/ x = Result(c, r, {}, "exception")
        \/ x = Result(d, r, IF Has(c, k) THEN {} ELSE {} \cup {"map"}, "ok")
        \/ x = Undefined(c, r)
    BY <1>1 DEF InsertResults, EmplaceResults
  <2>2. Stays(c, d, {}) /\ (~Has(c, k) => StoredKeys(d) # StoredKeys(c))
    BY <1>1, EmplaceStays
  <2> HIDE DEF d
  <2>3. CASE x = Result(c, r, {}, "exception")
    BY <2>3, ResultFields, StaysSame DEF Respects
  <2>4. CASE x = Result(d, r, IF Has(c, k) THEN {} ELSE {} \cup {"map"}, "ok")
    <3>1. x.map = d /\ x.moved = IF Has(c, k) THEN {} ELSE {"map"}
      BY <2>4, ResultFields
    <3> QED BY <2>2, <3>1, StaysMore DEF Respects, Reason
  <2>5. CASE x = Undefined(c, r)
    BY <2>5, UndefinedFields, StaysSame DEF Respects
  <2> QED BY <2>1, <2>3, <2>4, <2>5
<1>2. CASE c.is_vector_mode /\ Len(c.vector_storage) < SMALL_CAPACITY
  <2>1. x \in PushResults(c, r, k, v)
    BY <1>2 DEF InsertResults
  <2> QED BY <1>2, <2>1, PushRespects
<1>3. CASE c.is_vector_mode /\ ~(Len(c.vector_storage) < SMALL_CAPACITY)
  <2>1. Len(c.vector_storage) >= SMALL_CAPACITY
    BY <1>3, VectorFacts, CapacityAssumption
  <2>2. \/ \E d \in FailedConversions(c) : x = Result(d, r, {}, "exception")
        \/ x = Undefined(c, r)
        \/ /\ ~BrokenInVector(c)
           /\ \E new \in {0, r} :
                 x \in EmplaceResults(ConvertToMap(c), new, k, v, {"vector"})
    BY <1>3 DEF InsertResults, ConversionResults
  <2>3. ASSUME NEW d \in FailedConversions(c), x = Result(d, r, {}, "exception")
        PROVE  Respects(c, r, was, x)
    <3>1. Stays(c, d, {})
      BY <1>3, <2>1, TornAtStays
    <3>2. x.map = d /\ x.moved = {}
      BY <2>3, ResultFields
    <3> QED BY <3>1, <3>2 DEF Respects
  <2>4. ASSUME NEW new, x \in EmplaceResults(ConvertToMap(c), new, k, v, {"vector"}),
               ~BrokenInVector(c)
        PROVE  Respects(c, r, was, x)
    <3> DEFINE d == ConvertToMap(c)
    <3>1. Sound(d) /\ ~d.is_vector_mode /\ ~Hollow(d) /\ ~BrokenInMap(d)
      BY <1>3, <2>4, ConvertToMapSound, ConversionOfWhole DEF BrokenIn
    <3> HIDE DEF d
    <3>2. ~Insert(d, k, v).is_vector_mode
      BY <3>1, EmplaceStays
    <3>3. \/ x = Result(d, new, {"vector"}, "exception")
          \/ x = Result(Insert(d, k, v), new,
                        IF Has(d, k) THEN {"vector"} ELSE {"vector"} \cup {"map"}, "ok")
      BY <2>4, <3>1 DEF EmplaceResults, d
    <3>4. "vector" \in x.moved /\ ~x.map.is_vector_mode
      BY <3>1, <3>2, <3>3, ResultFields
    <3> QED BY <1>3, <3>4, MigrationRespects
  <2>5. CASE x = Undefined(c, r)
    BY <2>5, UndefinedFields, StaysSame DEF Respects
  <2> QED BY <2>2, <2>3, <2>4, <2>5
<1> QED BY <1>1, <1>2, <1>3, VectorFacts

LEMMA AssignStays ==
    ASSUME NEW c, Sound(c), ~Hollow(c), NEW k \in Key, NEW v \in Val, Has(c, k)
    PROVE  Stays(c, Assign(c, k, v), {})
<1> DEFINE d == Assign(c, k, v)
<1>1. ~Hollow(d)
  BY AssignSound
<1>2. CASE c.is_vector_mode
  <2> DEFINE s == c.vector_storage
             t == Overwrite(s, k, v)
  <2>1. s \in Seq(Entry) /\ k \in KeysOf(s)
    BY <1>2, VectorFacts DEF Has, StoredKeys
  <2>2. d = [c EXCEPT !.vector_storage = t]
    BY <1>2 DEF Assign
  <2>3. Len(t) = Len(s) /\ \A i \in 1 .. Len(s) : t[i].key = s[i].key
    BY <2>1, OverwriteKeys
  <2> HIDE DEF t
  <2>4. d.is_vector_mode /\ d.vector_storage = t
    BY <1>2, <2>2, VectorFacts DEF Container
  <2> HIDE DEF d
  <2>5. Stays(c, d, {})
    BY <1>2, <2>3, <2>4, VectorFacts DEF Stays, Torn
  <2> QED BY <2>5 DEF d
<1>3. CASE ~c.is_vector_mode
  <2> DEFINE m == [c.map_storage EXCEPT ![k] = v]
  <2>1. DOMAIN m = DOMAIN c.map_storage
    OBVIOUS
  <2>2. d = [c EXCEPT !.map_storage = m]
    BY <1>3 DEF Assign
  <2> HIDE DEF m
  <2>3. ~d.is_vector_mode /\ d.map_storage = m /\ d.vector_storage = c.vector_storage
    BY <1>3, <2>2, VectorFacts DEF Container
  <2> HIDE DEF d
  <2>4. Stays(c, d, {})
    BY <1>1, <1>3, <2>1, <2>3, VectorFacts DEF Stays, Torn, d
  <2> QED BY <2>4 DEF d
<1> QED BY <1>2, <1>3, VectorFacts

LEMMA AssignRespects ==
    ASSUME NEW c, Sound(c), ~Hollow(c), NEW r \in Nat, NEW was,
           NEW k \in Key, NEW v \in Val, Has(c, k), NEW x \in AssignResults(c, r, k, v)
    PROVE  Respects(c, r, was, x)
<1>1. \/ x = Undefined(c, r)
      \/ \E u \in Val : \E how : x = Result(Assign(c, k, u), r, {}, how)
  BY ValueAssumption DEF AssignResults
<1>2. CASE x = Undefined(c, r)
  BY <1>2, UndefinedFields, StaysSame DEF Respects
<1>3. ASSUME NEW u \in Val, NEW how, x = Result(Assign(c, k, u), r, {}, how)
      PROVE  Respects(c, r, was, x)
  <2>1. x.map = Assign(c, k, u) /\ x.moved = {}
    BY <1>3, ResultFields
  <2> QED BY <2>1, AssignStays DEF Respects
<1> QED BY <1>1, <1>2, <1>3

-----------------------------------------------------------------------------
(***************************************************************************)
(* The invariant: where a pointer and the rest of an iterate() point to.   *)
(***************************************************************************)
RefInv ==
    (kept # NoRef /\ ~kept.dangling) =>
        IF kept.store = "vector"
        THEN \/ Torn(map)
             \/ /\ map.is_vector_mode
                /\ kept.key \in KeysOf(map.vector_storage)
                /\ kept.at = FirstIndex(map.vector_storage, kept.key)
        ELSE ~map.is_vector_mode /\ ~Hollow(map) /\ kept.key \in DOMAIN map.map_storage

WalkInv ==
    (walk # NoWalk /\ ~walk.dangling) =>
        /\ walk.next >= 1
        /\ IF walk.store = "vector"
           THEN \A i \in 1 .. Len(walk.order) :
                   /\ i <= Len(map.vector_storage)
                   /\ map.vector_storage[i].key = walk.order[i]
           ELSE /\ ~map.is_vector_mode /\ ~Hollow(map)
                /\ \A i \in 1 .. Len(walk.order) : walk.order[i] \in DOMAIN map.map_storage

PointersInv == MInv /\ RefInv /\ WalkInv

\* What does not dangle after a call is what it was, in a store that stayed.
LEMMA NotDangling ==
    ASSUME NEW none, NEW x, x = none \/ x \in Ref \/ x \in Walk, NEW moved,
           Dangles(x, none, moved) # none, ~Dangles(x, none, moved).dangling
    PROVE  Dangles(x, none, moved) = x /\ x # none /\ x.store \notin moved
<1>1. CASE x # none /\ x.store \in moved
  <2>1. Dangles(x, none, moved) = [x EXCEPT !.dangling = TRUE]
    BY <1>1 DEF Dangles
  <2>2. [x EXCEPT !.dangling = TRUE].dangling
    BY <1>1 DEF Ref, Walk
  <2> QED BY <2>1, <2>2
<1>2. CASE ~(x # none /\ x.store \in moved)
  <2>1. Dangles(x, none, moved) = x
    BY <1>2 DEF Dangles
  <2> QED BY <1>2, <2>1
<1> QED BY <1>1, <1>2

LEMMA StaysKeepsPointers ==
    ASSUME PointersInv, MInv', NEW moved, Stays(map, map', moved),
           kept' = Dangles(kept, NoRef, moved), walk' = Dangles(walk, NoWalk, moved)
    PROVE  PointersInv'
<1>1. /\ map.vector_storage \in Seq(Entry) /\ Len(map.vector_storage) \in Nat
      /\ map'.vector_storage \in Seq(Entry) /\ Len(map'.vector_storage) \in Nat
  BY LenProperties DEF PointersInv, MInv, MemoryTypeOK, Container
<1>2. RefInv'
  <2> SUFFICES ASSUME kept' # NoRef, ~kept'.dangling
               PROVE  IF kept'.store = "vector"
                      THEN \/ Torn(map')
                           \/ /\ map'.is_vector_mode
                              /\ kept'.key \in KeysOf(map'.vector_storage)
                              /\ kept'.at = FirstIndex(map'.vector_storage, kept'.key)
                      ELSE /\ ~map'.is_vector_mode /\ ~Hollow(map')
                           /\ kept'.key \in DOMAIN map'.map_storage
    BY DEF RefInv
  <2>1. kept' = kept /\ kept # NoRef /\ kept.store \notin moved /\ kept.store \in Stores
    BY NotDangling DEF PointersInv, MInv, MemoryTypeOK, Ref
  <2>2. CASE kept.store = "vector"
    <3>1. /\ Len(map.vector_storage) <= Len(map'.vector_storage)
          /\ \A i \in 1 .. Len(map.vector_storage) :
                map'.vector_storage[i].key = map.vector_storage[i].key
          /\ Torn(map) => Torn(map')
          /\ map.is_vector_mode => map'.is_vector_mode \/ Torn(map')
      BY <2>1, <2>2 DEF Stays
    <3>2. CASE Torn(map)
      BY <2>1, <2>2, <3>1, <3>2
    <3>3. CASE ~Torn(map)
      <4>1. /\ map.is_vector_mode
            /\ kept.key \in KeysOf(map.vector_storage)
            /\ kept.at = FirstIndex(map.vector_storage, kept.key)
        BY <2>1, <2>2, <3>3 DEF PointersInv, RefInv
      <4>2. /\ kept.key \in KeysOf(map'.vector_storage)
            /\ kept.at = FirstIndex(map'.vector_storage, kept.key)
        BY <1>1, <3>1, <4>1, PrefixKeepsFirst
      <4> QED BY <2>1, <2>2, <3>1, <4>1, <4>2
    <3> QED BY <3>2, <3>3
  <2>3. CASE kept.store = "map"
    <3>1. ~map.is_vector_mode /\ kept.key \in DOMAIN map.map_storage
      BY <2>1, <2>3 DEF PointersInv, RefInv
    <3> QED BY <2>1, <2>3, <3>1 DEF Stays
  <2> QED BY <2>1, <2>2, <2>3 DEF Stores
<1>3. WalkInv'
  <2> SUFFICES ASSUME walk' # NoWalk, ~walk'.dangling
               PROVE  /\ walk'.next >= 1
                      /\ IF walk'.store = "vector"
                         THEN \A i \in 1 .. Len(walk'.order) :
                                 /\ i <= Len(map'.vector_storage)
                                 /\ map'.vector_storage[i].key = walk'.order[i]
                         ELSE /\ ~map'.is_vector_mode /\ ~Hollow(map')
                              /\ \A i \in 1 .. Len(walk'.order) :
                                    walk'.order[i] \in DOMAIN map'.map_storage
    BY DEF WalkInv
  <2>1. walk' = walk /\ walk # NoWalk /\ walk.store \notin moved /\ walk.store \in Stores
    BY NotDangling DEF PointersInv, MInv, MemoryTypeOK, Walk
  <2>2. walk.next >= 1
    BY <2>1 DEF PointersInv, WalkInv
  <2>3. CASE walk.store = "vector"
    <3>1. /\ Len(map.vector_storage) <= Len(map'.vector_storage)
          /\ \A i \in 1 .. Len(map.vector_storage) :
                map'.vector_storage[i].key = map.vector_storage[i].key
      BY <2>1, <2>3 DEF Stays
    <3>2. \A i \in 1 .. Len(walk.order) : /\ i <= Len(map.vector_storage)
                                          /\ map.vector_storage[i].key = walk.order[i]
      BY <2>1, <2>3 DEF PointersInv, WalkInv
    <3>3. \A i \in 1 .. Len(walk.order) : /\ i <= Len(map'.vector_storage)
                                          /\ map'.vector_storage[i].key = walk.order[i]
      BY <1>1, <3>1, <3>2
    <3> QED BY <2>1, <2>2, <2>3, <3>3
  <2>4. CASE walk.store = "map"
    <3>1. /\ ~map.is_vector_mode
          /\ \A i \in 1 .. Len(walk.order) : walk.order[i] \in DOMAIN map.map_storage
      BY <2>1, <2>4 DEF PointersInv, WalkInv
    <3>2. /\ ~map'.is_vector_mode /\ ~Hollow(map')
          /\ DOMAIN map.map_storage \subseteq DOMAIN map'.map_storage
      BY <2>1, <2>4, <3>1 DEF Stays
    <3> QED BY <2>1, <2>2, <2>4, <3>1, <3>2
  <2> QED BY <2>1, <2>3, <2>4 DEF Stores
<1> QED BY <1>2, <1>3 DEF PointersInv

-----------------------------------------------------------------------------
(***************************************************************************)
(* The steps.                                                              *)
(***************************************************************************)
\* The effect of a call on the pointers, with the reasons for what it moved.
LEMMA WritesRespect ==
    ASSUME MInv, Writes
    PROVE  \E moved :
              /\ Stays(map, map', moved)
              /\ \A store \in moved : Reason(map, room, relocated, map', store)
              /\ kept' = Dangles(kept, NoRef, moved)
              /\ walk' = Dangles(walk, NoWalk, moved)
<1>1. PICK k \in Key, v \in Val : Add(k, v) \/ Set(k, v) \/ Update(k, v)
  BY DEF Writes
<1>2. Sound(map) /\ ~Hollow(map) /\ room \in Nat /\ Reserved(map, room, relocated)
  BY <1>1 DEF Add, Set, Update, Usable, MInv, MemoryTypeOK
<1>3. PICK x : /\ Ends({x})
               /\ \/ x \in InsertResults(map, room, k, v)
                  \/ Has(map, k) /\ x \in AssignResults(map, room, k, v)
                  \/ x = Result(map, room, {}, "ok")
  BY <1>1, EndsWithOne DEF Add, Set, Update
<1>4. Respects(map, room, relocated, x)
  <2>1. CASE x \in InsertResults(map, room, k, v)
    BY <1>2, <2>1, InsertRespects
  <2>2. CASE Has(map, k) /\ x \in AssignResults(map, room, k, v)
    BY <1>2, <2>2, AssignRespects
  <2>3. CASE x = Result(map, room, {}, "ok")
    BY <1>2, <2>3, ResultFields, StaysSame DEF Respects
  <2> QED BY <1>3, <2>1, <2>2, <2>3
<1>5. /\ map' = x.map
      /\ kept' = Dangles(kept, NoRef, x.moved)
      /\ walk' = Dangles(walk, NoWalk, x.moved)
  BY <1>3 DEF Ends
<1> QED BY <1>4, <1>5 DEF Respects

\* A result that moves both stores, or none and leaves the container.
LEMMA MovesAllOrNothing ==
    ASSUME NEW x, Ends({x}), x.moved = Stores \/ (x.moved = {} /\ x.map = map)
    PROVE  \E moved \in {{}, Stores} :
              /\ kept' = Dangles(kept, NoRef, moved) /\ walk' = Dangles(walk, NoWalk, moved)
              /\ moved = {} => map' = map
<1>1. /\ map' = x.map
      /\ kept' = Dangles(kept, NoRef, x.moved)
      /\ walk' = Dangles(walk, NoWalk, x.moved)
  BY DEF Ends
<1>2. Stores # {}
  BY DEF Stores
<1> WITNESS x.moved \in {{}, Stores}
<1> QED BY <1>1, <1>2

\* clear() and unpack() that do anything move both stores.
LEMMA ResetsMoveAll ==
    ASSUME Resets
    PROVE  \E moved \in {{}, Stores} :
              /\ kept' = Dangles(kept, NoRef, moved) /\ walk' = Dangles(walk, NoWalk, moved)
              /\ moved = {} => map' = map
<1>1. ASSUME NEW c, NEW r, NEW x \in ClearResults(c, r)
      PROVE  x.moved = Stores \/ (x.moved = {} /\ x.map = c)
  BY ResultFields, UndefinedFields DEF ClearResults
<1>2. ASSUME NEW c, NEW r, NEW w, NEW n, NEW x \in UnpackResults(c, r, w, n)
      PROVE  x.moved = Stores \/ (x.moved = {} /\ x.map = c)
  <2> DEFINE how == IF n < Len(w) THEN "interrupted" ELSE "unpacked"
  <2>1. PICK e \in ClearResults(c, r) :
           \/ x = e
           \/ x = Result(c, r, {}, "half_unpacked")
           \/ x = Result(Filled(e.map, w, n), e.room, Stores, how)
           \/ x = Result(e.map, e.room, Stores, "interrupted")
           \/ x = Result([e.map EXCEPT !.map_storage = AllocatedMap(e.map)], e.room,
                         Stores, "interrupted")
           \/ \E new \in GrownTo(e.room, n) :
                 x = Result(Filled(e.map, w, n), new, Stores, how)
    BY <1>2 DEF UnpackResults
  <2> HIDE DEF how
  <2> QED BY <1>1, <2>1, ResultFields
<1>3. CASE Clear
  <2>1. PICK x \in ClearResults(map, room) : Ends({x})
    BY <1>3, EndsWithOne DEF Clear
  <2>2. x.moved = Stores \/ (x.moved = {} /\ x.map = map)
    BY <1>1
  <2> QED BY <2>1, <2>2, MovesAllOrNothing
<1>4. ASSUME NEW w \in Wires, NEW n \in 0 .. Len(w), Unpack(w, n)
      PROVE  \E moved \in {{}, Stores} :
                /\ kept' = Dangles(kept, NoRef, moved) /\ walk' = Dangles(walk, NoWalk, moved)
                /\ moved = {} => map' = map
  <2>1. PICK x \in UnpackResults(map, room, w, n) : Ends({x})
    BY <1>4, EndsWithOne DEF Unpack
  <2>2. x.moved = Stores \/ (x.moved = {} /\ x.map = map)
    BY <1>2
  <2> QED BY <2>1, <2>2, MovesAllOrNothing
<1> QED BY <1>3, <1>4 DEF Resets

\* A container that is moved in moves both stores.
LEMMA ReceivesMoveAll ==
    ASSUME Receives
    PROVE  \E moved \in {{}, Stores} :
              /\ kept' = Dangles(kept, NoRef, moved) /\ walk' = Dangles(walk, NoWalk, moved)
              /\ moved = {} => map' = map
<1>1. PICK x \in Others : MoveIn(x)
  BY DEF Receives
<1> DEFINE d == [x.map EXCEPT !.initial_reserve = map.initial_reserve]
<1>2. \/ Ends({Undefined(map, room)})
      \/ Ends({Result(d, x.room, Stores, "received")})
  BY <1>1 DEF MoveIn
<1> HIDE DEF d
<1>3. CASE Ends({Undefined(map, room)})
  BY <1>3, UndefinedFields, MovesAllOrNothing
<1>4. CASE Ends({Result(d, x.room, Stores, "received")})
  BY <1>4, ResultFields, MovesAllOrNothing
<1> QED BY <1>2, <1>3, <1>4

\* When both stores have moved, nothing is left to rely on; when none has, all is.
LEMMA AllMovedKeepsPointers ==
    ASSUME PointersInv, MInv', NEW moved \in {{}, Stores},
           kept' = Dangles(kept, NoRef, moved), walk' = Dangles(walk, NoWalk, moved),
           moved = {} => map' = map
    PROVE  PointersInv'
<1>1. CASE moved = {}
  <2>1. kept' = kept /\ walk' = walk /\ map' = map
    BY <1>1 DEF Dangles
  <2> QED BY <2>1 DEF PointersInv, RefInv, WalkInv
<1>2. CASE moved = Stores
  <2>1. kept' # NoRef => kept'.dangling
    <3> SUFFICES ASSUME kept' # NoRef, ~kept'.dangling PROVE FALSE
      BY DEF MInv, MemoryTypeOK, Ref
    <3>1. kept # NoRef /\ kept.store \notin Stores
      BY <1>2, NotDangling DEF PointersInv, MInv, MemoryTypeOK
    <3> QED BY <3>1 DEF PointersInv, MInv, MemoryTypeOK, Ref
  <2>2. walk' # NoWalk => walk'.dangling
    <3> SUFFICES ASSUME walk' # NoWalk, ~walk'.dangling PROVE FALSE
      BY DEF MInv, MemoryTypeOK, Walk
    <3>1. walk # NoWalk /\ walk.store \notin Stores
      BY <1>2, NotDangling DEF PointersInv, MInv, MemoryTypeOK
    <3> QED BY <3>1 DEF PointersInv, MInv, MemoryTypeOK, Walk
  <2> QED BY <2>1, <2>2 DEF PointersInv, RefInv, WalkInv
<1> QED BY <1>1, <1>2

LEMMA InitPointersInv == Init => PointersInv
BY InitMInv DEF Init, PointersInv, RefInv, WalkInv

LEMMA FindKeepsPointers ==
    ASSUME PointersInv, MInv', NEW k \in Key, Find(k)
    PROVE  PointersInv'
<1>1. map' = map /\ walk' = walk /\ Sound(map) /\ ~Hollow(map)
  BY DEF Find, Usable, PointersInv, MInv
<1>2. WalkInv'
  BY <1>1 DEF PointersInv, WalkInv
<1>3. RefInv'
  <2>1. CASE kept' = NoRef
    BY <2>1 DEF RefInv
  <2>2. CASE kept' # NoRef /\ map.is_vector_mode
    <3>1. kept' = [store |-> "vector", key |-> k,
                   at |-> FirstIndex(map.vector_storage, k), dangling |-> FALSE]
      BY <2>2 DEF Find, StoreOf
    <3>2. k \in KeysOf(map.vector_storage)
      BY <2>2 DEF Find, Has, StoredKeys
    <3> QED BY <1>1, <2>2, <3>1, <3>2 DEF RefInv
  <2>3. CASE kept' # NoRef /\ ~map.is_vector_mode
    <3>1. kept' = [store |-> "map", key |-> k, at |-> 0, dangling |-> FALSE]
      BY <2>3 DEF Find, StoreOf
    <3>2. k \in DOMAIN map.map_storage
      BY <2>3 DEF Find, Has, StoredKeys
    <3> QED BY <1>1, <2>3, <3>1, <3>2 DEF RefInv
  <2> QED BY <2>1, <2>2, <2>3
<1> QED BY <1>2, <1>3 DEF PointersInv

LEMMA StartWalkKeepsPointers ==
    ASSUME PointersInv, MInv', StartWalk
    PROVE  PointersInv'
<1>1. map' = map /\ kept' = NoRef /\ Sound(map) /\ ~Hollow(map)
  BY DEF StartWalk, PointersInv, MInv
<1>2. RefInv'
  BY <1>1 DEF RefInv
<1>3. PICK t \in Traversals(map) :
         walk' = [store    |-> StoreOf(map),
                  order    |-> [i \in DOMAIN t |-> t[i].key],
                  next     |-> 1,
                  dangling |-> FALSE]
  BY DEF StartWalk
<1> DEFINE order == [i \in DOMAIN t |-> t[i].key]
<1>4. DOMAIN order = 1 .. Len(order) /\ order \in Seq(Key)
  BY <1>1, TraversalType, LenProperties
<1>5. CASE map.is_vector_mode
  <2>1. t = map.vector_storage /\ walk'.store = "vector"
    BY <1>3, <1>5 DEF Traversals, StoreOf
  <2>2. DOMAIN order = 1 .. Len(map.vector_storage) /\ Len(map.vector_storage) \in Nat
    BY <1>1, <2>1, VectorFacts
  <2>3. \A i \in 1 .. Len(order) : /\ i <= Len(map.vector_storage)
                                   /\ map.vector_storage[i].key = order[i]
    BY <1>4, <2>1, <2>2
  <2>4. walk'.order = order /\ walk'.next = 1
    BY <1>3
  <2> HIDE DEF order
  <2>5. WalkInv'
    BY <1>1, <2>1, <2>3, <2>4 DEF WalkInv
  <2> QED BY <1>2, <2>5 DEF PointersInv
<1>6. CASE ~map.is_vector_mode
  <2> DEFINE keys == DOMAIN map.map_storage
  <2>1. PICK f \in [1 .. Cardinality(keys) -> keys] :
           t = [i \in DOMAIN f |-> [key |-> f[i], val |-> map.map_storage[f[i]]]]
    BY <1>6 DEF Traversals
  <2>2. \A i \in DOMAIN order : order[i] \in keys
    BY <2>1
  <2>3. walk'.order = order /\ walk'.next = 1 /\ walk'.store = "map"
    BY <1>3, <1>6 DEF StoreOf
  <2> HIDE DEF order
  <2>4. WalkInv'
    BY <1>1, <1>4, <1>6, <2>2, <2>3 DEF WalkInv
  <2> QED BY <1>2, <2>4 DEF PointersInv
<1>7. map.is_vector_mode \in BOOLEAN
  BY <1>1, VectorFacts
<1> QED BY <1>5, <1>6, <1>7

LEMMA NextPointersInv == PointersInv /\ [Next]_vars => PointersInv'
<1> SUFFICES ASSUME PointersInv, [Next]_vars PROVE PointersInv'
  OBVIOUS
<1>1. MInv /\ MInv'
  BY NextMInv DEF PointersInv
<1>2. CASE Writes
  BY <1>1, <1>2, WritesRespect, StaysKeepsPointers
<1>3. CASE Resets
  BY <1>1, <1>3, ResetsMoveAll, AllMovedKeepsPointers
<1>10. CASE Receives
  BY <1>1, <1>10, ReceivesMoveAll, AllMovedKeepsPointers
<1>11. CASE MoveOut
  BY <1>1, <1>11 DEF MoveOut, PointersInv, RefInv, WalkInv
<1>12. ASSUME NEW hint, Relocate(hint) PROVE PointersInv'
  <2>1. kept' = kept /\ walk' = walk
    BY <1>12 DEF Relocate
  <2>2. /\ map'.is_vector_mode = map.is_vector_mode /\ map'.map_storage = map.map_storage
        /\ map'.vector_storage = map.vector_storage
    BY <1>1, <1>12 DEF Relocate, MInv, MemoryTypeOK, Container
  <2> QED BY <1>1, <2>1, <2>2 DEF PointersInv, RefInv, WalkInv, Torn, Hollow
<1>13. CASE Pack
  <2>1. UNCHANGED <<map, kept, walk>>
    BY <1>13, PackStep
  <2> QED BY <1>1, <2>1 DEF PointersInv, RefInv, WalkInv
<1>4. ASSUME NEW k \in Key, Find(k) PROVE PointersInv'
  BY <1>1, <1>4, FindKeepsPointers
<1>5. CASE StartWalk
  BY <1>1, <1>5, StartWalkKeepsPointers
<1>6. CASE Visit
  <2>1. walk \in Walk /\ map' = map /\ kept' = kept
    BY <1>1, <1>6 DEF Visit, MInv, MemoryTypeOK
  <2>2. /\ walk'.next = walk.next + 1 /\ walk.next \in Nat /\ walk'.order = walk.order
        /\ walk'.store = walk.store
    BY <1>6, <2>1 DEF Visit, Walk
  <2>3. walk # NoWalk /\ ~walk.dangling
    BY <1>6 DEF Visit
  <2> QED BY <1>1, <2>1, <2>2, <2>3 DEF PointersInv, RefInv, WalkInv
<1>7. CASE EndWalk
  BY <1>1, <1>7 DEF EndWalk, PointersInv, RefInv, WalkInv
<1>8. CASE UseHollow \/ LookupTerminates \/ Destroy \/ WalkAstray
  BY <1>1, <1>8 DEF UseHollow, LookupTerminates, Destroy, WalkAstray, Stop, PointersInv,
                    RefInv, WalkInv
<1>9. CASE UNCHANGED vars
  BY <1>1, <1>9 DEF vars, PointersInv, RefInv, WalkInv
<1> QED BY <1>2, <1>3, <1>4, <1>5, <1>6, <1>7, <1>8, <1>9, <1>10, <1>11, <1>12, <1>13
        DEF Next, Moves, WalkStep

LEMMA PointersInvariant == Spec => []PointersInv
BY InitPointersInv, NextPointersInv, PTL DEF Spec

-----------------------------------------------------------------------------
\* A pointer from find() whose store nothing has moved reads what find() would
\* answer now, in every container that is not torn (find, emplace_back).
THEOREM KeptReferencesAlwaysHold == Spec => []KeptReferenceHolds
<1>1. PointersInv => KeptReferenceHolds
  <2> SUFFICES ASSUME PointersInv, kept # NoRef, ~kept.dangling, ~Torn(map)
               PROVE  /\ kept.store = StoreOf(map)
                      /\ Has(map, kept.key)
                      /\ Reads(kept) = Lookup(map, kept.key)
    BY DEF KeptReferenceHolds
  <2>1. kept.store \in Stores
    BY DEF PointersInv, MInv, MemoryTypeOK, Ref
  <2>2. CASE kept.store = "vector"
    BY <2>2 DEF PointersInv, RefInv, StoreOf, Has, StoredKeys, Reads, Lookup
  <2>3. CASE kept.store = "map"
    BY <2>3 DEF PointersInv, RefInv, StoreOf, Has, StoredKeys, Reads, Lookup
  <2> QED BY <2>1, <2>2, <2>3 DEF Stores
<1> QED BY <1>1, PointersInvariant, PTL

\* An iterate() that nothing moved under still finds every entry it has to visit,
\* a failed migration under it included (iterate, convert_to_map).
THEOREM WalksAlwaysStayOnEntries == Spec => []WalkStaysOnEntries
<1>1. PointersInv => WalkStaysOnEntries
  <2> SUFFICES ASSUME PointersInv, walk # NoWalk, ~walk.dangling,
                      NEW i \in walk.next .. Len(walk.order)
               PROVE  IF walk.store = "vector"
                      THEN /\ i <= Len(map.vector_storage)
                           /\ map.vector_storage[i].key = walk.order[i]
                      ELSE walk.order[i] \in DOMAIN map.map_storage
    BY DEF WalkStaysOnEntries
  <2>1. walk.next \in Nat /\ Len(walk.order) \in Nat
    BY LenProperties DEF PointersInv, MInv, MemoryTypeOK, Walk
  <2>2. i \in 1 .. Len(walk.order)
    BY <2>1 DEF PointersInv, WalkInv
  <2> QED BY <2>2 DEF PointersInv, WalkInv
<1> QED BY <1>1, PointersInvariant, PTL

\* Only clear(), unpack(), a move into the container, a new key in map mode, the
\* migration, and the growth of a vector that a hint or a move has left without the
\* reserve end the life of a pointer from find().
THEOREM ReferencesDangleOnlyAsSaid == Spec => ReferencesDangleOnlyBy
<1>1. MInv /\ [Next]_vars =>
         [(kept # NoRef /\ ~kept.dangling /\ kept' = [kept EXCEPT !.dangling = TRUE]) =>
             \/ Resets \/ Receives
             \/ kept.store = "map" /\ StoredKeys(map') # StoredKeys(map)
             \/ map.is_vector_mode /\ ~map'.is_vector_mode
             \/ ~Primed /\ Len(map'.vector_storage) > room]_vars
  <2> SUFFICES ASSUME MInv, Next, kept # NoRef, ~kept.dangling,
                      kept' = [kept EXCEPT !.dangling = TRUE]
               PROVE  \/ Resets \/ Receives
                      \/ kept.store = "map" /\ StoredKeys(map') # StoredKeys(map)
                      \/ map.is_vector_mode /\ ~map'.is_vector_mode
                      \/ ~Primed /\ Len(map'.vector_storage) > room
    OBVIOUS
  <2>1. kept \in Ref /\ kept'.dangling
    BY DEF MInv, MemoryTypeOK, Ref
  <2>2. CASE Writes
    <3>1. PICK moved : /\ \A store \in moved : Reason(map, room, relocated, map', store)
                       /\ kept' = Dangles(kept, NoRef, moved)
      BY <2>2, WritesRespect
    <3>2. kept.store \in moved
      BY <2>1, <3>1 DEF Dangles
    <3> QED BY <3>1, <3>2 DEF Reason, Primed
  <2>3. CASE (\E k \in Key : Find(k)) \/ StartWalk \/ MoveOut
    <3>1. kept' = NoRef \/ ~kept'.dangling
      BY <2>3 DEF Find, StartWalk, MoveOut
    <3>2. kept' \in Ref
      BY <2>1 DEF Ref
    <3> QED BY <2>1, <3>1, <3>2, NoneAssumption
  <2>4. CASE \/ Pack \/ UseHollow \/ LookupTerminates \/ Destroy \/ WalkStep
             \/ \E hint \in Hints \cup {0} : Relocate(hint)
    <3>1. kept' = kept
      BY <2>4, PackStep DEF UseHollow, LookupTerminates, Destroy, WalkStep, Visit, EndWalk,
                            WalkAstray, Stop, Relocate
    <3> QED BY <2>1, <3>1
  <2> QED BY <2>2, <2>3, <2>4 DEF Next, Moves
<1> QED BY <1>1, MemoryInvariant, PTL DEF Spec, ReferencesDangleOnlyBy
=============================================================================
