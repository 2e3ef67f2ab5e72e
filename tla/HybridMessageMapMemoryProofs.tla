--------------------- MODULE HybridMessageMapMemoryProofs ---------------------
(***************************************************************************)
(* HybridMessageMapMemory for every capacity, key set, value set, hint and *)
(* received map: its types, the reserve of the vector, when a failure ends *)
(* the process, and what it may cost.                                      *)
(***************************************************************************)
EXTENDS HybridMessageMapMemory, HybridContainerProofs

\* The vector of a container without a hint that was not moved has its buffer.
Reserved(c, r, moved) ==
    (c.is_vector_mode /\ c.initial_reserve <= SMALL_CAPACITY /\ ~moved) => r >= SMALL_CAPACITY

\* The result of a call on a container that was moved, or was not.
GoesOn(x, moved) == /\ Sound(x.map) /\ x.room \in Nat /\ Reserved(x.map, x.room, moved)
                    /\ x.how \in {"ok", "exception", "undefined"}

LEMMA ResultFields ==
    ASSUME NEW c, NEW r, NEW moved, NEW how
    PROVE  LET x == Result(c, r, moved, how)
           IN  x.map = c /\ x.room = r /\ x.moved = moved /\ x.how = how
BY DEF Result

LEMMA UndefinedFields ==
    ASSUME NEW c, NEW r
    PROVE  LET x == Undefined(c, r)
           IN  x.map = c /\ x.room = r /\ x.moved = {} /\ x.how = "undefined"
BY ResultFields DEF Undefined

LEMMA GrownToProperties ==
    ASSUME NEW r \in Nat, NEW n \in Nat, NEW new \in GrownTo(r, n)
    PROVE  new \in Nat /\ new >= r
BY DEF GrownTo

-----------------------------------------------------------------------------
(***************************************************************************)
(* Insertions.                                                             *)
(***************************************************************************)
LEMMA PushGoesOn ==
    ASSUME NEW c, Sound(c), c.is_vector_mode, Len(c.vector_storage) < SMALL_CAPACITY,
           NEW r \in Nat, NEW moved, Reserved(c, r, moved), NEW k \in Key, NEW v \in Val,
           NEW x \in PushResults(c, r, k, v)
    PROVE  /\ GoesOn(x, moved)
           /\ x.how = "exception" => x.map = c
<1>1. CASE x = Result(c, r, {}, "exception")
  BY <1>1, ResultFields DEF GoesOn
<1>2. CASE x = Undefined(c, r)
  BY <1>2, UndefinedFields DEF GoesOn
<1>3. ASSUME NEW new \in GrownTo(r, Len(c.vector_storage) + 1),
             x = Result(Insert(c, k, v), new, IF new = r THEN {} ELSE {"vector"}, "ok")
      PROVE  GoesOn(x, moved) /\ x.how = "ok"
  <2> DEFINE d == Insert(c, k, v)
  <2>1. Sound(d) /\ d.is_vector_mode /\ d.initial_reserve = c.initial_reserve
    BY PushSound
  <2>2. Len(c.vector_storage) + 1 \in Nat
    BY LenProperties DEF Sound, Container
  <2>3. new \in Nat /\ new >= r
    BY <2>2, GrownToProperties
  <2>4. x.map = d /\ x.room = new /\ x.how = "ok"
    BY <1>3, ResultFields
  <2> HIDE DEF d
  <2>5. Reserved(d, new, moved)
    BY <2>1, <2>3, CapacityAssumption DEF Reserved
  <2> QED BY <2>1, <2>3, <2>4, <2>5 DEF GoesOn
<1> QED BY <1>1, <1>2, <1>3 DEF PushResults

LEMMA EmplaceGoesOn ==
    ASSUME NEW c, Sound(c), ~c.is_vector_mode, ~Hollow(c),
           NEW r \in Nat, NEW moved, NEW k \in Key, NEW v \in Val, NEW stores,
           NEW x \in EmplaceResults(c, r, k, v, stores)
    PROVE  /\ GoesOn(x, moved)
           /\ x.how = "exception" => x.map = c
<1>1. CASE x = Result(c, r, stores, "exception")
  BY <1>1, ResultFields DEF GoesOn, Reserved
<1>2. CASE x = Result(Insert(c, k, v), r,
                      IF Has(c, k) THEN stores ELSE stores \cup {"map"}, "ok")
  <2> DEFINE d == Insert(c, k, v)
  <2>1. Sound(d) /\ ~d.is_vector_mode
    BY EmplaceSound
  <2>2. x.map = d /\ x.room = r /\ x.how = "ok"
    BY <1>2, ResultFields
  <2> HIDE DEF d
  <2> QED BY <2>1, <2>2 DEF GoesOn, Reserved
<1>3. CASE x = Undefined(c, r)
  BY <1>3, UndefinedFields DEF GoesOn, Reserved
<1> QED BY <1>1, <1>2, <1>3 DEF EmplaceResults

LEMMA TornAtSound ==
    ASSUME NEW c, Sound(c), c.is_vector_mode, NEW n \in 0 .. Len(c.vector_storage)
    PROVE  LET d == TornAt(c, n)
           IN  /\ Sound(d) /\ ~d.is_vector_mode /\ ~Hollow(d)
               /\ Len(d.vector_storage) = Len(c.vector_storage)
               /\ d.map_storage = Emplace(AllocatedMap(c), SubSeq(c.vector_storage, 1, n))
<1> DEFINE old == c.vector_storage
           s == [i \in DOMAIN old |-> IF i <= n THEN [old[i] EXCEPT !.val = Unknown] ELSE old[i]]
           m == Emplace(AllocatedMap(c), SubSeq(old, 1, n))
<1>1. c \in Container /\ old \in Seq(Entry)
  BY DEF Sound, Container
<1>2. DOMAIN old = 1 .. Len(old) /\ Len(old) \in Nat
  BY <1>1, LenProperties
<1>3. \A i \in 1 .. Len(old) : old[i] \in Entry
  BY <1>1, ElementOfSeq
<1>4. s \in [1 .. Len(old) -> Entry]
  BY <1>2, <1>3, ValueAssumption DEF Entry
<1>5. s \in Seq(Entry) /\ Len(s) = Len(old)
  <2> HIDE DEF s, old
  <2> QED BY <1>2, <1>4, SeqDef, LenProperties
<1>6. SubSeq(old, 1, n) \in Seq(Entry)
  BY <1>1, <1>2, <1>3, SubSeqProperties
<1>7. m \in Dictionary /\ IsFiniteSet(DOMAIN m)
  BY <1>6, AllocatedMapFinite, EmplaceFinite
<1>8. TornAt(c, n) = InMapMode(c, s, m)
  BY DEF TornAt, InMapMode
<1> HIDE DEF s, m
<1>9. /\ Sound(TornAt(c, n)) /\ ~TornAt(c, n).is_vector_mode /\ ~Hollow(TornAt(c, n))
      /\ Len(TornAt(c, n).vector_storage) = Len(old) /\ TornAt(c, n).map_storage = m
  BY <1>1, <1>5, <1>7, <1>8, MapModeSound
<1> QED BY <1>9 DEF m

LEMMA FailedConversionSound ==
    ASSUME NEW c, Sound(c), c.is_vector_mode, Len(c.vector_storage) >= SMALL_CAPACITY,
           NEW d \in FailedConversions(c)
    PROVE  Sound(d) /\ ~d.is_vector_mode /\ Torn(d)
<1>1. c \in Container /\ c.vector_storage \in Seq(Entry) /\ Len(c.vector_storage) \in Nat
  BY LenProperties DEF Sound, Container
<1>2. Len(c.vector_storage) > 0
  BY <1>1, CapacityAssumption, FullAssumption
<1>3. c.vector_storage # << >>
  BY <1>2, EmptySeq
<1>4. CASE d = [c EXCEPT !.is_vector_mode = FALSE]
  <2>1. /\ d \in Container /\ ~d.is_vector_mode /\ d.vector_storage = c.vector_storage
        /\ d.map_storage = c.map_storage
    BY <1>1, <1>4 DEF Container
  <2> QED BY <1>3, <2>1 DEF Sound, Torn
<1>5. ASSUME NEW n \in {0} \cup 1 .. Len(c.vector_storage) - 1, d = TornAt(c, n)
      PROVE  Sound(d) /\ ~d.is_vector_mode /\ Torn(d)
  <2>1. n \in 0 .. Len(c.vector_storage)
    BY <1>1
  <2>2. Sound(d) /\ ~d.is_vector_mode /\ Len(d.vector_storage) = Len(c.vector_storage)
    BY <1>5, <2>1, TornAtSound
  <2>3. d.vector_storage # << >>
    BY <1>2, <2>2, EmptySeq
  <2> QED BY <2>2, <2>3 DEF Torn
<1> QED BY <1>4, <1>5 DEF FailedConversions

\* c and d hold the same parameters, but for the value of k.
OthersKept(c, d, k) ==
    /\ ~Hollow(d)
    /\ Torn(d) <=> Torn(c)
    /\ StoredKeys(d) = StoredKeys(c)
    /\ \A j \in Key \ {k} : Lookup(d, j) = Lookup(c, j)

\* What a call that threw may have done to c: no more than break the value of k.
OwnOnly(c, d, k) == OthersKept(c, d, k) /\ Lookup(d, k) \in {Lookup(c, k), Broken}

\* A migration keeps the parameters, with the values that find() gave.
LEMMA ConversionKeepsParameters ==
    ASSUME NEW c, Sound(c), c.is_vector_mode, NEW k \in Key
    PROVE  OwnOnly(c, ConvertToMap(c), k)
<1> DEFINE d == ConvertToMap(c)
           s == c.vector_storage
<1>1. /\ ~Hollow(d) /\ ~d.is_vector_mode /\ d.vector_storage = << >>
      /\ d.map_storage = Emplace(AllocatedMap(c), s)
  BY ConvertToMapSound
<1>2. AllocatedMap(c) = EmptyMap
  BY DEF Sound, OneStore, AllocatedMap
<1>3. d.map_storage = [j \in KeysOf(s) |-> s[FirstIndex(s, j)].val]
  BY <1>1, <1>2, EmptyMapType DEF Emplace
<1> HIDE DEF d
<1>4. StoredKeys(d) = KeysOf(s) /\ StoredKeys(c) = KeysOf(s)
  BY <1>1, <1>3 DEF StoredKeys
<1>5. \A j \in Key : Lookup(d, j) = Lookup(c, j)
  BY <1>1, <1>3, <1>4 DEF Lookup, Has
<1> QED BY <1>1, <1>4, <1>5 DEF OwnOnly, OthersKept, Torn, d

LEMMA InsertGoesOn ==
    ASSUME NEW c, Sound(c), ~Hollow(c), NEW r \in Nat, NEW moved, Reserved(c, r, moved),
           NEW k \in Key, NEW v \in Val, NEW x \in InsertResults(c, r, k, v)
    PROVE  /\ GoesOn(x, moved)
           /\ x.how = "exception" =>
                 \/ /\ c.is_vector_mode
                    /\ Len(c.vector_storage) >= SMALL_CAPACITY
                    /\ Torn(x.map)
                 \/ OwnOnly(c, x.map, k)
<1>1. OwnOnly(c, c, k)
  BY DEF OwnOnly, OthersKept
<1>2. CASE ~c.is_vector_mode
  <2>1. x \in EmplaceResults(c, r, k, v, {})
    BY <1>2 DEF InsertResults
  <2> QED BY <1>1, <1>2, <2>1, EmplaceGoesOn
<1>3. CASE c.is_vector_mode /\ Len(c.vector_storage) < SMALL_CAPACITY
  <2>1. x \in PushResults(c, r, k, v)
    BY <1>3 DEF InsertResults
  <2> QED BY <1>1, <1>3, <2>1, PushGoesOn
<1>4. CASE c.is_vector_mode /\ ~(Len(c.vector_storage) < SMALL_CAPACITY)
  <2>1. Len(c.vector_storage) \in Nat
    BY LenProperties DEF Sound, Container
  <2>2. Len(c.vector_storage) >= SMALL_CAPACITY
    BY <1>4, <2>1, CapacityAssumption
  <2>3. \/ \E d \in FailedConversions(c) : x = Result(d, r, {}, "exception")
        \/ x = Undefined(c, r)
        \/ \E new \in {0, r} : x \in EmplaceResults(ConvertToMap(c), new, k, v, {"vector"})
    BY <1>4 DEF InsertResults, ConversionResults
  <2>4. ASSUME NEW d \in FailedConversions(c), x = Result(d, r, {}, "exception")
        PROVE  GoesOn(x, moved) /\ Torn(x.map)
    <3>1. Sound(d) /\ ~d.is_vector_mode /\ Torn(d)
      BY <1>4, <2>2, FailedConversionSound
    <3>2. x.map = d /\ x.room = r /\ x.how = "exception"
      BY <2>4, ResultFields
    <3> QED BY <3>1, <3>2 DEF GoesOn, Reserved
  <2>5. ASSUME NEW new \in {0, r},
               x \in EmplaceResults(ConvertToMap(c), new, k, v, {"vector"})
        PROVE  GoesOn(x, moved) /\ (x.how = "exception" => OwnOnly(c, x.map, k))
    <3> DEFINE d == ConvertToMap(c)
    <3>1. Sound(d) /\ ~d.is_vector_mode /\ ~Hollow(d)
      BY ConvertToMapSound
    <3>2. OwnOnly(c, d, k)
      BY <1>4, ConversionKeepsParameters
    <3>3. new \in Nat /\ x \in EmplaceResults(d, new, k, v, {"vector"})
      BY <2>5
    <3> HIDE DEF d
    <3> QED BY <3>1, <3>2, <3>3, EmplaceGoesOn
  <2>6. CASE x = Undefined(c, r)
    BY <2>6, UndefinedFields DEF GoesOn
  <2> QED BY <1>4, <2>2, <2>3, <2>4, <2>5, <2>6
<1>5. c.is_vector_mode \in BOOLEAN
  BY DEF Sound, Container
<1> QED BY <1>2, <1>3, <1>4, <1>5

-----------------------------------------------------------------------------
(***************************************************************************)
(* Assignments.                                                            *)
(***************************************************************************)
LEMMA OverwriteKeepsOthers ==
    ASSUME NEW s \in Seq(Entry), NEW k \in KeysOf(s), NEW v \in Val
    PROVE  LET t == Overwrite(s, k, v)
           IN  /\ KeysOf(t) = KeysOf(s)
               /\ \A j \in KeysOf(s) \ {k} : t[FirstIndex(t, j)].val = s[FirstIndex(s, j)].val
               /\ t[FirstIndex(t, k)].val = v
<1> DEFINE t == Overwrite(s, k, v)
<1>1. \A i \in 1 .. Len(s) :
         t[i] = IF i = FirstIndex(s, k) THEN [key |-> k, val |-> v] ELSE s[i]
  BY OverwriteType
<1>2. KeysOf(t) = KeysOf(s) /\ \A j \in KeysOf(s) : FirstIndex(t, j) = FirstIndex(s, j)
  BY OverwriteKeys
<1>3. FirstIndex(s, k) \in 1 .. Len(s) /\ s[FirstIndex(s, k)].key = k
  BY FirstIndexProperties
<1> HIDE DEF t
<1>4. ASSUME NEW j \in KeysOf(s) \ {k}
      PROVE  t[FirstIndex(t, j)].val = s[FirstIndex(s, j)].val
  <2>1. FirstIndex(s, j) \in 1 .. Len(s) /\ s[FirstIndex(s, j)].key = j
    BY FirstIndexProperties
  <2> QED BY <1>1, <1>2, <1>3, <2>1
<1>5. t[FirstIndex(t, k)].val = v
  <2>1. t[FirstIndex(s, k)] = [key |-> k, val |-> v]
    BY <1>1, <1>3
  <2> QED BY <1>2, <2>1
<1> QED BY <1>2, <1>4, <1>5 DEF t

LEMMA AssignKeepsOthers ==
    ASSUME NEW c, Sound(c), ~Hollow(c), NEW k \in Key, NEW v \in Val, Has(c, k)
    PROVE  OthersKept(c, Assign(c, k, v), k) /\ Lookup(Assign(c, k, v), k) = v
<1> DEFINE d == Assign(c, k, v)
<1>1. ~Hollow(d)
  BY AssignSound
<1>2. CASE c.is_vector_mode
  <2> DEFINE s == c.vector_storage
             t == Overwrite(s, k, v)
  <2>1. s \in Seq(Entry) /\ k \in KeysOf(s)
    BY <1>2 DEF Sound, Container, Has, StoredKeys
  <2>2. d = [c EXCEPT !.vector_storage = t]
    BY <1>2 DEF Assign
  <2>3. /\ KeysOf(t) = KeysOf(s)
        /\ \A j \in KeysOf(s) \ {k} : t[FirstIndex(t, j)].val = s[FirstIndex(s, j)].val
        /\ t[FirstIndex(t, k)].val = v
    BY <2>1, OverwriteKeepsOthers
  <2> HIDE DEF t
  <2>4. d.is_vector_mode /\ d.vector_storage = t
    BY <1>2, <2>2 DEF Sound, Container
  <2> HIDE DEF d
  <2>5. StoredKeys(d) = KeysOf(t) /\ StoredKeys(c) = KeysOf(s)
    BY <1>2, <2>4 DEF StoredKeys
  <2>6. \A j \in Key \ {k} : Lookup(d, j) = Lookup(c, j)
    BY <1>2, <2>3, <2>4, <2>5 DEF Lookup, Has
  <2>7. Lookup(d, k) = v
    BY <2>1, <2>3, <2>4, <2>5 DEF Lookup, Has
  <2>8. ~Torn(d) /\ ~Torn(c)
    BY <1>2, <2>4 DEF Torn
  <2> QED BY <1>1, <2>3, <2>5, <2>6, <2>7, <2>8 DEF OthersKept, d
<1>3. CASE ~c.is_vector_mode
  <2> DEFINE m == [c.map_storage EXCEPT ![k] = v]
  <2>1. c.map_storage \in Dictionary /\ k \in DOMAIN c.map_storage
    BY <1>3 DEF Hollow, Sound, Container, Has, StoredKeys
  <2>2. /\ DOMAIN m = DOMAIN c.map_storage /\ m[k] = v
        /\ \A j \in DOMAIN m \ {k} : m[j] = c.map_storage[j]
    BY <2>1, DictionaryIsFunction
  <2>3. d = [c EXCEPT !.map_storage = m]
    BY <1>3 DEF Assign
  <2> HIDE DEF m
  <2>4. ~d.is_vector_mode /\ d.map_storage = m /\ d.vector_storage = c.vector_storage
    BY <1>3, <2>3 DEF Sound, Container
  <2> HIDE DEF d
  <2>5. StoredKeys(d) = DOMAIN m /\ StoredKeys(c) = DOMAIN m
    BY <1>3, <2>2, <2>4 DEF StoredKeys
  <2>6. \A j \in Key \ {k} : Lookup(d, j) = Lookup(c, j)
    BY <1>3, <2>2, <2>4, <2>5 DEF Lookup, Has
  <2>7. Lookup(d, k) = v
    BY <2>1, <2>2, <2>4, <2>5 DEF Lookup, Has
  <2>8. Torn(d) <=> Torn(c)
    BY <1>3, <2>4 DEF Torn
  <2> QED BY <1>1, <2>5, <2>6, <2>7, <2>8 DEF OthersKept, d
<1>4. c.is_vector_mode \in BOOLEAN
  BY DEF Sound, Container
<1> QED BY <1>2, <1>3, <1>4

LEMMA AssignGoesOn ==
    ASSUME NEW c, Sound(c), ~Hollow(c), NEW r \in Nat, NEW moved, Reserved(c, r, moved),
           NEW k \in Key, NEW v \in Val, Has(c, k), NEW x \in AssignResults(c, r, k, v)
    PROVE  GoesOn(x, moved) /\ (x.how = "exception" => OwnOnly(c, x.map, k))
<1>1. CASE x = Undefined(c, r)
  BY <1>1, UndefinedFields DEF GoesOn
<1>2. ASSUME NEW u \in Val, NEW how \in {"ok", "exception"},
             x = Result(Assign(c, k, u), r, {}, how), how = "exception" => u = Broken
      PROVE  GoesOn(x, moved) /\ (x.how = "exception" => OwnOnly(c, x.map, k))
  <2> DEFINE d == Assign(c, k, u)
  <2>1. /\ Sound(d) /\ d.is_vector_mode = c.is_vector_mode
        /\ d.initial_reserve = c.initial_reserve
    BY AssignSound
  <2>2. OthersKept(c, d, k) /\ Lookup(d, k) = u
    BY AssignKeepsOthers
  <2>3. x.map = d /\ x.room = r /\ x.how = how
    BY <1>2, ResultFields
  <2> HIDE DEF d
  <2>4. Reserved(d, r, moved)
    BY <2>1 DEF Reserved
  <2> QED BY <1>2, <2>1, <2>2, <2>3, <2>4 DEF GoesOn, OwnOnly
<1>3. \/ x = Undefined(c, r)
      \/ x = Result(Assign(c, k, v), r, {}, "ok")
      \/ x = Result(Assign(c, k, Broken), r, {}, "exception")
  BY DEF AssignResults
<1> QED BY <1>1, <1>2, <1>3, ValueAssumption

-----------------------------------------------------------------------------
(***************************************************************************)
(* clear() and unpack().                                                   *)
(***************************************************************************)
\* A container that holds nothing.
Empty(d) == /\ Sound(d) /\ Whole(d) /\ Contents(d) = EmptyMap
            /\ d.vector_storage = << >> /\ d.map_storage \in {NullPtr, EmptyMap}

\* clear()'s container without its map, in vector mode.
Lazy(c) == [PrimeStorage(0) EXCEPT !.initial_reserve = c.initial_reserve]

\* What they are: an empty vector, and a map in map mode only.
Fresh(vector, hint) ==
    [is_vector_mode  |-> vector,
     vector_storage  |-> << >>,
     map_storage     |-> IF vector THEN NullPtr ELSE EmptyMap,
     initial_reserve |-> hint]

LEMMA PrimeStorageIsFresh ==
    ASSUME NEW hint \in Nat
    PROVE  /\ hint <= SMALL_CAPACITY => PrimeStorage(hint) = Fresh(TRUE, hint)
           /\ hint > SMALL_CAPACITY => PrimeStorage(hint) = Fresh(FALSE, hint)
<1>1. CASE hint <= SMALL_CAPACITY
  <2>1. (hint <= SMALL_CAPACITY) = TRUE
    BY <1>1
  <2>2. PrimeStorage(hint) = Fresh(TRUE, hint)
    BY <2>1 DEF PrimeStorage, Fresh
  <2>3. ~(hint > SMALL_CAPACITY)
    BY <1>1, CapacityAssumption
  <2> QED BY <2>2, <2>3
<1>2. CASE hint > SMALL_CAPACITY
  <2>1. (hint <= SMALL_CAPACITY) = FALSE
    BY <1>2, CapacityAssumption
  <2> QED BY <1>2, <2>1, CapacityAssumption DEF PrimeStorage, Fresh
<1> QED BY <1>1, <1>2, CapacityAssumption

\* What holds nothing holds no broken value.
LEMMA EmptyStores ==
    ASSUME NEW d \in Container, d.vector_storage = << >>,
           d.map_storage \in {NullPtr, EmptyMap}, ~d.is_vector_mode => d.map_storage # NullPtr
    PROVE  Empty(d)
<1>1. OneStore(d)
  <2>1. Len(d.vector_storage) = 0
    BY EmptySeq
  <2> QED BY <2>1, CapacityAssumption DEF OneStore
<1>2. Sound(d)
  BY <1>1, EmptyMapFinite DEF Sound
<1>3. ~Hollow(d) /\ ~Torn(d)
  BY DEF Hollow, Torn
<1>4. ~BrokenInVector(d)
  <2>1. DOMAIN d.vector_storage = {}
    BY EmptySeq, LenProperties
  <2> QED BY <2>1 DEF BrokenInVector
<1>5. ~BrokenInMap(d)
  BY EmptyMapType DEF BrokenInMap
<1>6. Contents(d) = EmptyMap
  BY FirstWinsEmpty DEF Contents
<1> QED BY <1>1, <1>2, <1>3, <1>4, <1>5, <1>6 DEF Empty, Whole, BrokenIn

LEMMA FreshContainer ==
    ASSUME NEW vector \in BOOLEAN, NEW hint \in Nat
    PROVE  LET d == Fresh(vector, hint)
           IN  Empty(d) /\ d.initial_reserve = hint /\ (d.is_vector_mode <=> vector)
<1> DEFINE d == Fresh(vector, hint)
           s == << >>
<1>1. s \in Seq(Entry)
  BY EmptySeq
<1>2. /\ d.vector_storage = s /\ d.initial_reserve = hint /\ d.is_vector_mode = vector
      /\ d.map_storage = IF vector THEN NullPtr ELSE EmptyMap
  BY DEF Fresh
<1>3. d \in Container
  <2>1. s \in Seq(Entry) /\ EmptyMap \in Dictionary
    BY <1>1, EmptyMapType
  <2>2. d = [is_vector_mode |-> vector, vector_storage |-> s,
             map_storage |-> IF vector THEN NullPtr ELSE EmptyMap,
             initial_reserve |-> hint]
    BY DEF Fresh
  <2> HIDE DEF d, s
  <2> QED BY <2>1, <2>2 DEF Container
<1> HIDE DEF d
<1>4. Empty(d)
  BY <1>2, <1>3, EmptyStores, EmptyMapType, NullPtrAssumption
<1> QED BY <1>2, <1>4 DEF d

LEMMA EmptyContainers ==
    ASSUME NEW c \in Container
    PROVE  /\ \A d \in {Cleared(c), Lazy(c)} : Empty(d) /\ d.initial_reserve = c.initial_reserve
           /\ c.initial_reserve > SMALL_CAPACITY <=> ~Cleared(c).is_vector_mode
           /\ Lazy(c).is_vector_mode
<1> DEFINE hint == c.initial_reserve
<1>1. hint \in Nat /\ SMALL_CAPACITY \in Nat
  BY CapacityAssumption DEF Container
<1>2. hint <= SMALL_CAPACITY \/ hint > SMALL_CAPACITY
  BY <1>1
<1>3. PICK small \in BOOLEAN :
         Cleared(c) = Fresh(small, hint) /\ (hint > SMALL_CAPACITY <=> ~small)
  <2>1. CASE hint <= SMALL_CAPACITY
    <3>1. Cleared(c) = Fresh(TRUE, hint)
      BY <1>1, <2>1, PrimeStorageIsFresh DEF Cleared
    <3>2. ~(hint > SMALL_CAPACITY)
      BY <1>1, <2>1
    <3> QED BY <3>1, <3>2
  <2>2. CASE hint > SMALL_CAPACITY
    <3>1. Cleared(c) = Fresh(FALSE, hint)
      BY <1>1, <2>2, PrimeStorageIsFresh DEF Cleared
    <3> QED BY <2>2, <3>1
  <2> QED BY <1>2, <2>1, <2>2
<1>4. Lazy(c) = Fresh(TRUE, hint)
  <2> DEFINE p == PrimeStorage(0)
             none == << >>
  <2>1. p = [is_vector_mode |-> TRUE, vector_storage |-> none,
             map_storage    |-> NullPtr, initial_reserve |-> 0]
    BY <1>1, PrimeStorageIsFresh DEF Fresh
  <2>2. Lazy(c) = [p EXCEPT !.initial_reserve = hint]
    BY DEF Lazy
  <2>3. Fresh(TRUE, hint) = [is_vector_mode |-> TRUE, vector_storage |-> none,
                             map_storage    |-> NullPtr, initial_reserve |-> hint]
    BY DEF Fresh
  <2> HIDE DEF p, none, hint
  <2> QED BY <2>1, <2>2, <2>3
<1> HIDE DEF hint
<1>5. /\ Empty(Cleared(c)) /\ Cleared(c).initial_reserve = hint
      /\ (Cleared(c).is_vector_mode <=> small)
  BY <1>1, <1>3, FreshContainer
<1>6. Empty(Lazy(c)) /\ Lazy(c).initial_reserve = hint /\ Lazy(c).is_vector_mode
  <2> DEFINE d == Fresh(TRUE, hint)
  <2>1. Empty(d) /\ d.initial_reserve = hint
    BY <1>1, FreshContainer
  <2>2. d.is_vector_mode
    BY DEF Fresh
  <2> HIDE DEF d
  <2>3. Lazy(c) = d
    BY <1>4 DEF d
  <2> QED BY <2>1, <2>2, <2>3
<1>7. hint > SMALL_CAPACITY <=> ~Cleared(c).is_vector_mode
  BY <1>3, <1>5
<1>8. hint = c.initial_reserve
  BY DEF hint
<1> QED BY <1>5, <1>6, <1>7, <1>8

\* clear() of a container without broken values empties it.
LEMMA ClearGoesOn ==
    ASSUME NEW c, Sound(c), NEW r \in Nat, NEW x \in ClearResults(c, r)
    PROVE  /\ Sound(x.map) /\ x.room \in Nat
           /\ x.how \in {"cleared", "terminated", "undefined"}
           /\ x.how = "undefined" => x.map = c /\ BrokenIn(c)
           /\ x.how # "undefined" => Empty(x.map) /\ ~BrokenIn(c)
           /\ x.how = "cleared" /\ x.map.initial_reserve <= SMALL_CAPACITY
                 => x.room >= SMALL_CAPACITY
           /\ x.how = "terminated" => r < SMALL_CAPACITY
<1> DEFINE hinted == c.initial_reserve > SMALL_CAPACITY
           reserved == IF r < SMALL_CAPACITY THEN SMALL_CAPACITY ELSE r
<1>1. c \in Container /\ c.initial_reserve \in Nat /\ SMALL_CAPACITY \in Nat
  BY CapacityAssumption DEF Sound, Container
<1>2. reserved \in Nat /\ reserved >= SMALL_CAPACITY
  BY <1>1
<1>3. \/ BrokenIn(c) /\ x = Undefined(c, r)
      \/ /\ ~BrokenIn(c)
         /\ \/ x = Result(Cleared(c), IF hinted THEN r ELSE reserved, Stores, "cleared")
            \/ x = Result(Lazy(c), reserved, Stores, "cleared")
            \/ x = Result(Lazy(c), r, Stores, "terminated") /\ r < SMALL_CAPACITY
  BY DEF ClearResults, Lazy
<1> HIDE DEF reserved
<1>4. CASE BrokenIn(c) /\ x = Undefined(c, r)
  BY <1>4, UndefinedFields
<1>5. CASE /\ ~BrokenIn(c)
           /\ x = Result(Cleared(c), IF hinted THEN r ELSE reserved, Stores, "cleared")
  <2>1. /\ x.map = Cleared(c) /\ x.room = IF hinted THEN r ELSE reserved
        /\ x.how = "cleared"
    BY <1>5, ResultFields
  <2>2. Empty(x.map) /\ x.map.initial_reserve = c.initial_reserve
    BY <1>1, <2>1, EmptyContainers
  <2>3. x.map.initial_reserve <= SMALL_CAPACITY => x.room >= SMALL_CAPACITY
    BY <1>1, <1>2, <2>1, <2>2
  <2>4. x.room \in Nat
    BY <1>2, <2>1
  <2> QED BY <1>5, <2>1, <2>2, <2>3, <2>4 DEF Empty
<1>6. CASE ~BrokenIn(c) /\ x = Result(Lazy(c), reserved, Stores, "cleared")
  <2>1. x.map = Lazy(c) /\ x.room = reserved /\ x.how = "cleared"
    BY <1>6, ResultFields
  <2>2. Empty(x.map)
    BY <1>1, <2>1, EmptyContainers
  <2> QED BY <1>2, <1>6, <2>1, <2>2 DEF Empty
<1>7. CASE /\ ~BrokenIn(c)
           /\ x = Result(Lazy(c), r, Stores, "terminated") /\ r < SMALL_CAPACITY
  <2>1. x.map = Lazy(c) /\ x.room = r /\ x.how = "terminated"
    BY <1>7, ResultFields
  <2>2. Empty(x.map)
    BY <1>1, <2>1, EmptyContainers
  <2> QED BY <1>7, <2>1, <2>2 DEF Empty
<1> QED BY <1>3, <1>4, <1>5, <1>6, <1>7

\* The entries that decode are the container's contents.
LEMMA FilledWhole ==
    ASSUME NEW e, Empty(e), NEW w \in Seq(Entry), \A i \in DOMAIN w : w[i].val # Broken,
           NEW n \in 0 .. Len(w)
    PROVE  LET d == Filled(e, w, n)
           IN  /\ Sound(d) /\ Whole(d)
               /\ d.initial_reserve = e.initial_reserve
               /\ Contents(d) = FirstWins(SubSeq(w, 1, n))
<1> DEFINE d == Filled(e, w, n)
           s == SubSeq(w, 1, n)
<1>1. Sound(d) /\ ~Hollow(d) /\ d.initial_reserve = e.initial_reserve
  BY FilledSound DEF Empty
<1>2. e \in Container /\ e.vector_storage = << >> /\ AllocatedMap(e) = EmptyMap
  BY DEF Empty, Sound, AllocatedMap
<1>3. Len(w) \in Nat /\ SMALL_CAPACITY \in Nat /\ \A i \in 1 .. n : w[i] \in Entry
  BY LenProperties, ElementOfSeq, CapacityAssumption
<1>4. s \in Seq(Entry) /\ Len(s) = n /\ \A i \in 1 .. n : s[i] = w[i]
  BY <1>3, SubSeqProperties
<1>5. DOMAIN s = 1 .. n /\ DOMAIN w = 1 .. Len(w)
  BY <1>4, LenProperties
<1>6. \A i \in 1 .. n : s[i].val # Broken
  BY <1>3, <1>4, <1>5
<1> HIDE DEF s
<1>7. CASE Len(w) > SMALL_CAPACITY
  <2> DEFINE m == Emplace(EmptyMap, s)
  <2>1. d = [e EXCEPT !.is_vector_mode = FALSE, !.map_storage = m]
    BY <1>2, <1>7 DEF Filled, s
  <2>2. DOMAIN m = KeysOf(s) /\ \A k \in KeysOf(s) : m[k] = s[FirstIndex(s, k)].val
    BY <1>4, FirstWinsType DEF FirstWins
  <2> HIDE DEF m
  <2>3. ~d.is_vector_mode /\ d.vector_storage = << >> /\ d.map_storage = m
    BY <1>2, <2>1 DEF Container
  <2> HIDE DEF d
  <2>4. Contents(d) = FirstWins(s)
    BY <2>3 DEF Contents, FirstWins, m
  <2>5. \A k \in KeysOf(s) : m[k] # Broken
    BY <1>4, <1>6, <2>2, FirstIndexProperties
  <2>6. ~BrokenInMap(d)
    BY <2>2, <2>3, <2>5 DEF BrokenInMap
  <2>7. ~BrokenInVector(d)
    <3>1. DOMAIN d.vector_storage = {}
      BY <2>3, EmptySeq, LenProperties
    <3> QED BY <3>1 DEF BrokenInVector
  <2>8. OneStore(d) /\ ~Torn(d)
    BY <2>3 DEF OneStore, Torn
  <2> QED BY <1>1, <2>4, <2>6, <2>7, <2>8 DEF Whole, BrokenIn, d, s
<1>8. CASE ~(Len(w) > SMALL_CAPACITY)
  <2>1. d = [e EXCEPT !.is_vector_mode = TRUE, !.vector_storage = s]
    BY <1>8 DEF Filled, s
  <2>2. d.is_vector_mode /\ d.vector_storage = s /\ d.map_storage = e.map_storage
    BY <1>2, <2>1 DEF Container
  <2> HIDE DEF d
  <2>3. Contents(d) = FirstWins(s)
    BY <2>2 DEF Contents
  <2>4. ~BrokenInVector(d)
    BY <1>5, <1>6, <2>2 DEF BrokenInVector
  <2>5. ~BrokenInMap(d)
    BY <2>2, EmptyMapType DEF BrokenInMap, Empty
  <2>6. OneStore(d) /\ ~Torn(d)
    BY <1>1, <2>2 DEF Sound, Torn
  <2> QED BY <1>1, <2>3, <2>4, <2>5, <2>6 DEF Whole, BrokenIn, d, s
<1> QED BY <1>7, <1>8

\* What unpacking w that ended as how says of the container c it leaves.
Loaded(c, how, w) ==
    /\ how = "unpacked" => Whole(c) /\ Contents(c) = FirstWins(w)
    /\ how = "interrupted" =>
          Whole(c) /\ \E i \in 0 .. Len(w) - 1 : Contents(c) = FirstWins(SubSeq(w, 1, i))
    /\ how = "terminated" => Whole(c) /\ Contents(c) = EmptyMap

\* unpack() has replaced the contents, or could not be made sense of.
LEMMA UnpackGoesOn ==
    ASSUME NEW c, Sound(c), NEW r \in Nat, NEW w \in Seq(Entry),
           \A i \in DOMAIN w : w[i].val # Broken, NEW n \in 0 .. Len(w),
           NEW x \in UnpackResults(c, r, w, n)
    PROVE  /\ Sound(x.map) /\ x.room \in Nat
           /\ x.how \in {"unpacked", "interrupted", "half_unpacked", "terminated", "undefined"}
           /\ x.how = "undefined" => x.map = c /\ BrokenIn(c)
           /\ x.how # "undefined" => ~BrokenIn(c)
           /\ x.how = "half_unpacked" => x.map = c /\ w # << >>
           /\ x.how = "terminated" => r < SMALL_CAPACITY
           /\ x.how \in {"unpacked", "interrupted"} => Reserved(x.map, x.room, FALSE)
           /\ Loaded(x.map, x.how, w)
<1> DEFINE how == IF n < Len(w) THEN "interrupted" ELSE "unpacked"
<1>1. Len(w) \in Nat /\ n \in Nat /\ SMALL_CAPACITY \in Nat
  BY LenProperties, CapacityAssumption
<1>2. /\ how = "unpacked" => SubSeq(w, 1, n) = w
      /\ how = "interrupted" => n \in 0 .. Len(w) - 1
      /\ how \in {"unpacked", "interrupted"}
  BY <1>1, SubSeqFull
<1>3. PICK e \in ClearResults(c, r) :
         \/ e.how # "cleared" /\ x = e
         \/ e.how = "cleared" /\ n < Len(w) /\ x = Result(c, r, {}, "half_unpacked")
         \/ /\ e.how = "cleared" /\ Len(w) > SMALL_CAPACITY
            /\ \/ x = Result(Filled(e.map, w, n), e.room, Stores, how)
               \/ x = Result(e.map, e.room, Stores, "interrupted")
               \/ x = Result([e.map EXCEPT !.map_storage = AllocatedMap(e.map)], e.room,
                             Stores, "interrupted")
         \/ /\ e.how = "cleared" /\ ~(Len(w) > SMALL_CAPACITY)
            /\ \E new \in GrownTo(e.room, n) :
                  x = Result(Filled(e.map, w, n), new, Stores, how)
  BY DEF UnpackResults
<1> HIDE DEF how
<1>4. /\ Sound(e.map) /\ e.room \in Nat
      /\ e.how \in {"cleared", "terminated", "undefined"}
      /\ e.how = "undefined" => e.map = c /\ BrokenIn(c)
      /\ e.how # "undefined" => Empty(e.map) /\ ~BrokenIn(c)
      /\ e.how = "cleared" /\ e.map.initial_reserve <= SMALL_CAPACITY
            => e.room >= SMALL_CAPACITY
      /\ e.how = "terminated" => r < SMALL_CAPACITY
  BY ClearGoesOn
<1>5. CASE e.how # "cleared" /\ x = e
  <2>1. Loaded(x.map, x.how, w)
    BY <1>4, <1>5 DEF Loaded, Empty
  <2> QED BY <1>4, <1>5, <2>1
<1>6. CASE e.how = "cleared" /\ n < Len(w) /\ x = Result(c, r, {}, "half_unpacked")
  <2>1. x.map = c /\ x.room = r /\ x.how = "half_unpacked"
    BY <1>6, ResultFields
  <2>2. w # << >>
    BY <1>1, <1>6, EmptySeq
  <2>3. Loaded(x.map, x.how, w)
    BY <2>1 DEF Loaded
  <2> QED BY <1>4, <1>6, <2>1, <2>2, <2>3
<1>7. ASSUME e.how = "cleared", NEW new \in Nat, new >= e.room,
             x = Result(Filled(e.map, w, n), new, Stores, how)
      PROVE  /\ Sound(x.map) /\ x.room \in Nat /\ x.how = how
             /\ Reserved(x.map, x.room, FALSE) /\ Loaded(x.map, x.how, w)
  <2>1. x.map = Filled(e.map, w, n) /\ x.room = new /\ x.how = how
    BY <1>7, ResultFields
  <2>2. /\ Sound(x.map) /\ Whole(x.map) /\ x.map.initial_reserve = e.map.initial_reserve
        /\ Contents(x.map) = FirstWins(SubSeq(w, 1, n))
    BY <1>4, <1>7, <2>1, FilledWhole
  <2>3. e.map.initial_reserve \in Nat
    BY <1>4 DEF Sound, Container
  <2>4. e.map.initial_reserve <= SMALL_CAPACITY => new >= SMALL_CAPACITY
    BY <1>1, <1>4, <1>7, <2>3
  <2>5. Loaded(x.map, x.how, w)
    BY <1>2, <2>1, <2>2 DEF Loaded
  <2> QED BY <1>7, <2>1, <2>2, <2>4, <2>5 DEF Reserved
<1>8. ASSUME e.how = "cleared", Len(w) > SMALL_CAPACITY,
             NEW d, x = Result(d, e.room, Stores, "interrupted"),
             d = e.map \/ d = [e.map EXCEPT !.map_storage = AllocatedMap(e.map)]
      PROVE  /\ Sound(x.map) /\ x.room \in Nat /\ x.how = "interrupted"
             /\ Reserved(x.map, x.room, FALSE) /\ Loaded(x.map, x.how, w)
  <2>1. x.map = d /\ x.room = e.room /\ x.how = "interrupted"
    BY <1>8, ResultFields
  <2>2. Empty(e.map) /\ e.map \in Container
    BY <1>4, <1>8 DEF Empty, Sound
  <2>3. AllocatedMap(e.map) = EmptyMap /\ EmptyMap \in Dictionary /\ EmptyMap # NullPtr
    BY <2>2, EmptyMapType, NullPtrAssumption DEF Empty, AllocatedMap
  <2>4. Empty(d) /\ d.initial_reserve = e.map.initial_reserve
    <3>1. CASE d = e.map
      BY <2>2, <3>1
    <3>2. CASE d = [e.map EXCEPT !.map_storage = AllocatedMap(e.map)]
      <4>1. /\ d \in Container /\ d.vector_storage = << >> /\ d.map_storage = EmptyMap
            /\ d.initial_reserve = e.map.initial_reserve
        BY <2>2, <2>3, <3>2 DEF Empty, Container
      <4> QED BY <2>3, <4>1, EmptyStores
    <3> QED BY <1>8, <3>1, <3>2
  <2>5. Reserved(d, e.room, FALSE)
    BY <1>4, <1>8, <2>4 DEF Reserved
  <2>6. Contents(d) = FirstWins(SubSeq(w, 1, 0)) /\ 0 \in 0 .. Len(w) - 1
    <3>1. SubSeq(w, 1, 0) = << >>
      BY SubSeqEmpty
    <3>2. 0 \in 0 .. Len(w) - 1
      BY <1>1, <1>8
    <3> QED BY <2>4, <3>1, <3>2, FirstWinsEmpty DEF Empty
  <2>7. Loaded(x.map, x.how, w)
    BY <2>1, <2>4, <2>6 DEF Loaded, Empty
  <2> QED BY <1>4, <2>1, <2>4, <2>5, <2>7 DEF Empty
<1>9. \A new \in GrownTo(e.room, n) : new \in Nat /\ new >= e.room
  BY <1>1, <1>4, GrownToProperties
<1>10. e.room \in Nat /\ e.room >= e.room
  BY <1>4
<1>11. \/ e.how # "cleared" /\ x = e
       \/ e.how = "cleared" /\ n < Len(w) /\ x = Result(c, r, {}, "half_unpacked")
       \/ /\ e.how = "cleared"
          /\ \E new \in Nat : new >= e.room /\ x = Result(Filled(e.map, w, n), new, Stores, how)
       \/ /\ e.how = "cleared" /\ Len(w) > SMALL_CAPACITY
          /\ \E d : /\ x = Result(d, e.room, Stores, "interrupted")
                    /\ d = e.map \/ d = [e.map EXCEPT !.map_storage = AllocatedMap(e.map)]
  BY <1>3, <1>9, <1>10
<1>12. e.how = "cleared" => ~BrokenIn(c)
  BY <1>4
<1> QED BY <1>2, <1>5, <1>6, <1>7, <1>8, <1>11, <1>12

-----------------------------------------------------------------------------
(***************************************************************************)
(* Moves.                                                                  *)
(***************************************************************************)
LEMMA MovesSound ==
    ASSUME NEW c, Sound(c), NEW hint \in Nat
    PROVE  /\ Sound([c EXCEPT !.initial_reserve = hint])
           /\ BrokenIn([c EXCEPT !.initial_reserve = hint]) <=> BrokenIn(c)
           /\ Sound(MovedOut(c)) /\ ~BrokenIn(MovedOut(c))
<1> DEFINE a == [c EXCEPT !.initial_reserve = hint]
           b == MovedOut(c)
           s == << >>
<1>1. c \in Container
  BY DEF Sound
<1>2. /\ a \in Container /\ a.is_vector_mode = c.is_vector_mode
      /\ a.vector_storage = c.vector_storage /\ a.map_storage = c.map_storage
  BY <1>1 DEF Container
<1>3. Sound(a) /\ (BrokenIn(a) <=> BrokenIn(c))
  <2> HIDE DEF a
  <2> QED BY <1>2 DEF Sound, OneStore, BrokenIn, BrokenInVector, BrokenInMap
<1>4. s \in Seq(Entry) /\ Len(s) = 0 /\ DOMAIN s = {}
  BY EmptySeq, LenProperties
<1>5. b \in Container /\ b.vector_storage = s /\ b.map_storage = NullPtr
  <2>1. b = [c EXCEPT !.vector_storage = s, !.map_storage = NullPtr]
    BY DEF MovedOut
  <2> HIDE DEF b, s
  <2> QED BY <1>1, <1>4, <2>1 DEF Container
<1> HIDE DEF b
<1>6. Sound(b)
  BY <1>4, <1>5, CapacityAssumption DEF Sound, OneStore
<1>7. ~BrokenIn(b)
  BY <1>4, <1>5 DEF BrokenIn, BrokenInVector, BrokenInMap
<1> QED BY <1>3, <1>6, <1>7 DEF a, b

-----------------------------------------------------------------------------
(***************************************************************************)
(* The invariant: the types, a container that is sound even when it is     *)
(* torn, and the reserve of its vector.                                    *)
(***************************************************************************)
MInv == MemoryTypeOK /\ Sound(map) /\ (Running => Reserved(map, room, relocated))

\* The order of an iterate() is a sequence of keys.
LEMMA TraversalType ==
    ASSUME NEW c, Sound(c), ~Hollow(c), NEW t \in Traversals(c)
    PROVE  [i \in DOMAIN t |-> t[i].key] \in Seq(Key)
<1>1. t \in Seq(Entry)
  BY TraversalIsContents
<1>2. DOMAIN t = 1 .. Len(t) /\ Len(t) \in Nat /\ \A i \in 1 .. Len(t) : t[i] \in Entry
  BY <1>1, LenProperties, ElementOfSeq
<1>3. [i \in DOMAIN t |-> t[i].key] \in [1 .. Len(t) -> Key]
  BY <1>2 DEF Entry
<1> QED BY <1>2, <1>3, SeqDef

LEMMA DanglesType ==
    ASSUME NEW moved
    PROVE  /\ kept \in Ref \cup {NoRef} => Dangles(kept, NoRef, moved) \in Ref \cup {NoRef}
           /\ walk \in Walk \cup {NoWalk} => Dangles(walk, NoWalk, moved) \in Walk \cup {NoWalk}
<1>1. ASSUME kept \in Ref PROVE [kept EXCEPT !.dangling = TRUE] \in Ref
  BY <1>1 DEF Ref
<1>2. ASSUME walk \in Walk PROVE [walk EXCEPT !.dangling = TRUE] \in Walk
  BY <1>2 DEF Walk
<1> QED BY <1>1, <1>2 DEF Dangles

\* A call whose result is x keeps the invariant.
LEMMA EndsKeepsMInv ==
    ASSUME MInv, NEW x, Sound(x.map), x.room \in Nat, x.how \in Returns \cup Stops,
           relocated' \in BOOLEAN,
           x.how \in Returns => Reserved(x.map, x.room, relocated'),
           Ends({x})
    PROVE  MInv' /\ map' = x.map /\ ended' = x.how
<1>1. /\ map' = x.map /\ room' = x.room /\ ended' = x.how
      /\ kept' = Dangles(kept, NoRef, x.moved)
      /\ walk' = Dangles(walk, NoWalk, x.moved)
  BY DEF Ends
<1>2. kept' \in Ref \cup {NoRef} /\ walk' \in Walk \cup {NoWalk}
  BY <1>1, DanglesType DEF MInv, MemoryTypeOK
<1>3. MemoryTypeOK'
  BY <1>1, <1>2 DEF MemoryTypeOK, Sound
<1>4. Sound(map')
  BY <1>1
<1>5. Running' => Reserved(map', room', relocated')
  BY <1>1 DEF Running
<1> QED BY <1>1, <1>3, <1>4, <1>5 DEF MInv

LEMMA EndsWithOne ==
    ASSUME NEW results, Ends(results)
    PROVE  \E x \in results : Ends({x})
BY DEF Ends

LEMMA InitMInv == Init => MInv
<1> SUFFICES ASSUME Init PROVE MInv
  OBVIOUS
<1>1. PICK hint \in Hints : /\ map = PrimeStorage(hint)
                            /\ room = IF hint > SMALL_CAPACITY THEN 0 ELSE SMALL_CAPACITY
  BY DEF Init
<1>2. hint \in Nat /\ SMALL_CAPACITY \in Nat
  BY HintsAssumption, CapacityAssumption
<1>3. Sound(map)
  BY <1>1, <1>2, PrimeStorageSound
<1>4. room \in Nat
  BY <1>1, <1>2
<1>5. map.initial_reserve = hint
  BY <1>1 DEF PrimeStorage
<1>6. Reserved(map, room, relocated)
  BY <1>1, <1>2, <1>5 DEF Reserved
<1>7. MemoryTypeOK
  BY <1>3, <1>4 DEF Init, MemoryTypeOK, Sound, Returns
<1> QED BY <1>3, <1>6, <1>7 DEF MInv

-----------------------------------------------------------------------------
(***************************************************************************)
(* The steps: each keeps the invariant, and ends as a property says.       *)
(***************************************************************************)
\* What FailuresAreContained says of a step that throws.
Contained ==
    \/ /\ map.is_vector_mode
       /\ Len(map.vector_storage) >= SMALL_CAPACITY
       /\ Torn(map')
    \/ /\ ~Hollow(map')
       /\ Torn(map') <=> Torn(map)
       /\ StoredKeys(map') = StoredKeys(map)
       /\ \E own \in Key :
             /\ Lookup(map', own) \in {Lookup(map, own), Broken}
             /\ \A k \in Key \ {own} : Lookup(map', k) = Lookup(map, k)

LEMMA WritesStep ==
    ASSUME MInv, Writes
    PROVE  /\ MInv' /\ UNCHANGED relocated
           /\ ended' \in {"ok", "exception", "undefined"}
           /\ ended' = "exception" => Contained
<1>1. PICK k \in Key, v \in Val : Add(k, v) \/ Set(k, v) \/ Update(k, v)
  BY DEF Writes
<1>2. Sound(map) /\ ~Hollow(map) /\ room \in Nat /\ Reserved(map, room, relocated)
  BY <1>1 DEF Add, Set, Update, Usable, MInv, MemoryTypeOK
<1>3. UNCHANGED relocated /\ relocated \in BOOLEAN
  BY <1>1 DEF Add, Set, Update, MInv, MemoryTypeOK
<1>4. PICK x : /\ Ends({x})
               /\ \/ x \in InsertResults(map, room, k, v)
                  \/ Has(map, k) /\ x \in AssignResults(map, room, k, v)
                  \/ x = Result(map, room, {}, "ok")
  BY <1>1, EndsWithOne DEF Add, Set, Update
<1>5. /\ GoesOn(x, relocated)
      /\ x.how = "exception" =>
            \/ /\ map.is_vector_mode
               /\ Len(map.vector_storage) >= SMALL_CAPACITY
               /\ Torn(x.map)
            \/ OwnOnly(map, x.map, k)
  <2>1. CASE x \in InsertResults(map, room, k, v)
    BY <1>2, <2>1, InsertGoesOn
  <2>2. CASE Has(map, k) /\ x \in AssignResults(map, room, k, v)
    BY <1>2, <2>2, AssignGoesOn
  <2>3. CASE x = Result(map, room, {}, "ok")
    BY <1>2, <2>3, ResultFields DEF GoesOn
  <2> QED BY <1>4, <2>1, <2>2, <2>3
<1>6. MInv' /\ map' = x.map /\ ended' = x.how
  BY <1>3, <1>4, <1>5, EndsKeepsMInv DEF GoesOn, Returns, Stops
<1>7. ended' = "exception" => Contained
  BY <1>5, <1>6 DEF OwnOnly, OthersKept, Contained
<1> QED BY <1>3, <1>5, <1>6, <1>7 DEF GoesOn

LEMMA ClearStep ==
    ASSUME MInv, Clear
    PROVE  /\ MInv'
           /\ ended' \in {"cleared", "terminated", "undefined"}
           /\ ended' = "undefined" => map' = map /\ BrokenIn(map)
           /\ ended' # "undefined" => Empty(map') /\ ~BrokenIn(map)
           /\ ended' = "terminated" => room < SMALL_CAPACITY
<1>1. Sound(map) /\ room \in Nat /\ relocated' = FALSE
  BY DEF MInv, MemoryTypeOK, Clear
<1>2. PICK x \in ClearResults(map, room) : Ends({x})
  BY EndsWithOne DEF Clear
<1>3. /\ Sound(x.map) /\ x.room \in Nat
      /\ x.how \in {"cleared", "terminated", "undefined"}
      /\ x.how = "undefined" => x.map = map /\ BrokenIn(map)
      /\ x.how # "undefined" => Empty(x.map) /\ ~BrokenIn(map)
      /\ x.how = "cleared" /\ x.map.initial_reserve <= SMALL_CAPACITY
            => x.room >= SMALL_CAPACITY
      /\ x.how = "terminated" => room < SMALL_CAPACITY
  BY <1>1, ClearGoesOn
<1>4. x.how \in Returns => Reserved(x.map, x.room, relocated')
  BY <1>3 DEF Returns, Reserved
<1>5. MInv' /\ map' = x.map /\ ended' = x.how
  BY <1>1, <1>2, <1>3, <1>4, EndsKeepsMInv DEF Returns, Stops
<1> QED BY <1>3, <1>5

LEMMA UnpackStep ==
    ASSUME MInv, NEW w \in Wires, NEW n \in 0 .. Len(w), Unpack(w, n)
    PROVE  /\ MInv'
           /\ ended' \in {"unpacked", "interrupted", "half_unpacked", "terminated", "undefined"}
           /\ ended' = "undefined" => map' = map /\ BrokenIn(map)
           /\ ended' # "undefined" => ~BrokenIn(map)
           /\ ended' = "half_unpacked" => map' = map /\ w # << >>
           /\ ended' = "terminated" => room < SMALL_CAPACITY
           /\ Loaded(map', ended', w)
<1>1. Sound(map) /\ room \in Nat /\ relocated' = FALSE
  BY DEF MInv, MemoryTypeOK, Unpack
<1>2. PICK x \in UnpackResults(map, room, w, n) : Ends({x})
  BY EndsWithOne DEF Unpack
<1>3. w \in Seq(Entry) /\ \A i \in DOMAIN w : w[i].val # Broken
  BY WiresAssumption
<1>4. /\ Sound(x.map) /\ x.room \in Nat
      /\ x.how \in {"unpacked", "interrupted", "half_unpacked", "terminated", "undefined"}
      /\ x.how = "undefined" => x.map = map /\ BrokenIn(map)
      /\ x.how # "undefined" => ~BrokenIn(map)
      /\ x.how = "half_unpacked" => x.map = map /\ w # << >>
      /\ x.how = "terminated" => room < SMALL_CAPACITY
      /\ x.how \in {"unpacked", "interrupted"} => Reserved(x.map, x.room, FALSE)
      /\ Loaded(x.map, x.how, w)
  BY <1>1, <1>3, UnpackGoesOn
<1>5. x.how \in Returns => Reserved(x.map, x.room, relocated')
  BY <1>1, <1>4 DEF Returns
<1>6. MInv' /\ map' = x.map /\ ended' = x.how
  BY <1>1, <1>2, <1>4, <1>5, EndsKeepsMInv DEF Returns, Stops
<1> QED BY <1>4, <1>6

LEMMA ResetsStep ==
    ASSUME MInv, Resets
    PROVE  MInv' /\ (ended' = "terminated" => room < SMALL_CAPACITY)
BY ClearStep, UnpackStep DEF Resets

\* A container that is moved in has the types of one.
LEMMA MoveInStep ==
    ASSUME MInv, NEW x \in Others, MoveIn(x)
    PROVE  /\ MInv'
           /\ \/ BrokenIn(map) /\ map' = map /\ ended' = "undefined"
              \/ /\ ~BrokenIn(map) /\ ended' = "received"
                 /\ map' = [x.map EXCEPT !.initial_reserve = map.initial_reserve]
<1>1. Sound(map) /\ room \in Nat /\ relocated' = TRUE /\ map.initial_reserve \in Nat
  BY DEF MInv, MemoryTypeOK, MoveIn, Container
<1>2. Sound(x.map) /\ x.room \in Nat
  BY OthersAssumption DEF Sound
<1> DEFINE d == [x.map EXCEPT !.initial_reserve = map.initial_reserve]
<1>3. Sound(d)
  BY <1>1, <1>2, MovesSound
<1> HIDE DEF d
<1>4. CASE BrokenIn(map)
  <2> DEFINE y == Undefined(map, room)
  <2>1. Ends({y})
    BY <1>4 DEF MoveIn
  <2>2. y.map = map /\ y.room = room /\ y.how = "undefined"
    BY UndefinedFields
  <2> HIDE DEF y
  <2>3. MInv' /\ map' = y.map /\ ended' = y.how
    BY <1>1, <2>1, <2>2, EndsKeepsMInv DEF Returns, Stops
  <2> QED BY <1>4, <2>2, <2>3
<1>5. CASE ~BrokenIn(map)
  <2> DEFINE y == Result(d, x.room, Stores, "received")
  <2>1. Ends({y})
    BY <1>5 DEF MoveIn, d
  <2>2. y.map = d /\ y.room = x.room /\ y.how = "received"
    BY ResultFields
  <2> HIDE DEF y
  <2>3. MInv' /\ map' = y.map /\ ended' = y.how
    BY <1>1, <1>2, <1>3, <2>1, <2>2, EndsKeepsMInv DEF Returns, Stops, Reserved
  <2> QED BY <1>5, <2>2, <2>3 DEF d
<1> QED BY <1>4, <1>5

LEMMA MovesStep ==
    ASSUME MInv, Moves
    PROVE  MInv' /\ ended' # "terminated"
<1>1. ASSUME NEW hint \in Hints \cup {0}, Relocate(hint)
      PROVE  MInv' /\ ended' # "terminated"
  <2>1. Sound(map) /\ hint \in Nat
    BY HintsAssumption DEF MInv
  <2>2. Sound(map')
    BY <1>1, <2>1, MovesSound DEF Relocate
  <2>3. MemoryTypeOK'
    BY <1>1, <2>2 DEF Relocate, MInv, MemoryTypeOK, Sound, Returns
  <2> QED BY <1>1, <2>2, <2>3 DEF Relocate, MInv, Reserved
<1>2. CASE MoveOut
  <2>1. Sound(map')
    <3>1. Sound(map) /\ 0 \in Nat
      BY DEF MInv
    <3> QED BY <1>2, <3>1, MovesSound DEF MoveOut
  <2>2. MemoryTypeOK'
    BY <1>2, <2>1 DEF MoveOut, MInv, MemoryTypeOK, Sound, Returns
  <2> QED BY <1>2, <2>1, <2>2 DEF MoveOut, MInv, Reserved
<1>3. CASE Receives
  BY <1>3, MoveInStep DEF Receives
<1> QED BY <1>1, <1>2, <1>3 DEF Moves

\* pack() changes nothing.
LEMMA PackStep ==
    ASSUME Pack
    PROVE  /\ Usable /\ UNCHANGED <<map, room, kept, walk, relocated>>
           /\ LET broken == IF map.is_vector_mode THEN BrokenInVector(map) ELSE BrokenInMap(map)
              IN  \/ ended' = "exception"
                  \/ broken /\ ended' = "undefined"
                  \/ ~broken /\ ended' = "ok"
<1> DEFINE broken == IF map.is_vector_mode THEN BrokenInVector(map) ELSE BrokenInMap(map)
           other == IF broken THEN Undefined(map, room) ELSE Result(map, room, {}, "ok")
<1>1. PICK x : Ends({x}) /\ (x = Result(map, room, {}, "exception") \/ x = other)
  BY EndsWithOne DEF Pack
<1>2. /\ other.map = map /\ other.room = room /\ other.moved = {}
      /\ broken => other.how = "undefined"
      /\ ~broken => other.how = "ok"
  BY ResultFields, UndefinedFields
<1> HIDE DEF other
<1>3. /\ x.map = map /\ x.room = room /\ x.moved = {}
      /\ x.how = "exception" \/ x.how = other.how
  BY <1>1, <1>2, ResultFields
<1>4. kept' = kept /\ walk' = walk /\ map' = map /\ room' = room /\ ended' = x.how
  BY <1>1, <1>3 DEF Ends, Dangles
<1>5. Usable /\ relocated' = relocated
  BY DEF Pack
<1> HIDE DEF broken
<1>6. \/ ended' = "exception"
      \/ broken /\ ended' = "undefined"
      \/ ~broken /\ ended' = "ok"
  BY <1>2, <1>3, <1>4
<1> QED BY <1>4, <1>5, <1>6 DEF broken

\* The steps that leave the container as it is.
Reading == \/ \E k \in Key : Find(k)
           \/ Pack \/ UseHollow \/ LookupTerminates \/ Destroy \/ StartWalk \/ WalkStep

LEMMA ReadingKeeps ==
    ASSUME Reading
    PROVE  /\ Running /\ UNCHANGED <<map, room, relocated>>
           /\ ended' = "terminated" => ~map.is_vector_mode
           /\ ended' \in Returns \cup Stops
<1>1. CASE Pack
  <2>1. UNCHANGED <<map, room, relocated>> /\ ended' \in {"ok", "exception", "undefined"}
    BY <1>1, PackStep
  <2>2. Running
    BY <1>1 DEF Pack, Usable
  <2> QED BY <2>1, <2>2 DEF Returns, Stops
<1>2. CASE ~Pack
  <2>1. /\ Running /\ UNCHANGED <<map, room, relocated>>
        /\ \/ ended' = "terminated" /\ ~map.is_vector_mode
           \/ ended' \in {"ok", "crashed", "undefined", "astray", "destroyed", ended}
    BY <1>2 DEF Reading, Find, UseHollow, LookupTerminates, Destroy, StartWalk, WalkStep,
                Visit, EndWalk, WalkAstray, Usable, Stop
  <2>2. ended \in Returns
    BY <2>1 DEF Running
  <2> QED BY <2>1, <2>2 DEF Returns, Stops
<1> QED BY <1>1, <1>2

LEMMA ReadingStep ==
    ASSUME MInv, Reading
    PROVE  MInv'
<1>1. /\ Running /\ UNCHANGED <<map, room, relocated>>
      /\ ended' \in Returns \cup Stops
  BY ReadingKeeps
<1>2. kept' \in Ref \cup {NoRef}
  <2>1. ASSUME NEW k \in Key, Find(k) PROVE kept' \in Ref \cup {NoRef}
    <3>1. CASE Has(map, k) /\ "pointer" \in Followed
      <4> DEFINE i == IF map.is_vector_mode THEN FirstIndex(map.vector_storage, k) ELSE 0
      <4>1. i \in Nat
        <5>1. CASE map.is_vector_mode
          <6>1. map.vector_storage \in Seq(Entry) /\ k \in KeysOf(map.vector_storage)
            BY <3>1, <5>1 DEF Has, StoredKeys, MInv, MemoryTypeOK, Container
          <6>2. FirstIndex(map.vector_storage, k) \in 1 .. Len(map.vector_storage)
            BY <6>1, FirstIndexProperties
          <6> QED BY <5>1, <6>2
        <5> QED BY <5>1
      <4> HIDE DEF i
      <4>2. kept' = [store |-> StoreOf(map), key |-> k, at |-> i, dangling |-> FALSE]
        BY <2>1, <3>1 DEF Find, i
      <4>3. StoreOf(map) \in Stores
        BY DEF StoreOf, Stores
      <4> QED BY <4>1, <4>2, <4>3 DEF Ref
    <3> QED BY <2>1, <3>1 DEF Find
  <2>2. CASE Pack
    BY <2>2, PackStep DEF MInv, MemoryTypeOK
  <2> QED BY <2>1, <2>2 DEF Reading, UseHollow, LookupTerminates, Destroy, StartWalk, WalkStep,
                            Visit, EndWalk, WalkAstray, Stop, MInv, MemoryTypeOK
<1>3. walk' \in Walk \cup {NoWalk}
  <2>1. CASE StartWalk
    <3>1. PICK t \in Traversals(map) :
             walk' = [store    |-> StoreOf(map),
                      order    |-> [i \in DOMAIN t |-> t[i].key],
                      next     |-> 1,
                      dangling |-> FALSE]
      BY <2>1 DEF StartWalk
    <3>2. [i \in DOMAIN t |-> t[i].key] \in Seq(Key)
      BY <2>1, TraversalType DEF StartWalk, MInv
    <3>3. StoreOf(map) \in Stores
      BY DEF StoreOf, Stores
    <3> QED BY <3>1, <3>2, <3>3 DEF Walk
  <2>2. CASE Visit
    <3>1. walk \in Walk
      BY <2>2 DEF Visit, MInv, MemoryTypeOK
    <3> QED BY <2>2, <3>1 DEF Visit, Walk
  <2>3. CASE Pack
    BY <2>3, PackStep DEF MInv, MemoryTypeOK
  <2> QED BY <2>1, <2>2, <2>3 DEF Reading, Find, UseHollow, LookupTerminates, Destroy, WalkStep,
                                  EndWalk, WalkAstray, Stop, MInv, MemoryTypeOK
<1>4. MemoryTypeOK'
  BY <1>1, <1>2, <1>3 DEF MInv, MemoryTypeOK
<1> QED BY <1>1, <1>4 DEF MInv

LEMMA NextMInv == MInv /\ [Next]_vars => MInv'
<1> SUFFICES ASSUME MInv, [Next]_vars PROVE MInv'
  OBVIOUS
<1>1. CASE Writes
  BY <1>1, WritesStep
<1>2. CASE Resets
  BY <1>2, ResetsStep
<1>3. CASE Moves
  BY <1>3, MovesStep
<1>4. CASE Reading
  BY <1>4, ReadingStep
<1>5. CASE UNCHANGED vars
  BY <1>5 DEF vars, MInv, MemoryTypeOK, Running
<1> QED BY <1>1, <1>2, <1>3, <1>4, <1>5 DEF Next, Reading

LEMMA MemoryInvariant == Spec => []MInv
BY InitMInv, NextMInv, PTL DEF Spec

-----------------------------------------------------------------------------
\* Every reachable state has the declared types: no failed allocation, move or
\* callback in the middle of iterate() builds an object outside the class's
\* representation, the states that a failed migration leaves included.
THEOREM MemoryTypeCorrect == Spec => []MemoryTypeOK
<1>1. MInv => MemoryTypeOK
  BY DEF MInv
<1> QED BY <1>1, MemoryInvariant, PTL

\* A container without a hint that was not moved since it was constructed or reset
\* has all of SMALL_CAPACITY reserved whenever it is in vector mode, for every
\* capacity and after any failures, and clear() and unpack() give it back to one
\* that was moved (prime_storage, clear).
THEOREM ReserveAlwaysHolds == Spec => []ReserveHolds
<1>1. MInv => ReserveHolds
  BY DEF MInv, Reserved, ReserveHolds, Primed
<1> QED BY <1>1, MemoryInvariant, PTL

\* A failed allocation ends the process only in map mode, or where a hint or a move
\* has left the container in vector mode without its buffer (clear, find).
THEOREM TerminatesOnlyAsSaid == Spec => TerminatesOnlyBy
<1>1. MInv /\ [Next]_vars =>
         [(ended' = "terminated" /\ Running) =>
             ~map.is_vector_mode \/ (~Primed /\ room < SMALL_CAPACITY)]_vars
  <2> SUFFICES ASSUME MInv, Next, ended' = "terminated", Running, map.is_vector_mode
               PROVE  ~Primed /\ room < SMALL_CAPACITY
    OBVIOUS
  <2>1. CASE Writes
    BY <2>1, WritesStep
  <2>2. CASE Resets
    <3>1. room < SMALL_CAPACITY
      BY <2>2, ResetsStep
    <3>2. Reserved(map, room, relocated) /\ room \in Nat
      BY DEF MInv, MemoryTypeOK
    <3> QED BY <3>1, <3>2, CapacityAssumption DEF Reserved, Primed
  <2>3. CASE Moves
    BY <2>3, MovesStep
  <2>4. CASE Reading
    BY <2>4, ReadingKeeps
  <2> QED BY <2>1, <2>2, <2>3, <2>4 DEF Next, Reading
<1> QED BY <1>1, MemoryInvariant, PTL DEF Spec, TerminatesOnlyBy

\* A call that throws changes no parameter but its own, and its own at most to a
\* broken value, unless it found the vector full (add_impl, convert_to_map,
\* update_impl).
THEOREM FailuresAlwaysContained == Spec => FailuresAreContained
<1>1. MInv /\ [Next]_vars =>
         [(Writes /\ ended' = "exception") =>
             \/ /\ map.is_vector_mode
                /\ Len(map.vector_storage) >= SMALL_CAPACITY
                /\ Torn(map')
             \/ /\ ~Hollow(map')
                /\ Torn(map') <=> Torn(map)
                /\ StoredKeys(map') = StoredKeys(map)
                /\ \E own \in Key :
                      /\ Lookup(map', own) \in {Lookup(map, own), Broken}
                      /\ \A k \in Key \ {own} : Lookup(map', k) = Lookup(map, k)]_vars
  BY WritesStep DEF Contained
<1> QED BY <1>1, MemoryInvariant, PTL DEF Spec, FailuresAreContained

\* clear() and unpack() that return or throw leave a container that is whole and
\* holds nothing, or the map received or its front, whatever they were called on:
\* the container a failed migration left included (clear, unpack).
THEOREM ResetsRepair == Spec => ClearRepairs
<1>1. MInv /\ [Next]_vars =>
         [/\ (Clear /\ ended' = "cleared") => Whole(map') /\ Contents(map') = EmptyMap
          /\ \A w \in Wires : \A n \in 0 .. Len(w) : Unpack(w, n) =>
                /\ ended' = "unpacked" => Whole(map') /\ Contents(map') = FirstWins(w)
                /\ ended' = "interrupted" =>
                      /\ Whole(map')
                      /\ \E i \in 0 .. Len(w) - 1 :
                            Contents(map') = FirstWins(SubSeq(w, 1, i))]_vars
  <2> SUFFICES ASSUME MInv
               PROVE  /\ (Clear /\ ended' = "cleared") => Whole(map') /\ Contents(map') = EmptyMap
                      /\ \A w \in Wires : \A n \in 0 .. Len(w) : Unpack(w, n) =>
                            /\ ended' = "unpacked" => Whole(map') /\ Contents(map') = FirstWins(w)
                            /\ ended' = "interrupted" =>
                                  /\ Whole(map')
                                  /\ \E i \in 0 .. Len(w) - 1 :
                                        Contents(map') = FirstWins(SubSeq(w, 1, i))
    OBVIOUS
  <2>1. ASSUME Clear, ended' = "cleared" PROVE Whole(map') /\ Contents(map') = EmptyMap
    BY <2>1, ClearStep DEF Empty
  <2>2. ASSUME NEW w \in Wires, NEW n \in 0 .. Len(w), Unpack(w, n)
        PROVE  Loaded(map', ended', w)
    BY <2>2, UnpackStep
  <2> QED BY <2>1, <2>2 DEF Loaded
<1> QED BY <1>1, MemoryInvariant, PTL DEF Spec, ClearRepairs

-----------------------------------------------------------------------------
(***************************************************************************)
(* The refinement to FallibleMap.  First, what the calls do to broken      *)
(* values: only a failed assignment makes one.                             *)
(***************************************************************************)
LEMMA BrokenIsBoolean ==
    ASSUME NEW c
    PROVE  BrokenIn(c) \in BOOLEAN
BY DEF BrokenIn, BrokenInVector, BrokenInMap

LEMMA PushKeepsBroken ==
    ASSUME NEW c, Sound(c), c.is_vector_mode, Len(c.vector_storage) < SMALL_CAPACITY,
           NEW k \in Key, NEW v \in Val \ {Broken}
    PROVE  BrokenIn(Insert(c, k, v)) <=> BrokenIn(c)
<1> DEFINE d == Insert(c, k, v)
           e == [key |-> k, val |-> v]
           s == c.vector_storage
           t == Append(s, e)
<1>1. s \in Seq(Entry) /\ e \in Entry /\ e.val = v /\ c \in Container
  BY DEF Sound, Container, Entry
<1>2. d = [c EXCEPT !.vector_storage = t]
  BY DEF Insert
<1> HIDE DEF e
<1>3. /\ t \in Seq(Entry) /\ Len(t) = Len(s) + 1 /\ Len(s) \in Nat
      /\ \A i \in 1 .. Len(s) : t[i] = s[i]
      /\ t[Len(s) + 1] = e
  BY <1>1, AppendProperties, LenProperties
<1>4. DOMAIN s = 1 .. Len(s) /\ DOMAIN t = 1 .. Len(s) + 1
  BY <1>1, <1>3, LenProperties
<1> HIDE DEF t
<1>5. d.vector_storage = t /\ d.map_storage = c.map_storage
  BY <1>1, <1>2 DEF Container
<1> HIDE DEF d
<1>6. BrokenInVector(d) <=> BrokenInVector(c)
  <2>1. \A i \in 1 .. Len(s) + 1 : i \in 1 .. Len(s) \/ i = Len(s) + 1
    BY <1>3
  <2>2. \A i \in 1 .. Len(s) : i \in 1 .. Len(s) + 1
    BY <1>3
  <2> QED BY <1>1, <1>3, <1>4, <1>5, <2>1, <2>2 DEF BrokenInVector
<1>7. BrokenInMap(d) <=> BrokenInMap(c)
  BY <1>5 DEF BrokenInMap
<1> QED BY <1>6, <1>7 DEF BrokenIn, d

LEMMA EmplaceKeepsBroken ==
    ASSUME NEW c, Sound(c), ~c.is_vector_mode, ~Hollow(c),
           NEW k \in Key, NEW v \in Val \ {Broken}
    PROVE  BrokenIn(Insert(c, k, v)) <=> BrokenIn(c)
<1> DEFINE d == Insert(c, k, v)
           m == c.map_storage
           n == IF k \in DOMAIN m THEN m ELSE Put(m, k, v)
<1>1. c \in Container /\ m # NullPtr /\ m \in Dictionary
  BY DEF Sound, Container, Hollow
<1>2. d = [c EXCEPT !.map_storage = n]
  BY <1>1, EmplaceOne DEF Insert
<1>3. n # NullPtr
  <2>1. CASE k \in DOMAIN m
    BY <1>1, <2>1
  <2>2. CASE k \notin DOMAIN m
    <3>1. Put(m, k, v) \in Dictionary
      BY <1>1, PutType
    <3> QED BY <2>2, <3>1, NullPtrAssumption
  <2> QED BY <2>1, <2>2
<1> HIDE DEF n
<1>4. d.vector_storage = c.vector_storage /\ d.map_storage = n
  BY <1>1, <1>2 DEF Container
<1> HIDE DEF d
<1>5. (\E j \in DOMAIN n : n[j] = Broken) <=> (\E j \in DOMAIN m : m[j] = Broken)
  <2>1. CASE k \in DOMAIN m
    BY <2>1 DEF n
  <2>2. CASE k \notin DOMAIN m
    <3>1. n = Put(m, k, v)
      BY <2>2 DEF n
    <3>2. DOMAIN n = DOMAIN m \cup {k}
      BY <1>1, <3>1, PutType
    <3>3. n[k] = v /\ \A j \in DOMAIN m : n[j] = m[j]
      BY <2>2, <3>1, PutValue
    <3> QED BY <3>2, <3>3
  <2> QED BY <2>1, <2>2
<1>6. BrokenInMap(d) <=> BrokenInMap(c)
  BY <1>1, <1>3, <1>4, <1>5 DEF BrokenInMap
<1>7. BrokenInVector(d) <=> BrokenInVector(c)
  BY <1>4 DEF BrokenInVector
<1> QED BY <1>6, <1>7 DEF BrokenIn, d

\* The first n entries of a vector emplaced in an empty map, if they are whole.
LEMMA WholeFront ==
    ASSUME NEW s \in Seq(Entry), NEW n \in 0 .. Len(s), \A i \in 1 .. n : s[i].val # Broken
    PROVE  LET m == FirstWins(SubSeq(s, 1, n))
           IN  m \in Dictionary /\ \A k \in DOMAIN m : m[k] # Broken
<1> DEFINE p == SubSeq(s, 1, n)
<1>1. Len(s) \in Nat /\ \A i \in 1 .. n : s[i] \in Entry
  BY LenProperties, ElementOfSeq
<1>2. p \in Seq(Entry) /\ Len(p) = n /\ \A i \in 1 .. n : p[i] = s[i]
  BY <1>1, SubSeqProperties
<1> HIDE DEF p
<1>3. /\ FirstWins(p) \in Dictionary /\ DOMAIN FirstWins(p) = KeysOf(p)
      /\ \A k \in KeysOf(p) : FirstWins(p)[k] = p[FirstIndex(p, k)].val
  BY <1>2, FirstWinsType
<1>4. \A k \in KeysOf(p) : FirstIndex(p, k) \in 1 .. n
  BY <1>2, FirstIndexProperties
<1>5. \A k \in DOMAIN FirstWins(p) : FirstWins(p)[k] # Broken
  BY <1>2, <1>3, <1>4
<1> QED BY <1>3, <1>5 DEF p

\* In vector mode a broken value is in the vector.
LEMMA BrokenInVectorMode ==
    ASSUME NEW c, Sound(c), c.is_vector_mode
    PROVE  BrokenIn(c) <=> BrokenInVector(c)
<1>1. c.map_storage \in {NullPtr, EmptyMap}
  BY DEF Sound, OneStore
<1>2. ~BrokenInMap(c)
  BY <1>1, EmptyMapType DEF BrokenInMap
<1> QED BY <1>2 DEF BrokenIn

LEMMA ConversionOfWhole ==
    ASSUME NEW c, Sound(c), c.is_vector_mode, ~BrokenInVector(c)
    PROVE  ~BrokenIn(ConvertToMap(c))
<1> DEFINE d == ConvertToMap(c)
           s == c.vector_storage
           m == FirstWins(SubSeq(s, 1, Len(s)))
<1>1. s \in Seq(Entry) /\ Len(s) \in Nat /\ DOMAIN s = 1 .. Len(s)
  BY LenProperties DEF Sound, Container
<1>2. SubSeq(s, 1, Len(s)) = s
  BY <1>1, SubSeqFull
<1>3. AllocatedMap(c) = EmptyMap
  BY DEF Sound, OneStore, AllocatedMap
<1>4. d.vector_storage = << >> /\ d.map_storage = m
  BY <1>2, <1>3, ConvertToMapSound DEF FirstWins
<1>5. \A i \in 1 .. Len(s) : s[i].val # Broken
  BY <1>1 DEF BrokenInVector
<1>6. \A k \in DOMAIN m : m[k] # Broken
  BY <1>1, <1>5, WholeFront
<1> HIDE DEF d, m
<1>7. ~BrokenInMap(d)
  BY <1>4, <1>6 DEF BrokenInMap
<1>8. ~BrokenInVector(d)
  <2>1. DOMAIN d.vector_storage = {}
    BY <1>4, EmptySeq, LenProperties
  <2> QED BY <2>1 DEF BrokenInVector
<1> QED BY <1>7, <1>8 DEF BrokenIn, d

LEMMA FailedConversionKeepsBroken ==
    ASSUME NEW c, Sound(c), c.is_vector_mode, NEW d \in FailedConversions(c)
    PROVE  BrokenIn(d) <=> BrokenIn(c)
<1> DEFINE s == c.vector_storage
<1>1. c \in Container /\ s \in Seq(Entry) /\ Len(s) \in Nat /\ DOMAIN s = 1 .. Len(s)
  BY LenProperties DEF Sound, Container
<1>2. CASE d = [c EXCEPT !.is_vector_mode = FALSE]
  <2>1. d.vector_storage = s /\ d.map_storage = c.map_storage
    BY <1>1, <1>2 DEF Container
  <2> QED BY <2>1 DEF BrokenIn, BrokenInVector, BrokenInMap
<1>3. ASSUME NEW n \in {0} \cup 1 .. Len(s) - 1, \A i \in 1 .. n : s[i].val # Broken,
             d = TornAt(c, n)
      PROVE  BrokenIn(d) <=> BrokenIn(c)
  <2> DEFINE t == [i \in DOMAIN s |-> IF i <= n THEN [s[i] EXCEPT !.val = Unknown] ELSE s[i]]
             m == FirstWins(SubSeq(s, 1, n))
  <2>1. n \in 0 .. Len(s)
    BY <1>1
  <2>2. AllocatedMap(c) = EmptyMap
    BY DEF Sound, OneStore, AllocatedMap
  <2>3. d = [c EXCEPT !.is_vector_mode = FALSE, !.vector_storage = t, !.map_storage = m]
    BY <1>3, <2>2 DEF TornAt, FirstWins
  <2>4. \A k \in DOMAIN m : m[k] # Broken
    BY <1>1, <1>3, <2>1, WholeFront
  <2>5. DOMAIN t = 1 .. Len(s)
    BY <1>1
  <2>6. \A i \in 1 .. Len(s) : t[i].val = IF i <= n THEN Unknown ELSE s[i].val
    <3>1. ASSUME NEW i \in 1 .. Len(s) PROVE t[i].val = IF i <= n THEN Unknown ELSE s[i].val
      <4>1. s[i] \in Entry
        BY <1>1, ElementOfSeq
      <4>2. [s[i] EXCEPT !.val = Unknown].val = Unknown
        BY <4>1 DEF Entry
      <4> QED BY <1>1, <4>2
    <3> QED BY <3>1
  <2> HIDE DEF t, m
  <2>7. d.vector_storage = t /\ d.map_storage = m
    BY <1>1, <2>3 DEF Container
  <2>8. ~BrokenInMap(d)
    BY <2>4, <2>7 DEF BrokenInMap
  <2>9. BrokenInVector(d) <=> BrokenInVector(c)
    <3>1. \A i \in 1 .. Len(s) : t[i].val = Broken <=> s[i].val = Broken
      <4>1. ASSUME NEW i \in 1 .. Len(s) PROVE t[i].val = Broken <=> s[i].val = Broken
        <5>1. i <= n => i \in 1 .. n
          BY <2>1
        <5> QED BY <1>3, <2>6, <5>1, ValueAssumption
      <4> QED BY <4>1
    <3> QED BY <1>1, <2>5, <2>7, <3>1 DEF BrokenInVector
  <2> QED BY <2>8, <2>9, BrokenInVectorMode DEF BrokenIn
<1> QED BY <1>2, <1>3 DEF FailedConversions

\* What a container holds that is found broken.
LEMMA FoundBroken ==
    ASSUME NEW c, Sound(c), ~Hollow(c), NEW k \in StoredKeys(c), Contents(c)[k] = Broken
    PROVE  IF c.is_vector_mode THEN BrokenInVector(c) ELSE BrokenInMap(c)
<1>1. CASE c.is_vector_mode
  <2> DEFINE s == c.vector_storage
  <2>1. s \in Seq(Entry) /\ k \in KeysOf(s) /\ Contents(c) = FirstWins(s)
    BY <1>1 DEF Sound, Container, StoredKeys, Contents
  <2>2. s[FirstIndex(s, k)].val = Broken
    BY <2>1, FirstWinsType
  <2>3. FirstIndex(s, k) \in DOMAIN s
    BY <2>1, FirstIndexProperties, LenProperties
  <2>4. BrokenInVector(c)
    BY <2>2, <2>3 DEF BrokenInVector
  <2> QED BY <1>1, <2>4
<1>2. CASE ~c.is_vector_mode
  <2>1. c.map_storage # NullPtr /\ k \in DOMAIN c.map_storage /\ c.map_storage[k] = Broken
    BY <1>2 DEF Hollow, StoredKeys, Contents
  <2>2. BrokenInMap(c)
    BY <2>1 DEF BrokenInMap
  <2> QED BY <1>2, <2>2
<1> QED BY <1>1, <1>2

LEMMA AssignBreaks ==
    ASSUME NEW c, Sound(c), ~Hollow(c), NEW k \in Key, Has(c, k), NEW v \in Val,
           Lookup(c, k) # Broken
    PROVE  /\ v = Broken => BrokenIn(Assign(c, k, v))
           /\ v # Broken => (BrokenIn(Assign(c, k, v)) <=> BrokenIn(c))
<1> DEFINE d == Assign(c, k, v)
<1>1. c \in Container
  BY DEF Sound
<1>2. CASE c.is_vector_mode
  <2> DEFINE s == c.vector_storage
             t == Overwrite(s, k, v)
             f == FirstIndex(s, k)
  <2>1. s \in Seq(Entry) /\ k \in KeysOf(s)
    BY <1>1, <1>2 DEF Container, Has, StoredKeys
  <2>2. d = [c EXCEPT !.vector_storage = t]
    BY <1>2 DEF Assign
  <2>3. /\ t \in Seq(Entry) /\ Len(t) = Len(s)
        /\ \A i \in 1 .. Len(s) : t[i] = IF i = f THEN [key |-> k, val |-> v] ELSE s[i]
    BY <2>1, OverwriteType
  <2>4. f \in 1 .. Len(s) /\ DOMAIN s = 1 .. Len(s) /\ DOMAIN t = 1 .. Len(s)
    BY <2>1, <2>3, FirstIndexProperties, LenProperties
  <2>5. s[f].val # Broken
    BY <1>2, <2>1 DEF Lookup
  <2> HIDE DEF t, f
  <2>6. d.vector_storage = t /\ d.map_storage = c.map_storage
    BY <1>1, <2>2 DEF Container
  <2> HIDE DEF d
  <2>7. BrokenInMap(d) <=> BrokenInMap(c)
    BY <2>6 DEF BrokenInMap
  <2>8. \A i \in 1 .. Len(s) : t[i].val = IF i = f THEN v ELSE s[i].val
    BY <2>3
  <2>9. v = Broken => BrokenInVector(d)
    BY <2>4, <2>6, <2>8 DEF BrokenInVector
  <2>10. v # Broken => (BrokenInVector(d) <=> BrokenInVector(c))
    BY <2>4, <2>5, <2>6, <2>8 DEF BrokenInVector
  <2> QED BY <2>7, <2>9, <2>10 DEF BrokenIn, d
<1>3. CASE ~c.is_vector_mode
  <2> DEFINE m == c.map_storage
             n == [m EXCEPT ![k] = v]
  <2>1. m \in Dictionary /\ m # NullPtr /\ k \in DOMAIN m
    BY <1>1, <1>3 DEF Container, Hollow, Has, StoredKeys
  <2>2. d = [c EXCEPT !.map_storage = n]
    BY <1>3 DEF Assign
  <2>3. DOMAIN n = DOMAIN m /\ \A j \in DOMAIN m : n[j] = IF j = k THEN v ELSE m[j]
    BY <2>1, DictionaryIsFunction
  <2>4. m[k] # Broken
    BY <1>3, <2>1 DEF Lookup
  <2>5. n # NullPtr
    <3>1. DOMAIN m \subseteq Key /\ m \in [DOMAIN m -> Val]
      BY <2>1, DictionaryIsFunction
    <3>2. n \in [DOMAIN m -> Val]
      BY <3>1
    <3> HIDE DEF n
    <3>3. n \in Dictionary
      BY <3>1, <3>2 DEF Dictionary
    <3> QED BY <3>3, NullPtrAssumption
  <2> HIDE DEF n
  <2>6. d.vector_storage = c.vector_storage /\ d.map_storage = n
    BY <1>1, <2>2 DEF Container
  <2> HIDE DEF d
  <2>7. BrokenInVector(d) <=> BrokenInVector(c)
    BY <2>6 DEF BrokenInVector
  <2>8. v = Broken => BrokenInMap(d)
    BY <2>1, <2>3, <2>5, <2>6 DEF BrokenInMap
  <2>9. v # Broken => (BrokenInMap(d) <=> BrokenInMap(c))
    BY <2>1, <2>3, <2>4, <2>5, <2>6 DEF BrokenInMap
  <2> QED BY <2>7, <2>8, <2>9 DEF BrokenIn, d
<1> QED BY <1>2, <1>3

-----------------------------------------------------------------------------
(***************************************************************************)
(* What each way a call may end does to the dictionary.                    *)
(***************************************************************************)
\* Some entries of the dictionary d, with their values.
Restriction(m, d) == \E S \in SUBSET DOMAIN d : m = [k \in S |-> d[k]]

LEMMA PrefixRemains ==
    ASSUME NEW s \in Seq(Entry), NEW n \in 0 .. Len(s)
    PROVE  Restriction(FirstWins(SubSeq(s, 1, n)), FirstWins(s))
<1> DEFINE p == SubSeq(s, 1, n)
           d == FirstWins(s)
           m == FirstWins(p)
<1>1. Len(s) \in Nat /\ \A i \in 1 .. n : s[i] \in Entry
  BY LenProperties, ElementOfSeq
<1>2. p \in Seq(Entry) /\ Len(p) = n /\ n <= Len(s) /\ \A i \in 1 .. n : p[i] = s[i]
  BY <1>1, SubSeqProperties
<1> HIDE DEF p
<1>3. /\ m \in Dictionary /\ DOMAIN m = KeysOf(p)
      /\ \A k \in KeysOf(p) : m[k] = p[FirstIndex(p, k)].val
  BY <1>2, FirstWinsType
<1>4. /\ DOMAIN d = KeysOf(s)
      /\ \A k \in KeysOf(s) : d[k] = s[FirstIndex(s, k)].val
  BY FirstWinsType
<1> HIDE DEF m, d
<1>5. ASSUME NEW k \in KeysOf(p) PROVE k \in DOMAIN d /\ m[k] = d[k]
  <2>1. k \in KeysOf(s) /\ FirstIndex(s, k) = FirstIndex(p, k)
    BY <1>2, PrefixKeepsFirst
  <2>2. FirstIndex(p, k) \in 1 .. n
    BY <1>2, FirstIndexProperties
  <2> QED BY <1>2, <1>3, <1>4, <2>1, <2>2
<1>6. m = [k \in DOMAIN m |-> m[k]]
  BY <1>3, DictionaryIsFunction
<1>7. m = [k \in KeysOf(p) |-> d[k]] /\ KeysOf(p) \in SUBSET DOMAIN d
  BY <1>3, <1>5, <1>6
<1> QED BY <1>7 DEF Restriction, m, d, p

\* A migration that fails leaves no map, or some of the parameters.
LEMMA FailedConversionRemains ==
    ASSUME NEW c, Sound(c), c.is_vector_mode, NEW d \in FailedConversions(c)
    PROVE  /\ ~d.is_vector_mode
           /\ Hollow(d) \/ Restriction(Contents(d), Contents(c))
<1> DEFINE s == c.vector_storage
<1>1. c \in Container /\ s \in Seq(Entry) /\ Len(s) \in Nat
  BY LenProperties DEF Sound, Container
<1>2. c.map_storage \in {NullPtr, EmptyMap} /\ AllocatedMap(c) = EmptyMap
  BY DEF Sound, OneStore, AllocatedMap
<1>3. Contents(c) = FirstWins(s)
  BY DEF Contents
<1>4. CASE d = [c EXCEPT !.is_vector_mode = FALSE]
  <2>1. ~d.is_vector_mode /\ d.map_storage = c.map_storage
    BY <1>1, <1>4 DEF Container
  <2>2. ASSUME d.map_storage = EmptyMap PROVE Restriction(Contents(d), Contents(c))
    <3>0. SubSeq(s, 1, 0) = << >>
      BY SubSeqEmpty
    <3>1. Contents(d) = FirstWins(SubSeq(s, 1, 0))
      BY <2>1, <2>2, <3>0, FirstWinsEmpty DEF Contents
    <3> QED BY <1>1, <1>3, <3>1, PrefixRemains
  <2> QED BY <1>2, <2>1, <2>2 DEF Hollow
<1>5. ASSUME NEW n \in {0} \cup 1 .. Len(s) - 1, d = TornAt(c, n)
      PROVE  ~d.is_vector_mode /\ Restriction(Contents(d), Contents(c))
  <2>1. n \in 0 .. Len(s)
    BY <1>1
  <2>2. ~d.is_vector_mode /\ d.map_storage = Emplace(AllocatedMap(c), SubSeq(s, 1, n))
    BY <1>5, <2>1, TornAtSound
  <2>3. Contents(d) = FirstWins(SubSeq(s, 1, n))
    BY <1>2, <2>2 DEF Contents, FirstWins
  <2> QED BY <1>1, <1>3, <2>1, <2>2, <2>3, PrefixRemains
<1> QED BY <1>4, <1>5 DEF FailedConversions

\* The dictionary after add().
Added(d, k, v) == IF k \in DOMAIN d THEN d ELSE Put(d, k, v)

\* What the result x of an insertion into c says of the container's contents.
Inserted(c, k, v, x) ==
    \/ x.how = "undefined" /\ x.map = c /\ BrokenIn(c)
    \/ /\ BrokenIn(x.map) <=> BrokenIn(c)
       /\ \/ /\ x.how = "ok" /\ ~Hollow(x.map)
             /\ Contents(x.map) = Added(Contents(c), k, v)
             /\ ~c.is_vector_mode => ~x.map.is_vector_mode
          \/ /\ x.how = "exception" /\ ~Hollow(x.map)
             /\ Contents(x.map) = Contents(c)
             /\ x.map.is_vector_mode <=> c.is_vector_mode
          \/ /\ x.how = "exception" /\ c.is_vector_mode /\ ~x.map.is_vector_mode
             /\ Hollow(x.map) \/ Restriction(Contents(x.map), Contents(c))

LEMMA AddedByInsert ==
    ASSUME NEW c, Sound(c), ~Hollow(c), NEW k \in Key, NEW v \in Val
    PROVE  /\ ~Hollow(Insert(c, k, v))
           /\ Contents(Insert(c, k, v)) = Added(Contents(c), k, v)
<1>1. c \in Container /\ (c.is_vector_mode => OneStore(c))
  BY DEF Sound
<1>2. DOMAIN Contents(c) = StoredKeys(c)
  BY <1>1, ContentsFacts
<1> QED BY <1>1, <1>2, ContentsOfInsert DEF Added, Has

LEMMA EmplaceInserts ==
    ASSUME NEW c, Sound(c), ~c.is_vector_mode, ~Hollow(c),
           NEW r, NEW k \in Key, NEW v \in Val \ {Broken}, NEW moved,
           NEW x \in EmplaceResults(c, r, k, v, moved)
    PROVE  \/ x.how = "undefined" /\ x.map = c /\ BrokenIn(c)
           \/ /\ ~Hollow(x.map) /\ ~x.map.is_vector_mode
              /\ BrokenIn(x.map) <=> BrokenIn(c)
              /\ \/ x.how = "ok" /\ Contents(x.map) = Added(Contents(c), k, v)
                 \/ x.how = "exception" /\ Contents(x.map) = Contents(c)
<1>1. CASE x = Result(c, r, moved, "exception")
  BY <1>1, ResultFields
<1>2. CASE x = Result(Insert(c, k, v), r,
                      IF Has(c, k) THEN moved ELSE moved \cup {"map"}, "ok")
  <2>1. x.map = Insert(c, k, v) /\ x.how = "ok"
    BY <1>2, ResultFields
  <2> QED BY <2>1, AddedByInsert, EmplaceSound, EmplaceKeepsBroken
<1>3. CASE x = Undefined(c, r) /\ BrokenInMap(c)
  BY <1>3, UndefinedFields DEF BrokenIn
<1> QED BY <1>1, <1>2, <1>3 DEF EmplaceResults

LEMMA InsertInserts ==
    ASSUME NEW c, Sound(c), ~Hollow(c), NEW r \in Nat, NEW k \in Key, NEW v \in Val \ {Broken},
           NEW x \in InsertResults(c, r, k, v)
    PROVE  Inserted(c, k, v, x)
<1>1. CASE ~c.is_vector_mode
  <2>1. x \in EmplaceResults(c, r, k, v, {})
    BY <1>1 DEF InsertResults
  <2> QED BY <1>1, <2>1, EmplaceInserts DEF Inserted
<1>2. CASE c.is_vector_mode /\ Len(c.vector_storage) < SMALL_CAPACITY
  <2>1. \/ x = Result(c, r, {}, "exception")
        \/ BrokenInVector(c) /\ x = Undefined(c, r)
        \/ \E new, moved : x = Result(Insert(c, k, v), new, moved, "ok")
    BY <1>2 DEF InsertResults, PushResults
  <2>2. \/ x.map = c /\ x.how = "exception"
        \/ BrokenIn(c) /\ x.map = c /\ x.how = "undefined"
        \/ x.map = Insert(c, k, v) /\ x.how = "ok"
    BY <2>1, ResultFields, UndefinedFields DEF BrokenIn
  <2>3. BrokenIn(Insert(c, k, v)) <=> BrokenIn(c)
    BY <1>2, PushKeepsBroken
  <2> QED BY <1>2, <2>2, <2>3, AddedByInsert DEF Inserted
<1>3. CASE c.is_vector_mode /\ ~(Len(c.vector_storage) < SMALL_CAPACITY)
  <2>1. ASSUME NEW d \in FailedConversions(c), x = Result(d, r, {}, "exception")
        PROVE  Inserted(c, k, v, x)
    <3>1. x.map = d /\ x.how = "exception"
      BY <2>1, ResultFields
    <3>2. BrokenIn(d) <=> BrokenIn(c)
      BY <1>3, FailedConversionKeepsBroken
    <3> QED BY <1>3, <2>1, <3>1, <3>2, FailedConversionRemains DEF Inserted
  <2>2. ASSUME NEW new, x \in EmplaceResults(ConvertToMap(c), new, k, v, {"vector"}),
               ~BrokenInVector(c)
        PROVE  Inserted(c, k, v, x)
    <3> DEFINE d == ConvertToMap(c)
    <3>1. Sound(d) /\ ~d.is_vector_mode /\ ~Hollow(d)
      BY ConvertToMapSound
    <3>2. c \in Container /\ OneStore(c)
      BY <1>3 DEF Sound
    <3>3. Contents(d) = Contents(c)
      BY <1>3, <3>2, ConversionKeepsContents
    <3>4. ~BrokenIn(d) /\ ~BrokenIn(c)
      BY <1>3, <2>2, ConversionOfWhole, BrokenInVectorMode
    <3> HIDE DEF d
    <3>5. x \in EmplaceResults(d, new, k, v, {"vector"})
      BY <2>2 DEF d
    <3>6. /\ ~Hollow(x.map) /\ ~x.map.is_vector_mode /\ ~BrokenIn(x.map)
          /\ \/ x.how = "ok" /\ Contents(x.map) = Added(Contents(c), k, v)
             \/ x.how = "exception" /\ Contents(x.map) = Contents(c)
      BY <3>1, <3>3, <3>4, <3>5, EmplaceInserts
    <3>7. Restriction(Contents(c), Contents(c))
      <4>1. c.vector_storage \in Seq(Entry) /\ Len(c.vector_storage) \in Nat
        BY <3>2, LenProperties DEF Container
      <4>2. Contents(c) = FirstWins(c.vector_storage)
        BY <1>3 DEF Contents
      <4>3. SubSeq(c.vector_storage, 1, Len(c.vector_storage)) = c.vector_storage
        BY <4>1, SubSeqFull
      <4>4. Len(c.vector_storage) \in 0 .. Len(c.vector_storage)
        BY <4>1
      <4> QED BY <4>1, <4>2, <4>3, <4>4, PrefixRemains
    <3> QED BY <1>3, <3>4, <3>6, <3>7 DEF Inserted
  <2>3. CASE x = Undefined(c, r) /\ BrokenInVector(c)
    BY <2>3, UndefinedFields DEF Inserted, BrokenIn
  <2> QED BY <1>3, <2>1, <2>2, <2>3 DEF InsertResults, ConversionResults
<1> QED BY <1>1, <1>2, <1>3

LEMMA AssignAssigns ==
    ASSUME NEW c, Sound(c), ~Hollow(c), NEW r, NEW k \in Key, NEW v \in Val \ {Broken},
           Has(c, k), NEW x \in AssignResults(c, r, k, v)
    PROVE  \/ x.how = "undefined" /\ x.map = c /\ BrokenIn(c)
           \/ /\ Contents(c)[k] # Broken
              /\ ~Hollow(x.map) /\ x.map.is_vector_mode = c.is_vector_mode
              /\ \/ /\ x.how = "ok" /\ Contents(x.map) = Put(Contents(c), k, v)
                    /\ BrokenIn(x.map) <=> BrokenIn(c)
                 \/ /\ x.how = "exception" /\ Contents(x.map) = Put(Contents(c), k, Broken)
                    /\ BrokenIn(x.map)
<1>1. c \in Container /\ k \in StoredKeys(c) /\ Lookup(c, k) = Contents(c)[k]
  BY ContentsFacts DEF Sound, Has
<1>2. CASE Lookup(c, k) = Broken
  <2>1. x.how = "undefined" /\ x.map = c
    BY <1>2, UndefinedFields DEF AssignResults
  <2> QED BY <1>1, <1>2, <2>1, FoundBroken DEF BrokenIn
<1>3. CASE Lookup(c, k) # Broken
  <2>1. \/ x = Result(Assign(c, k, v), r, {}, "ok")
        \/ x = Result(Assign(c, k, Broken), r, {}, "exception")
    BY <1>3 DEF AssignResults
  <2>2. \/ x.map = Assign(c, k, v) /\ x.how = "ok"
        \/ x.map = Assign(c, k, Broken) /\ x.how = "exception"
    BY <2>1, ResultFields
  <2>3. \A u \in Val : /\ ~Hollow(Assign(c, k, u))
                       /\ Assign(c, k, u).is_vector_mode = c.is_vector_mode
                       /\ Contents(Assign(c, k, u)) = Put(Contents(c), k, u)
    BY <1>1, AssignSound, ContentsOfAssign
  <2>4. /\ BrokenIn(Assign(c, k, Broken))
        /\ BrokenIn(Assign(c, k, v)) <=> BrokenIn(c)
    BY <1>3, AssignBreaks, ValueAssumption
  <2>5. v \in Val /\ Broken \in Val
    BY ValueAssumption
  <2> QED BY <1>1, <1>3, <2>2, <2>3, <2>4, <2>5
<1> QED BY <1>2, <1>3

-----------------------------------------------------------------------------
(***************************************************************************)
(* The steps of the dictionary.                                            *)
(***************************************************************************)
\* What the container is seen as, and that null is no dictionary.
LEMMA UsableSeen ==
    ASSUME MInv, Usable
    PROVE  /\ Abstract!Usable /\ SeenOf(map) = Contents(map) /\ ~Hollow(map) /\ Sound(map)
           /\ \A k : k \in DOMAIN SeenOf(map) <=> Has(map, k)
<1>1. map \in Container /\ ~Hollow(map) /\ Sound(map)
  BY DEF MInv, MemoryTypeOK, Usable
<1>2. Contents(map) \in Dictionary /\ DOMAIN Contents(map) = StoredKeys(map)
  BY <1>1, ContentsFacts
<1>3. SeenOf(map) = Contents(map) /\ SeenOf(map) # NullPtr
  BY <1>1, <1>2, NullPtrAssumption DEF SeenOf
<1>4. Abstract!Running
  BY DEF Usable, Running, Returns, Abstract!Running
<1> QED BY <1>1, <1>2, <1>3, <1>4 DEF Has, Abstract!Usable

LEMMA RunningSeen ==
    ASSUME Running
    PROVE  Abstract!Running
BY DEF Running, Returns, Abstract!Running

LEMMA SamePut ==
    ASSUME NEW d, NEW k, NEW v
    PROVE  Abstract!Put(d, k, v) = Put(d, k, v)
BY DEF Abstract!Put, Put

LEMMA SameFirstWins ==
    /\ \A s : Abstract!FirstWins(s) = FirstWins(s)
    /\ Abstract!EmptyMap = EmptyMap
BY DEF FirstWins, Abstract!FirstWins, EmptyMap, Abstract!EmptyMap, Emplace, Abstract!Emplace,
       KeysOf, Abstract!KeysOf, FirstIndex, Abstract!FirstIndex

\* A call with the result x.
LEMMA EndsSeen ==
    ASSUME NEW x, Ends({x})
    PROVE  map' = x.map /\ ended' = x.how /\ Abstract!Ends(SeenOf(x.map), x.how)
<1>1. map' = x.map /\ ended' = x.how
  BY DEF Ends
<1> QED BY <1>1 DEF SeenOf, Abstract!Ends

\* A step that leaves the container as it is, and one that ends it undefined.
LEMMA SameSeen ==
    ASSUME map' = map
    PROVE  UNCHANGED <<SeenOf(map), ~map.is_vector_mode, BrokenIn(map)>>
OBVIOUS

LEMMA UndefinedStops ==
    ASSUME Running, map' = map, BrokenIn(map), ended' = "undefined"
    PROVE  Abstract!Stop
BY RunningSeen, SameSeen DEF Abstract!Stop

LEMMA InsertImplements ==
    ASSUME MInv, Usable, NEW k \in Key, NEW v \in Val \ {Broken},
           Ends(InsertResults(map, room, k, v))
    PROVE  Abstract!Insert(k, v) \/ Abstract!Stop
<1>1. PICK x \in InsertResults(map, room, k, v) : Ends({x})
  BY EndsWithOne
<1>2. /\ Abstract!Usable /\ SeenOf(map) = Contents(map) /\ ~Hollow(map)
      /\ Sound(map) /\ room \in Nat
  BY UsableSeen DEF MInv, MemoryTypeOK
<1>3. Inserted(map, k, v, x)
  BY <1>2, InsertInserts
<1> DEFINE d == SeenOf(x.map)
<1>4. map' = x.map /\ ended' = x.how /\ Abstract!Ends(d, x.how)
  BY <1>1, EndsSeen
<1>5. CASE x.how = "undefined" /\ x.map = map /\ BrokenIn(map)
  BY <1>4, <1>5, UndefinedStops DEF Usable
<1>6. ASSUME BrokenIn(x.map) <=> BrokenIn(map) PROVE UNCHANGED BrokenIn(map)
  <2>1. BrokenIn(x.map) = BrokenIn(map)
    BY <1>6, BrokenIsBoolean
  <2> QED BY <1>4, <2>1
<1>7. CASE /\ BrokenIn(x.map) <=> BrokenIn(map)
           /\ x.how = "ok" /\ ~Hollow(x.map)
           /\ Contents(x.map) = Added(Contents(map), k, v)
           /\ ~map.is_vector_mode => ~x.map.is_vector_mode
  <2>1. d = IF k \in DOMAIN SeenOf(map) THEN SeenOf(map) ELSE Abstract!Put(SeenOf(map), k, v)
    BY <1>2, <1>7, SamePut DEF Added, SeenOf
  <2>2. Abstract!Ends(IF k \in DOMAIN SeenOf(map) THEN SeenOf(map)
                      ELSE Abstract!Put(SeenOf(map), k, v), "ok")
    BY <1>4, <1>7, <2>1
  <2>3. (~map.is_vector_mode)' \in {~map.is_vector_mode, TRUE}
    BY <1>4, <1>7
  <2> QED BY <1>2, <1>6, <1>7, <2>2, <2>3 DEF Abstract!Insert
<1>8. CASE /\ BrokenIn(x.map) <=> BrokenIn(map)
           /\ x.how = "exception" /\ ~Hollow(x.map)
           /\ Contents(x.map) = Contents(map)
           /\ x.map.is_vector_mode <=> map.is_vector_mode
  <2>1. d = SeenOf(map)
    BY <1>2, <1>8 DEF SeenOf
  <2>2. Abstract!Ends(SeenOf(map), "exception") /\ UNCHANGED (~map.is_vector_mode)
    BY <1>4, <1>8, <2>1
  <2> QED BY <1>2, <1>6, <1>8, <2>2 DEF Abstract!Insert
<1>9. CASE /\ BrokenIn(x.map) <=> BrokenIn(map)
           /\ x.how = "exception" /\ map.is_vector_mode /\ ~x.map.is_vector_mode
           /\ Hollow(x.map) \/ Restriction(Contents(x.map), Contents(map))
  <2>1. d \in Abstract!Remains(SeenOf(map))
    BY <1>2, <1>9 DEF Abstract!Remains, Restriction, SeenOf
  <2>2. Abstract!Ends(d, "exception")
    BY <1>4, <1>9
  <2> HIDE DEF d
  <2>3. \E m \in Abstract!Remains(SeenOf(map)) : Abstract!Ends(m, "exception")
    BY <2>1, <2>2
  <2>4. map.is_vector_mode /\ ~map'.is_vector_mode
    BY <1>4, <1>9
  <2> QED BY <1>2, <1>6, <1>9, <2>3, <2>4 DEF Abstract!Insert
<1> QED BY <1>3, <1>5, <1>7, <1>8, <1>9 DEF Inserted

LEMMA AssignImplements ==
    ASSUME MInv, Usable, NEW k \in Key, NEW v \in Val \ {Broken}, Has(map, k),
           Ends(AssignResults(map, room, k, v))
    PROVE  Abstract!Assign(k, v) \/ Abstract!Stop
<1>1. PICK x \in AssignResults(map, room, k, v) : Ends({x})
  BY EndsWithOne
<1>2. /\ Abstract!Usable /\ SeenOf(map) = Contents(map) /\ ~Hollow(map)
      /\ k \in DOMAIN SeenOf(map) /\ Sound(map)
  BY UsableSeen
<1>3. \/ x.how = "undefined" /\ x.map = map /\ BrokenIn(map)
      \/ /\ Contents(map)[k] # Broken
         /\ ~Hollow(x.map) /\ x.map.is_vector_mode = map.is_vector_mode
         /\ \/ /\ x.how = "ok" /\ Contents(x.map) = Put(Contents(map), k, v)
               /\ BrokenIn(x.map) <=> BrokenIn(map)
            \/ /\ x.how = "exception" /\ Contents(x.map) = Put(Contents(map), k, Broken)
               /\ BrokenIn(x.map)
  BY <1>2, AssignAssigns
<1>4. map' = x.map /\ ended' = x.how /\ Abstract!Ends(SeenOf(x.map), x.how)
  BY <1>1, EndsSeen
<1>5. CASE x.how = "undefined" /\ x.map = map /\ BrokenIn(map)
  BY <1>4, <1>5, UndefinedStops DEF Usable
<1>6. CASE /\ Contents(map)[k] # Broken
           /\ ~Hollow(x.map) /\ x.map.is_vector_mode = map.is_vector_mode
           /\ x.how = "ok" /\ Contents(x.map) = Put(Contents(map), k, v)
           /\ BrokenIn(x.map) <=> BrokenIn(map)
  <2>1. SeenOf(x.map) = Abstract!Put(SeenOf(map), k, v)
    BY <1>2, <1>6, SamePut DEF SeenOf
  <2>2. Abstract!Ends(Abstract!Put(SeenOf(map), k, v), "ok")
    BY <1>4, <1>6, <2>1
  <2>3. UNCHANGED (~map.is_vector_mode)
    BY <1>4, <1>6
  <2>4. BrokenIn(x.map) = BrokenIn(map)
    BY <1>6, BrokenIsBoolean
  <2>5. UNCHANGED BrokenIn(map)
    BY <1>4, <2>4
  <2> QED BY <1>2, <1>6, <2>2, <2>3, <2>5 DEF Abstract!Assign
<1>7. CASE /\ Contents(map)[k] # Broken
           /\ ~Hollow(x.map) /\ x.map.is_vector_mode = map.is_vector_mode
           /\ x.how = "exception" /\ Contents(x.map) = Put(Contents(map), k, Broken)
           /\ BrokenIn(x.map)
  <2>1. SeenOf(x.map) = Abstract!Put(SeenOf(map), k, Broken)
    BY <1>2, <1>7, SamePut DEF SeenOf
  <2>2. Abstract!Ends(Abstract!Put(SeenOf(map), k, Broken), "exception")
    BY <1>4, <1>7, <2>1
  <2>3. UNCHANGED (~map.is_vector_mode) /\ BrokenIn(map')
    BY <1>4, <1>7
  <2> QED BY <1>2, <1>7, <2>2, <2>3 DEF Abstract!Assign
<1> QED BY <1>3, <1>5, <1>6, <1>7

LEMMA WritesImplement ==
    ASSUME MInv, Writes
    PROVE  Abstract!Next
<1>1. PICK k \in Key, v \in Val \ {Broken} : Add(k, v) \/ Set(k, v) \/ Update(k, v)
  BY DEF Writes
<1>2. Usable
  BY <1>1 DEF Add, Set, Update
<1>3. CASE Ends(InsertResults(map, room, k, v))
  BY <1>2, <1>3, InsertImplements DEF Abstract!Next
<1>4. CASE Has(map, k) /\ Ends(AssignResults(map, room, k, v))
  BY <1>2, <1>4, AssignImplements DEF Abstract!Next
<1>5. CASE Ends({Result(map, room, {}, "ok")})
  <2>1. map' = map /\ ended' = "ok"
    BY <1>5, ResultFields DEF Ends
  <2>2. Abstract!Read
    BY <1>2, <2>1, UsableSeen, SameSeen DEF Abstract!Read
  <2> QED BY <2>2 DEF Abstract!Next
<1> QED BY <1>1, <1>3, <1>4, <1>5 DEF Add, Set, Update

LEMMA ResetsImplement ==
    ASSUME MInv, Resets
    PROVE  Abstract!Next
<1>1. Running /\ Abstract!Running /\ (~map.is_vector_mode)' \in BOOLEAN
  BY RunningSeen DEF Resets, Clear, Unpack
<1>2. ASSUME Whole(map') PROVE ~BrokenIn(map') /\ SeenOf(map') = Contents(map')
  BY <1>2 DEF Whole, SeenOf
<1>3. ASSUME Clear PROVE Abstract!Clear \/ Abstract!Stop
  <2>1. /\ ended' \in {"cleared", "terminated", "undefined"}
        /\ ended' = "undefined" => map' = map /\ BrokenIn(map)
        /\ ended' # "undefined" => Empty(map') /\ ~BrokenIn(map)
    BY <1>3, ClearStep
  <2>2. CASE ended' = "undefined"
    BY <1>1, <2>1, <2>2, UndefinedStops
  <2>3. CASE ended' # "undefined"
    <3>1. ~BrokenIn(map') /\ SeenOf(map') = EmptyMap /\ ~BrokenIn(map)
      BY <1>2, <2>1, <2>3 DEF Empty
    <3>2. Abstract!Ends(Abstract!EmptyMap, ended')
      BY <3>1, SameFirstWins DEF Abstract!Ends
    <3> QED BY <1>1, <2>1, <2>3, <3>1, <3>2 DEF Abstract!Clear
  <2> QED BY <2>2, <2>3
<1>4. ASSUME NEW w \in Wires, NEW n \in 0 .. Len(w), Unpack(w, n)
      PROVE  Abstract!Load(w) \/ Abstract!Stop
  <2>1. /\ ended' \in {"unpacked", "interrupted", "half_unpacked", "terminated", "undefined"}
        /\ ended' = "undefined" => map' = map /\ BrokenIn(map)
        /\ ended' # "undefined" => ~BrokenIn(map)
        /\ ended' = "half_unpacked" => map' = map /\ w # << >>
        /\ Loaded(map', ended', w)
    BY <1>4, UnpackStep
  <2>2. CASE ended' = "undefined"
    BY <1>1, <2>1, <2>2, UndefinedStops
  <2>3. CASE ended' = "half_unpacked"
    <3>1. Abstract!Ends(SeenOf(map), "half_unpacked") /\ ~BrokenIn(map) /\ ~BrokenIn(map')
      BY <2>1, <2>3, SameSeen DEF Abstract!Ends
    <3> QED BY <1>1, <2>1, <2>3, <3>1 DEF Abstract!Load
  <2>4. CASE ended' = "unpacked"
    <3>1. ~BrokenIn(map') /\ SeenOf(map') = FirstWins(w) /\ ~BrokenIn(map)
      BY <1>2, <2>1, <2>4 DEF Loaded
    <3>2. Abstract!Ends(Abstract!FirstWins(w), "unpacked")
      BY <2>4, <3>1, SameFirstWins DEF Abstract!Ends
    <3> QED BY <1>1, <3>1, <3>2 DEF Abstract!Load
  <2>5. CASE ended' = "interrupted"
    <3>1. PICK i \in 0 .. Len(w) - 1 : Contents(map') = FirstWins(SubSeq(w, 1, i))
      BY <2>1, <2>5 DEF Loaded
    <3>2. ~BrokenIn(map') /\ SeenOf(map') = FirstWins(SubSeq(w, 1, i)) /\ ~BrokenIn(map)
      BY <1>2, <2>1, <2>5, <3>1 DEF Loaded
    <3>3. Abstract!Ends(Abstract!FirstWins(SubSeq(w, 1, i)), "interrupted")
      BY <2>5, <3>2, SameFirstWins DEF Abstract!Ends
    <3> QED BY <1>1, <3>2, <3>3 DEF Abstract!Load
  <2>6. CASE ended' = "terminated"
    <3>1. ~BrokenIn(map') /\ SeenOf(map') = EmptyMap /\ ~BrokenIn(map)
      BY <1>2, <2>1, <2>6 DEF Loaded
    <3>2. Abstract!Ends(Abstract!EmptyMap, "terminated")
      BY <2>6, <3>1, SameFirstWins DEF Abstract!Ends
    <3> QED BY <1>1, <3>1, <3>2 DEF Abstract!Load
  <2> QED BY <2>1, <2>2, <2>3, <2>4, <2>5, <2>6
<1> QED BY <1>3, <1>4 DEF Resets, Abstract!Next

LEMMA MovesImplement ==
    ASSUME MInv, Moves
    PROVE  Abstract!Next
<1>1. map \in Container /\ Sound(map) /\ map.initial_reserve \in Nat /\ 0 \in Nat
  BY DEF MInv, MemoryTypeOK, Container
<1>2. Running /\ Abstract!Running
  BY RunningSeen DEF Moves, Relocate, MoveOut, Receives, MoveIn
<1>3. ASSUME NEW hint \in Hints \cup {0}, Relocate(hint) PROVE Abstract!Relocate
  <2> DEFINE d == [map EXCEPT !.initial_reserve = hint]
  <2>1. hint \in Nat
    BY HintsAssumption
  <2>2. (Hollow(d) <=> Hollow(map)) /\ Contents(d) = Contents(map)
    BY <1>1, <2>1, ContentsOfMoved
  <2>3. BrokenIn(d) = BrokenIn(map)
    BY <1>1, <2>1, MovesSound, BrokenIsBoolean
  <2>4. d.is_vector_mode = map.is_vector_mode
    BY <1>1 DEF Container
  <2> HIDE DEF d
  <2>5. SeenOf(d) = SeenOf(map)
    BY <2>2 DEF SeenOf
  <2>6. map' = d /\ ended' = "moved"
    BY <1>3 DEF Relocate, d
  <2>7. UNCHANGED <<SeenOf(map), ~map.is_vector_mode, BrokenIn(map)>>
    BY <2>3, <2>4, <2>5, <2>6
  <2> QED BY <1>2, <2>6, <2>7 DEF Abstract!Relocate
<1>4. ASSUME MoveOut PROVE Abstract!MoveOut
  <2> DEFINE d == MovedOut(map)
  <2>1. (Hollow(d) <=> ~map.is_vector_mode) /\ (map.is_vector_mode => Contents(d) = EmptyMap)
    BY <1>1, ContentsOfMoved
  <2>2. ~BrokenIn(d)
    BY <1>1, MovesSound
  <2>3. d.is_vector_mode = map.is_vector_mode
    BY <1>1 DEF Container, MovedOut
  <2> HIDE DEF d
  <2>4. map' = d /\ ended' = "emptied"
    BY <1>4 DEF MoveOut, d
  <2>5. SeenOf(d) = IF ~map.is_vector_mode THEN NullPtr ELSE Abstract!EmptyMap
    BY <2>1, SameFirstWins DEF SeenOf
  <2>6. Abstract!Ends(IF ~map.is_vector_mode THEN NullPtr ELSE Abstract!EmptyMap, "emptied")
    BY <2>4, <2>5 DEF Abstract!Ends
  <2>7. UNCHANGED (~map.is_vector_mode) /\ ~BrokenIn(map')
    BY <2>2, <2>3, <2>4
  <2> QED BY <1>2, <2>6, <2>7 DEF Abstract!MoveOut
<1>5. ASSUME NEW x \in Others, MoveIn(x) PROVE Abstract!Next
  <2> DEFINE d == [x.map EXCEPT !.initial_reserve = map.initial_reserve]
             y == [contents |-> SeenOf(x.map), settled |-> ~x.map.is_vector_mode,
                   broken |-> BrokenIn(x.map)]
  <2>1. x.map \in Container /\ Sound(x.map)
    BY OthersAssumption DEF Sound
  <2>2. (Hollow(d) <=> Hollow(x.map)) /\ Contents(d) = Contents(x.map)
    BY <1>1, <2>1, ContentsOfMoved
  <2>3. BrokenIn(d) = BrokenIn(x.map)
    BY <1>1, <2>1, MovesSound, BrokenIsBoolean
  <2>4. d.is_vector_mode = x.map.is_vector_mode
    BY <2>1 DEF Container
  <2>5. \/ BrokenIn(map) /\ map' = map /\ ended' = "undefined"
        \/ ~BrokenIn(map) /\ ended' = "received" /\ map' = d
    BY <1>5, MoveInStep
  <2> HIDE DEF d
  <2>6. CASE BrokenIn(map) /\ map' = map /\ ended' = "undefined"
    BY <1>2, <2>6, UndefinedStops DEF Abstract!Next
  <2>7. CASE ~BrokenIn(map) /\ ended' = "received" /\ map' = d
    <3>1. SeenOf(d) = SeenOf(x.map)
      BY <2>2 DEF SeenOf
    <3>2. y.contents = SeenOf(x.map) /\ y.settled = ~x.map.is_vector_mode
          /\ y.broken = BrokenIn(x.map)
      OBVIOUS
    <3>3. y \in {[contents |-> SeenOf(z.map), settled |-> ~z.map.is_vector_mode,
                  broken |-> BrokenIn(z.map)] : z \in Others}
      OBVIOUS
    <3> HIDE DEF y
    <3>4. Abstract!Ends(y.contents, "received")
      BY <2>7, <3>1, <3>2 DEF Abstract!Ends
    <3>5. (~map.is_vector_mode)' = y.settled /\ BrokenIn(map)' = y.broken
      BY <2>3, <2>4, <2>7, <3>2
    <3>6. Abstract!MoveIn(y)
      BY <1>2, <2>7, <3>4, <3>5 DEF Abstract!MoveIn
    <3> QED BY <3>3, <3>6 DEF Abstract!Next
  <2> QED BY <2>5, <2>6, <2>7
<1> QED BY <1>3, <1>4, <1>5 DEF Moves, Receives, Abstract!Next

\* The steps that leave the container as it is read it, stop, or are of iterate().
LEMMA ReadingImplements ==
    ASSUME MInv, Reading
    PROVE  [Abstract!Next]_(Abstract!vars)
<1>1. map' = map /\ Running
  BY ReadingKeeps
<1>2. UNCHANGED <<SeenOf(map), ~map.is_vector_mode, BrokenIn(map)>> /\ Abstract!Running
  BY <1>1, SameSeen, RunningSeen
<1>3. CASE (\E k \in Key : Find(k)) \/ StartWalk
  <2>1. Usable /\ ended' = "ok"
    BY <1>3 DEF Find, StartWalk, Usable
  <2>2. Abstract!Read
    BY <1>2, <2>1, UsableSeen DEF Abstract!Read
  <2> QED BY <2>2 DEF Abstract!Next
<1>4. CASE Pack
  <2> DEFINE broken == IF map.is_vector_mode THEN BrokenInVector(map) ELSE BrokenInMap(map)
  <2>1. /\ Usable
        /\ \/ ended' = "exception"
           \/ broken /\ ended' = "undefined"
           \/ ~broken /\ ended' = "ok"
    BY <1>4, PackStep
  <2>2. /\ Abstract!Usable /\ SeenOf(map) = Contents(map) /\ ~Hollow(map) /\ Sound(map)
        /\ \A k \in DOMAIN SeenOf(map) : k \in StoredKeys(map)
    BY <2>1, UsableSeen DEF Has
  <2>3. broken => BrokenIn(map)
    BY DEF BrokenIn
  <2>4. ~broken => \A k \in DOMAIN SeenOf(map) : SeenOf(map)[k] # Broken
    BY <2>2, FoundBroken
  <2> HIDE DEF broken
  <2>5. CASE broken /\ ended' = "undefined"
    BY <1>1, <2>3, <2>5, UndefinedStops DEF Abstract!Next
  <2>6. CASE ended' = "exception" \/ (~broken /\ ended' = "ok")
    <3>1. Abstract!Pack
      BY <1>2, <2>2, <2>4, <2>6 DEF Abstract!Pack
    <3> QED BY <3>1 DEF Abstract!Next
  <2> QED BY <2>1, <2>5, <2>6
<1>5. CASE UseHollow \/ LookupTerminates \/ WalkAstray \/ Destroy
  <2>1. \/ SeenOf(map) = NullPtr /\ ended' = "crashed"
        \/ ~map.is_vector_mode /\ ended' = "terminated"
        \/ ended' = "astray"
        \/ ~BrokenIn(map) /\ ended' = "destroyed"
        \/ BrokenIn(map) /\ ended' = "undefined"
    BY <1>5 DEF UseHollow, LookupTerminates, WalkAstray, Destroy, Stop, SeenOf
  <2>2. Abstract!Stop
    BY <1>2, <2>1 DEF Abstract!Stop
  <2> QED BY <2>2 DEF Abstract!Next
<1>6. CASE Visit \/ EndWalk
  BY <1>2, <1>6 DEF Visit, EndWalk, Abstract!vars
<1> QED BY <1>3, <1>4, <1>5, <1>6 DEF Reading, WalkStep

LEMMA InitImplements == Init => Abstract!Init
<1> SUFFICES ASSUME Init PROVE Abstract!Init
  OBVIOUS
<1>1. PICK hint \in Hints : map = PrimeStorage(hint)
  BY DEF Init
<1>2. hint \in Nat
  BY HintsAssumption
<1>3. ~Hollow(map) /\ Contents(map) = EmptyMap
  BY <1>1, <1>2, PrimeStorageEmpty
<1>4. ~BrokenIn(map)
  <2>0. hint <= SMALL_CAPACITY \/ hint > SMALL_CAPACITY
    BY <1>2, CapacityAssumption
  <2>1. map = Fresh(TRUE, hint) \/ map = Fresh(FALSE, hint)
    BY <1>1, <1>2, <2>0, PrimeStorageIsFresh
  <2>2. Empty(map)
    BY <1>2, <2>1, FreshContainer
  <2> QED BY <2>2 DEF Empty, Whole
<1> QED BY <1>3, <1>4, SameFirstWins DEF Init, SeenOf, Abstract!Init

LEMMA NextImplements == MInv /\ [Next]_vars => [Abstract!Next]_(Abstract!vars)
<1>1. CASE UNCHANGED vars
  BY <1>1, SameSeen DEF vars, Abstract!vars
<1>2. ASSUME MInv, Next PROVE [Abstract!Next]_(Abstract!vars)
  BY <1>2, WritesImplement, ResetsImplement, MovesImplement, ReadingImplements DEF Next, Reading
<1> QED BY <1>1, <1>2

\* Whatever allocations fail in whatever order, a call that returns has done its
\* work on the dictionary completely; one that throws has done nothing, broken the
\* value it was to assign, or was the one insertion since the last reset in which
\* other parameters may be lost; and only a call that destroys, moves, assigns or
\* reads a broken value, or unpacks what does not decode, is undefined
\* (convert_to_map, clear, unpack, ParameterValue::operator=, the moves).
THEOREM MapWithFaultsImplemented == Spec => ImplementsFallibleMap
BY InitMInv, NextMInv, InitImplements, NextImplements, PTL
   DEF Spec, ImplementsFallibleMap, Abstract!Spec
=============================================================================
