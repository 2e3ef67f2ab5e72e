------------------------ MODULE HybridContainerProofs ------------------------
(***************************************************************************)
(* Lemmas about entries and dictionaries and about the operators on one    *)
(* container, for every capacity, key set and value set.                   *)
(***************************************************************************)
EXTENDS HybridContainer, SequenceTheorems, FiniteSetTheorems, WellFoundedInduction, TLAPS

-----------------------------------------------------------------------------
(***************************************************************************)
(* Sequences of entries and the dictionaries built from them.              *)
(***************************************************************************)
\* A key that occurs in a sequence has a first entry there, the only one that
\* FirstIndex can choose: std::find_if stops at it.
LEMMA FirstIndexProperties ==
    ASSUME NEW s \in Seq(Entry), NEW k \in KeysOf(s)
    PROVE  /\ FirstIndex(s, k) \in 1 .. Len(s)
           /\ s[FirstIndex(s, k)].key = k
           /\ \A j \in 1 .. Len(s) : s[j].key = k => FirstIndex(s, k) <= j
<1> DEFINE T == {i \in DOMAIN s : s[i].key = k}
<1>1. DOMAIN s = 1 .. Len(s) /\ Len(s) \in Nat
  BY LenProperties
<1>2. T \subseteq Nat /\ T # {}
  BY <1>1 DEF KeysOf
<1>3. \E i \in T : \A j \in T : ~(<<j, i>> \in OpToRel(<, Nat))
  <2> HIDE DEF T
  <2> QED BY <1>2, NatLessThanWellFounded, WFMin
<1>4. PICK i \in T : \A j \in T : ~(<<j, i>> \in OpToRel(<, Nat))
  BY <1>3
<1>5. \A j \in T : i <= j
  <2> TAKE j \in T
  <2>1. i \in Nat /\ j \in Nat
    BY <1>2
  <2>2. ~(j < i)
    BY <2>1, <1>4 DEF OpToRel
  <2> QED BY <2>1, <2>2
<1>6. \E x \in DOMAIN s : s[x].key = k /\ \A j \in DOMAIN s : s[j].key = k => x <= j
  BY <1>5
<1>7. /\ FirstIndex(s, k) \in DOMAIN s
      /\ s[FirstIndex(s, k)].key = k
      /\ \A j \in DOMAIN s : s[j].key = k => FirstIndex(s, k) <= j
  BY <1>6 DEF FirstIndex
<1> QED BY <1>7, <1>1

\* An index that no entry for the same key precedes is the one chosen.
LEMMA FirstIndexUnique ==
    ASSUME NEW s \in Seq(Entry), NEW i \in 1 .. Len(s),
           \A j \in 1 .. Len(s) : s[j].key = s[i].key => i <= j
    PROVE  FirstIndex(s, s[i].key) = i
<1>1. DOMAIN s = 1 .. Len(s) /\ Len(s) \in Nat
  BY LenProperties
<1>2. s[i].key \in KeysOf(s)
  BY <1>1 DEF KeysOf
<1> DEFINE f == FirstIndex(s, s[i].key)
<1>3. f \in 1 .. Len(s) /\ s[f].key = s[i].key /\ f <= i
  BY <1>2, FirstIndexProperties
<1>4. i <= f
  BY <1>3
<1> HIDE DEF f
<1>5. f = i
  BY <1>1, <1>3, <1>4
<1> QED BY <1>5 DEF f

\* An entry found by its key is an entry of the sequence.
LEMMA FirstEntryType ==
    ASSUME NEW s \in Seq(Entry), NEW k \in KeysOf(s)
    PROVE  /\ FirstIndex(s, k) \in 1 .. Len(s)
           /\ s[FirstIndex(s, k)].key = k
           /\ s[FirstIndex(s, k)].val \in Val
<1>1. FirstIndex(s, k) \in 1 .. Len(s) /\ s[FirstIndex(s, k)].key = k
  BY FirstIndexProperties
<1>2. s[FirstIndex(s, k)] \in Entry
  BY <1>1, ElementOfSeq
<1> QED BY <1>1, <1>2 DEF Entry

LEMMA KeysOfType ==
    ASSUME NEW s \in Seq(Entry)
    PROVE  KeysOf(s) \subseteq Key
<1> SUFFICES ASSUME NEW i \in DOMAIN s PROVE s[i].key \in Key
  BY DEF KeysOf
<1>1. s[i] \in Entry
  BY LenProperties, ElementOfSeq
<1> QED BY <1>1 DEF Entry

LEMMA DictionaryIsFunction ==
    ASSUME NEW m \in Dictionary
    PROVE  DOMAIN m \subseteq Key /\ m \in [DOMAIN m -> Val]
<1>1. PICK S \in SUBSET Key : m \in [S -> Val]
  BY DEF Dictionary
<1>2. DOMAIN m = S
  BY <1>1
<1> QED BY <1>1, <1>2

LEMMA EmptyMapType == EmptyMap \in Dictionary /\ DOMAIN EmptyMap = {}
<1>1. EmptyMap \in [{} -> Val] /\ DOMAIN EmptyMap = {}
  BY DEF EmptyMap
<1> QED BY <1>1 DEF Dictionary

\* Emplacing entries gives a dictionary with the keys of both.
LEMMA EmplaceType ==
    ASSUME NEW m \in Dictionary, NEW s \in Seq(Entry)
    PROVE  /\ Emplace(m, s) \in Dictionary
           /\ DOMAIN Emplace(m, s) = DOMAIN m \cup KeysOf(s)
<1> DEFINE D == DOMAIN m \cup KeysOf(s)
<1>1. D \in SUBSET Key
  BY KeysOfType, DictionaryIsFunction
<1>2. ASSUME NEW k \in D
      PROVE  (IF k \in DOMAIN m THEN m[k] ELSE s[FirstIndex(s, k)].val) \in Val
  <2>1. CASE k \in DOMAIN m
    BY <2>1, DictionaryIsFunction
  <2>2. CASE k \notin DOMAIN m
    <3>1. k \in KeysOf(s)
      BY <2>2, <1>2
    <3> QED BY <2>2, <3>1, FirstEntryType
  <2> QED BY <2>1, <2>2
<1>3. Emplace(m, s) \in [D -> Val]
  BY <1>2 DEF Emplace
<1>4. Emplace(m, s) \in Dictionary
  <2> HIDE DEF D
  <2> QED BY <1>1, <1>3 DEF Dictionary
<1> QED BY <1>3, <1>4

\* Replacing a value keeps the sequence's length and its keys.
LEMMA OverwriteType ==
    ASSUME NEW s \in Seq(Entry), NEW k \in KeysOf(s), NEW v \in Val
    PROVE  /\ Overwrite(s, k, v) \in Seq(Entry)
           /\ Len(Overwrite(s, k, v)) = Len(s)
           /\ \A j \in 1 .. Len(s) :
                 Overwrite(s, k, v)[j] =
                    IF j = FirstIndex(s, k) THEN [key |-> k, val |-> v] ELSE s[j]
<1>1. FirstIndex(s, k) \in 1 .. Len(s)
  BY FirstIndexProperties
<1>2. [key |-> k, val |-> v] \in Entry
  BY KeysOfType DEF Entry
<1> QED BY <1>1, <1>2, ExceptSeq DEF Overwrite

-----------------------------------------------------------------------------
(***************************************************************************)
(* The operators on one container.  Good(c) is what each of them keeps.    *)
(***************************************************************************)
Good(c) == c \in Container /\ OneStore(c)

LEMMA SingleEntry ==
    ASSUME NEW k \in Key, NEW v \in Val
    PROVE  << [key |-> k, val |-> v] >> \in Seq(Entry)
BY DEF Entry

LEMMA PrimeStorageGood ==
    ASSUME NEW hint \in Nat
    PROVE  Good(PrimeStorage(hint))
BY CapacityAssumption, EmptyMapType DEF Good, PrimeStorage, Container, OneStore

LEMMA ClearedGood ==
    ASSUME NEW c \in Container
    PROVE  Good(Cleared(c))
BY PrimeStorageGood DEF Cleared, Container

LEMMA AllocatedMapType ==
    ASSUME NEW c \in Container
    PROVE  AllocatedMap(c) \in Dictionary
BY EmptyMapType DEF AllocatedMap, Container

LEMMA ConvertToMapGood ==
    ASSUME NEW c \in Container
    PROVE  /\ Good(ConvertToMap(c))
           /\ ~ConvertToMap(c).is_vector_mode
           /\ ConvertToMap(c).map_storage \in Dictionary
<1> DEFINE m == Emplace(AllocatedMap(c), c.vector_storage)
           d == [c EXCEPT !.is_vector_mode = FALSE,
                          !.vector_storage = << >>,
                          !.map_storage    = m]
<1>1. m \in Dictionary
  BY AllocatedMapType, EmplaceType DEF Container
<1>2. << >> \in Seq(Entry)
  BY EmptySeq
<1>3. d \in Container
  <2> HIDE DEF m
  <2> QED BY <1>1, <1>2 DEF Container
<1>4. ~d.is_vector_mode /\ d.vector_storage = << >> /\ d.map_storage = m
  BY DEF Container
<1>5. d = ConvertToMap(c)
  BY DEF ConvertToMap
<1> HIDE DEF d, m
<1> QED BY <1>1, <1>3, <1>4, <1>5 DEF Good, OneStore

LEMMA InsertGood ==
    ASSUME NEW c \in Container, OneStore(c), ~Hollow(c), NEW k \in Key, NEW v \in Val
    PROVE  Good(Insert(c, k, v))
<1> DEFINE e == [key |-> k, val |-> v]
           m == IF c.is_vector_mode THEN ConvertToMap(c) ELSE c
<1>1. e \in Entry
  BY DEF Entry
<1>2. CASE c.is_vector_mode /\ Len(c.vector_storage) < SMALL_CAPACITY
  <2> DEFINE s == Append(c.vector_storage, e)
  <2>1. /\ s \in Seq(Entry)
        /\ Len(s) = Len(c.vector_storage) + 1
        /\ Len(c.vector_storage) \in Nat
    BY <1>1, AppendProperties, LenProperties DEF Container
  <2>2. Insert(c, k, v) = [c EXCEPT !.vector_storage = s]
    BY <1>2 DEF Insert
  <2> HIDE DEF e, s
  <2> QED BY <1>2, <2>1, <2>2, CapacityAssumption DEF Good, OneStore, Container
<1>3. CASE ~(c.is_vector_mode /\ Len(c.vector_storage) < SMALL_CAPACITY)
  <2>1. Insert(c, k, v) = [m EXCEPT !.map_storage = Emplace(m.map_storage, << e >>)]
    BY <1>3 DEF Insert
  <2>2. /\ m \in Container /\ OneStore(m)
        /\ ~m.is_vector_mode /\ m.map_storage \in Dictionary
    BY ConvertToMapGood DEF Hollow, Good, Container
  <2>3. Emplace(m.map_storage, << e >>) \in Dictionary
    BY <2>2, SingleEntry, EmplaceType
  <2> HIDE DEF e, m
  <2> QED BY <2>1, <2>2, <2>3 DEF Good, OneStore, Container
<1> QED BY <1>2, <1>3

LEMMA AssignGood ==
    ASSUME NEW c \in Container, OneStore(c), ~Hollow(c), NEW k \in Key, NEW v \in Val,
           Has(c, k)
    PROVE  Good(Assign(c, k, v))
<1>1. CASE c.is_vector_mode
  <2> DEFINE s == Overwrite(c.vector_storage, k, v)
  <2>0. c.vector_storage \in Seq(Entry) /\ k \in KeysOf(c.vector_storage)
    BY <1>1 DEF Has, StoredKeys, Container
  <2>1. s \in Seq(Entry) /\ Len(s) = Len(c.vector_storage)
    BY <2>0, OverwriteType
  <2>2. Assign(c, k, v) = [c EXCEPT !.vector_storage = s]
    BY <1>1 DEF Assign
  <2> HIDE DEF s
  <2> QED BY <1>1, <2>1, <2>2 DEF Good, OneStore, Container
<1>2. CASE ~c.is_vector_mode
  <2> DEFINE m == [c.map_storage EXCEPT ![k] = v]
  <2>1. c.map_storage \in Dictionary
    BY <1>2 DEF Hollow, Container
  <2>2. m \in Dictionary
    BY <2>1, DictionaryIsFunction DEF Dictionary
  <2>3. Assign(c, k, v) = [c EXCEPT !.map_storage = m]
    BY <1>2 DEF Assign
  <2> HIDE DEF m
  <2> QED BY <1>2, <2>2, <2>3 DEF Good, OneStore, Container
<1> QED BY <1>1, <1>2

LEMMA UnpackedGood ==
    ASSUME NEW c \in Container, NEW w \in Seq(Entry), NEW n \in 0 .. Len(w)
    PROVE  /\ Good(Unpacked(c, w, n))
           /\ ~Hollow(Unpacked(c, w, n))
<1> DEFINE e == Cleared(c)
           decoded == SubSeq(w, 1, n)
           m == Emplace(AllocatedMap(e), decoded)
<1>1. Len(w) \in Nat /\ \A i \in 1 .. n : w[i] \in Entry
  BY LenProperties, ElementOfSeq
<1>2. decoded \in Seq(Entry) /\ Len(decoded) = n
  BY <1>1, SubSeqProperties
<1>3. Good(e) /\ e.vector_storage = << >> /\ e.map_storage \in {NullPtr, EmptyMap}
  BY ClearedGood DEF Cleared, PrimeStorage
<1>4. m \in Dictionary
  BY <1>2, <1>3, AllocatedMapType, EmplaceType DEF Good
<1>5. Unpacked(c, w, n) = IF Len(w) > SMALL_CAPACITY
                          THEN [e EXCEPT !.is_vector_mode = FALSE, !.map_storage = m]
                          ELSE [e EXCEPT !.is_vector_mode = TRUE, !.vector_storage = decoded]
  BY DEF Unpacked, Filled
<1> HIDE DEF e, decoded, m
<1>6. CASE Len(w) > SMALL_CAPACITY
  BY <1>3, <1>4, <1>5, <1>6, NullPtrAssumption DEF Good, OneStore, Container, Hollow
<1>7. CASE ~(Len(w) > SMALL_CAPACITY)
  <2> DEFINE d == [e EXCEPT !.is_vector_mode = TRUE, !.vector_storage = decoded]
  <2>1. Len(decoded) <= SMALL_CAPACITY
    BY <1>1, <1>2, <1>7, CapacityAssumption
  <2>2. d \in Container
    BY <1>2, <1>3 DEF Good, Container
  <2>3. d.is_vector_mode /\ d.vector_storage = decoded /\ d.map_storage = e.map_storage
    BY <1>3 DEF Good, Container
  <2>4. Unpacked(c, w, n) = d
    BY <1>5, <1>7
  <2> HIDE DEF d
  <2> QED BY <1>3, <2>1, <2>2, <2>3, <2>4 DEF Good, OneStore, Hollow
<1> QED BY <1>6, <1>7

LEMMA MovesGood ==
    ASSUME NEW c \in Container, OneStore(c), NEW hint \in Nat
    PROVE  /\ Good([c EXCEPT !.initial_reserve = hint])
           /\ Good(MovedOut(c))
<1> DEFINE a == [c EXCEPT !.initial_reserve = hint]
           b == [c EXCEPT !.vector_storage = << >>, !.map_storage = NullPtr]
<1>1. << >> \in Seq(Entry) /\ Len(<< >>) = 0
  BY EmptySeq
<1>2. a \in Container /\ b \in Container
  BY <1>1 DEF Container
<1>3. /\ a.is_vector_mode = c.is_vector_mode
      /\ a.vector_storage = c.vector_storage
      /\ a.map_storage = c.map_storage
  BY DEF Container
<1>4. b.vector_storage = << >> /\ b.map_storage = NullPtr
  BY DEF Container
<1>5. b = MovedOut(c)
  BY DEF MovedOut
<1> HIDE DEF a, b
<1>6. OneStore(a)
  BY <1>3 DEF OneStore
<1>7. OneStore(b)
  BY <1>1, <1>4, CapacityAssumption DEF OneStore
<1> QED BY <1>2, <1>5, <1>6, <1>7 DEF Good, a

-----------------------------------------------------------------------------
(***************************************************************************)
(* Containers whose migration may have failed: the vector may hold entries *)
(* in map mode.  Sound(c) is what is left of Good(c) then.                 *)
(***************************************************************************)
Sound(c) ==
    /\ c \in Container
    /\ c.is_vector_mode => OneStore(c)
    /\ c.map_storage # NullPtr => IsFiniteSet(DOMAIN c.map_storage)

LEMMA EmptyMapFinite == EmptyMap \in Dictionary /\ IsFiniteSet(DOMAIN EmptyMap)
BY EmptyMapType, FS_EmptySet

LEMMA KeysOfFinite ==
    ASSUME NEW s \in Seq(Entry)
    PROVE  IsFiniteSet(KeysOf(s))
<1> DEFINE f == [i \in 1 .. Len(s) |-> s[i].key]
<1>1. DOMAIN s = 1 .. Len(s) /\ Len(s) \in Nat
  BY LenProperties
<1>2. f \in Surjection(1 .. Len(s), KeysOf(s))
  BY <1>1 DEF Surjection, KeysOf
<1>3. IsFiniteSet(1 .. Len(s))
  BY <1>1, FS_Interval
<1> HIDE DEF f
<1> QED BY <1>2, <1>3, FS_Surjection

LEMMA EmplaceFinite ==
    ASSUME NEW m \in Dictionary, IsFiniteSet(DOMAIN m), NEW s \in Seq(Entry)
    PROVE  Emplace(m, s) \in Dictionary /\ IsFiniteSet(DOMAIN Emplace(m, s))
<1>1. Emplace(m, s) \in Dictionary /\ DOMAIN Emplace(m, s) = DOMAIN m \cup KeysOf(s)
  BY EmplaceType
<1>2. IsFiniteSet(KeysOf(s))
  BY KeysOfFinite
<1>3. IsFiniteSet(DOMAIN m \cup KeysOf(s))
  BY <1>2, FS_Union
<1> QED BY <1>1, <1>3

LEMMA AllocatedMapFinite ==
    ASSUME NEW c, Sound(c)
    PROVE  AllocatedMap(c) \in Dictionary /\ IsFiniteSet(DOMAIN AllocatedMap(c))
BY EmptyMapFinite DEF AllocatedMap, Sound, Container

LEMMA PrimeStorageSound ==
    ASSUME NEW hint \in Nat
    PROVE  Sound(PrimeStorage(hint)) /\ ~Hollow(PrimeStorage(hint))
<1>1. Good(PrimeStorage(hint))
  BY PrimeStorageGood
<1> QED BY <1>1, EmptyMapFinite, NullPtrAssumption DEF Good, Sound, PrimeStorage, Hollow

\* c in map mode, with s left in the vector and the map m.
InMapMode(c, s, m) ==
    [c EXCEPT !.is_vector_mode = FALSE, !.vector_storage = s, !.map_storage = m]

LEMMA MapModeSound ==
    ASSUME NEW c \in Container, NEW s \in Seq(Entry), NEW m \in Dictionary,
           IsFiniteSet(DOMAIN m)
    PROVE  LET d == InMapMode(c, s, m)
           IN  /\ Sound(d) /\ ~Hollow(d) /\ ~d.is_vector_mode
               /\ d.vector_storage = s /\ d.map_storage = m
               /\ d.initial_reserve = c.initial_reserve
<1> DEFINE d == InMapMode(c, s, m)
<1>1. d \in Container
  BY DEF InMapMode, Container
<1>2. /\ ~d.is_vector_mode /\ d.vector_storage = s /\ d.map_storage = m
      /\ d.initial_reserve = c.initial_reserve
  BY DEF InMapMode, Container
<1>3. m # NullPtr
  BY NullPtrAssumption
<1> HIDE DEF d
<1>4. Sound(d) /\ ~Hollow(d)
  BY <1>1, <1>2, <1>3 DEF Sound, Hollow
<1> QED BY <1>2, <1>4 DEF d

LEMMA ConvertToMapSound ==
    ASSUME NEW c, Sound(c)
    PROVE  LET d == ConvertToMap(c)
           IN  /\ Sound(d) /\ ~Hollow(d) /\ ~d.is_vector_mode
               /\ d.vector_storage = << >>
               /\ d.map_storage = Emplace(AllocatedMap(c), c.vector_storage)
               /\ d.map_storage \in Dictionary
               /\ d.initial_reserve = c.initial_reserve
<1> DEFINE m == Emplace(AllocatedMap(c), c.vector_storage)
           s == << >>
<1>1. c \in Container /\ c.vector_storage \in Seq(Entry) /\ s \in Seq(Entry)
  BY EmptySeq DEF Sound, Container
<1>2. m \in Dictionary /\ IsFiniteSet(DOMAIN m)
  BY <1>1, AllocatedMapFinite, EmplaceFinite
<1>3. ConvertToMap(c) = InMapMode(c, s, m)
  BY DEF ConvertToMap, InMapMode
<1> HIDE DEF m, s
<1>4. LET d == ConvertToMap(c)
      IN  /\ Sound(d) /\ ~Hollow(d) /\ ~d.is_vector_mode
          /\ d.vector_storage = s /\ d.map_storage = m
          /\ d.initial_reserve = c.initial_reserve
  BY <1>1, <1>2, <1>3, MapModeSound
<1> QED BY <1>2, <1>4 DEF m, s

\* emplace() in map mode.
LEMMA EmplaceSound ==
    ASSUME NEW c, Sound(c), ~c.is_vector_mode, ~Hollow(c), NEW k \in Key, NEW v \in Val
    PROVE  LET d == Insert(c, k, v)
           IN  /\ Sound(d) /\ ~Hollow(d) /\ ~d.is_vector_mode
               /\ d.initial_reserve = c.initial_reserve
<1> DEFINE m == Emplace(c.map_storage, << [key |-> k, val |-> v] >>)
<1>1. c \in Container /\ c.vector_storage \in Seq(Entry) /\ c.map_storage \in Dictionary
      /\ IsFiniteSet(DOMAIN c.map_storage)
  BY NullPtrAssumption DEF Sound, Container, Hollow
<1>2. m \in Dictionary /\ IsFiniteSet(DOMAIN m)
  BY <1>1, SingleEntry, EmplaceFinite
<1>3. Insert(c, k, v) = [c EXCEPT !.map_storage = m]
  BY DEF Insert
<1>4. [c EXCEPT !.map_storage = m] = InMapMode(c, c.vector_storage, m)
  <2> HIDE DEF m
  <2> QED BY <1>1 DEF Container, InMapMode
<1> HIDE DEF m
<1> QED BY <1>1, <1>2, <1>3, <1>4, MapModeSound

\* emplace_back() in vector mode.
LEMMA PushSound ==
    ASSUME NEW c, Sound(c), c.is_vector_mode, Len(c.vector_storage) < SMALL_CAPACITY,
           NEW k \in Key, NEW v \in Val
    PROVE  LET d == Insert(c, k, v)
           IN  /\ Sound(d) /\ ~Hollow(d) /\ d.is_vector_mode
               /\ d.initial_reserve = c.initial_reserve
<1> DEFINE d == Insert(c, k, v)
           s == Append(c.vector_storage, [key |-> k, val |-> v])
<1>1. c \in Container /\ OneStore(c) /\ ~Hollow(c)
  BY DEF Sound, Hollow
<1>2. Good(d)
  BY <1>1, InsertGood
<1>3. d = [c EXCEPT !.vector_storage = s]
  BY DEF Insert
<1>4. d.is_vector_mode /\ d.initial_reserve = c.initial_reserve /\ d.map_storage = c.map_storage
  <2> HIDE DEF s
  <2> QED BY <1>1, <1>3 DEF Container
<1> HIDE DEF d
<1>5. Sound(d) /\ ~Hollow(d)
  BY <1>2, <1>4 DEF Sound, Good, Hollow
<1> QED BY <1>4, <1>5 DEF d

LEMMA AssignSound ==
    ASSUME NEW c, Sound(c), ~Hollow(c), NEW k \in Key, NEW v \in Val, Has(c, k)
    PROVE  LET d == Assign(c, k, v)
           IN  /\ Sound(d) /\ ~Hollow(d) /\ d.is_vector_mode = c.is_vector_mode
               /\ d.initial_reserve = c.initial_reserve
<1>1. CASE c.is_vector_mode
  <2> DEFINE d == Assign(c, k, v)
             s == Overwrite(c.vector_storage, k, v)
  <2>1. c \in Container /\ OneStore(c)
    BY <1>1 DEF Sound
  <2>2. Good(d)
    BY <2>1, AssignGood
  <2>3. d = [c EXCEPT !.vector_storage = s]
    BY <1>1 DEF Assign
  <2>4. /\ d.is_vector_mode = c.is_vector_mode /\ d.initial_reserve = c.initial_reserve
        /\ d.map_storage = c.map_storage
    <3> HIDE DEF s
    <3> QED BY <2>1, <2>3 DEF Container
  <2> HIDE DEF d
  <2>5. Sound(d) /\ ~Hollow(d)
    BY <1>1, <2>2, <2>4 DEF Sound, Good, Hollow
  <2> QED BY <2>4, <2>5 DEF d
<1>2. CASE ~c.is_vector_mode
  <2> DEFINE m == [c.map_storage EXCEPT ![k] = v]
  <2>1. /\ c \in Container /\ c.vector_storage \in Seq(Entry)
        /\ c.map_storage \in Dictionary /\ IsFiniteSet(DOMAIN c.map_storage)
    BY <1>2, NullPtrAssumption DEF Sound, Container, Hollow
  <2>2. m \in Dictionary /\ DOMAIN m = DOMAIN c.map_storage
    BY <2>1, DictionaryIsFunction DEF Dictionary
  <2>3. Assign(c, k, v) = [c EXCEPT !.map_storage = m]
    BY <1>2 DEF Assign
  <2> HIDE DEF m
  <2>4. [c EXCEPT !.map_storage = m] = InMapMode(c, c.vector_storage, m)
    BY <1>2, <2>1 DEF Container, InMapMode
  <2> QED BY <1>2, <2>1, <2>2, <2>3, <2>4, MapModeSound
<1>3. c.is_vector_mode \in BOOLEAN
  BY DEF Sound, Container
<1> QED BY <1>1, <1>2, <1>3

LEMMA FilledSound ==
    ASSUME NEW e, Sound(e), e.map_storage \in {NullPtr, EmptyMap}, NEW w \in Seq(Entry), NEW n \in 0 .. Len(w)
    PROVE  LET d == Filled(e, w, n)
           IN  /\ Sound(d) /\ ~Hollow(d)
               /\ (d.is_vector_mode <=> Len(w) <= SMALL_CAPACITY)
               /\ d.initial_reserve = e.initial_reserve
<1> DEFINE s == SubSeq(w, 1, n)
           m == Emplace(AllocatedMap(e), s)
<1>1. Len(w) \in Nat /\ \A i \in 1 .. n : w[i] \in Entry
  BY LenProperties, ElementOfSeq
<1>2. s \in Seq(Entry) /\ Len(s) = n
  BY <1>1, SubSeqProperties
<1>3. m \in Dictionary /\ IsFiniteSet(DOMAIN m)
  BY <1>2, AllocatedMapFinite, EmplaceFinite
<1>4. e \in Container /\ e.vector_storage \in Seq(Entry) /\ SMALL_CAPACITY \in Nat
  BY CapacityAssumption DEF Sound, Container
<1>5. CASE Len(w) > SMALL_CAPACITY
  <2>1. Filled(e, w, n) = InMapMode(e, e.vector_storage, m)
    <3>1. Filled(e, w, n) = [e EXCEPT !.is_vector_mode = FALSE, !.map_storage = m]
      BY <1>5 DEF Filled
    <3> HIDE DEF m
    <3> QED BY <1>4, <3>1 DEF InMapMode, Container
  <2>2. ~(Len(w) <= SMALL_CAPACITY)
    BY <1>1, <1>4, <1>5
  <2> HIDE DEF m
  <2> QED BY <1>3, <1>4, <2>1, <2>2, MapModeSound
<1>6. CASE ~(Len(w) > SMALL_CAPACITY)
  <2> DEFINE d == [e EXCEPT !.is_vector_mode = TRUE, !.vector_storage = s]
  <2>1. Filled(e, w, n) = d
    BY <1>6 DEF Filled
  <2> HIDE DEF s
  <2>2. /\ d \in Container /\ d.is_vector_mode /\ d.vector_storage = s
        /\ d.map_storage = e.map_storage /\ d.initial_reserve = e.initial_reserve
    BY <1>2, <1>4 DEF Container
  <2>3. Len(w) <= SMALL_CAPACITY /\ n <= SMALL_CAPACITY
    BY <1>1, <1>4, <1>6
  <2> HIDE DEF d
  <2>4. e.map_storage # NullPtr => IsFiniteSet(DOMAIN e.map_storage)
    BY DEF Sound
  <2> SUFFICES /\ Sound(d) /\ ~Hollow(d) /\ d.is_vector_mode
               /\ d.initial_reserve = e.initial_reserve
    BY <2>1, <2>2, <2>3
  <2> QED BY <1>2, <2>2, <2>3, <2>4 DEF Sound, Hollow, OneStore
<1> QED BY <1>5, <1>6

-----------------------------------------------------------------------------
(***************************************************************************)
(* Containers whose migrations succeed: both of the above.                 *)
(***************************************************************************)
Fit(c) == Good(c) /\ Sound(c)

LEMMA PrimeStorageFit ==
    ASSUME NEW hint \in Nat
    PROVE  Fit(PrimeStorage(hint))
BY PrimeStorageGood, PrimeStorageSound DEF Fit

LEMMA ClearedFit ==
    ASSUME NEW c \in Container
    PROVE  Fit(Cleared(c))
BY PrimeStorageFit DEF Cleared, Container

LEMMA InsertFit ==
    ASSUME NEW c, Fit(c), ~Hollow(c), NEW k \in Key, NEW v \in Val
    PROVE  Fit(Insert(c, k, v))
<1>1. Good(Insert(c, k, v))
  BY InsertGood DEF Fit, Good
<1>2. c \in Container /\ c.is_vector_mode \in BOOLEAN /\ Sound(c)
  BY DEF Fit, Good, Container
<1>3. CASE ~c.is_vector_mode
  BY <1>1, <1>2, <1>3, EmplaceSound DEF Fit
<1>4. CASE c.is_vector_mode /\ Len(c.vector_storage) < SMALL_CAPACITY
  BY <1>1, <1>2, <1>4, PushSound DEF Fit
<1>5. CASE c.is_vector_mode /\ ~(Len(c.vector_storage) < SMALL_CAPACITY)
  <2> DEFINE m == ConvertToMap(c)
  <2>1. Sound(m) /\ ~Hollow(m) /\ ~m.is_vector_mode
    BY <1>2, ConvertToMapSound
  <2>2. Insert(c, k, v) = Insert(m, k, v)
    BY <1>5, <2>1 DEF Insert
  <2> HIDE DEF m
  <2> QED BY <1>1, <2>1, <2>2, EmplaceSound DEF Fit
<1> QED BY <1>2, <1>3, <1>4, <1>5

LEMMA AssignFit ==
    ASSUME NEW c, Fit(c), ~Hollow(c), NEW k \in Key, NEW v \in Val, Has(c, k)
    PROVE  Fit(Assign(c, k, v))
BY AssignGood, AssignSound DEF Fit, Good

LEMMA UnpackedFit ==
    ASSUME NEW c \in Container, NEW w \in Seq(Entry), NEW n \in 0 .. Len(w)
    PROVE  Fit(Unpacked(c, w, n)) /\ ~Hollow(Unpacked(c, w, n))
<1>1. Sound(Cleared(c)) /\ Cleared(c).map_storage \in {NullPtr, EmptyMap}
  BY ClearedFit DEF Fit, Cleared, PrimeStorage
<1>2. Sound(Unpacked(c, w, n))
  BY <1>1, FilledSound DEF Unpacked
<1> QED BY <1>2, UnpackedGood DEF Fit

LEMMA MovesFit ==
    ASSUME NEW c, Fit(c), NEW hint \in Nat
    PROVE  /\ Fit([c EXCEPT !.initial_reserve = hint])
           /\ Fit(MovedOut(c))
<1> DEFINE a == [c EXCEPT !.initial_reserve = hint]
           b == MovedOut(c)
<1>1. Good(a) /\ Good(b)
  BY MovesGood DEF Fit, Good
<1>2. a.map_storage = c.map_storage /\ b.map_storage = NullPtr
  BY DEF Fit, Good, Container, MovedOut
<1> HIDE DEF a, b
<1>3. Sound(a) /\ Sound(b)
  BY <1>1, <1>2 DEF Fit, Good, Sound
<1> QED BY <1>1, <1>3 DEF Fit, a, b

-----------------------------------------------------------------------------
(***************************************************************************)
(* What the operators do to the dictionary that a container stands for.    *)
(***************************************************************************)

\* The dictionary d with the value v for k.
Put(d, k, v) == [x \in DOMAIN d \cup {k} |-> IF x = k THEN v ELSE d[x]]

LEMMA DictionariesEqual ==
    ASSUME NEW m \in Dictionary, NEW d \in Dictionary, DOMAIN m = DOMAIN d,
           \A k \in DOMAIN m : m[k] = d[k]
    PROVE  m = d
<1>1. m \in [DOMAIN m -> Val] /\ d \in [DOMAIN m -> Val]
  BY DictionaryIsFunction
<1> QED BY <1>1

LEMMA PutType ==
    ASSUME NEW d \in Dictionary, NEW k \in Key, NEW v \in Val
    PROVE  /\ Put(d, k, v) \in Dictionary
           /\ DOMAIN Put(d, k, v) = DOMAIN d \cup {k}
<1>1. DOMAIN d \subseteq Key /\ \A x \in DOMAIN d : d[x] \in Val
  BY DictionaryIsFunction
<1>2. Put(d, k, v) \in [DOMAIN d \cup {k} -> Val] /\ DOMAIN d \cup {k} \in SUBSET Key
  BY <1>1 DEF Put
<1> QED BY <1>2 DEF Put, Dictionary

LEMMA PutValue ==
    ASSUME NEW d, NEW k, NEW v, NEW x \in DOMAIN d \cup {k}
    PROVE  Put(d, k, v)[x] = IF x = k THEN v ELSE d[x]
BY DEF Put

LEMMA EmplaceValue ==
    ASSUME NEW m, NEW s, NEW k \in DOMAIN m \cup KeysOf(s)
    PROVE  Emplace(m, s)[k] = IF k \in DOMAIN m THEN m[k] ELSE s[FirstIndex(s, k)].val
BY DEF Emplace

\* A linear search of a vector from its front reads the dictionary FirstWins.
LEMMA FirstWinsType ==
    ASSUME NEW s \in Seq(Entry)
    PROVE  /\ FirstWins(s) \in Dictionary
           /\ DOMAIN FirstWins(s) = KeysOf(s)
           /\ \A k \in KeysOf(s) : FirstWins(s)[k] = s[FirstIndex(s, k)].val
<1>1. FirstWins(s) \in Dictionary /\ DOMAIN FirstWins(s) = {} \cup KeysOf(s)
  BY EmptyMapType, EmplaceType DEF FirstWins
<1>2. \A k \in KeysOf(s) : FirstWins(s)[k] = s[FirstIndex(s, k)].val
  BY EmptyMapType, EmplaceValue DEF FirstWins
<1> QED BY <1>1, <1>2

LEMMA FirstWinsEmpty == FirstWins(<< >>) = EmptyMap
<1>1. << >> \in Seq(Entry) /\ KeysOf(<< >>) = {}
  BY EmptySeq DEF KeysOf
<1>2. FirstWins(<< >>) \in Dictionary /\ DOMAIN FirstWins(<< >>) = {}
  BY <1>1, FirstWinsType
<1> QED BY <1>2, EmptyMapType, DictionariesEqual

\* A key that the front of a sequence holds is found there first.
LEMMA PrefixKeepsFirst ==
    ASSUME NEW s \in Seq(Entry), NEW t \in Seq(Entry), Len(s) <= Len(t),
           \A i \in 1 .. Len(s) : t[i].key = s[i].key, NEW k \in KeysOf(s)
    PROVE  k \in KeysOf(t) /\ FirstIndex(t, k) = FirstIndex(s, k)
<1>1. PICK i \in 1 .. Len(s) : i = FirstIndex(s, k)
  BY FirstIndexProperties
<1>2. s[i].key = k /\ \A j \in 1 .. Len(s) : s[j].key = k => i <= j
  BY <1>1, FirstIndexProperties
<1>3. Len(s) \in Nat /\ Len(t) \in Nat /\ DOMAIN t = 1 .. Len(t)
  BY LenProperties
<1>4. i \in 1 .. Len(t) /\ t[i].key = k
  BY <1>2, <1>3
<1>5. \A j \in 1 .. Len(t) : t[j].key = t[i].key => i <= j
  BY <1>2, <1>3, <1>4
<1>6. FirstIndex(t, k) = i
  BY <1>4, <1>5, FirstIndexUnique
<1> QED BY <1>1, <1>3, <1>4, <1>6 DEF KeysOf

LEMMA KeysOfAppend ==
    ASSUME NEW s \in Seq(Entry), NEW k \in Key, NEW v \in Val
    PROVE  LET t == Append(s, [key |-> k, val |-> v])
           IN  t \in Seq(Entry) /\ KeysOf(t) = KeysOf(s) \cup {k}
<1> DEFINE e == [key |-> k, val |-> v]
           t == Append(s, e)
<1>1. e \in Entry
  BY DEF Entry
<1>2. e.key = k
  OBVIOUS
<1> HIDE DEF e
<1>3. /\ t \in Seq(Entry) /\ Len(t) = Len(s) + 1 /\ t[Len(s) + 1] = e
      /\ \A i \in 1 .. Len(s) : t[i] = s[i]
  BY <1>1, AppendProperties
<1> HIDE DEF t
<1>4. /\ Len(s) \in Nat /\ DOMAIN s = 1 .. Len(s)
      /\ DOMAIN t = 1 .. (Len(s) + 1)
  BY <1>3, LenProperties
<1>5. KeysOf(t) = KeysOf(s) \cup {k}
  BY <1>2, <1>3, <1>4 DEF KeysOf
<1> QED BY <1>3, <1>5 DEF t, e

\* An entry appended to a vector is found exactly if its key was not there.
LEMMA FirstWinsAppend ==
    ASSUME NEW s \in Seq(Entry), NEW k \in Key, NEW v \in Val
    PROVE  FirstWins(Append(s, [key |-> k, val |-> v])) =
              IF k \in KeysOf(s) THEN FirstWins(s) ELSE Put(FirstWins(s), k, v)
<1> DEFINE e == [key |-> k, val |-> v]
           t == Append(s, e)
           d == IF k \in KeysOf(s) THEN FirstWins(s) ELSE Put(FirstWins(s), k, v)
<1>1. t \in Seq(Entry) /\ KeysOf(t) = KeysOf(s) \cup {k}
  BY KeysOfAppend
<1>2. e \in Entry /\ e.key = k /\ e.val = v
  BY DEF Entry
<1> HIDE DEF e
<1>3. /\ Len(t) = Len(s) + 1 /\ Len(s) \in Nat /\ t[Len(s) + 1] = e
      /\ \A i \in 1 .. Len(s) : t[i] = s[i]
  BY <1>2, AppendProperties, LenProperties
<1> HIDE DEF t
<1>4. ASSUME NEW x \in KeysOf(s)
      PROVE  FirstWins(t)[x] = FirstWins(s)[x]
  <2>1. FirstIndex(t, x) = FirstIndex(s, x) /\ FirstIndex(s, x) \in 1 .. Len(s)
    BY <1>1, <1>3, PrefixKeepsFirst, FirstIndexProperties
  <2> QED BY <1>1, <1>3, <2>1, FirstWinsType
<1>5. ASSUME k \notin KeysOf(s)
      PROVE  FirstWins(t)[k] = v
  <2>1. DOMAIN s = 1 .. Len(s)
    BY LenProperties
  <2>2. \A j \in 1 .. Len(t) : t[j].key = t[Len(s) + 1].key => Len(s) + 1 <= j
    BY <1>2, <1>3, <1>5, <2>1 DEF KeysOf
  <2>3. FirstIndex(t, k) = Len(s) + 1
    BY <1>1, <1>2, <1>3, <2>2, FirstIndexUnique
  <2> QED BY <1>1, <1>2, <1>3, <2>3, FirstWinsType
<1>6. FirstWins(t) \in Dictionary /\ DOMAIN FirstWins(t) = KeysOf(s) \cup {k}
  BY <1>1, FirstWinsType
<1>7. d \in Dictionary /\ DOMAIN d = KeysOf(s) \cup {k}
  BY FirstWinsType, PutType
<1>8. \A x \in KeysOf(s) \cup {k} : FirstWins(t)[x] = d[x]
  <2>1. CASE k \in KeysOf(s)
    BY <1>4, <2>1
  <2>2. CASE k \notin KeysOf(s)
    <3>1. FirstWins(s) \in Dictionary /\ DOMAIN FirstWins(s) = KeysOf(s)
      BY FirstWinsType
    <3>2. \A x \in KeysOf(s) \cup {k} :
             Put(FirstWins(s), k, v)[x] = IF x = k THEN v ELSE FirstWins(s)[x]
      BY <3>1, PutValue
    <3>3. d = Put(FirstWins(s), k, v)
      BY <2>2
    <3> HIDE DEF d
    <3> QED BY <1>4, <1>5, <2>2, <3>2, <3>3
  <2> QED BY <2>1, <2>2
<1> HIDE DEF d
<1>9. FirstWins(t) = d
  BY <1>6, <1>7, <1>8, DictionariesEqual
<1> QED BY <1>9 DEF d, t, e

\* emplace() of one entry into the hash map.
LEMMA EmplaceOne ==
    ASSUME NEW m \in Dictionary, NEW k \in Key, NEW v \in Val
    PROVE  Emplace(m, << [key |-> k, val |-> v] >>) =
              IF k \in DOMAIN m THEN m ELSE Put(m, k, v)
<1> DEFINE e == [key |-> k, val |-> v]
           s == << e >>
           d == IF k \in DOMAIN m THEN m ELSE Put(m, k, v)
<1>1. s \in Seq(Entry) /\ Len(s) = 1 /\ s[1] = e
  BY SingleEntry
<1>2. KeysOf(s) = {k}
  <2>1. DOMAIN s = {1}
    BY <1>1, LenProperties
  <2> QED BY <1>1, <2>1 DEF KeysOf
<1>3. s[FirstIndex(s, k)].val = v
  <2>1. FirstIndex(s, k) \in 1 .. 1
    BY <1>1, <1>2, FirstIndexProperties
  <2>2. FirstIndex(s, k) = 1
    BY <2>1
  <2> QED BY <2>2, <1>1
<1> HIDE DEF s
<1>4. Emplace(m, s) \in Dictionary /\ DOMAIN Emplace(m, s) = DOMAIN m \cup {k}
  BY <1>1, <1>2, EmplaceType
<1>5. d \in Dictionary /\ DOMAIN d = DOMAIN m \cup {k}
  BY PutType
<1>6. \A x \in DOMAIN m \cup {k} : Emplace(m, s)[x] = d[x]
  <2>1. \A x \in DOMAIN m \cup {k} :
           Emplace(m, s)[x] = IF x \in DOMAIN m THEN m[x] ELSE s[FirstIndex(s, x)].val
    BY <1>2, EmplaceValue
  <2>2. \A x \in DOMAIN m \cup {k} : Put(m, k, v)[x] = IF x = k THEN v ELSE m[x]
    BY PutValue
  <2> QED BY <1>3, <2>1, <2>2
<1> HIDE DEF d
<1>7. Emplace(m, s) = d
  BY <1>4, <1>5, <1>6, DictionariesEqual
<1> QED BY <1>7 DEF d, s

LEMMA OverwriteKeys ==
    ASSUME NEW s \in Seq(Entry), NEW k \in KeysOf(s), NEW v \in Val
    PROVE  LET t == Overwrite(s, k, v)
           IN  /\ t \in Seq(Entry) /\ Len(t) = Len(s) /\ KeysOf(t) = KeysOf(s)
               /\ \A i \in 1 .. Len(s) : t[i].key = s[i].key
               /\ \A x \in KeysOf(s) : FirstIndex(t, x) = FirstIndex(s, x)
<1> DEFINE t == Overwrite(s, k, v)
<1>1. /\ t \in Seq(Entry) /\ Len(t) = Len(s)
      /\ \A j \in 1 .. Len(s) :
            t[j] = IF j = FirstIndex(s, k) THEN [key |-> k, val |-> v] ELSE s[j]
  BY OverwriteType
<1>2. s[FirstIndex(s, k)].key = k
  BY FirstIndexProperties
<1> HIDE DEF t
<1>3. \A i \in 1 .. Len(s) : t[i].key = s[i].key
  BY <1>1, <1>2
<1>4. DOMAIN s = 1 .. Len(s) /\ DOMAIN t = 1 .. Len(s) /\ Len(s) \in Nat
  BY <1>1, LenProperties
<1>5. KeysOf(t) = KeysOf(s)
  BY <1>3, <1>4 DEF KeysOf
<1>6. \A x \in KeysOf(s) : FirstIndex(t, x) = FirstIndex(s, x)
  BY <1>1, <1>3, <1>4, PrefixKeepsFirst
<1> QED BY <1>1, <1>3, <1>5, <1>6 DEF t

\* Overwriting the first entry of a key replaces the value that is found.
LEMMA FirstWinsOverwrite ==
    ASSUME NEW s \in Seq(Entry), NEW k \in KeysOf(s), NEW v \in Val
    PROVE  FirstWins(Overwrite(s, k, v)) = Put(FirstWins(s), k, v)
<1> DEFINE t == Overwrite(s, k, v)
           d == Put(FirstWins(s), k, v)
<1>0. k \in Key
  BY KeysOfType
<1>1. /\ t \in Seq(Entry) /\ KeysOf(t) = KeysOf(s)
      /\ \A x \in KeysOf(s) : FirstIndex(t, x) = FirstIndex(s, x)
  BY OverwriteKeys
<1>2. \A j \in 1 .. Len(s) :
         t[j] = IF j = FirstIndex(s, k) THEN [key |-> k, val |-> v] ELSE s[j]
  BY OverwriteType
<1> HIDE DEF t
<1>3. FirstWins(t) \in Dictionary /\ DOMAIN FirstWins(t) = KeysOf(s)
  BY <1>1, FirstWinsType
<1>4. /\ d \in Dictionary /\ DOMAIN d = KeysOf(s)
      /\ \A x \in KeysOf(s) : d[x] = IF x = k THEN v ELSE FirstWins(s)[x]
  <2>1. FirstWins(s) \in Dictionary /\ DOMAIN FirstWins(s) = KeysOf(s)
    BY FirstWinsType
  <2>2. KeysOf(s) \cup {k} = KeysOf(s)
    OBVIOUS
  <2>3. d \in Dictionary /\ DOMAIN d = KeysOf(s)
    BY <1>0, <2>1, <2>2, PutType
  <2>4. \A x \in KeysOf(s) : d[x] = IF x = k THEN v ELSE FirstWins(s)[x]
    BY <2>1, PutValue
  <2> QED BY <2>3, <2>4
<1>5. ASSUME NEW x \in KeysOf(s) PROVE FirstWins(t)[x] = d[x]
  <2>1. FirstWins(t)[x] = t[FirstIndex(s, x)].val
    BY <1>1, FirstWinsType
  <2>2. FirstIndex(s, x) \in 1 .. Len(s) /\ s[FirstIndex(s, x)].key = x
    BY FirstIndexProperties
  <2>3. d[x] = IF x = k THEN v ELSE FirstWins(s)[x]
    BY <1>4
  <2>4. FirstWins(s)[x] = s[FirstIndex(s, x)].val
    BY FirstWinsType
  <2>5. x # k => FirstIndex(s, x) # FirstIndex(s, k)
    BY <2>2, FirstIndexProperties
  <2> HIDE DEF d
  <2> QED BY <1>2, <2>1, <2>2, <2>3, <2>4, <2>5
<1> HIDE DEF d
<1>6. FirstWins(t) = d
  BY <1>3, <1>4, <1>5, DictionariesEqual
<1> QED BY <1>6 DEF t, d

\* A usable container stands for a dictionary, and find() reads it.
LEMMA ContentsFacts ==
    ASSUME NEW c \in Container, ~Hollow(c)
    PROVE  /\ Contents(c) \in Dictionary
           /\ DOMAIN Contents(c) = StoredKeys(c)
           /\ \A k : Lookup(c, k) = IF k \in DOMAIN Contents(c) THEN Contents(c)[k]
                                                                ELSE NullPtr
<1>1. CASE c.is_vector_mode
  <2>1. c.vector_storage \in Seq(Entry)
    BY DEF Container
  <2>2. /\ Contents(c) = FirstWins(c.vector_storage)
        /\ StoredKeys(c) = KeysOf(c.vector_storage)
    BY <1>1 DEF Contents, StoredKeys
  <2>3. /\ Contents(c) \in Dictionary
        /\ DOMAIN Contents(c) = StoredKeys(c)
    BY <2>1, <2>2, FirstWinsType
  <2>4. ASSUME NEW k
        PROVE  Lookup(c, k) = IF k \in StoredKeys(c) THEN Contents(c)[k] ELSE NullPtr
    BY <1>1, <2>1, <2>2, FirstWinsType DEF Lookup, Has
  <2> QED BY <2>3, <2>4
<1>2. CASE ~c.is_vector_mode
  BY <1>2 DEF Contents, StoredKeys, Lookup, Has, Container, Hollow
<1> QED BY <1>1, <1>2

LEMMA PrimeStorageEmpty ==
    ASSUME NEW hint \in Nat
    PROVE  ~Hollow(PrimeStorage(hint)) /\ Contents(PrimeStorage(hint)) = EmptyMap
<1> DEFINE c == PrimeStorage(hint)
<1>1. c.is_vector_mode <=> hint <= SMALL_CAPACITY
  BY Zenon DEF PrimeStorage
<1>2. c.vector_storage = << >> /\ (~(hint <= SMALL_CAPACITY) => c.map_storage = EmptyMap)
  BY DEF PrimeStorage
<1>3. ~Hollow(c)
  BY PrimeStorageSound
<1> HIDE DEF c
<1>4. Contents(c) = EmptyMap
  BY <1>1, <1>2, FirstWinsEmpty DEF Contents
<1> QED BY <1>3, <1>4 DEF c

\* Migrating to the map keeps the dictionary: the map that is reused is empty.
LEMMA ConversionKeepsContents ==
    ASSUME NEW c \in Container, OneStore(c), c.is_vector_mode
    PROVE  Contents(ConvertToMap(c)) = Contents(c)
<1>1. c.map_storage \in {NullPtr, EmptyMap}
  BY DEF OneStore
<1>2. AllocatedMap(c) = EmptyMap
  BY <1>1 DEF AllocatedMap
<1> DEFINE m == Emplace(EmptyMap, c.vector_storage)
<1>3. ConvertToMap(c) = [c EXCEPT !.is_vector_mode = FALSE,
                                  !.vector_storage = << >>,
                                  !.map_storage    = m]
  BY <1>2 DEF ConvertToMap
<1> HIDE DEF m
<1>4. ~ConvertToMap(c).is_vector_mode /\ ConvertToMap(c).map_storage = m
  BY <1>3 DEF Container
<1> QED BY <1>4 DEF Contents, FirstWins, m

\* add() without the assertion: the first value of a key stays.
LEMMA ContentsOfInsert ==
    ASSUME NEW c \in Container, c.is_vector_mode => OneStore(c), ~Hollow(c),
           NEW k \in Key, NEW v \in Val
    PROVE  /\ ~Hollow(Insert(c, k, v))
           /\ Contents(Insert(c, k, v)) =
                 IF Has(c, k) THEN Contents(c) ELSE Put(Contents(c), k, v)
<1> DEFINE e == [key |-> k, val |-> v]
           m == IF c.is_vector_mode THEN ConvertToMap(c) ELSE c
           d == Insert(c, k, v)
<1>0. DOMAIN Contents(c) = StoredKeys(c)
  BY ContentsFacts
<1>1. CASE c.is_vector_mode /\ Len(c.vector_storage) < SMALL_CAPACITY
  <2> DEFINE s == Append(c.vector_storage, e)
  <2>1. d = [c EXCEPT !.vector_storage = s]
    BY <1>1 DEF Insert
  <2>2. c.vector_storage \in Seq(Entry)
    BY DEF Container
  <2>3. FirstWins(s) = IF k \in KeysOf(c.vector_storage) THEN FirstWins(c.vector_storage)
                       ELSE Put(FirstWins(c.vector_storage), k, v)
    BY <2>2, FirstWinsAppend
  <2> HIDE DEF s
  <2>4. d.is_vector_mode /\ d.vector_storage = s
    BY <1>1, <2>1 DEF Container
  <2> HIDE DEF d
  <2>5. ~Hollow(d) /\ Contents(d) = FirstWins(s)
    BY <2>4 DEF Hollow, Contents
  <2>6. Contents(c) = FirstWins(c.vector_storage) /\ StoredKeys(c) = KeysOf(c.vector_storage)
    BY <1>1 DEF Contents, StoredKeys
  <2> QED BY <2>3, <2>5, <2>6 DEF Has, d
<1>2. CASE ~(c.is_vector_mode /\ Len(c.vector_storage) < SMALL_CAPACITY)
  <2> DEFINE n == Emplace(m.map_storage, << e >>)
  <2>1. d = [m EXCEPT !.map_storage = n]
    BY <1>2 DEF Insert
  <2>2. /\ m \in Container /\ ~m.is_vector_mode /\ m.map_storage \in Dictionary
    BY ConvertToMapGood DEF Hollow, Good, Container
  <2>3. Contents(m) = Contents(c)
    BY ConversionKeepsContents
  <2>4. m.map_storage = Contents(c)
    <3> HIDE DEF m
    <3> QED BY <2>2, <2>3 DEF Contents
  <2> HIDE DEF m
  <2>5. n = IF k \in StoredKeys(c) THEN Contents(c) ELSE Put(Contents(c), k, v)
    BY <1>0, <2>2, <2>4, EmplaceOne
  <2>6. n \in Dictionary
    BY <2>2, SingleEntry, EmplaceType
  <2> HIDE DEF n
  <2>7. ~d.is_vector_mode /\ d.map_storage = n
    BY <2>1, <2>2 DEF Container
  <2> HIDE DEF d
  <2>8. ~Hollow(d) /\ Contents(d) = n
    BY <2>6, <2>7, NullPtrAssumption DEF Hollow, Contents
  <2> QED BY <2>5, <2>8 DEF Has, d
<1> QED BY <1>1, <1>2

\* The common end of set() and update().
LEMMA ContentsOfAssign ==
    ASSUME NEW c \in Container, ~Hollow(c), NEW k \in Key, NEW v \in Val, Has(c, k)
    PROVE  /\ ~Hollow(Assign(c, k, v))
           /\ Contents(Assign(c, k, v)) = Put(Contents(c), k, v)
<1> DEFINE d == Assign(c, k, v)
<1>1. CASE c.is_vector_mode
  <2> DEFINE s == Overwrite(c.vector_storage, k, v)
  <2>1. d = [c EXCEPT !.vector_storage = s]
    BY <1>1 DEF Assign
  <2>2. c.vector_storage \in Seq(Entry) /\ k \in KeysOf(c.vector_storage)
    BY <1>1 DEF Container, Has, StoredKeys
  <2>3. FirstWins(s) = Put(FirstWins(c.vector_storage), k, v)
    BY <2>2, FirstWinsOverwrite
  <2> HIDE DEF s
  <2>4. d.is_vector_mode /\ d.vector_storage = s
    BY <1>1, <2>1 DEF Container
  <2> HIDE DEF d
  <2> QED BY <1>1, <2>3, <2>4 DEF Hollow, Contents, d
<1>2. CASE ~c.is_vector_mode
  <2> DEFINE m == [c.map_storage EXCEPT ![k] = v]
  <2>1. d = [c EXCEPT !.map_storage = m]
    BY <1>2 DEF Assign
  <2>2. c.map_storage \in Dictionary /\ k \in DOMAIN c.map_storage
    BY <1>2 DEF Container, Hollow, Has, StoredKeys
  <2>3. m \in Dictionary /\ DOMAIN m = DOMAIN c.map_storage
    BY <2>2, DictionaryIsFunction DEF Dictionary
  <2>4. m = Put(c.map_storage, k, v)
    <3>1. /\ Put(c.map_storage, k, v) \in Dictionary
          /\ DOMAIN Put(c.map_storage, k, v) = DOMAIN c.map_storage \cup {k}
      BY <2>2, PutType
    <3>2. \A x \in DOMAIN m : m[x] = Put(c.map_storage, k, v)[x]
      BY <2>2, <2>3, PutValue
    <3> HIDE DEF m
    <3> QED BY <2>2, <2>3, <3>1, <3>2, DictionariesEqual
  <2> HIDE DEF m
  <2>5. ~d.is_vector_mode /\ d.map_storage = m
    BY <1>2, <2>1 DEF Container
  <2> HIDE DEF d
  <2> QED BY <1>2, <2>3, <2>4, <2>5, NullPtrAssumption DEF Hollow, Contents, d
<1> QED BY <1>1, <1>2

\* clear() and unpack() start from nothing, whatever the container was.
LEMMA ContentsOfUnpacked ==
    ASSUME NEW c \in Container, NEW w \in Seq(Entry), NEW n \in 0 .. Len(w)
    PROVE  /\ ~Hollow(Unpacked(c, w, n))
           /\ Contents(Unpacked(c, w, n)) = FirstWins(SubSeq(w, 1, n))
<1> DEFINE e == Cleared(c)
           s == SubSeq(w, 1, n)
           m == Emplace(EmptyMap, s)
           d == Unpacked(c, w, n)
<1>1. ~Hollow(d)
  BY UnpackedGood
<1>2. e \in Container /\ e.map_storage \in {NullPtr, EmptyMap}
  BY ClearedGood DEF Good, Cleared, PrimeStorage
<1>3. AllocatedMap(e) = EmptyMap
  BY <1>2 DEF AllocatedMap
<1>4. d = IF Len(w) > SMALL_CAPACITY
          THEN [e EXCEPT !.is_vector_mode = FALSE, !.map_storage = m]
          ELSE [e EXCEPT !.is_vector_mode = TRUE, !.vector_storage = s]
  BY <1>3 DEF Unpacked, Filled
<1> HIDE DEF e, d, s, m
<1>5. CASE Len(w) > SMALL_CAPACITY
  <2>1. ~d.is_vector_mode /\ d.map_storage = m
    BY <1>2, <1>4, <1>5 DEF Container
  <2> QED BY <1>1, <2>1 DEF Contents, FirstWins, d, s, m
<1>6. CASE ~(Len(w) > SMALL_CAPACITY)
  <2>1. d.is_vector_mode /\ d.vector_storage = s
    BY <1>2, <1>4, <1>6 DEF Container
  <2> QED BY <1>1, <2>1 DEF Contents, d, s
<1> QED BY <1>5, <1>6

LEMMA ContentsOfCleared ==
    ASSUME NEW c \in Container
    PROVE  ~Hollow(Cleared(c)) /\ Contents(Cleared(c)) = EmptyMap
BY PrimeStorageEmpty DEF Cleared, Container

\* A move hands over what the source was; it leaves it empty or hollow.
LEMMA ContentsOfMoved ==
    ASSUME NEW c \in Container, NEW hint \in Nat
    PROVE  LET a == [c EXCEPT !.initial_reserve = hint]
               b == MovedOut(c)
           IN  /\ Hollow(a) <=> Hollow(c)
               /\ Contents(a) = Contents(c)
               /\ Hollow(b) <=> ~c.is_vector_mode
               /\ c.is_vector_mode => Contents(b) = EmptyMap
<1> DEFINE a == [c EXCEPT !.initial_reserve = hint]
           b == [c EXCEPT !.vector_storage = << >>, !.map_storage = NullPtr]
<1>1. /\ a.is_vector_mode = c.is_vector_mode
      /\ a.vector_storage = c.vector_storage
      /\ a.map_storage = c.map_storage
  BY DEF Container
<1>2. b.is_vector_mode = c.is_vector_mode /\ b.vector_storage = << >> /\ b.map_storage = NullPtr
  BY DEF Container
<1>3. b = MovedOut(c)
  BY DEF MovedOut
<1> HIDE DEF a, b
<1>4. (Hollow(a) <=> Hollow(c)) /\ Contents(a) = Contents(c)
  BY <1>1 DEF Hollow, Contents
<1>5. (Hollow(b) <=> ~c.is_vector_mode) /\ (c.is_vector_mode => Contents(b) = EmptyMap)
  BY <1>2, FirstWinsEmpty DEF Hollow, Contents
<1> QED BY <1>3, <1>4, <1>5 DEF a

-----------------------------------------------------------------------------
(***************************************************************************)
(* Serializing and counting.                                               *)
(***************************************************************************)

\* Whatever order the hash map is traversed in, pack() writes each parameter once.
LEMMA TraversalIsContents ==
    ASSUME NEW c, Sound(c), ~Hollow(c), NEW t \in Traversals(c)
    PROVE  t \in Seq(Entry) /\ FirstWins(t) = Contents(c)
<1>1. c \in Container /\ c.is_vector_mode \in BOOLEAN
  BY DEF Sound, Container
<1>2. CASE c.is_vector_mode
  BY <1>1, <1>2 DEF Traversals, Contents, Container
<1>3. CASE ~c.is_vector_mode
  <2> DEFINE m == c.map_storage
             keys == DOMAIN m
             n == Cardinality(keys)
  <2>1. m \in Dictionary /\ IsFiniteSet(keys) /\ Contents(c) = m
    BY <1>1, <1>3 DEF Hollow, Sound, Container, Contents
  <2>2. keys \subseteq Key /\ n \in Nat /\ \A k \in keys : m[k] \in Val
    BY <2>1, DictionaryIsFunction, FS_CardinalityType
  <2>3. PICK f \in [1 .. n -> keys] :
           /\ \A i, j \in DOMAIN f : f[i] = f[j] => i = j
           /\ t = [i \in DOMAIN f |-> [key |-> f[i], val |-> m[f[i]]]]
    BY <1>3 DEF Traversals
  <2> HIDE DEF m, keys, n
  <2>4. t \in [1 .. n -> Entry] /\ \A i \in 1 .. n : t[i].key = f[i] /\ t[i].val = m[f[i]]
    BY <2>2, <2>3 DEF Entry
  <2>5. t \in Seq(Entry) /\ Len(t) = n /\ DOMAIN t = 1 .. n
    <3>1. t \in Seq(Entry)
      BY <2>2, <2>4, SeqDef
    <3> QED BY <2>2, <2>4, <3>1, LenProperties
  <2>6. f \in Injection(1 .. n, keys)
    BY <2>3 DEF Injection, IsInjective
  <2>7. f \in Surjection(1 .. n, keys)
    <3>1. Cardinality(1 .. n) = n
      BY <2>2, FS_Interval
    <3> QED BY <2>1, <2>6, <3>1, FS_Injection DEF n
  <2>8. KeysOf(t) = keys
    BY <2>3, <2>4, <2>5, <2>7 DEF KeysOf, Surjection
  <2>9. ASSUME NEW k \in keys PROVE FirstWins(t)[k] = m[k]
    <3>1. FirstIndex(t, k) \in 1 .. n /\ t[FirstIndex(t, k)].key = k
      BY <2>5, <2>8, FirstIndexProperties
    <3>2. t[FirstIndex(t, k)].val = m[k]
      BY <2>4, <3>1
    <3> QED BY <2>5, <2>8, <3>2, FirstWinsType
  <2>10. FirstWins(t) \in Dictionary /\ DOMAIN FirstWins(t) = keys
    BY <2>5, <2>8, FirstWinsType
  <2>11. FirstWins(t) = m
    BY <2>1, <2>9, <2>10, DictionariesEqual DEF keys
  <2> QED BY <2>1, <2>5, <2>11
<1> QED BY <1>1, <1>2, <1>3

\* A vector without duplicates has as many entries as keys.
LEMMA DistinctLength ==
    ASSUME NEW s \in Seq(Entry), IsDistinct(s)
    PROVE  Len(s) = Cardinality(KeysOf(s))
<1> DEFINE f == [i \in 1 .. Len(s) |-> s[i].key]
<1>1. DOMAIN s = 1 .. Len(s) /\ Len(s) \in Nat
  BY LenProperties
<1>2. f \in [1 .. Len(s) -> KeysOf(s)]
  BY <1>1 DEF KeysOf
<1>3. f \in Injection(1 .. Len(s), KeysOf(s))
  BY <1>1, <1>2 DEF IsDistinct, Injection, IsInjective
<1>4. f \in Surjection(1 .. Len(s), KeysOf(s))
  BY <1>1, <1>2 DEF KeysOf, Surjection
<1>5. ExistsBijection(1 .. Len(s), KeysOf(s))
  BY <1>3, <1>4 DEF ExistsBijection, Bijection
<1> QED BY <1>1, <1>5, FS_CountingElements

LEMMA DistinctAppend ==
    ASSUME NEW s \in Seq(Entry), IsDistinct(s), NEW k \in Key, k \notin KeysOf(s), NEW v \in Val
    PROVE  IsDistinct(Append(s, [key |-> k, val |-> v]))
<1> DEFINE e == [key |-> k, val |-> v]
           t == Append(s, e)
<1>1. e \in Entry /\ e.key = k
  BY DEF Entry
<1> HIDE DEF e
<1>2. /\ t \in Seq(Entry) /\ Len(t) = Len(s) + 1 /\ t[Len(s) + 1] = e
      /\ \A i \in 1 .. Len(s) : t[i] = s[i]
  BY <1>1, AppendProperties
<1> HIDE DEF t
<1>3. /\ Len(s) \in Nat /\ DOMAIN s = 1 .. Len(s) /\ DOMAIN t = 1 .. (Len(s) + 1)
  BY <1>2, LenProperties
<1>4. \A i \in 1 .. Len(s) : t[i].key # k
  BY <1>2, <1>3 DEF KeysOf
<1>5. IsDistinct(t)
  BY <1>1, <1>2, <1>3, <1>4 DEF IsDistinct
<1> QED BY <1>5 DEF t, e

LEMMA DistinctSubSeq ==
    ASSUME NEW w \in Seq(Entry), IsDistinct(w), NEW n \in 0 .. Len(w)
    PROVE  IsDistinct(SubSeq(w, 1, n))
<1> DEFINE s == SubSeq(w, 1, n)
<1>1. Len(w) \in Nat /\ DOMAIN w = 1 .. Len(w) /\ \A i \in 1 .. n : w[i] \in Entry
  BY LenProperties, ElementOfSeq
<1>2. s \in Seq(Entry) /\ Len(s) = n /\ \A i \in 1 .. n : s[i] = w[i]
  BY <1>1, SubSeqProperties
<1>3. DOMAIN s = 1 .. n
  BY <1>2, LenProperties
<1> HIDE DEF s
<1>4. IsDistinct(s)
  BY <1>1, <1>2, <1>3 DEF IsDistinct
<1> QED BY <1>4 DEF s

LEMMA DistinctEmpty == IsDistinct(<< >>)
BY DEF IsDistinct

\* A key that is not there is stored once; migrating empties the vector.
LEMMA DistinctInsert ==
    ASSUME NEW c \in Container, IsDistinct(c.vector_storage), NEW k \in Key, ~Has(c, k),
           NEW v \in Val
    PROVE  IsDistinct(Insert(c, k, v).vector_storage)
<1> DEFINE m == IF c.is_vector_mode THEN ConvertToMap(c) ELSE c
           d == Insert(c, k, v)
<1>1. CASE c.is_vector_mode /\ Len(c.vector_storage) < SMALL_CAPACITY
  <2> DEFINE s == Append(c.vector_storage, [key |-> k, val |-> v])
  <2>1. c.vector_storage \in Seq(Entry) /\ k \notin KeysOf(c.vector_storage)
    BY <1>1 DEF Container, Has, StoredKeys
  <2>2. IsDistinct(s)
    BY <2>1, DistinctAppend
  <2>3. d = [c EXCEPT !.vector_storage = s]
    BY <1>1 DEF Insert
  <2> HIDE DEF s
  <2> QED BY <2>2, <2>3 DEF Container
<1>2. CASE ~(c.is_vector_mode /\ Len(c.vector_storage) < SMALL_CAPACITY)
  <2> DEFINE n == Emplace(m.map_storage, << [key |-> k, val |-> v] >>)
  <2>1. d = [m EXCEPT !.map_storage = n]
    BY <1>2 DEF Insert
  <2>2. m \in Container /\ (m.vector_storage = << >> \/ m.vector_storage = c.vector_storage)
    BY ConvertToMapGood DEF Good, OneStore
  <2> HIDE DEF m, n
  <2> QED BY <2>1, <2>2, DistinctEmpty DEF Container
<1> QED BY <1>1, <1>2

LEMMA DistinctAssign ==
    ASSUME NEW c \in Container, IsDistinct(c.vector_storage), NEW k \in Key, Has(c, k),
           NEW v \in Val
    PROVE  IsDistinct(Assign(c, k, v).vector_storage)
<1> DEFINE d == Assign(c, k, v)
<1>1. CASE c.is_vector_mode
  <2> DEFINE s == c.vector_storage
             t == Overwrite(s, k, v)
  <2>1. s \in Seq(Entry) /\ k \in KeysOf(s)
    BY <1>1 DEF Container, Has, StoredKeys
  <2>2. t \in Seq(Entry) /\ Len(t) = Len(s) /\ \A i \in 1 .. Len(s) : t[i].key = s[i].key
    BY <2>1, OverwriteKeys
  <2>3. d = [c EXCEPT !.vector_storage = t]
    BY <1>1 DEF Assign
  <2> HIDE DEF t
  <2>4. DOMAIN t = DOMAIN s /\ DOMAIN s = 1 .. Len(s)
    BY <2>1, <2>2, LenProperties
  <2>5. IsDistinct(t)
    BY <2>2, <2>4 DEF IsDistinct
  <2> QED BY <2>3, <2>5 DEF Container
<1>2. CASE ~c.is_vector_mode
  BY <1>2 DEF Assign, Container
<1> QED BY <1>1, <1>2

LEMMA DistinctUnpacked ==
    ASSUME NEW c \in Container, NEW w \in Seq(Entry), IsDistinct(w), NEW n \in 0 .. Len(w)
    PROVE  IsDistinct(Unpacked(c, w, n).vector_storage)
<1> DEFINE e == Cleared(c)
           s == SubSeq(w, 1, n)
           m == Emplace(AllocatedMap(e), s)
<1>1. IsDistinct(s)
  BY DistinctSubSeq
<1>2. e \in Container /\ e.vector_storage = << >>
  BY ClearedGood DEF Good, Cleared, PrimeStorage
<1>3. \/ Unpacked(c, w, n) = [e EXCEPT !.is_vector_mode = FALSE, !.map_storage = m]
      \/ Unpacked(c, w, n) = [e EXCEPT !.is_vector_mode = TRUE, !.vector_storage = s]
  BY DEF Unpacked, Filled
<1> HIDE DEF e, s, m
<1> QED BY <1>1, <1>2, <1>3, DistinctEmpty DEF Container
=============================================================================
