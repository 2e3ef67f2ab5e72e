----------------------- MODULE HybridMessageMapProofs -----------------------
(***************************************************************************)
(* The properties of HybridMessageMapProps for every capacity, key set,    *)
(* value set, object set, hint and wire map, and the proof that the        *)
(* objects implement the dictionaries of ParameterMap.                     *)
(***************************************************************************)
EXTENDS HybridMessageMapProps, HybridContainerProofs

-----------------------------------------------------------------------------
(***************************************************************************)
(* The invariant.  StorageInv is not inductive without the types, nor the  *)
(* types without it: which store an operator writes depends on the mode.   *)
(* That every map is finite is what makes its traversals exist.            *)
(***************************************************************************)
SoundInv == \A o \in Object : Live(o) => Sound(maps[o])

IndInv == TypeOK /\ StorageInv /\ SoundInv

LEMMA LiveObject ==
    ASSUME IndInv, NEW o \in Object, maps[o] # Absent
    PROVE  Fit(maps[o]) /\ maps[o] \in Container /\ OneStore(maps[o])
BY DEF IndInv, TypeOK, StorageInv, SoundInv, Live, Fit, Good

\* Giving one object a fit container, or destroying it, keeps the invariant.
LEMMA BecomesKeepsIndInv ==
    ASSUME IndInv, NEW o \in Object, NEW c, c = Absent \/ Fit(c),
           NEW r \in Replies, Becomes(o, c, r)
    PROVE  IndInv'
<1>1. maps' = [maps EXCEPT ![o] = c] /\ reply' = r /\ status' = status
  BY DEF Becomes
<1>2. TypeOK'
  BY <1>1 DEF IndInv, TypeOK, Fit, Good
<1>3. ASSUME NEW x \in Object, maps'[x] # Absent
      PROVE  OneStore(maps'[x]) /\ Sound(maps'[x])
  BY <1>1, <1>3 DEF IndInv, TypeOK, StorageInv, SoundInv, Live, Fit, Good
<1> QED BY <1>2, <1>3 DEF IndInv, StorageInv, SoundInv, Live

\* The same for the two objects of a move.
LEMMA MoveKeepsIndInv ==
    ASSUME IndInv, NEW d \in Object, NEW s \in Object, NEW c, NEW e, Fit(c), Fit(e),
           maps' = [maps EXCEPT ![d] = c, ![s] = e],
           reply' = "none", status' = status
    PROVE  IndInv'
<1>1. TypeOK'
  BY DEF IndInv, TypeOK, Fit, Good, Replies
<1>2. ASSUME NEW x \in Object, maps'[x] # Absent
      PROVE  OneStore(maps'[x]) /\ Sound(maps'[x])
  BY <1>2 DEF IndInv, TypeOK, StorageInv, SoundInv, Live, Fit, Good
<1> QED BY <1>1, <1>2 DEF IndInv, StorageInv, SoundInv, Live

\* Ending the process changes no container.
LEMMA StopKeepsIndInv ==
    ASSUME IndInv, NEW how \in {"aborted", "crashed", "undefined"}, Stop(how)
    PROVE  IndInv'
BY DEF IndInv, TypeOK, StorageInv, SoundInv, Live, Stop

LEMMA ReplyTypes ==
    /\ "none" \in Replies /\ "updated" \in Replies /\ "not_found" \in Replies
    /\ "exception" \in Replies /\ "unpacked" \in Replies /\ "cleared" \in Replies
    /\ "added" \in Replies /\ "set" \in Replies
BY DEF Replies

\* What find() returns: a stored value or the null pointer.
LEMMA LookupType ==
    ASSUME NEW c \in Container, ~Hollow(c), NEW k \in Key
    PROVE  Lookup(c, k) \in Replies
<1>1. CASE ~Has(c, k)
  BY <1>1 DEF Lookup, Replies
<1>2. CASE Has(c, k) /\ c.is_vector_mode
  <2>1. c.vector_storage \in Seq(Entry) /\ k \in KeysOf(c.vector_storage)
    BY <1>2 DEF Has, StoredKeys, Container
  <2>2. c.vector_storage[FirstIndex(c.vector_storage, k)].val \in Val
    BY <2>1, FirstEntryType
  <2> QED BY <1>2, <2>2 DEF Lookup, Replies
<1>3. CASE Has(c, k) /\ ~c.is_vector_mode
  <2>1. c.map_storage \in Dictionary /\ k \in DOMAIN c.map_storage
    BY <1>3 DEF Has, StoredKeys, Hollow, Container
  <2>2. c.map_storage[k] \in Val
    BY <2>1, DictionaryIsFunction
  <2> QED BY <1>3, <2>2 DEF Lookup, Replies
<1> QED BY <1>1, <1>2, <1>3

LEMMA InitIndInv == Init => IndInv
BY DEF Init, IndInv, TypeOK, StorageInv, SoundInv, Live, Replies

LEMMA NextIndInv == IndInv /\ [Next]_vars => IndInv'
<1> SUFFICES ASSUME IndInv, [Next]_vars PROVE IndInv'
  OBVIOUS
<1>1. ASSUME NEW o \in Object, NullDereference(o) PROVE IndInv'
  BY <1>1, StopKeepsIndInv DEF NullDereference
<1>2. ASSUME NEW o \in Object, NEW hint \in Hints, Construct(o, hint) PROVE IndInv'
  BY <1>2, HintsAssumption, PrimeStorageFit, ReplyTypes, BecomesKeepsIndInv DEF Construct
<1>3. ASSUME NEW o \in Object, Destroy(o) PROVE IndInv'
  BY <1>3, ReplyTypes, BecomesKeepsIndInv DEF Destroy
<1>4. ASSUME NEW o \in Object, Clear(o) PROVE IndInv'
  BY <1>4, LiveObject, ClearedFit, ReplyTypes, BecomesKeepsIndInv DEF Clear, Callable
<1>5. ASSUME NEW o \in Object, Callable(o), NEW r \in Replies, Becomes(o, maps[o], r)
      PROVE  IndInv'
  BY <1>5, LiveObject, BecomesKeepsIndInv DEF Callable
<1>6. ASSUME NEW o \in Object, SizeOrPack(o) PROVE IndInv'
  BY <1>1, <1>5, <1>6, ReplyTypes DEF SizeOrPack, Usable
<1>7. ASSUME NEW o \in Object, Iterate(o) PROVE IndInv'
  BY <1>5, <1>7, ReplyTypes DEF Iterate
<1>8. ASSUME NEW o \in Object, NEW k \in Key, Find(o, k) PROVE IndInv'
  <2>1. CASE NullDereference(o)
    BY <1>1, <2>1
  <2>2. CASE Usable(o) /\ Becomes(o, maps[o], Lookup(maps[o], k))
    <3>1. Lookup(maps[o], k) \in Replies
      BY <2>2, LiveObject, LookupType DEF Usable, Callable
    <3> QED BY <1>5, <2>2, <3>1 DEF Usable
  <2> QED BY <1>8, <2>1, <2>2 DEF Find
<1>9. ASSUME NEW o \in Object, NEW k \in Key, NEW v \in Val, NEW r \in Replies,
             Usable(o), Becomes(o, Insert(maps[o], k, v), r)
      PROVE  IndInv'
  <2>1. Fit(Insert(maps[o], k, v))
    BY <1>9, LiveObject, InsertFit DEF Usable, Callable
  <2> QED BY <1>9, <2>1, BecomesKeepsIndInv
<1>10. ASSUME NEW o \in Object, NEW k \in Key, NEW v \in Val, NEW r \in Replies,
              Usable(o), Has(maps[o], k), Becomes(o, Assign(maps[o], k, v), r)
       PROVE  IndInv'
  <2>1. Fit(Assign(maps[o], k, v))
    BY <1>10, LiveObject, AssignFit DEF Usable, Callable
  <2> QED BY <1>10, <2>1, BecomesKeepsIndInv
<1>11. ASSUME NEW o \in Object, NEW k \in Key, NEW v \in Val, Add(o, k, v) PROVE IndInv'
  BY <1>1, <1>9, <1>11, ReplyTypes, StopKeepsIndInv DEF Add
<1>12. ASSUME NEW o \in Object, NEW k \in Key, NEW v \in Val, Set(o, k, v) PROVE IndInv'
  BY <1>1, <1>9, <1>10, <1>12, ReplyTypes DEF Set
<1>13. ASSUME NEW o \in Object, NEW k \in Key, NEW v \in Val, Update(o, k, v) PROVE IndInv'
  BY <1>1, <1>5, <1>10, <1>13, ReplyTypes DEF Update, Usable
<1>14. ASSUME NEW o \in Object, NEW w \in Wires, NEW n \in 0 .. Len(w), Unpack(o, w, n)
       PROVE  IndInv'
  <2>1. w \in Seq(Entry)
    BY WiresAssumption
  <2>2. Fit(Unpacked(maps[o], w, n))
    BY <1>14, <2>1, LiveObject, UnpackedFit DEF Unpack, Callable
  <2>3. (IF n < Len(w) THEN "exception" ELSE "unpacked") \in Replies
    BY ReplyTypes
  <2> QED BY <1>14, <2>2, <2>3, BecomesKeepsIndInv DEF Unpack
<1>15. ASSUME NEW d \in Object, NEW s \in Object, MoveConstruct(d, s) PROVE IndInv'
  <2>1. /\ Fit([maps[s] EXCEPT !.initial_reserve = 0])
        /\ Fit(MovedOut(maps[s]))
    BY <1>15, LiveObject, MovesFit DEF MoveConstruct, Callable
  <2> QED BY <1>15, <2>1, MoveKeepsIndInv DEF MoveConstruct
<1>16. ASSUME NEW d \in Object, NEW s \in Object, MoveAssign(d, s) PROVE IndInv'
  <2>1. CASE Callable(d) /\ d = s /\ Becomes(d, maps[d], "none")
    BY <1>5, <2>1, ReplyTypes
  <2>2. CASE ~(d = s)
    <3>1. maps[d].initial_reserve \in Nat
      BY <1>16, <2>2, LiveObject DEF MoveAssign, Callable, Container
    <3>2. /\ Fit([maps[s] EXCEPT !.initial_reserve = maps[d].initial_reserve])
          /\ Fit(MovedOut(maps[s]))
      BY <1>16, <2>2, <3>1, LiveObject, MovesFit DEF MoveAssign, Callable
    <3> QED BY <1>16, <2>2, <3>2, MoveKeepsIndInv DEF MoveAssign
  <2> QED BY <1>16, <2>1, <2>2 DEF MoveAssign
<1>17. ASSUME NEW o \in Object, NEW w \in Wires, UnpackUndefined(o, w) PROVE IndInv'
  BY <1>17, StopKeepsIndInv DEF UnpackUndefined
<1>18. CASE UNCHANGED vars
  BY <1>18 DEF vars, IndInv, TypeOK, StorageInv, SoundInv, Live
<1>19. CASE Next
  BY <1>2, <1>3, <1>4, <1>6, <1>7, <1>8, <1>11, <1>12, <1>13, <1>14, <1>15, <1>16, <1>17, <1>19
     DEF Next
<1> QED BY <1>18, <1>19

\* Every reachable state has the declared types: no sequence of calls, wire
\* maps and moves builds a container outside the class's representation.
THEOREM TypeCorrect == Spec => []TypeOK
<1>1. IndInv => TypeOK
  BY DEF IndInv
<1> QED BY InitIndInv, NextIndInv, <1>1, PTL DEF Spec

\* In every reachable state of every object only one of vector_storage and
\* map_storage holds parameters, and the vector is within SMALL_CAPACITY.
THEOREM StorageCorrect == Spec => []StorageInv
<1>1. IndInv => StorageInv
  BY DEF IndInv
<1> QED BY InitIndInv, NextIndInv, <1>1, PTL DEF Spec

\* Between any two objects, whatever modes, hints and contents they have and in
\* whatever order the map is traversed, serializing delivers the dictionary.
THEOREM RoundTripCorrect == Spec => []PackUnpackRoundTrip
<1>1. IndInv => PackUnpackRoundTrip
  <2> SUFFICES ASSUME IndInv, NEW s \in Object, NEW d \in Object,
                      Live(s), Live(d), ~Hollow(maps[s]), NEW w \in Traversals(maps[s])
               PROVE  /\ ~Hollow(Unpacked(maps[d], w, Len(w)))
                      /\ Contents(Unpacked(maps[d], w, Len(w))) = Contents(maps[s])
    BY DEF PackUnpackRoundTrip
  <2>1. w \in Seq(Entry) /\ FirstWins(w) = Contents(maps[s])
    BY LiveObject, TraversalIsContents DEF Live, Fit
  <2>2. Len(w) \in 0 .. Len(w) /\ SubSeq(w, 1, Len(w)) = w
    BY <2>1, LenProperties, SubSeqFull
  <2> QED BY <2>1, <2>2, LiveObject, ContentsOfUnpacked DEF Live
<1> QED BY InitIndInv, NextIndInv, <1>1, PTL DEF Spec

-----------------------------------------------------------------------------
(***************************************************************************)
(* The refinement: every call is a step of the dictionaries, or none.      *)
(***************************************************************************)

\* The three things an object can be to its callers are told apart.
LEMMA SeenFacts ==
    ASSUME IndInv, NEW o \in Object
    PROVE  /\ AbstractContents[o] = Seen(maps[o])
           /\ maps[o] = Absent <=> AbstractContents[o] = Absent
           /\ maps[o] # Absent /\ ~Hollow(maps[o]) =>
                 /\ AbstractContents[o] = Contents(maps[o])
                 /\ AbstractContents[o] \in Dictionary
                 /\ AbstractContents[o] \notin {Absent, NullPtr}
                 /\ DOMAIN AbstractContents[o] = StoredKeys(maps[o])
           /\ maps[o] # Absent /\ Hollow(maps[o]) => AbstractContents[o] = NullPtr
<1>1. AbstractContents[o] = Seen(maps[o])
  BY DEF AbstractContents
<1>2. ASSUME maps[o] # Absent, ~Hollow(maps[o])
      PROVE  /\ Seen(maps[o]) = Contents(maps[o])
             /\ Contents(maps[o]) \in Dictionary
             /\ DOMAIN Contents(maps[o]) = StoredKeys(maps[o])
  BY <1>2, LiveObject, ContentsFacts DEF Seen
<1> QED BY <1>1, <1>2, AbsentAssumption, NullPtrAssumption DEF Seen

\* A call that changes one object changes what that one is seen as.
LEMMA BecomesSeen ==
    ASSUME IndInv, NEW o \in Object, NEW c, NEW r, Becomes(o, c, r)
    PROVE  Abstract!Becomes(o, Seen(c), r)
<1>1. maps' = [maps EXCEPT ![o] = c] /\ reply' = r /\ status' = status
  BY DEF Becomes
<1>2. maps \in [Object -> Container \cup {Absent}]
  BY DEF IndInv, TypeOK
<1>3. AbstractContents' = [AbstractContents EXCEPT ![o] = Seen(c)]
  BY <1>1, <1>2 DEF AbstractContents, Seen
<1> QED BY <1>1, <1>3 DEF Abstract!Becomes

LEMMA SameSeen ==
    ASSUME maps' = maps
    PROVE  AbstractContents' = AbstractContents
BY DEF AbstractContents, Seen

LEMMA CallableSeen ==
    ASSUME IndInv, NEW o \in Object, Callable(o)
    PROVE  Abstract!Callable(o)
BY SeenFacts DEF Callable, Abstract!Callable

LEMMA UsableSeen ==
    ASSUME IndInv, NEW o \in Object, Usable(o)
    PROVE  /\ Abstract!Callable(o) /\ Abstract!IsDictionary(o)
           /\ AbstractContents[o] = Contents(maps[o])
           /\ \A k : k \in DOMAIN AbstractContents[o] <=> Has(maps[o], k)
           /\ maps[o] \in Container /\ OneStore(maps[o]) /\ ~Hollow(maps[o])
<1>1. Callable(o) /\ ~Hollow(maps[o]) /\ maps[o] # Absent
  BY DEF Usable, Callable
<1> QED BY <1>1, CallableSeen, SeenFacts, LiveObject DEF Abstract!IsDictionary, Has

LEMMA CrashImplements ==
    ASSUME IndInv, NEW o \in Object, NullDereference(o)
    PROVE  Abstract!Crash(o)
<1>1. Callable(o) /\ Hollow(maps[o]) /\ maps[o] # Absent /\ maps' = maps
      /\ status' = "crashed" /\ reply' = reply
  BY DEF NullDereference, Stop, Callable
<1> QED BY <1>1, CallableSeen, SameSeen, SeenFacts DEF Abstract!Crash

\* What a container is seen as after a call is what its lemma says it contains.
LEMMA ConstructImplements ==
    ASSUME IndInv, NEW o \in Object, NEW hint \in Hints, Construct(o, hint)
    PROVE  Abstract!Create(o)
<1>1. hint \in Nat
  BY HintsAssumption
<1>2. ~Hollow(PrimeStorage(hint)) /\ Contents(PrimeStorage(hint)) = EmptyMap
      /\ PrimeStorage(hint) \in Container
  BY <1>1, PrimeStorageEmpty, PrimeStorageGood DEF Good
<1>3. Seen(PrimeStorage(hint)) = EmptyMap
  BY <1>2, AbsentAssumption DEF Seen
<1>4. Abstract!Becomes(o, EmptyMap, "none")
  BY <1>3, BecomesSeen DEF Construct
<1> QED BY <1>4, SeenFacts DEF Construct, Abstract!Create, EmptyMap, Abstract!EmptyMap

LEMMA DestroyImplements ==
    ASSUME IndInv, NEW o \in Object, Destroy(o)
    PROVE  Abstract!Destroy(o)
<1>1. Seen(Absent) = Absent
  BY DEF Seen
<1> QED BY <1>1, BecomesSeen, CallableSeen DEF Destroy, Abstract!Destroy

LEMMA ClearImplements ==
    ASSUME IndInv, NEW o \in Object, Clear(o)
    PROVE  Abstract!Clear(o)
<1>1. maps[o] \in Container
  BY LiveObject DEF Clear, Callable
<1>2. /\ ~Hollow(Cleared(maps[o])) /\ Contents(Cleared(maps[o])) = EmptyMap
      /\ Cleared(maps[o]) \in Container
  BY <1>1, ContentsOfCleared, ClearedGood DEF Good
<1>3. Seen(Cleared(maps[o])) = EmptyMap
  BY <1>2, AbsentAssumption DEF Seen
<1>4. Abstract!Becomes(o, EmptyMap, "cleared")
  BY <1>3, BecomesSeen DEF Clear
<1> QED BY <1>4, CallableSeen DEF Clear, Abstract!Clear, EmptyMap, Abstract!EmptyMap

LEMMA ObserveImplements ==
    ASSUME IndInv, NEW o \in Object, Callable(o), Becomes(o, maps[o], "none")
    PROVE  Abstract!Observe(o)
BY BecomesSeen, CallableSeen, SeenFacts DEF Abstract!Observe

LEMMA FindImplements ==
    ASSUME IndInv, NEW o \in Object, NEW k \in Key,
           Usable(o), Becomes(o, maps[o], Lookup(maps[o], k))
    PROVE  Abstract!Find(o, k)
<1>1. Abstract!Becomes(o, AbstractContents[o], Lookup(maps[o], k))
  BY BecomesSeen, SeenFacts
<1>2. Lookup(maps[o], k) = IF k \in DOMAIN AbstractContents[o] THEN AbstractContents[o][k]
                                                              ELSE NullPtr
  BY UsableSeen, ContentsFacts
<1> QED BY <1>1, <1>2, UsableSeen DEF Abstract!Find

\* add() and set() of a key that is not there, or is kept.
LEMMA InsertSeen ==
    ASSUME IndInv, NEW o \in Object, NEW k \in Key, NEW v \in Val, NEW r,
           Usable(o), Becomes(o, Insert(maps[o], k, v), r)
    PROVE  Abstract!Becomes(o, IF k \in DOMAIN AbstractContents[o] THEN AbstractContents[o]
                               ELSE Put(AbstractContents[o], k, v), r)
<1> DEFINE d == Insert(maps[o], k, v)
<1>1. /\ maps[o] \in Container /\ OneStore(maps[o]) /\ ~Hollow(maps[o])
      /\ AbstractContents[o] = Contents(maps[o])
      /\ Has(maps[o], k) <=> k \in DOMAIN AbstractContents[o]
  BY UsableSeen
<1>2. d \in Container /\ ~Hollow(d)
      /\ Contents(d) = IF Has(maps[o], k) THEN Contents(maps[o])
                                          ELSE Put(Contents(maps[o]), k, v)
  BY <1>1, InsertGood, ContentsOfInsert DEF Good
<1> HIDE DEF d
<1>3. Seen(d) = Contents(d)
  BY <1>2, AbsentAssumption DEF Seen
<1>4. Abstract!Becomes(o, Seen(d), r)
  BY BecomesSeen DEF d
<1> QED BY <1>1, <1>2, <1>3, <1>4

LEMMA AssignSeen ==
    ASSUME IndInv, NEW o \in Object, NEW k \in Key, NEW v \in Val, NEW r,
           Usable(o), Has(maps[o], k), Becomes(o, Assign(maps[o], k, v), r)
    PROVE  Abstract!Becomes(o, Put(AbstractContents[o], k, v), r)
<1> DEFINE d == Assign(maps[o], k, v)
<1>1. /\ maps[o] \in Container /\ OneStore(maps[o]) /\ ~Hollow(maps[o])
      /\ AbstractContents[o] = Contents(maps[o])
  BY UsableSeen
<1>2. d \in Container /\ ~Hollow(d) /\ Contents(d) = Put(Contents(maps[o]), k, v)
  BY <1>1, AssignGood, ContentsOfAssign DEF Good
<1> HIDE DEF d
<1>3. Seen(d) = Contents(d)
  BY <1>2, AbsentAssumption DEF Seen
<1>4. Abstract!Becomes(o, Seen(d), r)
  BY BecomesSeen DEF d
<1> QED BY <1>1, <1>2, <1>3, <1>4

LEMMA SamePut ==
    ASSUME NEW d, NEW k, NEW v
    PROVE  Abstract!Put(d, k, v) = Put(d, k, v)
BY DEF Put, Abstract!Put

LEMMA AddImplements ==
    ASSUME IndInv, NEW o \in Object, NEW k \in Key, NEW v \in Val, Add(o, k, v)
    PROVE  Abstract!Add(o, k, v) \/ Abstract!Crash(o)
<1>1. CASE NullDereference(o)
  BY <1>1, CrashImplements
<1>2. CASE Usable(o) /\ (NDEBUG \/ ~Has(maps[o], k))
           /\ Becomes(o, Insert(maps[o], k, v), "added")
  <2>1. /\ Abstract!Callable(o) /\ Abstract!IsDictionary(o)
        /\ k \in DOMAIN AbstractContents[o] <=> Has(maps[o], k)
    BY <1>2, UsableSeen
  <2>2. Abstract!Becomes(o, IF k \in DOMAIN AbstractContents[o] THEN AbstractContents[o]
                            ELSE Put(AbstractContents[o], k, v), "added")
    BY <1>2, InsertSeen
  <2>3. CASE k \in DOMAIN AbstractContents[o]
    BY <1>2, <2>1, <2>2, <2>3 DEF Abstract!Add
  <2>4. CASE k \notin DOMAIN AbstractContents[o]
    BY <2>1, <2>2, <2>4, SamePut DEF Abstract!Add
  <2> QED BY <2>3, <2>4
<1>3. CASE Usable(o) /\ ~NDEBUG /\ Has(maps[o], k) /\ Stop("aborted")
  <2>1. /\ Abstract!Callable(o) /\ Abstract!IsDictionary(o)
        /\ k \in DOMAIN AbstractContents[o]
    BY <1>3, UsableSeen
  <2>2. AbstractContents' = AbstractContents /\ reply' = reply /\ status' = "aborted"
    BY <1>3, SameSeen DEF Stop
  <2> QED BY <1>3, <2>1, <2>2 DEF Abstract!Add
<1> QED BY <1>1, <1>2, <1>3 DEF Add

LEMMA SetImplements ==
    ASSUME IndInv, NEW o \in Object, NEW k \in Key, NEW v \in Val, Set(o, k, v)
    PROVE  Abstract!Set(o, k, v) \/ Abstract!Crash(o)
<1>1. CASE NullDereference(o)
  BY <1>1, CrashImplements
<1>2. ASSUME Usable(o), Abstract!Becomes(o, Put(AbstractContents[o], k, v), "set")
      PROVE  Abstract!Set(o, k, v)
  BY <1>2, UsableSeen, SamePut DEF Abstract!Set
<1>3. CASE Usable(o) /\ Has(maps[o], k) /\ Becomes(o, Assign(maps[o], k, v), "set")
  BY <1>2, <1>3, AssignSeen
<1>4. CASE Usable(o) /\ ~Has(maps[o], k) /\ Becomes(o, Insert(maps[o], k, v), "set")
  <2>1. k \notin DOMAIN AbstractContents[o]
    BY <1>4, UsableSeen
  <2> QED BY <1>2, <1>4, <2>1, InsertSeen
<1> QED BY <1>1, <1>3, <1>4 DEF Set

LEMMA UpdateImplements ==
    ASSUME IndInv, NEW o \in Object, NEW k \in Key, NEW v \in Val, Update(o, k, v)
    PROVE  Abstract!Update(o, k, v) \/ Abstract!Crash(o)
<1>1. CASE NullDereference(o)
  BY <1>1, CrashImplements
<1>2. CASE Usable(o) /\ Has(maps[o], k) /\ Becomes(o, Assign(maps[o], k, v), "updated")
  <2>1. Abstract!Becomes(o, Abstract!Put(AbstractContents[o], k, v), "updated")
    BY <1>2, AssignSeen, SamePut
  <2> QED BY <1>2, <2>1, UsableSeen DEF Abstract!Update
<1>3. CASE Usable(o) /\ ~Has(maps[o], k) /\ Becomes(o, maps[o], "not_found")
  <2>1. Abstract!Becomes(o, AbstractContents[o], "not_found")
    BY <1>3, BecomesSeen, SeenFacts
  <2> QED BY <1>3, <2>1, UsableSeen DEF Abstract!Update
<1> QED BY <1>1, <1>2, <1>3 DEF Update

LEMMA UnpackImplements ==
    ASSUME IndInv, NEW o \in Object, NEW w \in Wires, NEW n \in 0 .. Len(w), Unpack(o, w, n)
    PROVE  \E load \in Loads : Abstract!Load(o, load)
<1> DEFINE how == IF n < Len(w) THEN "exception" ELSE "unpacked"
           load == [dict |-> FirstWins(SubSeq(w, 1, n)), reply |-> how]
           d == Unpacked(maps[o], w, n)
<1>1. maps[o] \in Container /\ w \in Seq(Entry)
  BY LiveObject, WiresAssumption DEF Unpack, Callable
<1>2. d \in Container /\ ~Hollow(d) /\ Contents(d) = FirstWins(SubSeq(w, 1, n))
  BY <1>1, UnpackedGood, ContentsOfUnpacked DEF Good
<1>3. load \in Loads
  BY DEF Loads
<1>4. Becomes(o, d, how)
  BY DEF Unpack
<1> HIDE DEF d, how
<1>5. Seen(d) = load.dict /\ how = load.reply
  BY <1>2, AbsentAssumption DEF Seen
<1> HIDE DEF load
<1>6. Abstract!Becomes(o, load.dict, load.reply)
  BY <1>4, <1>5, BecomesSeen
<1>7. Abstract!Load(o, load)
  BY <1>6, CallableSeen DEF Unpack, Abstract!Load
<1> QED BY <1>3, <1>7

LEMMA UnpackUndefinedImplements ==
    ASSUME IndInv, NEW o \in Object, NEW w \in Wires, UnpackUndefined(o, w)
    PROVE  Abstract!LoadUndefined(o)
<1>1. w \in Seq(Entry) /\ w # << >>
  BY WiresAssumption DEF UnpackUndefined
<1>2. 0 \in 0 .. Len(w) /\ 0 < Len(w)
  BY <1>1, LenProperties, EmptySeq
<1>3. \E load \in Loads : load.reply = "exception"
  <2>1. [dict |-> FirstWins(SubSeq(w, 1, 0)), reply |-> "exception"] \in Loads
    BY <1>2 DEF Loads
  <2> QED BY <2>1
<1>4. AbstractContents' = AbstractContents /\ reply' = reply /\ status' = "undefined"
  BY SameSeen DEF UnpackUndefined, Stop
<1> QED BY <1>3, <1>4, CallableSeen DEF UnpackUndefined, Abstract!LoadUndefined

\* Both moves of the code are the abstract one.
LEMMA MoveSeen ==
    ASSUME IndInv, NEW d \in Object, NEW s \in Object, d # s, Callable(s), NEW hint \in Nat,
           maps' = [maps EXCEPT ![d] = [maps[s] EXCEPT !.initial_reserve = hint],
                                ![s] = MovedOut(maps[s])],
           reply' = "none", status' = status
    PROVE  Abstract!Move(d, s)
<1> DEFINE a == [maps[s] EXCEPT !.initial_reserve = hint]
           b == MovedOut(maps[s])
           left == IF maps[s].is_vector_mode THEN EmptyMap ELSE NullPtr
<1>1. Fit(maps[s]) /\ maps[s] \in Container /\ maps[s] # Absent
  BY LiveObject DEF Callable
<1>2. /\ Hollow(a) <=> Hollow(maps[s])
      /\ Contents(a) = Contents(maps[s])
      /\ Hollow(b) <=> ~maps[s].is_vector_mode
      /\ maps[s].is_vector_mode => Contents(b) = EmptyMap
  BY <1>1, ContentsOfMoved
<1>3. a \in Container /\ b \in Container
  BY <1>1, MovesFit DEF Fit, Good
<1> HIDE DEF a, b
<1>4. Seen(a) = Seen(maps[s]) /\ Seen(b) = left
  BY <1>1, <1>2, <1>3, AbsentAssumption DEF Seen
<1>5. maps \in [Object -> Container \cup {Absent}] /\ maps' = [maps EXCEPT ![d] = a, ![s] = b]
  BY DEF IndInv, TypeOK, a, b
<1> HIDE DEF left
<1>6. AbstractContents' = [AbstractContents EXCEPT ![d] = Seen(a), ![s] = Seen(b)]
  <2>1. /\ AbstractContents = [o \in Object |-> Seen(maps[o])]
        /\ AbstractContents' = [o \in Object |-> Seen(maps'[o])]
    BY DEF AbstractContents, Seen
  <2> QED BY <1>5, <2>1
<1>7. AbstractContents' = [AbstractContents EXCEPT ![d] = AbstractContents[s], ![s] = left]
  BY <1>4, <1>6, SeenFacts
<1>8. left \in {Abstract!EmptyMap, NullPtr}
  BY DEF left, EmptyMap, Abstract!EmptyMap
<1> QED BY <1>7, <1>8, CallableSeen DEF Abstract!Move

LEMMA MoveConstructImplements ==
    ASSUME IndInv, NEW d \in Object, NEW s \in Object, MoveConstruct(d, s)
    PROVE  Abstract!Move(d, s)
BY MoveSeen DEF MoveConstruct, Callable

LEMMA MoveAssignImplements ==
    ASSUME IndInv, NEW d \in Object, NEW s \in Object, MoveAssign(d, s)
    PROVE  Abstract!Move(d, s) \/ Abstract!Observe(d)
<1>1. CASE d = s
  BY <1>1, ObserveImplements DEF MoveAssign
<1>2. CASE d # s
  <2>1. maps[d].initial_reserve \in Nat
    BY <1>2, LiveObject DEF MoveAssign, Callable, Container
  <2> QED BY <1>2, <2>1, MoveSeen DEF MoveAssign
<1> QED BY <1>1, <1>2

LEMMA InitImplements == Init => Abstract!Init
<1> SUFFICES ASSUME Init PROVE Abstract!Init
  OBVIOUS
<1>1. AbstractContents = [o \in Object |-> Absent]
  BY DEF Init, AbstractContents, Seen
<1> QED BY <1>1 DEF Init, Abstract!Init

LEMMA NextImplements ==
    ASSUME IndInv, Next
    PROVE  Abstract!Next
<1>1. ASSUME NEW o \in Object, SizeOrPack(o) PROVE Abstract!Observe(o) \/ Abstract!Crash(o)
  BY <1>1, ObserveImplements, CrashImplements DEF SizeOrPack, Usable
<1>2. ASSUME NEW o \in Object, Iterate(o) PROVE Abstract!Observe(o)
  BY <1>2, ObserveImplements DEF Iterate
<1>3. ASSUME NEW o \in Object, NEW k \in Key, Find(o, k)
      PROVE  Abstract!Find(o, k) \/ Abstract!Crash(o)
  BY <1>3, FindImplements, CrashImplements DEF Find
<1>4. ASSUME NEW o \in Object,
             \/ \E hint \in Hints : Construct(o, hint)
             \/ Destroy(o) \/ Clear(o) \/ SizeOrPack(o) \/ Iterate(o)
      PROVE  Abstract!Create(o) \/ Abstract!Destroy(o) \/ Abstract!Observe(o)
             \/ Abstract!Clear(o) \/ Abstract!Crash(o)
  BY <1>1, <1>2, <1>4, ConstructImplements, DestroyImplements, ClearImplements
<1>5. ASSUME NEW o \in Object, NEW k \in Key, NEW v \in Val,
             Add(o, k, v) \/ Set(o, k, v) \/ Update(o, k, v)
      PROVE  Abstract!Add(o, k, v) \/ Abstract!Set(o, k, v) \/ Abstract!Update(o, k, v)
             \/ Abstract!Crash(o)
  BY <1>5, AddImplements, SetImplements, UpdateImplements
<1>6. ASSUME NEW o \in Object, NEW s \in Object, MoveConstruct(o, s) \/ MoveAssign(o, s)
      PROVE  Abstract!Move(o, s) \/ Abstract!Observe(o)
  BY <1>6, MoveConstructImplements, MoveAssignImplements
<1>7. ASSUME NEW o \in Object, NEW w \in Wires,
             UnpackUndefined(o, w) \/ \E n \in 0 .. Len(w) : Unpack(o, w, n)
      PROVE  Abstract!LoadUndefined(o) \/ \E load \in Loads : Abstract!Load(o, load)
  BY <1>7, UnpackImplements, UnpackUndefinedImplements
<1> QED BY <1>3, <1>4, <1>5, <1>6, <1>7 DEF Next, Abstract!Next

\* Callers cannot tell the object from a dictionary in which the first value added
\* for a key is the one found: whatever the capacity, the hints and the mode, every
\* call of any sequence of calls, interrupted unpacks and moves does to it and
\* replies what ParameterMap says.
THEOREM MapImplemented == Spec => ImplementsParameterMap
<1>1. ASSUME IndInv, UNCHANGED vars PROVE UNCHANGED Abstract!vars
  BY <1>1, SameSeen DEF vars, Abstract!vars
<1>2. IndInv /\ [Next]_vars => [Abstract!Next]_(Abstract!vars)
  BY <1>1, NextImplements
<1> QED BY InitIndInv, NextIndInv, InitImplements, <1>2, PTL
        DEF Spec, ImplementsParameterMap, Abstract!Spec

-----------------------------------------------------------------------------
(***************************************************************************)
(* Who loses a map.                                                        *)
(***************************************************************************)

\* Every call but a move of one object into another leaves all objects but one
\* alone, and that one as it was, destroyed or usable.
Harmless ==
    \/ maps' = maps
    \/ \E o \in Object, c \in Container \cup {Absent} :
          /\ maps' = [maps EXCEPT ![o] = c]
          /\ c = Absent \/ c = maps[o] \/ ~Hollow(c)

LEMMA BecomesHarmless ==
    ASSUME NEW o \in Object, NEW c \in Container \cup {Absent}, NEW r, Becomes(o, c, r),
           c = Absent \/ c = maps[o] \/ ~Hollow(c)
    PROVE  Harmless
BY DEF Becomes, Harmless

LEMMA ObserveHarmless ==
    ASSUME IndInv, NEW o \in Object, NEW r, Callable(o), Becomes(o, maps[o], r)
    PROVE  Harmless
<1>1. maps[o] \in Container
  BY LiveObject DEF Callable
<1> QED BY <1>1, BecomesHarmless

LEMMA InsertHarmless ==
    ASSUME IndInv, NEW o \in Object, NEW k \in Key, NEW v \in Val, NEW r, Usable(o),
           Becomes(o, Insert(maps[o], k, v), r)
    PROVE  Harmless
<1>1. maps[o] \in Container /\ OneStore(maps[o]) /\ ~Hollow(maps[o])
  BY UsableSeen
<1>2. Insert(maps[o], k, v) \in Container /\ ~Hollow(Insert(maps[o], k, v))
  BY <1>1, InsertGood, ContentsOfInsert DEF Good
<1> QED BY <1>2, BecomesHarmless

LEMMA AssignHarmless ==
    ASSUME IndInv, NEW o \in Object, NEW k \in Key, NEW v \in Val, NEW r, Usable(o),
           Has(maps[o], k), Becomes(o, Assign(maps[o], k, v), r)
    PROVE  Harmless
<1>1. maps[o] \in Container /\ OneStore(maps[o]) /\ ~Hollow(maps[o])
  BY UsableSeen
<1>2. Assign(maps[o], k, v) \in Container /\ ~Hollow(Assign(maps[o], k, v))
  BY <1>1, AssignGood, ContentsOfAssign DEF Good
<1> QED BY <1>2, BecomesHarmless

LEMMA NextHarmless ==
    ASSUME IndInv, Next
    PROVE  \/ Harmless
           \/ \E d, s \in Object : MoveConstruct(d, s) \/ (MoveAssign(d, s) /\ d # s)
<1>1. ASSUME NEW o \in Object, NullDereference(o) PROVE Harmless
  BY <1>1 DEF NullDereference, Stop, Harmless
<1>2. ASSUME NEW o \in Object, NEW hint \in Hints, Construct(o, hint) PROVE Harmless
  <2>1. PrimeStorage(hint) \in Container /\ ~Hollow(PrimeStorage(hint))
    BY HintsAssumption, PrimeStorageGood, PrimeStorageEmpty DEF Good
  <2> QED BY <1>2, <2>1, BecomesHarmless DEF Construct
<1>3. ASSUME NEW o \in Object, Destroy(o) PROVE Harmless
  BY <1>3, BecomesHarmless DEF Destroy
<1>4. ASSUME NEW o \in Object, Clear(o) PROVE Harmless
  <2>1. maps[o] \in Container
    BY <1>4, LiveObject DEF Clear, Callable
  <2>2. Cleared(maps[o]) \in Container /\ ~Hollow(Cleared(maps[o]))
    BY <2>1, ClearedGood, ContentsOfCleared DEF Good
  <2> QED BY <1>4, <2>2, BecomesHarmless DEF Clear
<1>5. ASSUME NEW o \in Object, SizeOrPack(o) \/ Iterate(o) PROVE Harmless
  BY <1>1, <1>5, ObserveHarmless DEF SizeOrPack, Iterate, Usable
<1>6. ASSUME NEW o \in Object, NEW k \in Key, Find(o, k) PROVE Harmless
  BY <1>1, <1>6, ObserveHarmless DEF Find, Usable
<1>7. ASSUME NEW o \in Object, NEW k \in Key, NEW v \in Val,
             Add(o, k, v) \/ Set(o, k, v) \/ Update(o, k, v)
      PROVE  Harmless
  <2>1. CASE \E how \in {"aborted"} : Stop(how)
    BY <2>1 DEF Stop, Harmless
  <2> QED BY <1>1, <1>7, <2>1, InsertHarmless, AssignHarmless, ObserveHarmless
          DEF Add, Set, Update, Usable
<1>8. ASSUME NEW o \in Object, NEW w \in Wires, NEW n \in 0 .. Len(w), Unpack(o, w, n)
      PROVE  Harmless
  <2>1. maps[o] \in Container /\ w \in Seq(Entry)
    BY <1>8, LiveObject, WiresAssumption DEF Unpack, Callable
  <2>2. Unpacked(maps[o], w, n) \in Container /\ ~Hollow(Unpacked(maps[o], w, n))
    BY <2>1, UnpackedGood DEF Good
  <2> QED BY <1>8, <2>2, BecomesHarmless DEF Unpack
<1>9. ASSUME NEW d \in Object, NEW s \in Object, MoveAssign(d, s), d = s PROVE Harmless
  BY <1>9, ObserveHarmless DEF MoveAssign
<1>10. ASSUME NEW o \in Object, NEW w \in Wires, UnpackUndefined(o, w) PROVE Harmless
  BY <1>10 DEF UnpackUndefined, Stop, Harmless
<1> QED BY <1>2, <1>3, <1>4, <1>5, <1>6, <1>7, <1>8, <1>9, <1>10 DEF Next

\* Whatever is called in whatever order, an object is without its map only as the
\* source of a move, or because it received the stores of an object without one.
THEOREM HollowOnlyAsSaid == Spec => HollowOnlyByMove
<1> DEFINE Excused(o) == \/ maps'[o] = maps[o]
                         \/ \E d \in Object : \/ MoveConstruct(d, o) \/ MoveAssign(d, o)
                                              \/ MoveConstruct(o, d) /\ Hollow(maps[d])
                                              \/ MoveAssign(o, d) /\ Hollow(maps[d])
           A == \A o \in Object : (maps'[o] # Absent /\ Hollow(maps'[o])) => Excused(o)
<1>1. ASSUME IndInv, Next PROVE A
  <2> SUFFICES ASSUME NEW o \in Object, maps'[o] # Absent, Hollow(maps'[o])
               PROVE  Excused(o)
    OBVIOUS
  <2>0. maps \in [Object -> Container \cup {Absent}]
    BY <1>1 DEF IndInv, TypeOK
  <2>1. CASE Harmless
    BY <2>0, <2>1 DEF Harmless
  <2>2. ASSUME NEW d \in Object, NEW s \in Object, d # s, Callable(s), NEW hint \in Nat,
               maps' = [maps EXCEPT ![d] = [maps[s] EXCEPT !.initial_reserve = hint],
                                    ![s] = MovedOut(maps[s])]
        PROVE  \/ maps'[o] = maps[o]
               \/ o = s
               \/ o = d /\ Hollow(maps[s])
    <3>1. maps[s] \in Container
      BY <1>1, <2>2, LiveObject DEF Callable
    <3>2. Hollow([maps[s] EXCEPT !.initial_reserve = hint]) <=> Hollow(maps[s])
      BY <3>1, ContentsOfMoved
    <3> QED BY <2>0, <2>2, <3>2
  <2>3. ASSUME NEW d \in Object, NEW s \in Object, MoveConstruct(d, s) PROVE Excused(o)
    <3>1. \/ maps'[o] = maps[o]
          \/ o = s
          \/ o = d /\ Hollow(maps[s])
      BY <2>2, <2>3 DEF MoveConstruct, Callable
    <3> QED BY <2>3, <3>1
  <2>4. ASSUME NEW d \in Object, NEW s \in Object, MoveAssign(d, s), d # s PROVE Excused(o)
    <3>1. maps[d].initial_reserve \in Nat
      BY <1>1, <2>4, LiveObject DEF MoveAssign, Callable, Container
    <3>2. \/ maps'[o] = maps[o]
          \/ o = s
          \/ o = d /\ Hollow(maps[s])
      BY <2>2, <2>4, <3>1 DEF MoveAssign
    <3> QED BY <2>4, <3>2
  <2> HIDE DEF Excused
  <2> QED BY <1>1, <2>1, <2>3, <2>4, NextHarmless
<1>2. IndInv /\ [Next]_vars => [A]_vars
  BY <1>1
<1>3. Spec => [][A]_vars
  <2> HIDE DEF A
  <2> QED BY InitIndInv, NextIndInv, <1>2, PTL DEF Spec
<1> QED BY <1>3 DEF HollowOnlyByMove

-----------------------------------------------------------------------------
(***************************************************************************)
(* Counting: the vector holds no key twice.                                *)
(***************************************************************************)
DistinctInv == \A o \in Object : Live(o) => IsDistinct(maps[o].vector_storage)

LEMMA BecomesKeepsDistinct ==
    ASSUME IndInv, DistinctInv, NEW o \in Object, NEW c, NEW r, Becomes(o, c, r),
           c = Absent \/ IsDistinct(c.vector_storage)
    PROVE  DistinctInv'
BY DEF IndInv, TypeOK, DistinctInv, Live, Becomes

LEMMA SameKeepsDistinct ==
    ASSUME DistinctInv, maps' = maps
    PROVE  DistinctInv'
BY DEF DistinctInv, Live

LEMMA MoveKeepsDistinct ==
    ASSUME IndInv, DistinctInv, NEW d \in Object, NEW s \in Object, Callable(s), NEW hint,
           maps' = [maps EXCEPT ![d] = [maps[s] EXCEPT !.initial_reserve = hint],
                                ![s] = MovedOut(maps[s])]
    PROVE  DistinctInv'
<1> DEFINE a == [maps[s] EXCEPT !.initial_reserve = hint]
           b == MovedOut(maps[s])
<1>1. maps[s] \in Container /\ IsDistinct(maps[s].vector_storage)
  BY LiveObject DEF Callable, DistinctInv, Live
<1>2. a.vector_storage = maps[s].vector_storage /\ b.vector_storage = << >>
  BY <1>1 DEF Container, MovedOut
<1>3. maps' = [maps EXCEPT ![d] = a, ![s] = b]
  OBVIOUS
<1> HIDE DEF a, b
<1> QED BY <1>1, <1>2, <1>3, DistinctEmpty DEF IndInv, TypeOK, DistinctInv, Live

LEMMA NextDistinct ==
    ASSUME ~NDEBUG, \A w \in Wires : IsDistinct(w), IndInv, DistinctInv, Next
    PROVE  DistinctInv'
<1>1. ASSUME NEW how, Stop(how) PROVE DistinctInv'
  BY <1>1, SameKeepsDistinct DEF Stop
<1>2. ASSUME NEW o \in Object, NEW r, Callable(o), Becomes(o, maps[o], r) PROVE DistinctInv'
  BY <1>2, BecomesKeepsDistinct DEF Callable, DistinctInv, Live
<1>3. ASSUME NEW hint PROVE IsDistinct(PrimeStorage(hint).vector_storage)
  BY DistinctEmpty DEF PrimeStorage
<1>4. ASSUME NEW o \in Object, Usable(o)
      PROVE  maps[o] \in Container /\ IsDistinct(maps[o].vector_storage)
  BY <1>4, LiveObject DEF Usable, Callable, DistinctInv, Live
<1>5. ASSUME NEW o \in Object, NEW k \in Key, NEW v \in Val, NEW r, Usable(o),
             ~Has(maps[o], k), Becomes(o, Insert(maps[o], k, v), r)
      PROVE  DistinctInv'
  BY <1>4, <1>5, DistinctInsert, BecomesKeepsDistinct
<1>6. ASSUME NEW o \in Object, NEW k \in Key, NEW v \in Val, NEW r, Usable(o),
             Has(maps[o], k), Becomes(o, Assign(maps[o], k, v), r)
      PROVE  DistinctInv'
  BY <1>4, <1>6, DistinctAssign, BecomesKeepsDistinct
<1>7. ASSUME NEW o \in Object, NEW hint \in Hints, Construct(o, hint) PROVE DistinctInv'
  BY <1>3, <1>7, BecomesKeepsDistinct DEF Construct
<1>8. ASSUME NEW o \in Object, Destroy(o) \/ Clear(o) PROVE DistinctInv'
  BY <1>3, <1>8, BecomesKeepsDistinct DEF Destroy, Clear, Cleared
<1>9. ASSUME NEW o \in Object, SizeOrPack(o) \/ Iterate(o) PROVE DistinctInv'
  BY <1>1, <1>2, <1>9 DEF SizeOrPack, Iterate, NullDereference, Usable
<1>10. ASSUME NEW o \in Object, NEW k \in Key, Find(o, k) PROVE DistinctInv'
  BY <1>1, <1>2, <1>10 DEF Find, NullDereference, Usable
<1>11. ASSUME NEW o \in Object, NEW k \in Key, NEW v \in Val, Add(o, k, v) PROVE DistinctInv'
  BY <1>1, <1>5, <1>11 DEF Add, NullDereference
<1>12. ASSUME NEW o \in Object, NEW k \in Key, NEW v \in Val, Set(o, k, v) PROVE DistinctInv'
  BY <1>1, <1>5, <1>6, <1>12 DEF Set, NullDereference
<1>13. ASSUME NEW o \in Object, NEW k \in Key, NEW v \in Val, Update(o, k, v)
       PROVE  DistinctInv'
  BY <1>1, <1>2, <1>6, <1>13 DEF Update, NullDereference, Usable
<1>14. ASSUME NEW o \in Object, NEW w \in Wires, NEW n \in 0 .. Len(w), Unpack(o, w, n)
       PROVE  DistinctInv'
  <2>1. maps[o] \in Container /\ w \in Seq(Entry)
    BY <1>14, LiveObject, WiresAssumption DEF Unpack, Callable
  <2>2. IsDistinct(Unpacked(maps[o], w, n).vector_storage)
    BY <2>1, DistinctUnpacked
  <2> QED BY <1>14, <2>2, BecomesKeepsDistinct DEF Unpack
<1>15. ASSUME NEW d \in Object, NEW s \in Object, MoveConstruct(d, s) \/ MoveAssign(d, s)
       PROVE  DistinctInv'
  BY <1>2, <1>15, MoveKeepsDistinct DEF MoveConstruct, MoveAssign
<1>16. ASSUME NEW o \in Object, NEW w \in Wires, UnpackUndefined(o, w) PROVE DistinctInv'
  BY <1>1, <1>16 DEF UnpackUndefined
<1> QED BY <1>7, <1>8, <1>9, <1>10, <1>11, <1>12, <1>13, <1>14, <1>15, <1>16 DEF Next

\* In a Debug build that receives maps without duplicates, size() counts the
\* parameters in every state: no call, migration or move stores a key twice.
THEOREM SizeAlwaysCountsKeys ==
    ASSUME ~NDEBUG, \A w \in Wires : IsDistinct(w)
    PROVE  Spec => []SizeCountsKeys
<1>1. Init => DistinctInv
  BY DEF Init, DistinctInv, Live
<1>2. IndInv /\ DistinctInv /\ [Next]_vars => DistinctInv'
  BY NextDistinct, SameKeepsDistinct DEF vars
<1>3. IndInv /\ DistinctInv => SizeCountsKeys
  <2> SUFFICES ASSUME IndInv, DistinctInv, NEW o \in Object, Live(o)
               PROVE  Size(maps[o]) = Cardinality(StoredKeys(maps[o]))
    BY DEF SizeCountsKeys
  <2>1. maps[o].vector_storage \in Seq(Entry) /\ IsDistinct(maps[o].vector_storage)
    BY LiveObject DEF Live, DistinctInv, Container
  <2>2. Len(maps[o].vector_storage) = Cardinality(KeysOf(maps[o].vector_storage))
    BY <2>1, DistinctLength
  <2> QED BY <2>2 DEF Size, StoredKeys
<1> QED BY InitIndInv, NextIndInv, <1>1, <1>2, <1>3, PTL DEF Spec
=============================================================================
