------------------------ MODULE HybridMessageMapProps ------------------------
(***************************************************************************)
(* What must hold of the HybridMessageMap objects of a program.  The       *)
(* theorems of HybridMessageMapProofs say it of every instance.            *)
(***************************************************************************)
EXTENDS HybridMessageMap

Live(o) == maps[o] # Absent

\* Only one of the two stores holds parameters: in vector mode the map is not
\* allocated or empty and the vector is within SMALL_CAPACITY (so that the
\* reserve() of prime_storage() is never outgrown); in map mode the vector is
\* empty.  find(), size(), iterate() and pack() each read one store only, so
\* an entry left in the other would be lost (convert_to_map, unpack, moves).
StorageInv == \A o \in Object : Live(o) => OneStore(maps[o])

\* What unpacking one of the Wires must come to: the dictionary of the entries
\* before the one whose decoding throws, or of all of them.
Loads == UNION {{[dict  |-> FirstWins(SubSeq(w, 1, n)),
                  reply |-> IF n < Len(w) THEN "exception" ELSE "unpacked"] :
                    n \in 0 .. Len(w)} : w \in Wires}

\* What an object is to its callers: Absent, unusable or a dictionary.
Seen(c) == IF c = Absent THEN Absent
           ELSE IF Hollow(c) THEN NullPtr
           ELSE Contents(c)

AbstractContents == [o \in Object |-> Seen(maps[o])]

Abstract == INSTANCE ParameterMap
    WITH MovedFrom <- NullPtr, contents <- AbstractContents

\* The storage mode is invisible: through inserts, the migration to the hash
\* map, updates, reserve hints, interrupted unpacks and moves, every object is
\* a dictionary whose calls reply what ParameterMap says.
ImplementsParameterMap == Abstract!Spec

\* Serializing any usable container and unpacking the bytes into any other one
\* (whatever its mode, hint and previous contents) gives the same dictionary,
\* in whatever order the hash map was traversed and whichever side of
\* SMALL_CAPACITY the two objects are on (pack, unpack).
PackUnpackRoundTrip ==
    \A s, d \in Object :
        (Live(s) /\ Live(d) /\ ~Hollow(maps[s])) =>
            \A w \in Traversals(maps[s]) :
                LET received == Unpacked(maps[d], w, Len(w))
                IN  ~Hollow(received) /\ Contents(received) = Contents(maps[s])

\* An object loses its map only as the source of a move, so that a null
\* map_storage is dereferenced in moved-from objects only; clear() and
\* unpack(), even an interrupted one, and assignment make such an object
\* usable again (move constructor, move assignment, clear, prime_storage).
HollowOnlyByMove ==
    [][\A o \in Object :
          (maps'[o] # Absent /\ Hollow(maps'[o])) =>
             \/ maps'[o] = maps[o]
             \/ \E d \in Object : \/ MoveConstruct(d, o) \/ MoveAssign(d, o)
                                  \/ MoveConstruct(o, d) /\ Hollow(maps[d])
                                  \/ MoveAssign(o, d) /\ Hollow(maps[d])]_vars

\* In a Debug build that is sent maps with distinct keys only, size() is the
\* number of parameters in every state the program survives to: set(), update(),
\* the migration to the map, unpacking and moves never store a key twice, and
\* the assertion of add() leaves no other way (add_impl, set_impl, size).
SizeCountsKeys ==
    \A o \in Object : (Live(o) /\ ~Hollow(maps[o])) =>
        Size(maps[o]) = Cardinality(StoredKeys(maps[o]))
=============================================================================
