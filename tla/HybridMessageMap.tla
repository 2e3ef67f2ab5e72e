--------------------------- MODULE HybridMessageMap ---------------------------
(***************************************************************************)
(* The HybridMessageMap objects of a program.  One action per public       *)
(* member function; the *_flat overloads, the lvalue and the rvalue        *)
(* overloads of one operation do the same to the container and share its   *)
(* action.  Objects are created, moved and destroyed.                      *)
(***************************************************************************)
EXTENDS HybridContainer

CONSTANTS Object,   \* the container objects of the program
          Hints,    \* the values of FrameConfig::initial_reserve in use
          Wires,    \* the MessagePack maps that objects are asked to unpack
          Absent,   \* the state of an object that does not exist
          NDEBUG    \* TRUE in a Release build: assertions are compiled out

ASSUME HintsAssumption == Hints \subseteq Nat
ASSUME WiresAssumption == Wires \subseteq Seq(Entry)
ASSUME AbsentAssumption == Absent \notin Container \cup Dictionary \cup {NullPtr}
ASSUME NDebugAssumption == NDEBUG \in BOOLEAN

VARIABLES maps,    \* maps[o]: Absent or the container
          reply,   \* how the last call returned: what it said, or from what
          status   \* "running", "aborted" (assertion), "crashed" (null map) or
                  \* "undefined" (a string is destroyed that was never built)

vars == <<maps, reply, status>>

Replies == Val \cup {NullPtr, "none", "added", "set", "updated", "not_found",
                    "cleared", "unpacked", "exception"}

TypeOK ==
    /\ maps \in [Object -> Container \cup {Absent}]
    /\ reply \in Replies
    /\ status \in {"running", "aborted", "crashed", "undefined"}

-----------------------------------------------------------------------------
Callable(o) == status = "running" /\ maps[o] # Absent

Usable(o) == Callable(o) /\ ~Hollow(maps[o])

Becomes(o, c, r) ==
    /\ maps' = [maps EXCEPT ![o] = c]
    /\ reply' = r
    /\ UNCHANGED status

Stop(how) == status' = how /\ UNCHANGED <<maps, reply>>

\* map_storage->map on a null map_storage.
NullDereference(o) == Callable(o) /\ Hollow(maps[o]) /\ Stop("crashed")

Construct(o, hint) ==
    /\ status = "running"
    /\ maps[o] = Absent
    /\ Becomes(o, PrimeStorage(hint), "none")

Destroy(o) == Callable(o) /\ Becomes(o, Absent, "none")

\* A mutant of Add: the assertion is inverted.
AddAssertsPresence(o, k, v) ==
    \/ /\ Usable(o)
       /\ NDEBUG \/ Has(maps[o], k)
       /\ Becomes(o, Insert(maps[o], k, v), "added")
    \/ /\ Usable(o)
       /\ ~NDEBUG /\ ~Has(maps[o], k)
       /\ Stop("aborted")
    \/ NullDereference(o)

Add(o, k, v) ==
    \/ /\ Usable(o)
       /\ NDEBUG \/ ~Has(maps[o], k)
       /\ Becomes(o, Insert(maps[o], k, v), "added")
    \/ /\ Usable(o)
       /\ ~NDEBUG /\ Has(maps[o], k)
       /\ Stop("aborted")
    \/ NullDereference(o)

\* A mutant of Set: no search for the key before it is inserted.
SetAlwaysInserts(o, k, v) ==
    \/ /\ Usable(o)
       /\ Becomes(o, Insert(maps[o], k, v), "set")
    \/ NullDereference(o)

\* A missing key is inserted by add_impl(), whose assertion then holds.
Set(o, k, v) ==
    \/ /\ Usable(o)
       /\ Has(maps[o], k)
       /\ Becomes(o, Assign(maps[o], k, v), "set")
    \/ /\ Usable(o)
       /\ ~Has(maps[o], k)
       /\ Becomes(o, Insert(maps[o], k, v), "set")
    \/ NullDereference(o)

Update(o, k, v) ==
    \/ /\ Usable(o)
       /\ Has(maps[o], k)
       /\ Becomes(o, Assign(maps[o], k, v), "updated")
    \/ /\ Usable(o)
       /\ ~Has(maps[o], k)
       /\ Becomes(o, maps[o], "not_found")
    \/ NullDereference(o)

Find(o, k) ==
    \/ /\ Usable(o)
       /\ Becomes(o, maps[o], Lookup(maps[o], k))
    \/ NullDereference(o)

\* size() and pack(), which asks for size() first: they change nothing.
SizeOrPack(o) ==
    \/ /\ Usable(o)
       /\ Becomes(o, maps[o], "none")
    \/ NullDereference(o)

\* iterate() checks the pointer: a hollow container is visited as empty.
Iterate(o) == Callable(o) /\ Becomes(o, maps[o], "none")

\* Also unpack() of an object that is not a MAP, which returns after clear().
Clear(o) == Callable(o) /\ Becomes(o, Cleared(maps[o]), "cleared")

\* unpack() of a MAP object; n < Len(w) when decoding entry n + 1 throws.
Unpack(o, w, n) ==
    /\ Callable(o)
    /\ Becomes(o, Unpacked(maps[o], w, n),
               IF n < Len(w) THEN "exception" ELSE "unpacked")

\* The entry that does not decode has the tag of a string: its value, a local of
\* unpack(), is then destroyed by the exception as a string it never held.
UnpackUndefined(o, w) == Callable(o) /\ w # << >> /\ Stop("undefined")

\* The new object takes both stores and the mode; its cfg_ is a default
\* FrameConfig, not the source's.
MoveConstruct(d, s) ==
    /\ Callable(s)
    /\ maps[d] = Absent
    /\ maps' = [maps EXCEPT ![d] = [maps[s] EXCEPT !.initial_reserve = 0],
                            ![s] = MovedOut(maps[s])]
    /\ reply' = "none"
    /\ UNCHANGED status

\* The target keeps its own cfg_; assignment to itself does nothing.
MoveAssign(d, s) ==
    \/ /\ Callable(d) /\ Callable(s)
       /\ d # s
       /\ maps' = [maps EXCEPT
                     ![d] = [maps[s] EXCEPT !.initial_reserve = maps[d].initial_reserve],
                     ![s] = MovedOut(maps[s])]
       /\ reply' = "none"
       /\ UNCHANGED status
    \/ /\ Callable(d)
       /\ d = s
       /\ Becomes(d, maps[d], "none")

Init ==
    /\ maps = [o \in Object |-> Absent]
    /\ reply = "none"
    /\ status = "running"

Next ==
    \E o \in Object :
       \/ \E hint \in Hints : Construct(o, hint)
       \/ Destroy(o) \/ Clear(o) \/ SizeOrPack(o) \/ Iterate(o)
       \/ \E k \in Key : Find(o, k)
       \/ \E k \in Key, v \in Val : Add(o, k, v) \/ Set(o, k, v) \/ Update(o, k, v)
       \/ \E w \in Wires : UnpackUndefined(o, w) \/ \E n \in 0 .. Len(w) : Unpack(o, w, n)
       \/ \E s \in Object : MoveConstruct(o, s) \/ MoveAssign(o, s)

Spec == Init /\ [][Next]_vars
=============================================================================
