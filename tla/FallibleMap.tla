------------------------------ MODULE FallibleMap ------------------------------
(***************************************************************************)
(* What one HybridMessageMap promises when memory may run out: it is a     *)
(* dictionary, and a call that returns has done to it exactly what it      *)
(* says.  A call that throws has done nothing, or broken the one value it  *)
(* was to assign, or, at most once between two resets, lost other          *)
(* parameters: the insertion that settles the container, that is, migrates *)
(* it to its final store.  A container with a broken value in it can be    *)
(* written and searched; what would destroy, move or read that value is    *)
(* undefined, and nothing else is but unpacking what does not decode.      *)
(***************************************************************************)
EXTENDS Entries

CONSTANTS Broken,    \* a value that was half assigned
          Lost,      \* the contents of a container that cannot be used
          Wires,     \* the received maps
          Received   \* what is moved in: [contents, settled, broken] records

VARIABLES contents,  \* a dictionary, or Lost
          settled,   \* this container has been migrated
          broken,    \* it holds a broken value, be it in an entry that is not found
          ended      \* which call ended last, and how

vars == <<contents, settled, broken, ended>>

\* The ends after which the process goes on and the container exists.
Running == ended \in {"ok", "exception", "cleared", "unpacked", "interrupted",
                      "moved", "emptied", "received"}

Usable == Running /\ contents # Lost

Put(d, k, v) == [x \in DOMAIN d \cup {k} |-> IF x = k THEN v ELSE d[x]]

\* What may be left of the dictionary d.
Remains(d) == {[x \in S |-> d[x]] : S \in SUBSET DOMAIN d} \cup {Lost}

Ends(d, how) == contents' = d /\ ended' = how

\* add() of a key, and set() of a new one: the first value of a key stays.
Insert(k, v) ==
    /\ Usable
    /\ UNCHANGED broken
    /\ \/ /\ Ends(IF k \in DOMAIN contents THEN contents ELSE Put(contents, k, v), "ok")
          /\ settled' \in {settled, TRUE}
       \/ Ends(contents, "exception") /\ UNCHANGED settled
       \/ /\ ~settled /\ settled'
          /\ \E d \in Remains(contents) : Ends(d, "exception")

\* set() and update() of a key that is there and whose value is whole.
Assign(k, v) ==
    /\ Usable
    /\ k \in DOMAIN contents /\ contents[k] # Broken
    /\ UNCHANGED settled
    /\ \/ Ends(Put(contents, k, v), "ok") /\ UNCHANGED broken
       \/ Ends(Put(contents, k, Broken), "exception") /\ broken'

\* find(), update() of a missing key, the begin of iterate().
Read == Usable /\ ended' = "ok" /\ UNCHANGED <<contents, settled, broken>>

\* pack() reads every value.
Pack ==
    /\ Usable
    /\ UNCHANGED <<contents, settled, broken>>
    /\ \/ (\A k \in DOMAIN contents : contents[k] # Broken) /\ ended' = "ok"
       \/ ended' = "exception"

Clear ==
    /\ Running /\ ~broken /\ ~broken'
    /\ Ends(EmptyMap, "cleared") \/ Ends(EmptyMap, "terminated")
    /\ settled' \in BOOLEAN

\* unpack(): all of the map and nothing else, or the entries before one that fails,
\* if the value that fails is not the end of the process.
Load(w) ==
    /\ Running /\ ~broken /\ ~broken'
    /\ \/ w # << >> /\ Ends(contents, "half_unpacked")
       \/ Ends(FirstWins(w), "unpacked")
       \/ \E n \in 0 .. Len(w) - 1 : Ends(FirstWins(SubSeq(w, 1, n)), "interrupted")
       \/ Ends(EmptyMap, "terminated")
    /\ settled' \in BOOLEAN

\* The dictionary moves to another object, which is followed from there on.
Relocate == Running /\ ended' = "moved" /\ UNCHANGED <<contents, settled, broken>>

\* The dictionary moves away from this object.
MoveOut ==
    /\ Running
    /\ Ends(IF settled THEN Lost ELSE EmptyMap, "emptied")
    /\ ~broken'
    /\ UNCHANGED settled

\* Another object's dictionary replaces this one.
MoveIn(x) ==
    /\ Running /\ ~broken
    /\ Ends(x.contents, "received")
    /\ settled' = x.settled
    /\ broken' = x.broken

\* A container that lost its store crashes, find() of a settled one may run out of
\* memory, an iterate() whose callback moved what it was visiting goes astray; the
\* destructor is undefined if a value is broken, as may be any other call then.
Stop ==
    /\ Running
    /\ UNCHANGED <<contents, settled, broken>>
    /\ \/ contents = Lost /\ ended' = "crashed"
       \/ settled /\ ended' = "terminated"
       \/ ended' = "astray"
       \/ ~broken /\ ended' = "destroyed"
       \/ broken /\ ended' = "undefined"

Init == contents = EmptyMap /\ settled \in BOOLEAN /\ ~broken /\ ended = "ok"

Next ==
    \/ \E k \in Key, v \in Val \ {Broken} : Insert(k, v) \/ Assign(k, v)
    \/ Read \/ Pack \/ Clear \/ Relocate \/ MoveOut \/ Stop
    \/ \E w \in Wires : Load(w)
    \/ \E x \in Received : MoveIn(x)

Spec == Init /\ [][Next]_vars
=============================================================================
