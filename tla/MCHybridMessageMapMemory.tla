----------------------- MODULE MCHybridMessageMapMemory -----------------------
(***************************************************************************)
(* Small instances of HybridMessageMapMemory for TLC: one without pointers *)
(* and iterate(), and one with both and less to unpack and to move in.     *)
(***************************************************************************)
EXTENDS HybridMessageMapMemory

CONSTANTS k1, k2, v1

MCHints == {0, SMALL_CAPACITY + 1}

Sent(k) == [key |-> k, val |-> v1]

\* A received map for either mode, and one whose keys repeat.
MCWires == {<< >>, <<Sent(k1)>>, <<Sent(k2), Sent(k2), Sent(k1)>>}

MCFewWires == MCWires \ {<< >>}

Vector(s, r) == [map  |-> [is_vector_mode |-> TRUE, vector_storage |-> s,
                           map_storage |-> NullPtr, initial_reserve |-> 0],
                 room |-> r]

MapMode(m) == [map  |-> [is_vector_mode |-> FALSE, vector_storage |-> << >>,
                         map_storage |-> m, initial_reserve |-> SMALL_CAPACITY + 1],
               room |-> 0]

\* What is moved in: a vector without the reserve, one with a broken value, a map,
\* and a container whose map was moved out.
MCOthers == {Vector(<<Sent(k1)>>, 1),
             Vector(<<[key |-> k1, val |-> Broken]>>, SMALL_CAPACITY),
             MapMode([k \in {k1} |-> v1]),
             MapMode(NullPtr)}

MCFewOthers == {Vector(<<Sent(k1)>>, 1)}
=============================================================================
