----------------------------- MODULE ParameterMap -----------------------------
(***************************************************************************)
(* What HybridMessageMap promises its callers: every container object is a *)
(* dictionary in which the first value added for a key is the one that is  *)
(* found.  Nothing here knows about the vector, the hash map, SMALL_CAPA-  *)
(* CITY or the reserve hint.  A container that was moved from is either    *)
(* empty or unusable, and using an unusable one ends the process.          *)
(***************************************************************************)
EXTENDS Entries

CONSTANTS Object,     \* the container objects of the program
          Loads,      \* the outcomes of unpacking: [dict, reply] records
          Absent,     \* the contents of an object that does not exist
          MovedFrom,  \* the contents of an unusable moved-from object
          NullPtr,    \* find() reports a missing key
          NDEBUG      \* TRUE in a Release build

VARIABLES contents,   \* contents[o]: Absent, MovedFrom or a dictionary
          reply,      \* how the last call returned
          status      \* "running", or how the process ended

vars == <<contents, reply, status>>

IsDictionary(o) == contents[o] \notin {Absent, MovedFrom}

Callable(o) == status = "running" /\ contents[o] # Absent

Becomes(o, d, r) ==
    /\ reply' = r
    /\ UNCHANGED status
    /\ contents' = [contents EXCEPT ![o] = d]

Put(d, k, v) == [x \in DOMAIN d \cup {k} |-> IF x = k THEN v ELSE d[x]]

Create(o) ==
    /\ status = "running"
    /\ contents[o] = Absent
    /\ Becomes(o, EmptyMap, "none")

Destroy(o) == Callable(o) /\ Becomes(o, Absent, "none")

\* A key that is there already keeps its value, or the Debug assertion fires.
Add(o, k, v) ==
    /\ Callable(o)
    /\ IsDictionary(o)
    /\ \/ /\ k \notin DOMAIN contents[o]
          /\ Becomes(o, Put(contents[o], k, v), "added")
       \/ /\ k \in DOMAIN contents[o]
          /\ NDEBUG
          /\ Becomes(o, contents[o], "added")
       \/ /\ k \in DOMAIN contents[o]
          /\ ~NDEBUG
          /\ status' = "aborted"
          /\ UNCHANGED <<contents, reply>>

Set(o, k, v) ==
    /\ Callable(o)
    /\ IsDictionary(o)
    /\ Becomes(o, Put(contents[o], k, v), "set")

Update(o, k, v) ==
    /\ Callable(o)
    /\ IsDictionary(o)
    /\ IF k \in DOMAIN contents[o]
       THEN Becomes(o, Put(contents[o], k, v), "updated")
       ELSE Becomes(o, contents[o], "not_found")

Find(o, k) ==
    /\ Callable(o)
    /\ IsDictionary(o)
    /\ Becomes(o, contents[o],
               IF k \in DOMAIN contents[o] THEN contents[o][k] ELSE NullPtr)

Clear(o) == Callable(o) /\ Becomes(o, EmptyMap, "cleared")

\* Unpacking a serialized map, or as much of it as decodes, replaces all.
Load(o, load) == Callable(o) /\ Becomes(o, load.dict, load.reply)

\* Unpacking that fails may end the process instead.
LoadUndefined(o) ==
    /\ Callable(o)
    /\ \E load \in Loads : load.reply = "exception"
    /\ status' = "undefined"
    /\ UNCHANGED <<contents, reply>>

\* The contents change owner; what is left behind is empty or unusable.
Move(d, s) ==
    /\ Callable(s)
    /\ d # s
    /\ reply' = "none"
    /\ UNCHANGED status
    /\ \E left \in {EmptyMap, MovedFrom} :
          contents' = [contents EXCEPT ![d] = contents[s], ![s] = left]

\* Calls that return nothing that is modelled and change nothing.
Observe(o) == Callable(o) /\ Becomes(o, contents[o], "none")

\* Any use of an unusable object ends the process.
Crash(o) ==
    /\ Callable(o)
    /\ contents[o] = MovedFrom
    /\ status' = "crashed"
    /\ UNCHANGED <<contents, reply>>

Init ==
    /\ contents = [o \in Object |-> Absent]
    /\ reply = "none"
    /\ status = "running"

Next ==
    \E o \in Object :
       \/ Create(o) \/ Destroy(o) \/ Observe(o) \/ Clear(o) \/ Crash(o)
       \/ LoadUndefined(o)
       \/ \E k \in Key : Find(o, k)
       \/ \E k \in Key, v \in Val : Add(o, k, v) \/ Set(o, k, v) \/ Update(o, k, v)
       \/ \E s \in Object : Move(o, s)
       \/ \E load \in Loads : Load(o, load)

Spec == Init /\ [][Next]_vars
=============================================================================
