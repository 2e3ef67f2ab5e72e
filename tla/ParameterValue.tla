---------------------------- MODULE ParameterValue ----------------------------
(***************************************************************************)
(* ParameterValue: a hand-written tagged union.  The type tag and the raw  *)
(* buffer are two pieces of state that every operation changes in several  *)
(* steps; a std::string lives in the buffer only between a placement new   *)
(* and an explicit destructor call.  Constructing a string may fail to     *)
(* allocate, and a MessagePack object may not be what its tag says.        *)
(***************************************************************************)
EXTENDS Integers, FiniteSets

CONSTANTS Slot,         \* the ParameterValue objects of the program
          Data,         \* payloads: integers, doubles, booleans or texts
          Zero,         \* value.intValue = 0
          WireObjects,  \* the MessagePack objects that are unpacked
          AllocFails,   \* TRUE if constructing a string may throw bad_alloc
          Absent        \* the state of an object that does not exist

ScalarTypes == {"Int64", "Double", "Bool"}

Types == ScalarTypes \cup {"String", "Unknown"}

\* live: a std::string has been constructed in the buffer and not destroyed.
Value == [type : Types, live : BOOLEAN, data : Data]

\* What unpack() tells apart.  "short": not an array of two elements.
\* "bad_tag": the first one is not a uint8.  "pair": tag is a type or any other
\* number, and fits says whether as<>() converts the second element to it.
WireObject ==
    [shape : {"short", "bad_tag", "pair"},
     tag   : Types \cup {"Other"},
     fits  : BOOLEAN,
     data  : Data]

ASSUME ZeroAssumption == Zero \in Data
ASSUME WireObjectsAssumption == WireObjects \subseteq WireObject
ASSUME AllocFailsAssumption == AllocFails \in BOOLEAN
ASSUME AbsentAssumption == Absent \notin Value

VARIABLES values,     \* values[x]: Absent or the object
          strings,    \* std::string objects constructed and not destroyed
          outcome,    \* how the last call ended: "ok" or "exception"
          threw,      \* history: some call has ended with an exception
          undefined   \* TRUE once a string was accessed where none lives

vars == <<values, strings, outcome, threw, undefined>>

TypeOK ==
    /\ values \in [Slot -> Value \cup {Absent}]
    /\ strings \in Int
    /\ outcome \in {"ok", "exception"}
    /\ threw \in BOOLEAN
    /\ undefined \in BOOLEAN

-----------------------------------------------------------------------------
Callable(x) == ~undefined /\ values[x] # Absent

\* as_string() on this value reads a buffer without a string in it.
Broken(v) == v.type = "String" /\ ~v.live

\* reset(): the destructor runs if the tag says so, then the tag and the first
\* bytes of the buffer are zeroed.
Reset == [type |-> "Unknown", live |-> FALSE, data |-> Zero]

\* How many strings reset() destroys and a value of type t constructs.
StringsOf(type) == IF type = "String" THEN 1 ELSE 0

Holding(t, d) == [type |-> t, live |-> t = "String", data |-> d]

\* type = String, and then the placement new throws.
TaggedOnly(t) == [type |-> t, live |-> FALSE, data |-> Zero]

Ends(new, n, how) ==
    /\ values' = new
    /\ strings' = strings + n
    /\ outcome' = how
    /\ threw' = (threw \/ how = "exception")
    /\ UNCHANGED undefined

UndefinedBehaviour == undefined' = TRUE /\ UNCHANGED <<values, strings, outcome, threw>>

\* The constructors from an int64_t, a double, a bool and a string, and the
\* default constructor.  An object whose constructor throws never exists.
Construct(x, t, d) ==
    /\ ~undefined
    /\ values[x] = Absent
    /\ \/ Ends([values EXCEPT ![x] = Holding(t, d)], StringsOf(t), "ok")
       \/ AllocFails /\ t = "String" /\ Ends(values, 0, "exception")

Destroy(x) ==
    /\ Callable(x)
    /\ \/ /\ ~Broken(values[x])
          /\ Ends([values EXCEPT ![x] = Absent], -StringsOf(values[x].type), "ok")
       \/ Broken(values[x]) /\ UndefinedBehaviour

\* Getters, toString() and pack(): they read the member the tag names.
Read(x) ==
    /\ Callable(x)
    /\ \/ ~Broken(values[x]) /\ Ends(values, 0, "ok")
       \/ Broken(values[x]) /\ UndefinedBehaviour

CopyConstruct(x, y) ==
    /\ Callable(y)
    /\ values[x] = Absent
    /\ LET t == values[y].type
       IN  \/ /\ ~Broken(values[y])
              /\ Ends([values EXCEPT ![x] = Holding(t, values[y].data)], StringsOf(t), "ok")
           \/ /\ ~Broken(values[y])
              /\ AllocFails /\ t = "String"
              /\ Ends(values, 0, "exception")
           \/ Broken(values[y]) /\ UndefinedBehaviour

\* The string is move-constructed in x; reset() destroys the source's.
MoveConstruct(x, y) ==
    /\ Callable(y)
    /\ values[x] = Absent
    /\ \/ /\ ~Broken(values[y])
          /\ Ends([values EXCEPT ![x] = Holding(values[y].type, values[y].data), ![y] = Reset],
                  0, "ok")
       \/ Broken(values[y]) /\ UndefinedBehaviour

\* A mutant of CopyAssign: the first reset() is missing.
CopyAssignWithoutReset(x, y) ==
    /\ Callable(x) /\ Callable(y)
    /\ LET t == values[y].type
       IN  \/ x = y /\ Ends(values, 0, "ok")
           \/ /\ x # y /\ ~Broken(values[y])
              /\ Ends([values EXCEPT ![x] = Holding(t, values[y].data)], StringsOf(t), "ok")
           \/ x # y /\ Broken(values[y]) /\ UndefinedBehaviour

\* reset(), then the tag, then the buffer; nothing for x = y.
CopyAssign(x, y) ==
    /\ Callable(x) /\ Callable(y)
    /\ LET t == values[y].type
           freed == StringsOf(values[x].type)
       IN  \/ x = y /\ Ends(values, 0, "ok")
           \/ /\ x # y /\ ~Broken(values[x]) /\ ~Broken(values[y])
              /\ Ends([values EXCEPT ![x] = Holding(t, values[y].data)],
                      StringsOf(t) - freed, "ok")
           \/ /\ x # y /\ ~Broken(values[x]) /\ ~Broken(values[y])
              /\ AllocFails /\ t = "String"
              /\ Ends([values EXCEPT ![x] = TaggedOnly("String")], -freed, "exception")
           \/ /\ x # y
              /\ Broken(values[x]) \/ Broken(values[y])
              /\ UndefinedBehaviour

\* A mutant of MoveAssign: the source's string is destroyed, its tag is kept.
MoveAssignKeepsTag(x, y) ==
    /\ Callable(x) /\ Callable(y)
    /\ x # y /\ ~Broken(values[x]) /\ ~Broken(values[y])
    /\ Ends([values EXCEPT ![x] = Holding(values[y].type, values[y].data),
                           ![y] = TaggedOnly(values[y].type)],
            -StringsOf(values[x].type), "ok")

MoveAssign(x, y) ==
    /\ Callable(x) /\ Callable(y)
    /\ \/ x = y /\ Ends(values, 0, "ok")
       \/ /\ x # y /\ ~Broken(values[x]) /\ ~Broken(values[y])
          /\ Ends([values EXCEPT ![x] = Holding(values[y].type, values[y].data), ![y] = Reset],
                  -StringsOf(values[x].type), "ok")
       \/ /\ x # y
          /\ Broken(values[x]) \/ Broken(values[y])
          /\ UndefinedBehaviour

SetScalar(x, t, d) ==
    /\ Callable(x)
    /\ \/ /\ ~Broken(values[x])
          /\ Ends([values EXCEPT ![x] = Holding(t, d)], -StringsOf(values[x].type), "ok")
       \/ Broken(values[x]) /\ UndefinedBehaviour

\* setValue(const std::string&) and, without the failures, setValue(string&&):
\* a string that is there is assigned to, and survives a failed assignment;
\* otherwise the tag is set before the string is constructed.
SetString(x, d) ==
    /\ Callable(x)
    /\ LET v == values[x]
           new == StringsOf("String") - StringsOf(v.type)
       IN  \/ ~Broken(v) /\ Ends([values EXCEPT ![x] = Holding("String", d)], new, "ok")
           \/ /\ AllocFails /\ ~Broken(v)
              /\ v.type = "String"
              /\ Ends(values, 0, "exception")
           \/ /\ AllocFails
              /\ v.type # "String"
              /\ Ends([values EXCEPT ![x] = TaggedOnly("String")], 0, "exception")
           \/ Broken(v) /\ UndefinedBehaviour

\* How unpack() of a wire object can end, after its reset(): nothing is decoded,
\* or a member of the tag's type is, or as<>() or the string throws.
Decodings(obj) ==
    LET nothing == {[value |-> Reset, how |-> "ok"]}
        refused == {[value |-> Reset, how |-> "exception"]}
        decoded == {[value |-> Holding(obj.tag, obj.data), how |-> "ok"]}
        thrown  == {[value |-> TaggedOnly(obj.tag), how |-> "exception"]}
        isMember == obj.shape = "pair" /\ obj.tag \notin {"Unknown", "Other"}
    IN  IF obj.shape = "bad_tag" THEN refused
        ELSE IF ~isMember THEN nothing
        ELSE IF ~obj.fits THEN thrown
        ELSE IF AllocFails /\ obj.tag = "String" THEN decoded \cup thrown
        ELSE decoded

Unpack(x, obj) ==
    /\ Callable(x)
    /\ \/ /\ ~Broken(values[x])
          /\ \E d \in Decodings(obj) :
                Ends([values EXCEPT ![x] = d.value],
                     (IF d.value.live THEN 1 ELSE 0) - StringsOf(values[x].type), d.how)
       \/ Broken(values[x]) /\ UndefinedBehaviour

\* A mutant of Packed: booleans are tagged as integers.
PackedBoolAsInt(v) ==
    [shape |-> "pair", tag |-> IF v.type = "Bool" THEN "Int64" ELSE v.type,
     fits |-> TRUE, data |-> v.data]

\* pack(): an array of the tag and the member, nil for Unknown.
Packed(v) == [shape |-> "pair", tag |-> v.type, fits |-> TRUE, data |-> v.data]

Init ==
    /\ values = [x \in Slot |-> Absent]
    /\ strings = 0
    /\ outcome = "ok"
    /\ threw = FALSE
    /\ undefined = FALSE

Next ==
    \E x \in Slot :
       \/ Construct(x, "Unknown", Zero) \/ Destroy(x) \/ Read(x)
       \/ \E t \in ScalarTypes \cup {"String"}, d \in Data : Construct(x, t, d)
       \/ \E t \in ScalarTypes, d \in Data : SetScalar(x, t, d)
       \/ \E d \in Data : SetString(x, d)
       \/ \E obj \in WireObjects : Unpack(x, obj)
       \/ \E y \in Slot : \/ CopyConstruct(x, y) \/ MoveConstruct(x, y)
                          \/ CopyAssign(x, y) \/ MoveAssign(x, y)

Spec == Init /\ [][Next]_vars

-----------------------------------------------------------------------------
Live(x) == values[x] # Absent

\* The tag says String exactly when a std::string lives in the buffer, so that
\* every destructor call destroys a string that was constructed, and no scalar
\* is written over one; once a call has thrown, only the second is certain
\* (reset, assignments, setValue, unpack).
TagMatchesBuffer ==
    \A x \in Slot : Live(x) =>
        /\ values[x].live => values[x].type = "String"
        /\ ~threw /\ values[x].type = "String" => values[x].live

\* Every string that was constructed is in some value's buffer: none is leaked
\* and none destroyed twice, exceptions included (reset before every write).
NoStringLeaked ==
    ~undefined => strings = Cardinality({x \in Slot : Live(x) /\ values[x].live})

\* Serializing any value and unpacking the result gives the same value, Unknown
\* included (pack, unpack).
ValueRoundTrip ==
    \A x \in Slot : (Live(x) /\ ~Broken(values[x])) =>
        [value |-> values[x], how |-> "ok"] \in Decodings(Packed(values[x]))

\* A value whose tag says String without a string in it is only ever left behind
\* by a call that threw; the noexcept operations never make one (copy
\* assignment, setValue, unpack).
BrokenOnlyByException ==
    [][\A x \in Slot :
          (values'[x] # Absent /\ Broken(values'[x])) =>
             values'[x] = values[x] \/ outcome' = "exception"]_vars

\* Value.hpp: "Helper methods for safely accessing a string inside a buffer";
\* extended_usage.cpp: malformed input must not crash and leaves the object
\* usable.  No string is accessed where none was constructed.
NeverUndefined == ~undefined
=============================================================================
