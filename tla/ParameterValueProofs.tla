------------------------- MODULE ParameterValueProofs -------------------------
(***************************************************************************)
(* The tag and the buffer of ParameterValue, for any number of values and  *)
(* any payloads.                                                           *)
(***************************************************************************)
EXTENDS ParameterValue, FiniteSetTheorems, TLAPS

\* What every operation leaves: a value as its constructor would make it, or a
\* String tag without a string.
Canonical(v) ==
    v = Holding(v.type, v.data) /\ (v.type = "Unknown" => v.data = Zero)

Good(v) == v \in Value /\ (Broken(v) \/ Canonical(v))

IndInv ==
    /\ values \in [Slot -> Value \cup {Absent}]
    /\ \A x \in Slot : Live(x) => Good(values[x])

LEMMA ResetGood == Good(Reset) /\ ~Broken(Reset)
BY ZeroAssumption DEF Good, Reset, Value, Types, Broken, Canonical, Holding

LEMMA HoldingGood ==
    ASSUME NEW t \in Types, NEW d \in Data, t = "Unknown" => d = Zero
    PROVE  Good(Holding(t, d)) /\ ~Broken(Holding(t, d))
BY DEF Good, Value, Types, Broken, Canonical, Holding

LEMMA TaggedOnlyGood ==
    ASSUME NEW t \in Types
    PROVE  Good(TaggedOnly(t)) /\ (t # "String" => ~Broken(TaggedOnly(t)))
BY ZeroAssumption DEF Good, TaggedOnly, Value, Types, Broken, Canonical, Holding

\* Copying a value that can be read gives a good one.
LEMMA CopyGood ==
    ASSUME NEW v, Good(v), ~Broken(v)
    PROVE  Good(Holding(v.type, v.data)) /\ ~Broken(Holding(v.type, v.data))
BY DEF Good, Canonical

\* Whatever unpack() decodes is good, and broken only if it threw.
LEMMA DecodingsGood ==
    ASSUME NEW obj \in WireObjects, NEW d \in Decodings(obj)
    PROVE  /\ Good(d.value)
           /\ Broken(d.value) => d.how = "exception"
<1>1. obj \in WireObject
  BY WireObjectsAssumption
<1>2. \/ d = [value |-> Reset, how |-> "ok"]
      \/ d = [value |-> Reset, how |-> "exception"]
      \/ /\ obj.tag \notin {"Unknown", "Other"}
         /\ d = [value |-> Holding(obj.tag, obj.data), how |-> "ok"]
      \/ /\ obj.tag \notin {"Unknown", "Other"}
         /\ ~obj.fits \/ AllocFails
         /\ d = [value |-> TaggedOnly(obj.tag), how |-> "exception"]
  BY DEF Decodings
<1>3. obj.tag \in Types \cup {"Other"} /\ obj.data \in Data
  BY <1>1 DEF WireObject
<1> QED BY <1>2, <1>3, ResetGood, HoldingGood, TaggedOnlyGood

-----------------------------------------------------------------------------
\* The only reason for leaving a broken value.
Excuse == outcome' = "exception" /\ threw'

\* The four ways in which a call changes the values: not at all, destroying one,
\* writing one, and moving one into another.
Unchanged == values' = values
Destroyed == \E x \in Slot : values' = [values EXCEPT ![x] = Absent]
Written ==
    \E x \in Slot, v \in Value :
        /\ Good(v) /\ (Broken(v) => Excuse)
        /\ values' = [values EXCEPT ![x] = v]
Moved ==
    \E x \in Slot, y \in Slot, v \in Value :
        /\ Good(v) /\ ~Broken(v)
        /\ values' = [values EXCEPT ![x] = v, ![y] = Reset]

Shape == Unchanged \/ Destroyed \/ Written \/ Moved

\* Writing a value that can be read needs no excuse.
LEMMA WrittenSound ==
    ASSUME NEW x \in Slot, NEW v, Good(v), ~Broken(v), values' = [values EXCEPT ![x] = v]
    PROVE  Written
BY DEF Written, Good

LEMMA MovedSound ==
    ASSUME NEW x \in Slot, NEW y \in Slot, NEW v, Good(v), ~Broken(v),
           values' = [values EXCEPT ![x] = v, ![y] = Reset]
    PROVE  Moved
BY DEF Moved, Good

LEMMA FailedString ==
    ASSUME NEW x \in Slot, outcome' = "exception", threw',
           values' = [values EXCEPT ![x] = TaggedOnly("String")]
    PROVE  Written
BY TaggedOnlyGood DEF Written, Good, Excuse, Types

LEMMA NextShape ==
    ASSUME IndInv, Next
    PROVE  Shape
<1>1. ASSUME UndefinedBehaviour PROVE Shape
  BY <1>1 DEF UndefinedBehaviour, Shape, Unchanged
<1>2. ASSUME NEW x \in Slot, NEW t \in Types, NEW d \in Data, t = "Unknown" => d = Zero,
             values' = [values EXCEPT ![x] = Holding(t, d)]
      PROVE  Shape
  BY <1>2, HoldingGood, WrittenSound DEF Shape
<1>3. ASSUME NEW x \in Slot, NEW t \in Types, NEW d \in Data, t = "Unknown" => d = Zero,
             Construct(x, t, d)
      PROVE  Shape
  BY <1>2, <1>3 DEF Construct, Ends, Shape, Unchanged
<1>4. ASSUME NEW x \in Slot, Destroy(x) PROVE Shape
  BY <1>1, <1>4 DEF Destroy, Ends, Shape, Destroyed
<1>5. ASSUME NEW x \in Slot, Read(x) PROVE Shape
  BY <1>1, <1>5 DEF Read, Ends, Shape, Unchanged
<1>6. ASSUME NEW x \in Slot, NEW t \in ScalarTypes, NEW d \in Data, SetScalar(x, t, d)
      PROVE  Shape
  <2>1. t \in Types /\ t # "Unknown"
    BY DEF Types, ScalarTypes
  <2> QED BY <1>1, <1>2, <1>6, <2>1 DEF SetScalar, Ends
<1>7. ASSUME NEW x \in Slot, NEW d \in Data, SetString(x, d) PROVE Shape
  <2>1. "String" \in Types /\ "String" # "Unknown"
    BY DEF Types
  <2>2. CASE values' = [values EXCEPT ![x] = Holding("String", d)]
    BY <1>2, <2>1, <2>2
  <2>3. CASE values' = values
    BY <2>3 DEF Shape, Unchanged
  <2>4. CASE /\ outcome' = "exception" /\ threw'
             /\ values' = [values EXCEPT ![x] = TaggedOnly("String")]
    BY <2>4, FailedString DEF Shape
  <2> QED BY <1>1, <1>7, <2>2, <2>3, <2>4 DEF SetString, Ends
<1>8. ASSUME NEW x \in Slot, NEW obj \in WireObjects, Unpack(x, obj) PROVE Shape
  <2>1. CASE UndefinedBehaviour
    BY <1>1, <2>1
  <2>2. ASSUME NEW d \in Decodings(obj), values' = [values EXCEPT ![x] = d.value],
               outcome' = d.how, threw' = (threw \/ d.how = "exception")
        PROVE  Shape
    <3>1. Good(d.value) /\ (Broken(d.value) => d.how = "exception")
      BY DecodingsGood
    <3>2. Broken(d.value) => Excuse
      BY <2>2, <3>1 DEF Excuse
    <3> QED BY <2>2, <3>1, <3>2 DEF Shape, Written, Good
  <2> QED BY <1>8, <2>1, <2>2 DEF Unpack, Ends
<1>9. ASSUME NEW y \in Slot, Callable(y), ~Broken(values[y])
      PROVE  LET v == Holding(values[y].type, values[y].data)
             IN  Good(v) /\ ~Broken(v)
  BY <1>9, CopyGood DEF IndInv, Live, Callable
<1>10. ASSUME NEW x \in Slot, NEW y \in Slot, CopyConstruct(x, y) PROVE Shape
  <2>1. CASE /\ Callable(y) /\ ~Broken(values[y])
             /\ values' = [values EXCEPT ![x] = Holding(values[y].type, values[y].data)]
    BY <1>9, <2>1, WrittenSound DEF Shape
  <2>2. CASE values' = values
    BY <2>2 DEF Shape, Unchanged
  <2> QED BY <1>1, <1>10, <2>1, <2>2 DEF CopyConstruct, Ends
<1>11. ASSUME NEW x \in Slot, NEW y \in Slot, Callable(y), ~Broken(values[y]),
              values' = [values EXCEPT ![x] = Holding(values[y].type, values[y].data),
                                       ![y] = Reset]
       PROVE  Shape
  BY <1>9, <1>11, MovedSound DEF Shape
<1>12. ASSUME NEW x \in Slot, NEW y \in Slot, MoveConstruct(x, y) PROVE Shape
  BY <1>1, <1>11, <1>12 DEF MoveConstruct, Ends
<1>13. ASSUME NEW x \in Slot, NEW y \in Slot, CopyAssign(x, y) PROVE Shape
  <2>1. CASE values' = values
    BY <2>1 DEF Shape, Unchanged
  <2>2. CASE /\ Callable(y) /\ ~Broken(values[y])
             /\ values' = [values EXCEPT ![x] = Holding(values[y].type, values[y].data)]
    BY <1>9, <2>2, WrittenSound DEF Shape
  <2>3. CASE /\ outcome' = "exception" /\ threw'
             /\ values' = [values EXCEPT ![x] = TaggedOnly("String")]
    BY <2>3, FailedString DEF Shape
  <2> QED BY <1>1, <1>13, <2>1, <2>2, <2>3 DEF CopyAssign, Ends
<1>14. ASSUME NEW x \in Slot, NEW y \in Slot, MoveAssign(x, y) PROVE Shape
  <2>1. CASE values' = values
    BY <2>1 DEF Shape, Unchanged
  <2> QED BY <1>1, <1>11, <1>14, <2>1 DEF MoveAssign, Ends
<1>15. PICK x \in Slot :
         \/ Construct(x, "Unknown", Zero) \/ Destroy(x) \/ Read(x)
         \/ \E t \in ScalarTypes \cup {"String"}, d \in Data : Construct(x, t, d)
         \/ \E t \in ScalarTypes, d \in Data : SetScalar(x, t, d)
         \/ \E d \in Data : SetString(x, d)
         \/ \E obj \in WireObjects : Unpack(x, obj)
         \/ \E y \in Slot : \/ CopyConstruct(x, y) \/ MoveConstruct(x, y)
                            \/ CopyAssign(x, y) \/ MoveAssign(x, y)
  BY DEF Next
<1>16. /\ "Unknown" \in Types
       /\ \A t \in ScalarTypes \cup {"String"} : t \in Types /\ t # "Unknown"
  BY DEF Types, ScalarTypes
<1> QED BY <1>3, <1>4, <1>5, <1>6, <1>7, <1>8, <1>10, <1>12, <1>13, <1>14, <1>15, <1>16,
           ZeroAssumption

LEMMA ShapeKeepsIndInv == IndInv /\ Shape => IndInv'
<1> SUFFICES ASSUME IndInv, Shape PROVE IndInv'
  OBVIOUS
<1>1. CASE Unchanged
  BY <1>1 DEF Unchanged, IndInv, Live
<1>2. CASE Destroyed
  BY <1>2 DEF Destroyed, IndInv, Live
<1>3. CASE Written
  BY <1>3 DEF Written, IndInv, Live
<1>4. CASE Moved
  BY <1>4, ResetGood DEF Moved, IndInv, Live, Good
<1> QED BY <1>1, <1>2, <1>3, <1>4 DEF Shape

LEMMA InitIndInv == Init => IndInv
BY DEF Init, IndInv, Live

LEMMA NextIndInv == IndInv /\ [Next]_vars => IndInv'
<1>1. ASSUME IndInv, UNCHANGED vars PROVE IndInv'
  BY <1>1 DEF vars, IndInv, Live
<1> QED BY <1>1, NextShape, ShapeKeepsIndInv

-----------------------------------------------------------------------------
\* Serializing a value and unpacking it can give the value back, in every state,
\* also after failed calls; only an allocation that fails in between stops it.
THEOREM RoundTripAlways == Spec => []ValueRoundTrip
<1>1. IndInv => ValueRoundTrip
  <2> SUFFICES ASSUME IndInv, NEW x \in Slot, Live(x), ~Broken(values[x])
               PROVE  [value |-> values[x], how |-> "ok"] \in Decodings(Packed(values[x]))
    BY DEF ValueRoundTrip
  <2> DEFINE v == values[x]
  <2>1. v \in Value /\ v = Holding(v.type, v.data) /\ (v.type = "Unknown" => v.data = Zero)
    BY DEF IndInv, Good, Canonical
  <2>2. v.type \in Types /\ v.type # "Other"
    BY <2>1 DEF Value, Types, ScalarTypes
  <2> HIDE DEF v
  <2>3. CASE v.type = "Unknown"
    <3>1. v = Reset
      BY <2>1, <2>3 DEF Holding, Reset
    <3> QED BY <2>3, <3>1 DEF Packed, Decodings, v
  <2>4. CASE v.type # "Unknown"
    BY <2>1, <2>2, <2>4 DEF Packed, Decodings, v
  <2> QED BY <2>3, <2>4
<1> QED BY InitIndInv, NextIndInv, <1>1, PTL DEF Spec

\* A value whose tag claims a string that is not there is left behind only by a
\* call that threw, whatever fails and whatever arrives.
THEOREM BrokenOnlyAfterThrow == Spec => BrokenOnlyByException
<1> DEFINE A == \A x \in Slot :
                  (values'[x] # Absent /\ Broken(values'[x])) =>
                     values'[x] = values[x] \/ outcome' = "exception"
<1>1. ASSUME IndInv, Next PROVE A
  <2> SUFFICES ASSUME NEW x \in Slot, values'[x] # Absent, Broken(values'[x])
               PROVE  values'[x] = values[x] \/ outcome' = "exception"
    OBVIOUS
  <2>1. Shape
    BY <1>1, NextShape
  <2>2. CASE Unchanged
    BY <2>2 DEF Unchanged
  <2>3. CASE Destroyed
    BY <1>1, <2>3 DEF Destroyed, IndInv
  <2>4. CASE Written
    BY <1>1, <2>4 DEF Written, IndInv, Excuse
  <2>5. CASE Moved
    BY <1>1, <2>5, ResetGood DEF Moved, IndInv
  <2> QED BY <2>1, <2>2, <2>3, <2>4, <2>5 DEF Shape
<1>2. IndInv /\ [Next]_vars => [A]_vars
  BY <1>1
<1>3. Spec => [][A]_vars
  <2> HIDE DEF A
  <2> QED BY InitIndInv, NextIndInv, <1>2, PTL DEF Spec
<1> QED BY <1>3 DEF BrokenOnlyByException

\* No call takes back that one before it threw.
LEMMA NextRemembers ==
    ASSUME threw, Next
    PROVE  threw'
<1>1. ASSUME NEW new, NEW n, NEW how, Ends(new, n, how) PROVE threw'
  BY <1>1 DEF Ends
<1>2. ASSUME UndefinedBehaviour PROVE threw'
  BY <1>2 DEF UndefinedBehaviour
<1>3. ASSUME NEW x \in Slot, NEW y \in Slot,
             \/ CopyConstruct(x, y) \/ MoveConstruct(x, y)
             \/ CopyAssign(x, y) \/ MoveAssign(x, y)
      PROVE  threw'
  BY <1>1, <1>2, <1>3 DEF CopyConstruct, MoveConstruct, CopyAssign, MoveAssign
<1>4. ASSUME NEW x \in Slot, NEW t, NEW d, Construct(x, t, d) \/ SetScalar(x, t, d)
      PROVE  threw'
  BY <1>1, <1>2, <1>4 DEF Construct, SetScalar
<1>5. ASSUME NEW x \in Slot, Destroy(x) \/ Read(x) PROVE threw'
  BY <1>1, <1>2, <1>5 DEF Destroy, Read
<1>6. ASSUME NEW x \in Slot, NEW d, SetString(x, d) PROVE threw'
  BY <1>1, <1>2, <1>6 DEF SetString
<1>7. ASSUME NEW x \in Slot, NEW obj, Unpack(x, obj) PROVE threw'
  BY <1>1, <1>2, <1>7 DEF Unpack
<1> QED BY <1>3, <1>4, <1>5, <1>6, <1>7 DEF Next

\* Whatever fails and whatever arrives, a string lives only where the tag says so,
\* and until a call throws it lives wherever the tag says so.
THEOREM TagAlwaysMatches == Spec => []TagMatchesBuffer
<1> DEFINE Sound == ~threw => \A x \in Slot : Live(x) => ~Broken(values[x])
<1>1. Init => Sound
  BY DEF Init, Live
<1>2. IndInv /\ Sound /\ [Next]_vars => Sound'
  <2> SUFFICES ASSUME IndInv, Sound, [Next]_vars PROVE Sound'
    OBVIOUS
  <2>1. CASE UNCHANGED vars
    BY <2>1 DEF vars, Live
  <2>2. ASSUME Next, ~threw' PROVE \A x \in Slot : Live(x)' => ~Broken(values'[x])
    <3>1. Shape /\ ~threw
      BY <2>2, NextShape, NextRemembers
    <3>2. CASE Unchanged
      BY <3>1, <3>2 DEF Unchanged, Live
    <3>3. CASE Destroyed
      BY <3>1, <3>3 DEF Destroyed, IndInv, Live
    <3>4. CASE Written
      BY <2>2, <3>1, <3>4 DEF Written, IndInv, Live, Excuse
    <3>5. CASE Moved
      BY <3>1, <3>5, ResetGood DEF Moved, IndInv, Live
    <3> QED BY <3>1, <3>2, <3>3, <3>4, <3>5 DEF Shape
  <2> QED BY <2>1, <2>2
<1>3. IndInv /\ Sound => TagMatchesBuffer
  <2> SUFFICES ASSUME IndInv, Sound, NEW x \in Slot, Live(x)
               PROVE  /\ values[x].live => values[x].type = "String"
                      /\ ~threw /\ values[x].type = "String" => values[x].live
    BY DEF TagMatchesBuffer
  <2>1. CASE Broken(values[x])
    BY <2>1 DEF Broken
  <2>2. CASE ~Broken(values[x])
    <3> DEFINE t == values[x].type
               d == values[x].data
    <3>1. values[x] = Holding(t, d)
      BY <2>2 DEF IndInv, Good, Canonical
    <3>2. Holding(t, d).live <=> t = "String"
      <4> HIDE DEF t, d
      <4> QED BY Zenon DEF Holding
    <3>3. values[x].live <=> Holding(t, d).live
      <4> HIDE DEF t, d
      <4> QED BY <3>1, Zenon
    <3> QED BY <3>2, <3>3
  <2> QED BY <2>1, <2>2
<1> QED
  <2> HIDE DEF Sound
  <2> QED BY InitIndInv, NextIndInv, <1>1, <1>2, <1>3, PTL DEF Spec

-----------------------------------------------------------------------------
(***************************************************************************)
(* Counting strings: what every call adds to the count is what it adds to  *)
(* the buffers.                                                            *)
(***************************************************************************)
Holders(f) == {x \in Slot : f[x] # Absent /\ f[x].live}

\* How many strings live in an object, or in one that does not exist.
Strings(v) == IF v # Absent /\ v.live THEN 1 ELSE 0

Counted == /\ IsFiniteSet(Holders(values))
           /\ strings = Cardinality(Holders(values))

LEMMA StringsOfReset == Strings(Reset) = 0
BY DEF Strings, Reset

LEMMA StringsOfAbsent == Strings(Absent) = 0
BY DEF Strings

LEMMA StringsOfTagged ==
    ASSUME NEW t
    PROVE  Strings(TaggedOnly(t)) = 0
BY DEF Strings, TaggedOnly

LEMMA StringsOfHolding ==
    ASSUME NEW t \in Types, NEW d \in Data
    PROVE  Strings(Holding(t, d)) = StringsOf(t)
<1>1. Holding(t, d) \in Value
  BY DEF Holding, Value
<1>2. Holding(t, d).live <=> t = "String"
  BY Zenon DEF Holding
<1> QED BY <1>1, <1>2, AbsentAssumption DEF Strings, StringsOf

\* A value that can be read holds as many strings as its tag says.
LEMMA StringsOfGood ==
    ASSUME NEW v, Good(v), ~Broken(v)
    PROVE  Strings(v) = StringsOf(v.type) /\ v.type \in Types /\ v.data \in Data
<1>1. v.type \in Types /\ v.data \in Data /\ v = Holding(v.type, v.data)
  BY DEF Good, Canonical, Value
<1> DEFINE t == v.type
           d == v.data
<1>2. Strings(Holding(t, d)) = StringsOf(t)
  <2>1. t \in Types /\ d \in Data
    BY <1>1
  <2> HIDE DEF t, d
  <2> QED BY <2>1, StringsOfHolding
<1> QED BY <1>1, <1>2

LEMMA StringsType ==
    ASSUME NEW v, NEW t
    PROVE  Strings(v) \in {0, 1} /\ StringsOf(t) \in {0, 1}
BY DEF Strings, StringsOf

\* Writing one object changes the number of strings by that object's.
LEMMA WriteCounts ==
    ASSUME NEW f \in [Slot -> Value \cup {Absent}], IsFiniteSet(Holders(f)),
           NEW x \in Slot, NEW v \in Value \cup {Absent}
    PROVE  LET g == [f EXCEPT ![x] = v]
           IN  /\ g \in [Slot -> Value \cup {Absent}]
               /\ IsFiniteSet(Holders(g))
               /\ Cardinality(Holders(g)) =
                     Cardinality(Holders(f)) + Strings(v) - Strings(f[x])
<1> DEFINE g == [f EXCEPT ![x] = v]
           H == Holders(f)
           rest == H \ {x}
<1>1. g \in [Slot -> Value \cup {Absent}]
  OBVIOUS
<1>2. Holders(g) = IF v # Absent /\ v.live THEN rest \cup {x} ELSE rest
  BY DEF Holders
<1>3. x \in H <=> f[x] # Absent /\ f[x].live
  BY DEF Holders
<1> HIDE DEF H
<1>4. /\ IsFiniteSet(rest)
      /\ Cardinality(rest) = IF x \in H THEN Cardinality(H) - 1 ELSE Cardinality(H)
      /\ Cardinality(H) \in Nat /\ Cardinality(rest) \in Nat
  BY FS_RemoveElement, FS_CardinalityType DEF H
<1>5. /\ IsFiniteSet(rest \cup {x})
      /\ Cardinality(rest \cup {x}) = Cardinality(rest) + 1
  BY <1>4, FS_AddElement
<1>6. Cardinality(rest) = Cardinality(H) - Strings(f[x])
  BY <1>3, <1>4 DEF Strings
<1>7. IsFiniteSet(Holders(g)) /\ Cardinality(Holders(g)) = Cardinality(rest) + Strings(v)
  BY <1>2, <1>4, <1>5 DEF Strings
<1> QED BY <1>1, <1>4, <1>6, <1>7, StringsType DEF H

LEMMA WriteKeepsCounted ==
    ASSUME IndInv, Counted, NEW x \in Slot, NEW v \in Value \cup {Absent}, NEW n, NEW how,
           Ends([values EXCEPT ![x] = v], n, how),
           n = Strings(v) - Strings(values[x])
    PROVE  Counted'
<1>1. values' = [values EXCEPT ![x] = v] /\ strings' = strings + n
  BY DEF Ends
<1>2. /\ IsFiniteSet(Holders(values'))
      /\ Cardinality(Holders(values')) =
            Cardinality(Holders(values)) + Strings(v) - Strings(values[x])
  BY <1>1, WriteCounts DEF IndInv, Counted
<1>3. Cardinality(Holders(values)) \in Nat
  BY FS_CardinalityType DEF Counted
<1>4. Holders(values)' = Holders(values')
  BY DEF Holders
<1> QED BY <1>1, <1>2, <1>3, <1>4, StringsType DEF Counted

\* Moving y's value into x, which held or holds old strings.
LEMMA MoveKeepsCounted ==
    ASSUME IndInv, Counted, NEW x \in Slot, NEW y \in Slot, x # y,
           values[y] # Absent, ~Broken(values[y]), NEW n, NEW how,
           Ends([values EXCEPT ![x] = Holding(values[y].type, values[y].data), ![y] = Reset],
                n, how),
           n = 0 - Strings(values[x])
    PROVE  Counted'
<1> DEFINE v == Holding(values[y].type, values[y].data)
           g == [values EXCEPT ![x] = v]
<1>1. Good(values[y])
  BY DEF IndInv, Live
<1>2. v \in Value /\ Strings(v) = Strings(values[y])
  BY <1>1, CopyGood, StringsOfGood, StringsOfHolding DEF Good
<1>3. /\ g \in [Slot -> Value \cup {Absent}]
      /\ IsFiniteSet(Holders(g))
      /\ Cardinality(Holders(g)) = Cardinality(Holders(values)) + Strings(v) - Strings(values[x])
  BY <1>2, WriteCounts DEF IndInv, Counted
<1>4. g[y] = values[y] /\ values' = [g EXCEPT ![y] = Reset] /\ strings' = strings - Strings(values[x])
  <2>1. values' = [values EXCEPT ![x] = v, ![y] = Reset] /\ strings' = strings + n
    BY DEF Ends
  <2>2. strings \in Nat /\ Strings(values[x]) \in {0, 1}
    BY FS_CardinalityType, StringsType DEF Counted
  <2> HIDE DEF v
  <2> QED BY <2>1, <2>2 DEF IndInv
<1>5. Reset \in Value
  BY ResetGood DEF Good
<1> HIDE DEF g, v
<1>6. /\ IsFiniteSet(Holders(values'))
      /\ Cardinality(Holders(values')) = Cardinality(Holders(g)) + Strings(Reset) - Strings(g[y])
  BY <1>3, <1>4, <1>5, WriteCounts
<1>7. Cardinality(Holders(values)) \in Nat
  BY FS_CardinalityType DEF Counted
<1>8. Holders(values)' = Holders(values')
  BY DEF Holders
<1> QED BY <1>2, <1>3, <1>4, <1>6, <1>7, <1>8, StringsOfReset, StringsType DEF Counted

LEMMA SameKeepsCounted ==
    ASSUME Counted, values' = values, strings' = strings
    PROVE  Counted'
BY DEF Counted, Holders

LEMMA NothingKeepsCounted ==
    ASSUME Counted, NEW how, Ends(values, 0, how)
    PROVE  Counted'
<1>1. strings \in Nat
  BY FS_CardinalityType DEF Counted
<1>2. values' = values /\ strings' = strings
  BY <1>1 DEF Ends
<1> QED BY <1>2, SameKeepsCounted

LEMMA NextCounted ==
    ASSUME IndInv, Counted, Next
    PROVE  Counted'
<1>1. ASSUME UndefinedBehaviour PROVE Counted'
  BY <1>1, SameKeepsCounted DEF UndefinedBehaviour
<1>2. ASSUME NEW x \in Slot, Callable(x), ~Broken(values[x])
      PROVE  /\ Good(values[x])
             /\ Strings(values[x]) = StringsOf(values[x].type)
             /\ values[x].type \in Types /\ values[x].data \in Data
  BY <1>2, StringsOfGood DEF IndInv, Live, Callable
<1>3. ASSUME NEW x \in Slot, NEW t \in Types, NEW d \in Data, NEW n,
             n = StringsOf(t) - Strings(values[x]),
             Ends([values EXCEPT ![x] = Holding(t, d)], n, "ok")
      PROVE  Counted'
  <2>1. Holding(t, d) \in Value
    BY DEF Holding, Value
  <2> QED BY <1>3, <2>1, StringsOfHolding, WriteKeepsCounted
<1>4. ASSUME NEW x \in Slot, values[x] = Absent, NEW t \in Types, NEW d \in Data,
             Ends([values EXCEPT ![x] = Holding(t, d)], StringsOf(t), "ok")
      PROVE  Counted'
  <2>1. StringsOf(t) = StringsOf(t) - Strings(values[x])
    BY <1>4, StringsOfAbsent, StringsType
  <2> QED BY <1>3, <1>4, <2>1
<1>5. ASSUME NEW x \in Slot, NEW n, NEW how, n = 0 - Strings(values[x]),
             Ends([values EXCEPT ![x] = TaggedOnly("String")], n, how)
      PROVE  Counted'
  <2>1. TaggedOnly("String") \in Value
    BY TaggedOnlyGood DEF Good, Types
  <2> QED BY <1>5, <2>1, StringsOfTagged, WriteKeepsCounted
<1>6. ASSUME NEW x \in Slot, NEW t \in Types, NEW d \in Data, Construct(x, t, d)
      PROVE  Counted'
  BY <1>4, <1>6, NothingKeepsCounted DEF Construct
<1>7. ASSUME NEW x \in Slot, Destroy(x) PROVE Counted'
  <2>1. CASE /\ Callable(x) /\ ~Broken(values[x])
             /\ Ends([values EXCEPT ![x] = Absent], -StringsOf(values[x].type), "ok")
    <3>1. -StringsOf(values[x].type) = Strings(Absent) - Strings(values[x])
      BY <1>2, <2>1, StringsOfAbsent, StringsType
    <3> QED BY <2>1, <3>1, WriteKeepsCounted
  <2> QED BY <1>1, <1>7, <2>1 DEF Destroy
<1>8. ASSUME NEW x \in Slot, Read(x) PROVE Counted'
  BY <1>1, <1>8, NothingKeepsCounted DEF Read
<1>9. ASSUME NEW x \in Slot, NEW y \in Slot, CopyConstruct(x, y) PROVE Counted'
  <2>1. CASE /\ Callable(y) /\ ~Broken(values[y]) /\ values[x] = Absent
             /\ Ends([values EXCEPT ![x] = Holding(values[y].type, values[y].data)],
                     StringsOf(values[y].type), "ok")
    BY <1>2, <1>4, <2>1
  <2>2. CASE Ends(values, 0, "exception")
    BY <2>2, NothingKeepsCounted
  <2> QED BY <1>1, <1>9, <2>1, <2>2 DEF CopyConstruct
<1>10. ASSUME NEW x \in Slot, NEW y \in Slot, MoveConstruct(x, y) PROVE Counted'
  <2>1. CASE /\ Callable(y) /\ ~Broken(values[y]) /\ values[x] = Absent
             /\ Ends([values EXCEPT ![x] = Holding(values[y].type, values[y].data),
                                    ![y] = Reset], 0, "ok")
    <3>1. x # y /\ values[y] # Absent
      BY <2>1 DEF Callable
    <3>2. Strings(values[x]) = 0
      BY <2>1, StringsOfAbsent
    <3>3. 0 = 0 - Strings(values[x])
      BY <3>2
    <3> QED BY <2>1, <3>1, <3>3, MoveKeepsCounted
  <2> QED BY <1>1, <1>10, <2>1 DEF MoveConstruct
<1>11. ASSUME NEW x \in Slot, NEW y \in Slot, CopyAssign(x, y) PROVE Counted'
  <2>1. CASE Ends(values, 0, "ok")
    BY <2>1, NothingKeepsCounted
  <2>2. CASE /\ ~Broken(values[x]) /\ ~Broken(values[y])
             /\ Ends([values EXCEPT ![x] = Holding(values[y].type, values[y].data)],
                     StringsOf(values[y].type) - StringsOf(values[x].type), "ok")
    BY <1>2, <1>3, <1>11, <2>2 DEF CopyAssign
  <2>3. CASE /\ ~Broken(values[x])
             /\ Ends([values EXCEPT ![x] = TaggedOnly("String")],
                     -StringsOf(values[x].type), "exception")
    <3>1. -StringsOf(values[x].type) = 0 - Strings(values[x])
      BY <1>2, <1>11, <2>3, StringsType DEF CopyAssign
    <3> QED BY <1>5, <2>3, <3>1
  <2> QED BY <1>1, <1>11, <2>1, <2>2, <2>3 DEF CopyAssign
<1>12. ASSUME NEW x \in Slot, NEW y \in Slot, MoveAssign(x, y) PROVE Counted'
  <2>1. CASE Ends(values, 0, "ok")
    BY <2>1, NothingKeepsCounted
  <2>2. CASE /\ x # y /\ ~Broken(values[x]) /\ ~Broken(values[y])
             /\ Ends([values EXCEPT ![x] = Holding(values[y].type, values[y].data),
                                    ![y] = Reset], -StringsOf(values[x].type), "ok")
    <3>1. StringsOf(values[x].type) = Strings(values[x]) /\ values[y] # Absent
      BY <1>2, <1>12, <2>2 DEF MoveAssign, Callable
    <3>2. -StringsOf(values[x].type) = 0 - Strings(values[x])
      BY <3>1, StringsType
    <3> QED BY <2>2, <3>1, <3>2, MoveKeepsCounted
  <2> QED BY <1>1, <1>12, <2>1, <2>2 DEF MoveAssign
<1>13. ASSUME NEW x \in Slot, NEW t \in ScalarTypes, NEW d \in Data, SetScalar(x, t, d)
       PROVE  Counted'
  <2>1. t \in Types /\ StringsOf(t) = 0
    BY DEF Types, ScalarTypes, StringsOf
  <2>2. CASE /\ ~Broken(values[x])
             /\ Ends([values EXCEPT ![x] = Holding(t, d)], -StringsOf(values[x].type), "ok")
    <3>1. -StringsOf(values[x].type) = StringsOf(t) - Strings(values[x])
      BY <1>2, <1>13, <2>1, <2>2, StringsType DEF SetScalar
    <3> QED BY <1>3, <2>1, <2>2, <3>1
  <2> QED BY <1>1, <1>13, <2>2 DEF SetScalar
<1>14. ASSUME NEW x \in Slot, NEW d \in Data, SetString(x, d) PROVE Counted'
  <2>0. "String" \in Types /\ StringsOf("String") = 1
    BY DEF Types, StringsOf
  <2>1. CASE /\ ~Broken(values[x])
             /\ Ends([values EXCEPT ![x] = Holding("String", d)],
                     StringsOf("String") - StringsOf(values[x].type), "ok")
    BY <1>2, <1>3, <1>14, <2>0, <2>1 DEF SetString
  <2>2. CASE Ends(values, 0, "exception")
    BY <2>2, NothingKeepsCounted
  <2>3. CASE /\ values[x].type # "String"
             /\ Ends([values EXCEPT ![x] = TaggedOnly("String")], 0, "exception")
    <3>1. ~Broken(values[x]) /\ StringsOf(values[x].type) = 0
      BY <2>3 DEF Broken, StringsOf
    <3>2. 0 = 0 - Strings(values[x])
      BY <1>2, <1>14, <3>1 DEF SetString
    <3> QED BY <1>5, <2>3, <3>2
  <2> QED BY <1>1, <1>14, <2>1, <2>2, <2>3 DEF SetString
<1>15. ASSUME NEW x \in Slot, NEW obj \in WireObjects, Unpack(x, obj) PROVE Counted'
  <2>1. ASSUME NEW d \in Decodings(obj), ~Broken(values[x]),
               Ends([values EXCEPT ![x] = d.value],
                    (IF d.value.live THEN 1 ELSE 0) - StringsOf(values[x].type), d.how)
        PROVE  Counted'
    <3>1. d.value \in Value
      BY DecodingsGood DEF Good
    <3>2. Strings(d.value) = IF d.value.live THEN 1 ELSE 0
      BY <3>1, AbsentAssumption DEF Strings
    <3>3. StringsOf(values[x].type) = Strings(values[x])
      BY <1>2, <1>15, <2>1 DEF Unpack
    <3> QED BY <2>1, <3>1, <3>2, <3>3, WriteKeepsCounted
  <2> QED BY <1>1, <1>15, <2>1 DEF Unpack
<1>16. /\ "Unknown" \in Types
       /\ \A t \in ScalarTypes \cup {"String"} : t \in Types
  BY DEF Types, ScalarTypes
<1> QED BY <1>6, <1>7, <1>8, <1>9, <1>10, <1>11, <1>12, <1>13, <1>14, <1>15, <1>16,
           ZeroAssumption DEF Next

\* However many values there are and whatever fails, the strings that were
\* constructed and not destroyed are those that values hold: nothing leaks, and
\* nothing is destroyed twice.
THEOREM NoStringEverLeaked == Spec => []NoStringLeaked
<1>1. Init => Counted
  <2> SUFFICES ASSUME Init PROVE Counted
    OBVIOUS
  <2>1. Holders(values) = {} /\ strings = 0
    BY DEF Init, Holders
  <2> QED BY <2>1, FS_EmptySet DEF Counted
<1>2. IndInv /\ Counted /\ [Next]_vars => Counted'
  BY NextCounted, SameKeepsCounted DEF vars
<1>3. Counted => NoStringLeaked
  <2>1. Holders(values) = {x \in Slot : Live(x) /\ values[x].live}
    BY DEF Holders, Live
  <2> QED BY <2>1 DEF Counted, NoStringLeaked
<1> QED BY InitIndInv, NextIndInv, <1>1, <1>2, <1>3, PTL DEF Spec
=============================================================================
