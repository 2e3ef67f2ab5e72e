------------------------- MODULE MessageHeaderProofs -------------------------
(***************************************************************************)
(* For integers of any widths: headers keep to the ranges of their fields, *)
(* they arrive as they were packed, and IdentifiersSurvive says exactly    *)
(* which identifiers a program gets back.                                  *)
(***************************************************************************)
EXTENDS MessageHeader, TLAPS

\* Division with a remainder, for integers of either sign.
LEMMA Remainder ==
    ASSUME NEW R \in Nat, R > 0, NEW v \in Int
    PROVE  /\ v % R \in 0 .. R - 1
           /\ v \div R \in Int
           /\ v = (v \div R) * R + (v % R)
  OBVIOUS

\* The remainder is the only one.
LEMMA OneRemainder ==
    ASSUME NEW R \in Nat, R > 0, NEW k \in Int, NEW r \in 0 .. R - 1
    PROVE  (k * R + r) % R = r
  BY SMT

LEMMA Distribute ==
    ASSUME NEW R \in Int, NEW a \in Int
    PROVE  (a + 1) * R = a * R + R
  BY SMT

\* Half the range of a type bounds its values.
LEMMA Halves ==
    ASSUME NEW T \in IntType
    PROVE  /\ T.signed \in BOOLEAN
           /\ T.range \in Nat /\ T.range > 0
           /\ \E h \in Nat : T.range = 2 * h /\ T.range \div 2 = h
<1>1. T.range \in {Range16, Range32, Range64} /\ T.signed \in BOOLEAN
  BY DEF IntType
<1>2. T.range \in Nat /\ T.range > 0 /\ 2 * (T.range \div 2) = T.range
  BY <1>1, RangesAssumption
<1>3. T.range \div 2 \in Nat
  BY <1>2
<1> QED
  BY <1>1, <1>2, <1>3

\* A cast yields a value of its type, which differs by a multiple of the range.
LEMMA CastInRange ==
    ASSUME NEW T \in IntType, NEW v \in Int
    PROVE  /\ Cast(v, T) \in Values(T)
           /\ Cast(v, T) \in Int
           /\ \E k \in Int : v = k * T.range + Cast(v, T)
<1>1. PICK h \in Nat : T.range = 2 * h /\ T.range \div 2 = h
  BY Halves
<1>2. PICK R \in Nat : R = T.range /\ R > 0
  BY Halves
<1>3. PICK q \in Int, r \in 0 .. R - 1 : v = q * R + r /\ r = v % R
  BY <1>2, Remainder
<1>4. R = 2 * h /\ r \in Int /\ T.signed \in BOOLEAN
  BY <1>1, <1>2, Halves
<1>5. Cast(v, T) = IF T.signed /\ r >= h THEN r - R ELSE r
  BY <1>1, <1>2, <1>3 DEF Cast
<1>6. Values(T) = IF T.signed THEN -h .. h - 1 ELSE 0 .. R - 1
  BY <1>1, <1>2 DEF Values, Smallest, Largest
<1>7. CASE T.signed /\ r >= h
  <2>1. Cast(v, T) = r - R
    BY <1>5, <1>7
  <2>2. r - R \in Values(T) /\ r - R \in Int
    BY <1>4, <1>6, <1>7
  <2>3. (q + 1) * R = q * R + R
    BY Distribute
  <2>4. v = (q + 1) * R + (r - R) /\ q + 1 \in Int
    BY <1>3, <1>4, <2>3
  <2>5. \E k \in Int : v = k * R + (r - R)
    BY <2>4
  <2> QED
    BY <1>2, <2>1, <2>2, <2>5
<1>8. CASE ~(T.signed /\ r >= h)
  <2>1. Cast(v, T) = r
    BY <1>5, <1>8
  <2>2. r \in Values(T)
    BY <1>4, <1>6, <1>8
  <2> QED
    BY <1>2, <1>3, <1>4, <2>1, <2>2
<1> QED
  BY <1>7, <1>8

\* There is only one such value.
LEMMA CastUnique ==
    ASSUME NEW T \in IntType, NEW k \in Int, NEW c \in Values(T)
    PROVE  Cast(k * T.range + c, T) = c
<1>1. PICK h \in Nat : T.range = 2 * h /\ T.range \div 2 = h
  BY Halves
<1>2. PICK R \in Nat : R = T.range /\ R > 0
  BY Halves
<1>3. R = 2 * h /\ T.signed \in BOOLEAN
  BY <1>1, <1>2, Halves
<1>4. c \in IF T.signed THEN -h .. h - 1 ELSE 0 .. R - 1
  BY <1>1, <1>2 DEF Values, Smallest, Largest
<1>5. c \in Int
  BY <1>3, <1>4
<1>6. PICK v \in Int : v = k * R + c
  BY <1>5
<1>7. Cast(v, T) = IF T.signed /\ v % R >= h THEN (v % R) - R ELSE v % R
  BY <1>1, <1>2 DEF Cast
<1>8. CASE c < 0
  <2>1. c + R \in 0 .. R - 1 /\ T.signed /\ c + R >= h
    BY <1>3, <1>4, <1>8
  <2>2. PICK j \in Int : j + 1 = k
    <3>1. k - 1 \in Int /\ (k - 1) + 1 = k
      OBVIOUS
    <3> QED
      BY <3>1
  <2>3. (j + 1) * R = j * R + R
    BY Distribute
  <2>4. v = j * R + (c + R)
    BY <1>5, <1>6, <2>2, <2>3
  <2>5. v % R = c + R
    BY <1>2, <2>1, <2>4, OneRemainder
  <2>6. (c + R) - R = c
    BY <1>5
  <2> QED
    BY <1>2, <1>6, <1>7, <2>1, <2>5, <2>6
<1>9. CASE c >= 0
  <2>1. c \in 0 .. R - 1 /\ ~(T.signed /\ c >= h)
    BY <1>3, <1>4, <1>9
  <2>2. v % R = c
    BY <1>2, <1>6, <2>1, OneRemainder
  <2> QED
    BY <1>2, <1>6, <1>7, <2>1, <2>2
<1> QED
  BY <1>5, <1>8, <1>9

\* A value of its type stays as it is.
LEMMA CastOfValue ==
    ASSUME NEW T \in IntType, NEW c \in Values(T)
    PROVE  Cast(c, T) = c
<1>1. T.range \in Nat /\ T.range \div 2 \in Nat
  BY Halves
<1>2. c \in Int
  BY <1>1 DEF Values, Smallest, Largest
<1>3. 0 * T.range + c = c
  BY <1>1, <1>2
<1> QED
  BY <1>3, CastUnique

-----------------------------------------------------------------------------
\* A type of at most 32 bits is the type of an id field, of its width, or so narrow
\* that int32_t holds all its values.
LEMMA NarrowTypes ==
    ASSUME NEW T \in IntType, T.range <= Range32, NEW v \in Values(T)
    PROVE  T.range = Range32 \/ v \in Values(i32)
<1>1. /\ Range16 \in Nat /\ Range32 \in Nat /\ Range64 \in Nat
      /\ 2 * Range16 <= Range32 /\ 2 * Range32 <= Range64 /\ Range32 > 0
      /\ Range32 \div 2 \in Nat /\ 2 * (Range32 \div 2) = Range32
      /\ Range16 \div 2 \in Nat /\ 2 * (Range16 \div 2) = Range16
  BY RangesAssumption
<1>2. T.range \in {Range16, Range32, Range64} /\ T.signed \in BOOLEAN
  BY DEF IntType
<1>3. T.range = Range32 \/ T.range = Range16
  BY <1>1, <1>2
<1> QED
  BY <1>1, <1>2, <1>3 DEF Values, Smallest, Largest, i32

\* An identifier is read back from the header it was set in exactly when its type
\* has at most 32 bits or it sign-extends from 32 bits: the two casts of
\* setMessageId() and getMessageId().
LEMMA CastThereAndBack ==
    ASSUME NEW T \in IntType, NEW v \in Values(T)
    PROVE  Cast(Cast(v, i32), T) = v <=> \/ T.range <= Range32
                                         \/ v \in Values(i32)
                                         \/ ~T.signed /\ v - T.range \in Values(i32)
<1> DEFINE c == Cast(v, i32)
<1>1. /\ Range16 \in Nat /\ Range32 \in Nat /\ Range64 \in Nat
      /\ 2 * Range16 <= Range32 /\ 2 * Range32 <= Range64 /\ Range32 > 0
      /\ Range32 \div 2 \in Nat /\ 2 * (Range32 \div 2) = Range32
      /\ Range64 \div 2 \in Nat /\ 2 * (Range64 \div 2) = Range64
  BY RangesAssumption
<1>2. T.range \in {Range16, Range32, Range64} /\ T.signed \in BOOLEAN /\ T.range \in Nat
  BY <1>1 DEF IntType
<1>3. v \in Int
  BY <1>1, <1>2 DEF Values, Smallest, Largest
<1>4. i32 \in IntType /\ i32.range = Range32
  BY DEF i32, IntType
<1>5. c \in Values(i32) /\ c \in Int
  BY <1>3, <1>4, CastInRange
<1> HIDE DEF c
<1>6. CASE v \in Values(i32) /\ T.range = Range64
  <2>1. c = v
    BY <1>4, <1>6, CastOfValue DEF c
  <2> QED
    BY <1>6, <2>1, CastOfValue DEF c
<1>7. CASE T.range <= Range32
  <2>1. CASE v \in Values(i32)
    <3>1. c = v
      BY <1>4, <2>1, CastOfValue DEF c
    <3> QED
      BY <1>7, <3>1, CastOfValue DEF c
  <2>2. CASE T.range = Range32
    <3>1. PICK k \in Int : v = k * Range32 + c
      BY <1>3, <1>4, CastInRange DEF c
    <3>2. c = (-k) * T.range + v /\ -k \in Int
      BY <1>1, <1>3, <1>5, <2>2, <3>1
    <3>3. Cast((-k) * T.range + v, T) = v
      BY <3>2, CastUnique
    <3> QED
      BY <1>7, <3>2, <3>3 DEF c
  <2> QED
    BY <1>7, <2>1, <2>2, NarrowTypes
<1>8. CASE T.range = Range64 /\ ~T.signed /\ v - T.range \in Values(i32)
  <2> DEFINE n == Range64 \div Range32
  <2>1. n \in Int /\ Range64 = n * Range32 + (Range64 % Range32)
    BY <1>1, Remainder
  <2>2. Range64 = n * Range32
    BY <1>1, <2>1, RangesAssumption
  <2>3. v = n * Range32 + (v - Range64)
    BY <1>1, <1>3, <2>1, <2>2
  <2>4. Cast(n * Range32 + (v - Range64), i32) = v - Range64
    BY <1>4, <1>8, <2>1, CastUnique
  <2>5. c = v - Range64
    BY <2>3, <2>4 DEF c
  <2>6. c = (-1) * T.range + v
    BY <1>1, <1>3, <1>8, <2>5
  <2>7. Cast((-1) * T.range + v, T) = v
    BY CastUnique
  <2> QED
    BY <1>8, <2>6, <2>7 DEF c
<1>9. CASE /\ T.range = Range64 /\ v \notin Values(i32)
           /\ ~(~T.signed /\ v - T.range \in Values(i32))
  <2>1. ~(T.range <= Range32)
    BY <1>1, <1>9
  <2>2. SUFFICES ASSUME Cast(c, T) = v PROVE FALSE
    BY <1>9, <2>1 DEF c
  <2>3. PICK k \in Int : c = k * T.range + v
    BY <1>5, <2>2, CastInRange
  <2>4. c # v /\ (~T.signed => c # v - T.range)
    BY <1>5, <1>9
  <2>5. -(2 * Range64) < c - v /\ c - v < Range64
    BY <1>1, <1>2, <1>3, <1>5, <1>9 DEF Values, Smallest, Largest, i32
  <2>6. T.signed => -Range64 < c - v
    BY <1>1, <1>2, <1>3, <1>5, <1>9 DEF Values, Smallest, Largest, i32
  <2>7. k = 0 \/ k = -1
    BY <1>1, <1>3, <1>5, <1>9, <2>3, <2>5
  <2> QED
    BY <1>1, <1>3, <1>5, <1>9, <2>3, <2>4, <2>6, <2>7
<1> QED
  BY <1>1, <1>2, <1>6, <1>7, <1>8, <1>9

-----------------------------------------------------------------------------
LEMMA SixtyFourBits ==
    /\ Range64 \in Nat /\ Range64 > 0 /\ Range64 \div 2 \in Nat /\ 2 * (Range64 \div 2) = Range64
    /\ u64 \in IntType /\ u64.range = Range64 /\ ~u64.signed /\ Values(u64) = 0 .. Range64 - 1
    /\ i64 \in IntType /\ i64.range = Range64 /\ i64.signed
    /\ Values(i64) = -(Range64 \div 2) .. (Range64 \div 2) - 1
<1>1. /\ Range64 \in Nat /\ Range64 > 0
      /\ Range64 \div 2 \in Nat /\ 2 * (Range64 \div 2) = Range64
  BY RangesAssumption
<1>2. u64 = [range |-> Range64, signed |-> FALSE] /\ i64 = [range |-> Range64, signed |-> TRUE]
  BY DEF u64, i64
<1>3. u64 \in IntType /\ i64 \in IntType
  BY <1>2 DEF IntType
<1> QED
  BY <1>1, <1>2, <1>3 DEF Values, Smallest, Largest

\* Every type of the program is contained in int64_t, or has no negative values and
\* is contained in uint64_t.
LEMMA WithinSixtyFourBits ==
    ASSUME NEW T \in IntType, NEW v \in Values(T)
    PROVE  /\ v \in Int
           /\ v >= 0 => v \in Values(u64)
           /\ v < 0 => T.signed /\ v \in Values(i64)
<1>1. /\ Range16 \in Nat /\ Range32 \in Nat /\ Range64 \in Nat
      /\ 2 * Range16 <= Range32 /\ 2 * Range32 <= Range64
  BY RangesAssumption
<1>2. T.range \in {Range16, Range32, Range64} /\ T.signed \in BOOLEAN
  BY DEF IntType
<1>3. T.range \in Nat /\ T.range <= Range64
  BY <1>1, <1>2
<1>4. T.range \div 2 \in Nat /\ 2 * (T.range \div 2) = T.range
  BY <1>2, RangesAssumption
<1>5. v \in IF T.signed THEN -(T.range \div 2) .. (T.range \div 2) - 1 ELSE 0 .. T.range - 1
  BY DEF Values, Smallest, Largest
<1> QED
  BY <1>2, <1>3, <1>4, <1>5, SixtyFourBits

\* Whatever its sign, a value is packed to an object that its type converts, and that
\* reads as the value again.
LEMMA EncodeDecode ==
    ASSUME NEW T \in IntType, NEW v \in Values(T)
    PROVE  /\ Encoded(v) \in Object
           /\ Converts(Encoded(v), T)
           /\ Decoded(Encoded(v)) = v
<1>1. v \in Int /\ v \in Smallest(T) .. Largest(T)
  BY WithinSixtyFourBits DEF Values
<1>2. Smallest(T) \in Int /\ Largest(T) \in Int
  <2>1. T.range \in Nat /\ T.range \div 2 \in Nat
    BY Halves
  <2> QED
    BY <2>1 DEF Smallest, Largest
<1>3. Encoded(v).via = Cast(v, u64) /\ Cast(v, u64) \in Values(u64)
  BY <1>1, SixtyFourBits, CastInRange DEF Encoded
<1>4. CASE v >= 0
  <2>1. Cast(v, u64) = v
    BY <1>4, WithinSixtyFourBits, SixtyFourBits, CastOfValue
  <2>2. Encoded(v) = [kind |-> "POSITIVE_INTEGER", via |-> v]
    BY <1>1, <1>4, <2>1 DEF Encoded
  <2> QED
    BY <1>1, <1>2, <1>3, <2>1, <2>2 DEF Object, Converts, Decoded
<1>5. CASE v < 0
  <2>1. T.signed /\ v \in Values(i64)
    BY <1>5, WithinSixtyFourBits
  <2>2. PICK k \in Int : v = k * Range64 + Cast(v, u64)
    BY <1>1, SixtyFourBits, CastInRange
  <2>3. Cast(v, u64) = (-k) * Range64 + v /\ -k \in Int
    BY <1>1, <1>3, <2>2, SixtyFourBits
  <2>4. Cast(Cast(v, u64), i64) = v
    BY <2>1, <2>3, SixtyFourBits, CastUnique
  <2>5. Encoded(v) = [kind |-> "NEGATIVE_INTEGER", via |-> Cast(v, u64)]
    BY <1>5 DEF Encoded
  <2> QED
    BY <1>1, <1>2, <1>3, <1>5, <2>1, <2>4, <2>5 DEF Object, Converts, Decoded
<1> QED
  BY <1>1, <1>4, <1>5

\* What the bounds of as<T>() let through is a value of T.
LEMMA DecodedInRange ==
    ASSUME NEW T \in IntType, NEW o \in Object, Converts(o, T)
    PROVE  Decoded(o) \in Values(T)
<1>1. T.range \in Nat /\ T.range > 0 /\ T.range \div 2 \in Nat /\ T.signed \in BOOLEAN
      /\ \E h \in Nat : T.range = 2 * h /\ T.range \div 2 = h
  BY Halves
<1>2. Smallest(T) \in Int /\ Largest(T) \in Int /\ Smallest(T) <= 0 /\ Largest(T) >= 0
  BY <1>1 DEF Smallest, Largest
<1>3. o.via \in 0 .. Range64 - 1 /\ (o.kind = "NEGATIVE_INTEGER" => Cast(o.via, i64) < 0)
  BY SixtyFourBits DEF Object
<1>4. Cast(o.via, i64) \in Int
  <2>1. o.via \in Int /\ i64 \in IntType
    BY <1>3, SixtyFourBits
  <2> QED
    BY <2>1, CastInRange
<1> QED
  BY <1>2, <1>3, <1>4, SixtyFourBits DEF Converts, Decoded, Values

-----------------------------------------------------------------------------
Meaning == (UNION {Identifiers[f] : f \in IdField}) \cup {Unknown}

\* h holds what the identifiers m were cast to.
Means(h, m) ==
    \A f \in IdField :
       m[f] # Unknown => m[f] \in Identifiers[f] /\ h[f] = Cast(m[f].value, i32)

\* The array w holds what the identifiers m were cast to, packed.
Carries(w, m) ==
    \A f \in IdField :
       m[f] # Unknown => m[f] \in Identifiers[f] /\ w[f] = Encoded(Cast(m[f].value, i32))

\* The meaning goes with the fields, in the object and on the wire.
IInv ==
    /\ HeaderTypeOK
    /\ meant \in [IdField -> Meaning]
    /\ wire.meant \in [IdField -> Meaning]
    /\ Means(header, meant)
    /\ wire.fields \in Seq(Object)
    /\ Carries(wire.fields, wire.meant)

LEMMA FieldTypes ==
    /\ \A f \in Field : TypeOf[f] \in IntType /\ Values(TypeOf[f]) \subseteq Int
    /\ TypeOf[timestamp] = u64
    /\ \A f \in IdField : f \in Field /\ TypeOf[f] = i32
    /\ timestamp \in Field \ IdField
    /\ i32 \in IntType /\ u64 \in IntType
<1>1. \A T \in IntType : Values(T) \subseteq Int
  <2> TAKE T \in IntType
  <2>1. T.range \in Nat /\ T.range \div 2 \in Nat
    BY Halves
  <2> QED
    BY <2>1 DEF Values, Smallest, Largest
<1>2. u16 \in IntType /\ u32 \in IntType /\ u64 \in IntType /\ i32 \in IntType
  BY DEF u16, u32, u64, i32, IntType
<1>3. \A f \in Field : TypeOf[f] \in {u16, u32, u64, i32}
  BY DEF Field, TypeOf
<1> QED
  BY <1>1, <1>2, <1>3 DEF Field, TypeOf, IdField, timestamp, message_id, message_type

\* A field that is set to a value of its type.
LEMMA SetOneField ==
    ASSUME HeaderTypeOK, NEW f \in Field, NEW v \in Values(TypeOf[f]),
           header' = [header EXCEPT ![f] = v]
    PROVE  /\ HeaderTypeOK'
           /\ header'[f] = v
           /\ \A g \in Field \ {f} : header'[g] = header[g]
  BY FieldTypes DEF HeaderTypeOK

LEMMA IdentifierCasts ==
    ASSUME NEW f \in IdField, NEW id \in Identifiers[f]
    PROVE  /\ id.type \in IntType /\ id.value \in Values(id.type) /\ id.value \in Int
           /\ Cast(id.value, i32) \in Values(i32)
           /\ id # Unknown /\ id \in Meaning
<1>1. id.type \in IntType /\ id.value \in Values(id.type) /\ id # Unknown
  BY ProgramAssumption
<1>2. id.type.range \in Nat /\ id.type.range \div 2 \in Nat
  BY <1>1, Halves
<1>3. id.value \in Int
  BY <1>1, <1>2 DEF Values, Smallest, Largest
<1> QED
  BY <1>1, <1>3, CastInRange, FieldTypes DEF Meaning

LEMMA NothingMeant == Nothing \in [IdField -> Meaning] /\ \A f \in IdField : Nothing[f] = Unknown
<1>1. Unknown \in Meaning
  BY DEF Meaning
<1>2. Nothing = [f \in IdField |-> Unknown]
  BY DEF Nothing
<1> QED
  BY <1>1, <1>2

LEMMA InitInv == Init => IInv
<1> SUFFICES ASSUME NEW t \in Times, header = Default(t),
                    wire = [fields |-> << >>, meant |-> Nothing], meant = Nothing
             PROVE  IInv
  BY DEF Init
<1>1. Cast(t, u64) \in Values(u64) /\ Cast(t, u64) \in Int
  BY ProgramAssumption, FieldTypes, CastInRange
<1>2. HeaderTypeOK
  <2>1. Range16 > 1 /\ Range16 \in Nat /\ Range32 > 0 /\ Range32 \in Nat
        /\ Range64 > 0 /\ Range64 \in Nat
        /\ Range32 \div 2 \in Nat /\ 2 * (Range32 \div 2) = Range32
    BY RangesAssumption
  <2>2. 0 \in Values(u16) /\ 1 \in Values(u16) /\ 0 \in Values(u32) /\ 0 \in Values(u64)
        /\ 0 \in Values(i32)
    BY <2>1 DEF Values, Smallest, Largest, u16, u32, u64, i32
  <2> QED
    BY <1>1, <2>2 DEF HeaderTypeOK, Default, Field, TypeOf, timestamp, version
<1>3. Nothing \in [IdField -> Meaning] /\ \A f \in IdField : Nothing[f] = Unknown
  BY NothingMeant
<1> QED
  BY <1>2, <1>3 DEF IInv, Means, Carries

LEMMA NextInv == IInv /\ [Next]_vars => IInv'
<1> SUFFICES ASSUME IInv, [Next]_vars PROVE IInv'
  OBVIOUS
<1> USE DEF IInv
<1>1. ASSUME NEW id \in Identifiers[message_id], NEW type \in Identifiers[message_type],
             NEW source \in Samples[source_id], NEW target \in Samples[target_id],
             NEW count \in Samples[message_cnt], NEW ver \in Samples[version],
             NEW flag \in Samples[flags], NEW t \in Times,
             Construct(id, type, source, target, count, ver, flag, t)
      PROVE  IInv'
  <2>1. Cast(t, u64) \in Values(u64)
    BY ProgramAssumption, FieldTypes, CastInRange
  <2>2. Cast(id.value, i32) \in Values(i32) /\ Cast(type.value, i32) \in Values(i32)
        /\ id \in Meaning /\ type \in Meaning
    BY IdentifierCasts DEF IdField
  <2>3. /\ source \in Values(TypeOf[source_id]) /\ target \in Values(TypeOf[target_id])
        /\ count \in Values(TypeOf[message_cnt]) /\ ver \in Values(TypeOf[version])
        /\ flag \in Values(TypeOf[flags])
    BY ProgramAssumption
       DEF Field, IdField, source_id, target_id, message_cnt, version, flags,
           message_id, message_type
  <2>4. header' = [f \in Field |-> header'[f]]
    BY <1>1 DEF Construct, HeaderTypeOK
  <2>5. /\ header'[timestamp] = Cast(t, u64) /\ header'[message_cnt] = count
        /\ header'[source_id] = source /\ header'[target_id] = target
        /\ header'[message_id] = Cast(id.value, i32)
        /\ header'[message_type] = Cast(type.value, i32)
        /\ header'[version] = ver /\ header'[flags] = flag
    BY <1>1 DEF Construct, HeaderTypeOK, Field, timestamp, message_cnt, source_id,
                target_id, message_id, message_type, version, flags
  <2>6. \A f \in Field : header'[f] \in Values(TypeOf[f])
    <3>1. TypeOf[timestamp] = u64 /\ TypeOf[message_id] = i32 /\ TypeOf[message_type] = i32
      BY FieldTypes DEF IdField
    <3>2. Field = {timestamp, message_cnt, source_id, target_id, message_id, message_type,
                   version, flags}
      BY DEF Field, timestamp, message_cnt, source_id, target_id, message_id,
             message_type, version, flags
    <3> QED
      BY <2>1, <2>2, <2>3, <2>5, <3>1, <3>2
  <2>7. HeaderTypeOK'
    BY <2>4, <2>6, FieldTypes DEF HeaderTypeOK
  <2>8. meant' = [f \in IdField |-> IF f = message_id THEN id ELSE type] /\ wire' = wire
    BY <1>1 DEF Construct
  <2> QED
    BY <2>2, <2>5, <2>7, <2>8 DEF Means, Carries, IdField, message_id, message_type
<1>2. ASSUME NEW f \in IdField, NEW id \in Identifiers[f], SetIdentifier(f, id)
      PROVE  IInv'
  <2>1. Cast(id.value, i32) \in Values(TypeOf[f]) /\ f \in Field /\ id \in Meaning
    BY IdentifierCasts, FieldTypes
  <2>2. /\ HeaderTypeOK' /\ header'[f] = Cast(id.value, i32)
        /\ \A g \in Field \ {f} : header'[g] = header[g]
    BY <1>2, <2>1, SetOneField DEF SetIdentifier
  <2> QED
    BY <1>2, <2>1, <2>2, FieldTypes DEF SetIdentifier, Means, Carries
<1>3. ASSUME NEW f \in Field \ IdField, NEW v \in Values(TypeOf[f]), SetField(f, v)
      PROVE  IInv'
  <2>1. /\ HeaderTypeOK'
        /\ \A g \in Field \ {f} : header'[g] = header[g]
    BY <1>3, SetOneField DEF SetField
  <2> QED
    BY <1>3, <2>1, FieldTypes DEF SetField, Means, Carries
<1>4. ASSUME NEW t \in Times, UpdateTimestamp(t)
      PROVE  IInv'
  <2>1. Cast(t, u64) \in Values(TypeOf[timestamp])
    BY ProgramAssumption, FieldTypes, CastInRange
  <2> QED
    BY <1>3, <1>4, <2>1, FieldTypes DEF UpdateTimestamp
<1>5. ASSUME NEW w \in Foreign, Arrive(w)
      PROVE  IInv'
  BY <1>5, NothingMeant, ProgramAssumption DEF Arrive, HeaderTypeOK, Means, Carries
<1>6. ASSUME Pack
      PROVE  IInv'
  <2>1. \A f \in Field : Encoded(header[f]) \in Object
    BY FieldTypes, EncodeDecode DEF HeaderTypeOK
  <2>2. wire'.fields = [f \in Field |-> Encoded(header[f])] /\ wire'.meant = meant
    BY <1>6 DEF Pack, Packed
  <2>3. wire'.fields \in Seq(Object)
    BY <2>1, <2>2 DEF Field
  <2>4. Carries(wire.fields, wire.meant)'
    BY <2>2, FieldTypes DEF Carries, Means
  <2> QED
    BY <1>6, <2>2, <2>3, <2>4 DEF Pack, HeaderTypeOK, Means
<1>7. ASSUME Unpack
      PROVE  IInv'
  <2>1. header' = [f \in Field |-> IF f \in Assigned(wire.fields)
                                   THEN Decoded(wire.fields[f]) ELSE header[f]]
    BY <1>7 DEF Unpack, Unpacked
  <2>2. ASSUME NEW f \in Assigned(wire.fields)
        PROVE  f \in Field /\ Decoded(wire.fields[f]) \in Values(TypeOf[f])
    <3>1. f \in Field /\ wire.fields[f] \in Object /\ Converts(wire.fields[f], TypeOf[f])
      BY DEF Assigned, Field
    <3> QED
      BY <3>1, FieldTypes, DecodedInRange
  <2>3. HeaderTypeOK'
    BY <2>1, <2>2, FieldTypes DEF HeaderTypeOK
  <2>4. /\ meant' \in [IdField -> Meaning]
        /\ \A f \in IdField : meant'[f] = IF f \in Assigned(wire.fields)
                                          THEN wire.meant[f] ELSE meant[f]
        /\ wire' = wire
    BY <1>7 DEF Unpack
  <2>5. ASSUME NEW f \in IdField, meant'[f] # Unknown
        PROVE  meant'[f] \in Identifiers[f] /\ header'[f] = Cast(meant'[f].value, i32)
    <3>1. CASE f \in Assigned(wire.fields)
      <4>1. /\ wire.meant[f] = meant'[f] /\ meant'[f] \in Identifiers[f]
            /\ wire.fields[f] = Encoded(Cast(meant'[f].value, i32))
        BY <2>4, <2>5, <3>1 DEF Carries
      <4>2. Decoded(wire.fields[f]) = Cast(meant'[f].value, i32)
        BY <4>1, IdentifierCasts, FieldTypes, EncodeDecode
      <4> QED
        BY <2>1, <3>1, <4>1, <4>2, FieldTypes
    <3>2. CASE f \notin Assigned(wire.fields)
      BY <2>1, <2>4, <2>5, <3>2, FieldTypes DEF Means
    <3> QED
      BY <3>1, <3>2
  <2> QED
    BY <2>3, <2>4, <2>5 DEF Means
<1>8. CASE UNCHANGED vars
  BY <1>8 DEF vars, HeaderTypeOK, Means, Carries
<1>9. \A f \in Field \ IdField : Samples[f] \subseteq Values(TypeOf[f])
  BY ProgramAssumption
<1> QED
  BY <1>1, <1>2, <1>3, <1>4, <1>5, <1>6, <1>7, <1>8, <1>9 DEF Next

LEMMA Invariant == Spec => []IInv
  BY InitInv, NextInv, PTL DEF Spec

\* Every field of every header is in the range of its type, whatever identifiers a
\* program casts and whatever integers a peer sends (Header.hpp, unpack).
THEOREM HeaderTypeCorrect == Spec => []HeaderTypeOK
<1>1. IInv => HeaderTypeOK
  BY DEF IInv
<1> QED
  BY <1>1, Invariant, PTL

\* For integers of any widths, an identifier is read back exactly if its type is not
\* wider than the field or it sign-extends from the field, from the header it was set
\* in and from any that has unpacked it (setMessageId, getMessageId, pack, unpack).
THEOREM IdentifiersAlwaysSurvive == Spec => []IdentifiersSurvive
<1>1. IInv => IdentifiersSurvive
  <2> SUFFICES ASSUME IInv, NEW f \in IdField, meant[f] # Unknown
               PROVE  Get(header, f, meant[f].type) = meant[f].value <=>
                         \/ meant[f].type.range <= Range32
                         \/ meant[f].value \in Values(i32)
                         \/ /\ ~meant[f].type.signed
                            /\ meant[f].value - meant[f].type.range \in Values(i32)
    BY DEF IdentifiersSurvive
  <2>1. meant[f] \in Identifiers[f] /\ header[f] = Cast(meant[f].value, i32)
    BY DEF IInv, Means
  <2>2. meant[f].type \in IntType /\ meant[f].value \in Values(meant[f].type)
    BY <2>1, IdentifierCasts
  <2>3. Get(header, f, meant[f].type) = Cast(Cast(meant[f].value, i32), meant[f].type)
    BY <2>1 DEF Get
  <2> QED
    BY <2>2, <2>3, CastThereAndBack
<1> QED
  BY <1>1, Invariant, PTL

\* For integers of any widths, a header that was packed, in whichever kinds of
\* MessagePack integer its values take, is unpacked completely and without an
\* exception, by any object (pack, unpack).
THEOREM HeadersAlwaysArrive == Spec => []HeadersArrive
<1>1. HeaderTypeOK => HeadersArrive
  <2> SUFFICES ASSUME HeaderTypeOK, NEW w, w = Packed(header)
               PROVE  ~Throws(w) /\ \A h \in {header, Default(0)} : Unpacked(h, w) = header
    BY DEF HeadersArrive
  <2>1. w = [f \in 1 .. 8 |-> Encoded(header[f])]
    BY DEF Packed, Field
  <2>2. Len(w) = 8
    BY <2>1
  <2>3. ASSUME NEW f \in Field
        PROVE  Converts(w[f], TypeOf[f]) /\ Decoded(w[f]) = header[f]
    BY <2>1, FieldTypes, EncodeDecode DEF HeaderTypeOK, Field
  <2>4. Assigned(w) = Field
    BY <2>2, <2>3 DEF Assigned, Field
  <2>5. header = [f \in Field |-> header[f]]
    BY DEF HeaderTypeOK
  <2>6. \A h \in {header, Default(0)} : Unpacked(h, w) = header
    BY <2>3, <2>4, <2>5 DEF Unpacked
  <2> QED
    BY <2>2, <2>4, <2>6 DEF Throws
<1> QED
  BY <1>1, HeaderTypeCorrect, PTL
=============================================================================
