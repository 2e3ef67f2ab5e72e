---------------------------- MODULE MessageHeader ----------------------------
(***************************************************************************)
(* MessageHeader: eight integer fields of fixed widths, the setters that   *)
(* cast the program's identifiers, and the MessagePack array in which a    *)
(* header travels.  A MessagePack integer carries no width, only whether   *)
(* it is negative, and the peer that wrote a received array may be another *)
(* implementation: as<T>() converts by the kind of the integer.            *)
(*                                                                         *)
(* One object stands for both ends: it packs a header, and what it is when *)
(* it unpacks one is whatever calls in between have made of it.            *)
(***************************************************************************)
EXTENDS Integers, Sequences

CONSTANTS Range16, Range32, Range64,   \* 2^16, 2^32, 2^64, or smaller
          Identifiers,   \* Identifiers[f]: those of a program, [value, type] records
          Samples,       \* Samples[f]: what the program sets the field f to
          Times,         \* what the system clock shows, in milliseconds
          Foreign,       \* the arrays that other peers send
          Unknown        \* no setter gave the field, or a peer did

\* An integer type of the program: how many values it has and whether it is signed.
\* enum types are their underlying types.
IntType == [range : {Range16, Range32, Range64}, signed : BOOLEAN]

Smallest(T) == IF T.signed THEN -(T.range \div 2) ELSE 0

Largest(T) == (IF T.signed THEN T.range \div 2 ELSE T.range) - 1

Values(T) == Smallest(T) .. Largest(T)

u16 == [range |-> Range16, signed |-> FALSE]
u32 == [range |-> Range32, signed |-> FALSE]
u64 == [range |-> Range64, signed |-> FALSE]
i32 == [range |-> Range32, signed |-> TRUE]
i64 == [range |-> Range64, signed |-> TRUE]

\* static_cast<T>(v): modulo the range of T, into the values of T.
Cast(v, T) ==
    LET r == v % T.range
    IN  IF T.signed /\ r >= T.range \div 2 THEN r - T.range ELSE r

\* msgpack::object.  Both kinds of integer have 64 bits, which u64 and i64 share; the
\* parser calls an integer negative if it is, in however many bytes it was packed.
Object == {o \in [kind : {"POSITIVE_INTEGER", "NEGATIVE_INTEGER", "other"}, via : Values(u64)] :
              o.kind = "NEGATIVE_INTEGER" => Cast(o.via, i64) < 0}

\* The fields in the order in which they are packed.
timestamp == 1
message_cnt == 2
source_id == 3
target_id == 4
message_id == 5
message_type == 6
version == 7
flags == 8

Field == 1 .. 8

TypeOf == <<u64, u64, u32, u32, i32, i32, u16, u16>>

IdField == {message_id, message_type}

ASSUME RangesAssumption ==
    /\ \A r \in {Range16, Range32, Range64} : r \in Nat /\ r > 0 /\ 2 * (r \div 2) = r
    /\ 2 * Range16 <= Range32 /\ 2 * Range32 <= Range64 /\ Range64 % Range32 = 0

ASSUME ProgramAssumption ==
    /\ \A f \in IdField : /\ Unknown \notin Identifiers[f]
                         /\ \A id \in Identifiers[f] :
                               id.type \in IntType /\ id.value \in Values(id.type)
    /\ \A f \in Field \ IdField : Samples[f] \subseteq Values(TypeOf[f])
    /\ Times \subseteq Int
    /\ Foreign \subseteq Seq(Object)

VARIABLES header,   \* header[f]: the value of the field f
          wire,     \* the array last packed or received, with its meaning
          meant,    \* history: the identifier an id field was last set to
          threw     \* whether the last call threw

vars == <<header, wire, meant, threw>>

HeaderTypeOK == header \in [Field -> Int] /\ \A f \in Field : header[f] \in Values(TypeOf[f])

-----------------------------------------------------------------------------
\* getMessageId<T>(), getMessageType<T>()
Get(h, f, T) == Cast(h[f], T)

\* Identifier 0, version 1, and the time of the clock.
Default(t) == [f \in Field |-> CASE f = timestamp -> Cast(t, u64)
                                 [] f = version   -> 1
                                 [] OTHER         -> 0]

\* pack() of an integer: the kind follows from the sign, not from the type.
Encoded(v) ==
    [kind |-> IF v < 0 THEN "NEGATIVE_INTEGER" ELSE "POSITIVE_INTEGER", via |-> Cast(v, u64)]

\* A mutant of Packed: the id fields are packed as unsigned integers.
PackedUnsigned(h) ==
    [f \in Field |-> Encoded(IF f \in IdField THEN Cast(h[f], u32) ELSE h[f])]

\* The array that pack() writes.
Packed(h) == [f \in Field |-> Encoded(h[f])]

\* Whether as<T>() of o returns; it throws otherwise.  Each kind of integer has one
\* bound to check, and an unsigned T takes no negative integer at all.
Converts(o, T) ==
    \/ o.kind = "POSITIVE_INTEGER" /\ o.via <= Largest(T)
    \/ o.kind = "NEGATIVE_INTEGER" /\ T.signed /\ Cast(o.via, i64) >= Smallest(T)

Decoded(o) == IF o.kind = "NEGATIVE_INTEGER" THEN Cast(o.via, i64) ELSE o.via

\* The fields that unpack() assigns before as<>() throws; none from a shorter array.
Assigned(w) ==
    IF Len(w) < 8 THEN {} ELSE {f \in Field : \A g \in 1 .. f : Converts(w[g], TypeOf[g])}

Throws(w) == Len(w) >= 8 /\ Assigned(w) # Field

\* A mutant of Unpacked: the integers are read without a check.
UnpackedUnchecked(h, w) == [f \in Field |-> IF Len(w) < 8 THEN h[f] ELSE Decoded(w[f])]

Unpacked(h, w) == [f \in Field |-> IF f \in Assigned(w) THEN Decoded(w[f]) ELSE h[f]]

-----------------------------------------------------------------------------
Nothing == [f \in IdField |-> Unknown]

\* The constructor for a message; without arguments, it is Default.
Construct(id, type, source, target, count, ver, flag, t) ==
    /\ header' = [header EXCEPT ![timestamp]    = Cast(t, u64),
                                ![message_cnt]  = count,
                                ![source_id]    = source,
                                ![target_id]    = target,
                                ![message_id]   = Cast(id.value, i32),
                                ![message_type] = Cast(type.value, i32),
                                ![version]      = ver,
                                ![flags]        = flag]
    /\ meant' = [f \in IdField |-> IF f = message_id THEN id ELSE type]
    /\ threw' = FALSE
    /\ UNCHANGED wire

\* A mutant of SetIdentifier: the identifier is clamped to int32_t, not cast.
SetIdentifierClamped(f, id) ==
    /\ header' = [header EXCEPT ![f] = IF id.value \in Values(i32) THEN id.value
                                       ELSE Range32 \div 2 - 1]
    /\ meant' = [meant EXCEPT ![f] = id]
    /\ threw' = FALSE
    /\ UNCHANGED wire

\* setMessageId(), setMessageType().
SetIdentifier(f, id) ==
    /\ header' = [header EXCEPT ![f] = Cast(id.value, i32)]
    /\ meant' = [meant EXCEPT ![f] = id]
    /\ threw' = FALSE
    /\ UNCHANGED wire

\* The other setters take the type of their field.
SetField(f, v) ==
    /\ header' = [header EXCEPT ![f] = v]
    /\ threw' = FALSE
    /\ UNCHANGED <<wire, meant>>

UpdateTimestamp(t) == SetField(timestamp, Cast(t, u64))

Pack ==
    /\ wire' = [fields |-> Packed(header), meant |-> meant]
    /\ threw' = FALSE
    /\ UNCHANGED <<header, meant>>

\* Another peer's array takes the place of the one that was packed.
Arrive(w) ==
    /\ wire' = [fields |-> w, meant |-> Nothing]
    /\ UNCHANGED <<header, meant, threw>>

Unpack ==
    /\ header' = Unpacked(header, wire.fields)
    /\ meant' = [f \in IdField |-> IF f \in Assigned(wire.fields)
                                   THEN wire.meant[f] ELSE meant[f]]
    /\ threw' = Throws(wire.fields)
    /\ UNCHANGED wire

\* Nothing has been packed: an empty array.
Init ==
    /\ \E t \in Times : header = Default(t)
    /\ wire = [fields |-> << >>, meant |-> Nothing]
    /\ meant = Nothing
    /\ threw = FALSE

Next ==
    \/ \E id \in Identifiers[message_id], type \in Identifiers[message_type],
          source \in Samples[source_id], target \in Samples[target_id],
          count \in Samples[message_cnt], ver \in Samples[version],
          flag \in Samples[flags], t \in Times :
             Construct(id, type, source, target, count, ver, flag, t)
    \/ \E f \in IdField : \E id \in Identifiers[f] : SetIdentifier(f, id)
    \/ \E f \in Field \ IdField : \E v \in Samples[f] : SetField(f, v)
    \/ \E t \in Times : UpdateTimestamp(t)
    \/ \E w \in Foreign : Arrive(w)
    \/ Pack \/ Unpack

Spec == Init /\ [][Next]_vars

-----------------------------------------------------------------------------
\* Which identifiers a program gets back, from the header it set them in or from one
\* unpacked after them, a failed unpack() included: all of a type of at most 32 bits,
\* signed or not; of a wider type those that sign-extend from 32 bits, and no other.
\* A uint64_t identifier above INT32_MAX is lost, except the topmost 2^31
\* (setMessageId, getMessageId, pack, unpack).
IdentifiersSurvive ==
    \A f \in IdField :
       meant[f] # Unknown =>
          LET v == meant[f].value
              T == meant[f].type
          IN  Get(header, f, T) = v <=> \/ T.range <= Range32
                                        \/ v \in Values(i32)
                                        \/ ~T.signed /\ v - T.range \in Values(i32)

\* What pack() writes, unpack() takes without an exception and to the last field, in
\* whatever state setters, casts and failed calls have left the header: each integer
\* is of the kind, and in the bounds, that its field's type converts, and its 64 bits
\* read as what they were written as (pack, unpack).
HeadersArrive ==
    LET w == Packed(header)
    IN  ~Throws(w) /\ \A h \in {header, Default(0)} : Unpacked(h, w) = header
=============================================================================
