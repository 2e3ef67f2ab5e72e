--------------------------- MODULE MCMessageHeader ---------------------------
(***************************************************************************)
(* A small instance of MessageHeader for TLC: integers of 2, 3 and 4 bits  *)
(* in the place of 16, 32 and 64.                                          *)
(***************************************************************************)
EXTENDS MessageHeader

Id(v, T) == [value |-> v, type |-> T]

\* The ends of each type, and identifiers beyond the ends of int32_t.
MCIdentifiers ==
    [f \in IdField |->
        IF f = message_id
        THEN {Id(Range16 - 1, u16), Id(Range32 - 1, u32), Id(-4, i32), Id(5, u64),
              Id(Range64 - 1, u64), Id(-8, i64)}
        ELSE {Id(Range32 - 1, u32)}]

MCSamples == <<{0}, {0}, {Range32 - 1}, {0}, {}, {}, {1}, {0}>>

\* Before and after 1970.
MCTimes == {-1, 1}

MCLargest == [f \in Field |-> Encoded(Largest(TypeOf[f]))]

\* A short array, one that is too long, and, in the first, a middle and the last field,
\* integers that are out of range above or below, and an object of another kind.
MCForeign == {<<Encoded(0), Encoded(0)>>, MCLargest \o <<Encoded(0)>>,
              [MCLargest EXCEPT ![1] = Encoded(-1)],
              [MCLargest EXCEPT ![5] = Encoded(-4), ![6] = Encoded(4)],
              [MCLargest EXCEPT ![5] = Encoded(-5)],
              [MCLargest EXCEPT ![8] = Encoded(Range16)],
              [MCLargest EXCEPT ![8] = [kind |-> "other", via |-> 0]]}
=============================================================================
