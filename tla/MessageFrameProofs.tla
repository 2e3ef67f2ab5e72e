-------------------------- MODULE MessageFrameProofs --------------------------
(***************************************************************************)
(* Proofs about MessageFrame: whatever frames are filled, moved, cleared,  *)
(* serialized and deserialized from intact and from damaged buffers, in    *)
(* any order, a frame stays usable, an intact buffer carries its content   *)
(* unchanged, and a failing deserialize() stops between two parts.         *)
(***************************************************************************)
EXTENDS MessageFrameProps, HybridContainerProofs

\* The frames that operations other than using a moved-from frame can meet.
ValidFrame == {fr \in FrameState : Fit(fr.params)}

\* What a buffer can parse to, as far as deserialize() looks.
Item == [isPair : BOOLEAN, name : Name \cup {Bad}, isBin : BOOLEAN,
         data : Body \cup {Empty}, fits : BOOLEAN]

Message == [parses      : BOOLEAN,
            header      : Seq(Field \cup {Bad}),
            params      : [isMap : BOOLEAN, entries : Seq(Entry), decodable : Nat],
            attachments : [isArray : BOOLEAN, items : Seq(Item)]]

\* A message has no more header fields than there are, and decodes no more parameters
\* than it has.
Sane(m) == /\ m \in Message
           /\ Len(m.header) <= FIELDS
           /\ m.params.decodable <= Len(m.params.entries)

\* The buffer was made from a valid frame with a store, whose content is sent.
Sent(g, t) == /\ ~Hollow(g.params)
              /\ t \in Traversals(g.params)
              /\ buffer = PackedFrame(g, t)
              /\ sent = Content(g)

FrameInv ==
    /\ frames \in [Frame -> ValidFrame \cup {Absent}]
    /\ buffer = NoBuffer \/ \E g \in ValidFrame, t \in Seq(Entry) : Sent(g, t)

-----------------------------------------------------------------------------
(***************************************************************************)
(* The attachments: which items are taken, and in which order.             *)
(***************************************************************************)

\* Rank counts the taken indices up to i, so it grows by one at each of them.
LEMMA RankStep ==
    ASSUME NEW L \in Nat, NEW taken \in SUBSET (1 .. L), NEW i \in 1 .. L
    PROVE  /\ Rank(taken, i - 1) \in Nat
           /\ Rank(taken, i) = Rank(taken, i - 1) + (IF i \in taken THEN 1 ELSE 0)
<1> DEFINE before == {j \in taken : j <= i - 1}
           upto == {j \in taken : j <= i}
<1>1. IsFiniteSet(before)
  <2>1. IsFiniteSet(1 .. L)
    BY FS_Interval
  <2>2. taken \subseteq 1 .. L
    OBVIOUS
  <2>3. before \subseteq 1 .. L
    BY <2>2, Zenon
  <2> QED BY <2>1, <2>3, FS_Subset
<1>2. Cardinality(before) \in Nat
  BY <1>1, FS_CardinalityType
<1>3. CASE i \in taken
  <2>1. \A j \in taken : j <= i <=> j <= i - 1 \/ j = i
    <3> SUFFICES ASSUME NEW j \in taken PROVE j <= i <=> j <= i - 1 \/ j = i
      OBVIOUS
    <3>1. j \in 1 .. L
      OBVIOUS
    <3> QED BY <3>1
  <2>2. upto = before \cup {i} /\ i \notin before
    <3>1. ~(i <= i - 1) /\ i <= i
      OBVIOUS
    <3>2. upto = before \cup {i}
      BY <1>3, <2>1, <3>1, Zenon
    <3>3. i \notin before
      BY <3>1, Zenon
    <3> QED BY <3>2, <3>3
  <2>3. Cardinality(upto) = Cardinality(before) + 1
    BY <1>1, <2>2, FS_AddElement
  <2> QED BY <1>2, <1>3, <2>3 DEF Rank
<1>4. CASE i \notin taken
  <2>1. \A j \in taken : j <= i <=> j <= i - 1
    <3> SUFFICES ASSUME NEW j \in taken PROVE j <= i <=> j <= i - 1
      OBVIOUS
    <3>1. j \in 1 .. L /\ j # i
      BY <1>4
    <3> QED BY <3>1
  <2>2. upto = before
    BY <2>1, Zenon
  <2> QED BY <1>2, <1>4, <2>2 DEF Rank
<1> QED BY <1>3, <1>4

LEMMA RankEnds ==
    ASSUME NEW L \in Nat, NEW taken \in SUBSET (1 .. L)
    PROVE  Rank(taken, 0) = 0 /\ Rank(taken, L) = Cardinality(taken)
<1>1. \A j \in taken : ~(j <= 0) /\ j <= L
  <2> SUFFICES ASSUME NEW j \in taken PROVE ~(j <= 0) /\ j <= L
    OBVIOUS
  <2>1. j \in 1 .. L
    OBVIOUS
  <2> QED BY <2>1
<1>2. {j \in taken : j <= 0} = {} /\ {j \in taken : j <= L} = taken
  BY <1>1, Zenon
<1> QED BY <1>2, FS_EmptySet DEF Rank

LEMMA TakenFinite ==
    ASSUME NEW L \in Nat, NEW taken \in SUBSET (1 .. L)
    PROVE  IsFiniteSet(taken) /\ Cardinality(taken) \in Nat
<1>1. IsFiniteSet(1 .. L) /\ taken \subseteq 1 .. L
  BY FS_Interval
<1>2. IsFiniteSet(taken)
  BY <1>1, FS_Subset
<1> QED BY <1>2, FS_CardinalityType

\* There is a k-th taken index for every k up to their number: the least index whose
\* rank reaches k is taken, and its rank is k.
LEMMA KthExists ==
    ASSUME NEW L \in Nat, NEW taken \in SUBSET (1 .. L), NEW k \in 1 .. Cardinality(taken)
    PROVE  Kth(taken, k) \in taken /\ Rank(taken, Kth(taken, k)) = k
<1> DEFINE reached == {i \in 0 .. L : Rank(taken, i) >= k}
<1>1. Cardinality(taken) \in Nat
  BY TakenFinite
<1>2. L \in reached
  BY <1>1, RankEnds
<1>3. PICK i \in reached : \A j \in reached : ~(<<j, i>> \in OpToRel(<, Nat))
  <2>1. reached \subseteq Nat
    OBVIOUS
  <2> QED BY <1>2, <2>1, NatLessThanWellFounded, WFMin
<1>4. \A j \in reached : ~(j < i)
  <2> SUFFICES ASSUME NEW j \in reached, j < i PROVE FALSE
    OBVIOUS
  <2>1. <<j, i>> \in OpToRel(<, Nat)
    BY DEF OpToRel
  <2> QED BY <1>3, <2>1
<1>5. i \in 1 .. L
  <2>1. Rank(taken, 0) = 0
    BY RankEnds
  <2> QED BY <1>1, <2>1
<1>6. Rank(taken, i - 1) \in Nat /\ Rank(taken, i - 1) < k /\ Rank(taken, i) >= k
  <2>1. Rank(taken, i - 1) \in Nat
    BY <1>5, RankStep
  <2>2. i - 1 \notin reached /\ i - 1 \in 0 .. L
    BY <1>4, <1>5
  <2> QED BY <1>1, <2>1, <2>2
<1> HIDE DEF reached
<1>7. i \in taken /\ Rank(taken, i) = k
  BY <1>1, <1>5, <1>6, RankStep
<1> QED BY <1>7 DEF Kth

\* When every item is taken, the k-th of them is item k.
LEMMA KthOfAll ==
    ASSUME NEW L \in Nat, NEW k \in 1 .. L
    PROVE  Kth(1 .. L, k) = k
<1>1. \A i \in 1 .. L : Rank(1 .. L, i) = i
  <2> SUFFICES ASSUME NEW i \in 1 .. L PROVE Rank(1 .. L, i) = i
    OBVIOUS
  <2>1. {j \in 1 .. L : j <= i} = 1 .. i
    OBVIOUS
  <2>2. Cardinality(1 .. i) = i
    BY FS_Interval
  <2> QED BY <2>1, <2>2 DEF Rank
<1>2. Cardinality(1 .. L) = L
  BY FS_Interval
<1>3. Kth(1 .. L, k) \in 1 .. L /\ Rank(1 .. L, Kth(1 .. L, k)) = k
  BY <1>2, KthExists
<1> QED BY <1>1, <1>3

\* Whatever is received, the attachments have names that converted.
LEMMA AttachmentsType ==
    ASSUME NEW obj \in [isArray : BOOLEAN, items : Seq(Item)]
    PROVE  /\ AttachmentsUnpacked(obj).attachments \in Seq(Attachment)
           /\ AttachmentsUnpacked(obj).ok \in BOOLEAN
<1> DEFINE items == obj.items
           taken == Taken(items)
           n == Cardinality(taken)
           new == [k \in 1 .. n |-> Received(items[Kth(taken, k)])]
<1>1. DOMAIN items = 1 .. Len(items) /\ Len(items) \in Nat /\ items \in Seq(Item)
  BY LenProperties
<1>2. taken \in SUBSET (1 .. Len(items))
  BY <1>1 DEF Taken
<1>3. n \in Nat
  BY <1>1, <1>2, TakenFinite
<1>4. ASSUME NEW i \in taken PROVE Received(items[i]) \in Attachment
  <2>1. i \in DOMAIN items /\ items[i].isPair /\ \A j \in Nameless(items) : i < j
    BY DEF Taken
  <2>2. items[i] \in Item /\ i \in Nat
    BY <1>1, <2>1, ElementOfSeq
  <2>3. items[i].name # Bad
    <3> SUFFICES ASSUME items[i].name = Bad PROVE FALSE
      OBVIOUS
    <3>1. i \in Nameless(items)
      BY <2>1 DEF Nameless
    <3> QED BY <2>1, <2>2, <3>1
  <2> HIDE DEF items
  <2> QED BY <2>2, <2>3 DEF Item, Received, Attachment
<1>5. new \in [1 .. n -> Attachment]
  <2> SUFFICES ASSUME NEW k \in 1 .. n PROVE Received(items[Kth(taken, k)]) \in Attachment
    OBVIOUS
  <2> HIDE DEF items, taken
  <2> QED BY <1>1, <1>2, <1>4, KthExists
<1>6. new \in Seq(Attachment)
  <2> HIDE DEF new
  <2> QED BY <1>3, <1>5, SeqDef
<1>7. CASE obj.isArray
  <2>1. /\ AttachmentsUnpacked(obj).attachments = new
        /\ AttachmentsUnpacked(obj).ok = (Nameless(items) \cup Bodiless(items) = {})
    BY <1>7, Zenon DEF AttachmentsUnpacked
  <2> HIDE DEF new
  <2> QED BY <1>6, <2>1
<1>8. CASE ~obj.isArray
  BY <1>8, EmptySeq DEF AttachmentsUnpacked
<1> QED BY <1>7, <1>8

\* Attachments come back as they were packed, and none of them throws.
LEMMA AttachmentsRoundTrip ==
    ASSUME NEW s \in Seq(Attachment)
    PROVE  LET obj == [isArray |-> TRUE,
                       items   |-> [i \in DOMAIN s |-> PackedAttachment(s[i])]]
           IN  /\ obj \in [isArray : BOOLEAN, items : Seq(Item)]
               /\ AttachmentsUnpacked(obj) = [attachments |-> s, ok |-> TRUE]
<1> DEFINE items == [i \in DOMAIN s |-> PackedAttachment(s[i])]
           obj == [isArray |-> TRUE, items |-> items]
           L == Len(s)
<1>1. DOMAIN s = 1 .. L /\ L \in Nat /\ s \in [1 .. L -> Attachment]
  BY LenProperties
<1>2. ASSUME NEW i \in 1 .. L
      PROVE  /\ items[i] \in Item /\ items[i].isPair /\ items[i].isBin /\ items[i].fits
             /\ items[i].name # Bad
             /\ Received(items[i]) = s[i]
  <2>1. s[i] \in Attachment
    BY <1>1
  <2>2. items[i] = PackedAttachment(s[i])
    BY <1>1
  <2> HIDE DEF items
  <2> QED BY <2>1, <2>2, BadAssumption DEF Attachment, PackedAttachment, Item, Received
<1>3. items \in [1 .. L -> Item] /\ DOMAIN items = 1 .. L
  <2>1. DOMAIN items = 1 .. L
    BY <1>1
  <2> QED BY <1>1, <1>2, <2>1
<1>4. items \in Seq(Item)
  <2> HIDE DEF items, L
  <2> QED BY <1>1, <1>3, SeqDef
<1> HIDE DEF items
<1>5. Nameless(items) = {} /\ Bodiless(items) = {}
  BY <1>2, <1>3 DEF Nameless, Bodiless
<1>6. Taken(items) = 1 .. L
  BY <1>2, <1>3, <1>5 DEF Taken
<1>7. Cardinality(Taken(items)) = L
  BY <1>1, <1>6, FS_Interval
<1>8. [k \in 1 .. L |-> Received(items[Kth(1 .. L, k)])] = s
  <2>1. \A k \in 1 .. L : Received(items[Kth(1 .. L, k)]) = s[k]
    BY <1>1, <1>2, KthOfAll
  <2> QED BY <1>1, <2>1
<1>9. AttachmentsUnpacked(obj) = [attachments |-> s, ok |-> TRUE]
  <2>1. obj.isArray /\ obj.items = items
    OBVIOUS
  <2>2. AttachmentsUnpacked(obj) =
           [attachments |-> [k \in 1 .. Cardinality(Taken(items)) |->
                                Received(items[Kth(Taken(items), k)])],
            ok          |-> Nameless(items) \cup Bodiless(items) = {}]
    BY <2>1, Zenon DEF AttachmentsUnpacked
  <2>3. (Nameless(items) \cup Bodiless(items) = {}) = TRUE
    BY <1>5
  <2> QED BY <1>6, <1>7, <1>8, <2>2, <2>3, Zenon
<1> QED BY <1>4, <1>9 DEF items

-----------------------------------------------------------------------------
(***************************************************************************)
(* The header and the parameters.                                          *)
(***************************************************************************)

LEMMA SameFunction ==
    ASSUME NEW S, NEW T, NEW f \in [S -> T], NEW g \in [S -> T], \A x \in S : f[x] = g[x]
    PROVE  f = g
OBVIOUS

\* A header keeps its type.  unpack() that does not throw has taken over every field,
\* or ignored an array that is too short.
LEMMA HeaderFacts ==
    ASSUME NEW header \in [1 .. FIELDS -> Field], NEW fields \in Seq(Field \cup {Bad}),
           Len(fields) <= FIELDS
    PROVE  LET h == HeaderUnpacked(header, fields)
           IN  /\ h.header \in [1 .. FIELDS -> Field]
               /\ h.ok \in BOOLEAN
               /\ h.ok => \/ h.header = fields
                          \/ Len(fields) < FIELDS /\ h.header = header
               /\ fields \in [1 .. FIELDS -> Field] => h.ok /\ h.header = fields
<1>1. FIELDS \in Nat /\ FIELDS >= 1 /\ Len(fields) \in Nat
  BY FieldsAssumption, LenProperties
<1>2. fields \in [1 .. Len(fields) -> Field \cup {Bad}]
  BY LenProperties
<1>3. CASE Len(fields) < FIELDS
  <2>1. HeaderUnpacked(header, fields) = [header |-> header, ok |-> TRUE]
    BY <1>3 DEF HeaderUnpacked
  <2>2. fields \notin [1 .. FIELDS -> Field]
    <3> SUFFICES ASSUME fields \in [1 .. FIELDS -> Field] PROVE FALSE
      OBVIOUS
    <3>1. DOMAIN fields = 1 .. FIELDS /\ DOMAIN fields = 1 .. Len(fields)
      BY <1>2
    <3> QED BY <1>1, <1>3, <3>1
  <2> QED BY <1>3, <2>1, <2>2
<1>4. CASE ~(Len(fields) < FIELDS)
  <2> DEFINE throws(i) == \E j \in 1 .. i : fields[j] = Bad
             new == [i \in 1 .. FIELDS |-> IF throws(i) THEN header[i] ELSE fields[i]]
  <2>0. Len(fields) = FIELDS
    BY <1>1, <1>4
  <2>1. fields \in [1 .. FIELDS -> Field \cup {Bad}]
    BY <1>2, <2>0
  <2>2. HeaderUnpacked(header, fields) = [header |-> new, ok |-> ~throws(FIELDS)]
    BY <1>4 DEF HeaderUnpacked
  <2>3. ASSUME NEW i \in 1 .. FIELDS PROVE new[i] \in Field
    <3>1. i \in 1 .. i
      BY <1>1
    <3>2. ~throws(i) => fields[i] # Bad
      BY <3>1, Zenon
    <3>3. fields[i] \in Field \cup {Bad}
      BY <2>1
    <3> QED BY <3>2, <3>3
  <2>4. new \in [1 .. FIELDS -> Field]
    BY <2>3
  <2>5. ASSUME ~throws(FIELDS) PROVE new = fields
    <3>1. ASSUME NEW i \in 1 .. FIELDS PROVE ~throws(i)
      <4>1. 1 .. i \subseteq 1 .. FIELDS
        BY <1>1
      <4> QED BY <2>5, <4>1, Zenon
    <3>2. \A i \in 1 .. FIELDS : new[i] = fields[i]
      BY <3>1
    <3>3. new \in [1 .. FIELDS -> Field \cup {Bad}]
      BY <2>4
    <3> QED BY <2>1, <3>2, <3>3, SameFunction, Zenon
  <2>6. ASSUME fields \in [1 .. FIELDS -> Field] PROVE ~throws(FIELDS)
    BY <2>6, BadAssumption
  <2> HIDE DEF throws, new
  <2>7. throws(FIELDS) \in BOOLEAN
    BY Zenon DEF throws
  <2> DEFINE h == HeaderUnpacked(header, fields)
  <2>8. h.header = new /\ (h.ok <=> ~throws(FIELDS)) /\ h.ok \in BOOLEAN
    <3>1. CASE throws(FIELDS)
      <4>1. h = [header |-> new, ok |-> FALSE]
        BY <2>2, <3>1, Zenon
      <4> HIDE DEF h
      <4> QED BY <3>1, <4>1
    <3>2. CASE ~throws(FIELDS)
      <4>1. h = [header |-> new, ok |-> TRUE]
        BY <2>2, <3>2, Zenon
      <4> HIDE DEF h
      <4> QED BY <3>2, <4>1
    <3> QED BY <2>7, <3>1, <3>2
  <2> HIDE DEF h
  <2>9. /\ h.header \in [1 .. FIELDS -> Field]
        /\ h.ok => h.header = fields
        /\ fields \in [1 .. FIELDS -> Field] => h.ok /\ h.header = fields
    BY <2>4, <2>5, <2>6, <2>8, Zenon
  <2> QED BY <2>8, <2>9 DEF h
<1> QED BY <1>3, <1>4

\* Whatever arrives, the container is fit; accepted parameters are what was promised.
LEMMA ParametersFacts ==
    ASSUME NEW c, Fit(c), NEW m, Sane(m)
    PROVE  LET p == ParametersUnpacked(c, m.params)
           IN  /\ Fit(p.params) /\ ~Hollow(p.params)
               /\ p.ok \in BOOLEAN
               /\ p.ok => Contents(p.params) = Promised(m)
<1> DEFINE obj == m.params
           w == obj.entries
           n == obj.decodable
<1>1. /\ obj.isMap \in BOOLEAN
      /\ w \in Seq(Entry) /\ Len(w) \in Nat
      /\ n \in Nat /\ n <= Len(w)
  BY LenProperties DEF Sane, Message
<1>2. n \in 0 .. Len(w) /\ c \in Container
  BY <1>1 DEF Fit, Good
<1>3. CASE obj.isMap
  <2>1. ParametersUnpacked(c, obj) = [params |-> Unpacked(c, w, n), ok |-> n = Len(w)]
    BY <1>3, Zenon DEF ParametersUnpacked
  <2>2. Promised(m) = FirstWins(w)
    BY <1>3 DEF Promised
  <2> HIDE DEF w, n
  <2>3. Fit(Unpacked(c, w, n)) /\ ~Hollow(Unpacked(c, w, n))
    BY <1>1, <1>2, UnpackedFit
  <2>4. Contents(Unpacked(c, w, n)) = FirstWins(SubSeq(w, 1, n))
    BY <1>1, <1>2, ContentsOfUnpacked
  <2>5. n = Len(w) => SubSeq(w, 1, n) = w
    BY <1>1, SubSeqFull
  <2> DEFINE p == ParametersUnpacked(c, obj)
  <2>6. p.params = Unpacked(c, w, n) /\ (p.ok <=> n = Len(w)) /\ p.ok \in BOOLEAN
    <3>1. CASE n = Len(w)
      <4>1. p = [params |-> Unpacked(c, w, n), ok |-> TRUE]
        BY <2>1, <3>1, Zenon
      <4> HIDE DEF p
      <4> QED BY <3>1, <4>1
    <3>2. CASE n # Len(w)
      <4>1. p = [params |-> Unpacked(c, w, n), ok |-> FALSE]
        BY <2>1, <3>2, Zenon
      <4> HIDE DEF p
      <4> QED BY <3>2, <4>1
    <3> QED BY <3>1, <3>2
  <2> HIDE DEF p
  <2>7. p.ok => Contents(p.params) = Promised(m)
    BY <2>2, <2>4, <2>5, <2>6
  <2> QED BY <2>3, <2>6, <2>7 DEF p
<1>4. CASE ~obj.isMap
  <2>1. ParametersUnpacked(c, obj) = [params |-> Cleared(c), ok |-> TRUE]
    BY <1>4 DEF ParametersUnpacked
  <2>2. Promised(m) = EmptyMap
    BY <1>4 DEF Promised
  <2> QED BY <1>2, <2>1, <2>2, ClearedFit, ContentsOfCleared
<1> QED BY <1>3, <1>4

-----------------------------------------------------------------------------
(***************************************************************************)
(* The messages that arrive.                                               *)
(***************************************************************************)

\* One part of a sane message may be exchanged for another of its type.
LEMMA PartReplaced ==
    ASSUME NEW m, Sane(m)
    PROVE  /\ Sane([m EXCEPT !.parses = FALSE])
           /\ Sane([m EXCEPT !.params.isMap = FALSE])
           /\ Sane([m EXCEPT !.attachments.isArray = FALSE])
           /\ \A n \in 0 .. Len(m.params.entries) - 1 : Sane([m EXCEPT !.params.decodable = n])
           /\ \A x \in Seq(Field \cup {Bad}) :
                 Len(x) <= FIELDS => Sane([m EXCEPT !.header = x])
           /\ \A x \in Seq(Item) : Sane([m EXCEPT !.attachments.items = x])
<1> USE DEF Message
<1>1. Sane([m EXCEPT !.parses = FALSE])
  BY DEF Sane
<1>2. Sane([m EXCEPT !.params.isMap = FALSE])
  BY DEF Sane
<1>3. Sane([m EXCEPT !.attachments.isArray = FALSE])
  BY DEF Sane
<1>4. ASSUME NEW n \in 0 .. Len(m.params.entries) - 1
      PROVE  Sane([m EXCEPT !.params.decodable = n])
  <2>1. m.params.entries \in Seq(Entry)
    BY DEF Sane
  <2>2. Len(m.params.entries) \in Nat
    BY <2>1, LenProperties
  <2>3. n \in Nat /\ n <= Len(m.params.entries)
    BY <2>2
  <2> QED BY <2>3 DEF Sane
<1>5. ASSUME NEW x \in Seq(Field \cup {Bad}), Len(x) <= FIELDS
      PROVE  Sane([m EXCEPT !.header = x])
  BY <1>5 DEF Sane
<1>6. ASSUME NEW x \in Seq(Item) PROVE Sane([m EXCEPT !.attachments.items = x])
  BY DEF Sane
<1> QED BY <1>1, <1>2, <1>3, <1>4, <1>5, <1>6

\* What the transport makes of a complete message is one that unpack() can read.
LEMMA DamagedSane ==
    ASSUME NEW m, Sane(m), Len(m.header) = FIELDS, NEW d \in Damaged(m)
    PROVE  Sane(d)
<1> DEFINE items == m.attachments.items
<1>1. /\ m.header \in Seq(Field \cup {Bad}) /\ DOMAIN m.header = 1 .. FIELDS
      /\ items \in Seq(Item)
  BY LenProperties DEF Sane, Message
<1>2. FIELDS \in Nat
  BY FieldsAssumption
<1>3. CASE d \in {[m EXCEPT !.header = SubSeq(@, 1, n)] : n \in 0 .. FIELDS - 1}
  <2>1. PICK n \in 0 .. FIELDS - 1 : d = [m EXCEPT !.header = SubSeq(m.header, 1, n)]
    BY <1>3
  <2>2. n \in 0 .. FIELDS /\ \A i \in 1 .. n : m.header[i] \in Field \cup {Bad}
    BY <1>1, <1>2, ElementOfSeq
  <2>3. /\ SubSeq(m.header, 1, n) \in Seq(Field \cup {Bad})
        /\ Len(SubSeq(m.header, 1, n)) = n
    BY <2>2, SubSeqProperties
  <2>4. Len(SubSeq(m.header, 1, n)) <= FIELDS
    BY <2>2, <2>3
  <2> QED BY <2>1, <2>3, <2>4, PartReplaced
<1>4. CASE d \in {[m EXCEPT !.header[i] = Bad] : i \in 1 .. FIELDS}
  <2>1. PICK i \in 1 .. FIELDS : d = [m EXCEPT !.header = [m.header EXCEPT ![i] = Bad]]
    BY <1>4
  <2>2. /\ [m.header EXCEPT ![i] = Bad] \in Seq(Field \cup {Bad})
        /\ Len([m.header EXCEPT ![i] = Bad]) = FIELDS
    <3>1. m.header \in Seq(Field \cup {Bad}) /\ i \in 1 .. Len(m.header) /\ Bad \in Field \cup {Bad}
      BY <1>1
    <3> QED BY <3>1, ExceptSeq
  <2>3. Len([m.header EXCEPT ![i] = Bad]) <= FIELDS
    BY <1>2, <2>2
  <2> QED BY <2>1, <2>2, <2>3, PartReplaced
<1>5. CASE d \in {[m EXCEPT !.params.decodable = n] : n \in 0 .. Len(m.params.entries) - 1}
  <2>1. PICK n \in 0 .. Len(m.params.entries) - 1 : d = [m EXCEPT !.params.decodable = n]
    BY <1>5
  <2> QED BY <2>1, PartReplaced
<1>6. ASSUME NEW i \in DOMAIN items, NEW x \in Item,
             d = [m EXCEPT !.attachments.items = [items EXCEPT ![i] = x]]
      PROVE  Sane(d)
  <2>1. i \in 1 .. Len(items)
    BY <1>1, LenProperties
  <2>2. [items EXCEPT ![i] = x] \in Seq(Item)
    BY <1>1, <2>1, ExceptSeq
  <2> QED BY <1>6, <2>2, PartReplaced
<1>7. ASSUME NEW i \in DOMAIN items
      PROVE  LET x == items[i]
             IN  /\ [x EXCEPT !.isPair = FALSE] \in Item
                 /\ [x EXCEPT !.name = Bad] \in Item
                 /\ [x EXCEPT !.isBin = FALSE] \in Item
                 /\ [x EXCEPT !.fits = FALSE] \in Item
  <2>1. items[i] \in Item
    BY <1>1, LenProperties, ElementOfSeq
  <2> HIDE DEF items
  <2> QED BY <2>1 DEF Item
<1>8. CASE \E i \in DOMAIN items :
              \/ d = [m EXCEPT !.attachments.items[i].isPair = FALSE]
              \/ d = [m EXCEPT !.attachments.items[i].name = Bad]
              \/ d = [m EXCEPT !.attachments.items[i].isBin = FALSE]
              \/ d = [m EXCEPT !.attachments.items[i].fits = FALSE]
  <2>1. PICK i \in DOMAIN items :
              \/ d = [m EXCEPT !.attachments.items[i].isPair = FALSE]
              \/ d = [m EXCEPT !.attachments.items[i].name = Bad]
              \/ d = [m EXCEPT !.attachments.items[i].isBin = FALSE]
              \/ d = [m EXCEPT !.attachments.items[i].fits = FALSE]
    BY <1>8
  <2>2. \E x \in Item : d = [m EXCEPT !.attachments.items = [items EXCEPT ![i] = x]]
    <3>1. CASE d = [m EXCEPT !.attachments.items[i].isPair = FALSE]
      <4>1. d = [m EXCEPT !.attachments.items = [items EXCEPT ![i] = [items[i] EXCEPT !.isPair = FALSE]]]
        BY <3>1
      <4> QED BY <1>7, <4>1, Zenon
    <3>2. CASE d = [m EXCEPT !.attachments.items[i].name = Bad]
      <4>1. d = [m EXCEPT !.attachments.items = [items EXCEPT ![i] = [items[i] EXCEPT !.name = Bad]]]
        BY <3>2
      <4> QED BY <1>7, <4>1, Zenon
    <3>3. CASE d = [m EXCEPT !.attachments.items[i].isBin = FALSE]
      <4>1. d = [m EXCEPT !.attachments.items = [items EXCEPT ![i] = [items[i] EXCEPT !.isBin = FALSE]]]
        BY <3>3
      <4> QED BY <1>7, <4>1, Zenon
    <3>4. CASE d = [m EXCEPT !.attachments.items[i].fits = FALSE]
      <4>1. d = [m EXCEPT !.attachments.items = [items EXCEPT ![i] = [items[i] EXCEPT !.fits = FALSE]]]
        BY <3>4
      <4> QED BY <1>7, <4>1, Zenon
    <3> QED BY <2>1, <3>1, <3>2, <3>3, <3>4
  <2> QED BY <1>6, <2>2, Zenon
<1>9. CASE d \in {[m EXCEPT !.parses = FALSE],
                  [m EXCEPT !.params.isMap = FALSE],
                  [m EXCEPT !.attachments.isArray = FALSE]}
  BY <1>9, PartReplaced
<1>10. \/ d \in {[m EXCEPT !.parses = FALSE],
                 [m EXCEPT !.params.isMap = FALSE],
                 [m EXCEPT !.attachments.isArray = FALSE]}
       \/ d \in {[m EXCEPT !.header = SubSeq(@, 1, n)] : n \in 0 .. FIELDS - 1}
       \/ d \in {[m EXCEPT !.header[i] = Bad] : i \in 1 .. FIELDS}
       \/ d \in {[m EXCEPT !.params.decodable = n] : n \in 0 .. Len(m.params.entries) - 1}
       \/ \E i \in DOMAIN items :
              \/ d = [m EXCEPT !.attachments.items[i].isPair = FALSE]
              \/ d = [m EXCEPT !.attachments.items[i].name = Bad]
              \/ d = [m EXCEPT !.attachments.items[i].isBin = FALSE]
              \/ d = [m EXCEPT !.attachments.items[i].fits = FALSE]
  BY Zenon DEF Damaged
<1> QED BY <1>3, <1>4, <1>5, <1>8, <1>9, <1>10

\* The message that a valid frame is serialized to.
LEMMA PackedFacts ==
    ASSUME NEW g \in ValidFrame, ~Hollow(g.params), NEW t \in Traversals(g.params)
    PROVE  LET m == PackedFrame(g, t)
           IN  /\ Sane(m) /\ Len(m.header) = FIELDS
               /\ m.parses /\ m.header = g.header
               /\ Promised(m) = Contents(g.params)
               /\ ParametersUnpacked(g.params, m.params).ok
               /\ AttachmentsUnpacked(m.attachments) = [attachments |-> g.attachments, ok |-> TRUE]
<1> DEFINE m == PackedFrame(g, t)
           att == [isArray |-> TRUE,
                   items   |-> [i \in DOMAIN g.attachments |-> PackedAttachment(g.attachments[i])]]
           par == [isMap |-> TRUE, entries |-> t, decodable |-> Len(t)]
<1>1. /\ Fit(g.params) /\ g.header \in [1 .. FIELDS -> Field]
      /\ g.attachments \in Seq(Attachment)
  BY DEF ValidFrame, FrameState
<1>2. t \in Seq(Entry) /\ FirstWins(t) = Contents(g.params) /\ Len(t) \in Nat
  BY <1>1, TraversalIsContents, LenProperties DEF Fit
<1>3. /\ g.header \in Seq(Field \cup {Bad}) /\ Len(g.header) = FIELDS
  <2>1. FIELDS \in Nat /\ g.header \in [1 .. FIELDS -> Field \cup {Bad}]
    BY <1>1, FieldsAssumption
  <2>2. g.header \in Seq(Field \cup {Bad})
    BY <2>1, SeqDef
  <2> QED BY <2>1, <2>2, LenProperties
<1>4. /\ att \in [isArray : BOOLEAN, items : Seq(Item)]
      /\ AttachmentsUnpacked(att) = [attachments |-> g.attachments, ok |-> TRUE]
  BY <1>1, AttachmentsRoundTrip
<1>5. par \in [isMap : BOOLEAN, entries : Seq(Entry), decodable : Nat]
  BY <1>2
<1>6. m = [parses |-> TRUE, header |-> g.header, params |-> par, attachments |-> att]
  BY DEF PackedFrame
<1>7. par.isMap /\ par.entries = t /\ par.decodable = Len(t)
  OBVIOUS
<1>8. ParametersUnpacked(g.params, par).ok
  BY <1>7, Zenon DEF ParametersUnpacked
<1> HIDE DEF m, att, par
<1>9. m \in Message /\ m.parses /\ m.header = g.header /\ m.params = par /\ m.attachments = att
  BY <1>3, <1>4, <1>5, <1>6 DEF Message
<1>10. Sane(m)
  BY <1>2, <1>3, <1>7, <1>9, FieldsAssumption DEF Sane
<1>11. Promised(m) = Contents(g.params)
  BY <1>2, <1>7, <1>9 DEF Promised
<1> QED BY <1>3, <1>4, <1>8, <1>9, <1>10, <1>11 DEF m

-----------------------------------------------------------------------------
(***************************************************************************)
(* deserialize() as a whole.                                               *)
(***************************************************************************)

\* The parts are replaced from the front, and the frame stays valid at each of the
\* places where an exception may stop the replacement.
LEMMA DeserializedFacts ==
    ASSUME NEW fr \in ValidFrame, NEW m, Sane(m)
    PROVE  LET d == Deserialized(fr, m)
           IN  /\ d.frame \in ValidFrame
               /\ d.returns \in BOOLEAN
               /\ Hollow(d.frame.params) => Hollow(fr.params) /\ ~d.returns
               /\ d.frame.attachments # fr.attachments \/ d.returns
                     => Contents(d.frame.params) = Promised(m)
               /\ d.frame.params # fr.params \/ d.returns
                     => \/ d.frame.header = m.header
                        \/ Len(m.header) < FIELDS /\ d.frame.header = fr.header
<1> DEFINE h == HeaderUnpacked(fr.header, m.header)
           p == ParametersUnpacked(fr.params, m.params)
           a == AttachmentsUnpacked(m.attachments)
           d == Deserialized(fr, m)
           f1 == [fr EXCEPT !.header = h.header]
           f2 == [f1 EXCEPT !.params = p.params]
           f3 == [f2 EXCEPT !.attachments = a.attachments]
<1>1. fr \in FrameState /\ Fit(fr.params) /\ fr.params \in Container
  BY DEF ValidFrame, FrameState
<1>2. /\ m.parses \in BOOLEAN
      /\ m.header \in Seq(Field \cup {Bad}) /\ Len(m.header) <= FIELDS
      /\ m.attachments \in [isArray : BOOLEAN, items : Seq(Item)]
  BY DEF Sane, Message
<1>3. /\ h.header \in [1 .. FIELDS -> Field] /\ h.ok \in BOOLEAN
      /\ h.ok => h.header = m.header \/ (Len(m.header) < FIELDS /\ h.header = fr.header)
  <2>1. fr.header \in [1 .. FIELDS -> Field]
    BY <1>1 DEF FrameState
  <2> QED BY <1>2, <2>1, HeaderFacts
<1>4. /\ Fit(p.params) /\ ~Hollow(p.params) /\ p.ok \in BOOLEAN
      /\ p.ok => Contents(p.params) = Promised(m)
  BY <1>1, ParametersFacts
<1>5. a.attachments \in Seq(Attachment) /\ a.ok \in BOOLEAN
  BY <1>2, AttachmentsType
<1>6. /\ ~m.parses => d = [frame |-> fr, returns |-> FALSE]
      /\ m.parses /\ ~h.ok => d = [frame |-> f1, returns |-> FALSE]
      /\ m.parses /\ h.ok /\ ~p.ok => d = [frame |-> f2, returns |-> FALSE]
      /\ m.parses /\ h.ok /\ p.ok => d = [frame |-> f3, returns |-> a.ok]
  BY Zenon DEF Deserialized
<1> HIDE DEF h, p, a
<1>7. /\ f1 \in FrameState /\ f1.header = h.header
      /\ f1.params = fr.params /\ f1.attachments = fr.attachments
  BY <1>1, <1>3 DEF FrameState
<1>8. p.params \in Container
  BY <1>4 DEF Fit, Good
<1> HIDE DEF f1
<1>9. /\ f2 \in FrameState /\ f2.header = h.header
      /\ f2.params = p.params /\ f2.attachments = fr.attachments
  BY <1>7, <1>8 DEF FrameState
<1> HIDE DEF f2
<1>10. f3 \in FrameState /\ f3.header = h.header /\ f3.params = p.params
  BY <1>5, <1>9 DEF FrameState
<1> HIDE DEF f3, d
<1>11. f1 \in ValidFrame /\ f2 \in ValidFrame /\ f3 \in ValidFrame
  BY <1>1, <1>4, <1>7, <1>9, <1>10 DEF ValidFrame
<1>12. CASE ~m.parses
  <2>1. d.frame = fr /\ d.returns = FALSE
    BY <1>6, <1>12
  <2> QED BY <2>1 DEF d
<1>13. CASE m.parses /\ ~h.ok
  <2>1. d.frame = f1 /\ d.returns = FALSE
    BY <1>6, <1>13
  <2> QED BY <1>7, <1>11, <2>1 DEF d
<1>14. CASE m.parses /\ h.ok /\ ~p.ok
  <2>1. d.frame = f2 /\ d.returns = FALSE
    BY <1>6, <1>14
  <2> QED BY <1>3, <1>4, <1>9, <1>11, <1>14, <2>1 DEF d
<1>15. CASE m.parses /\ h.ok /\ p.ok
  <2>1. d.frame = f3 /\ d.returns = a.ok
    BY <1>6, <1>15
  <2> QED BY <1>3, <1>4, <1>5, <1>10, <1>11, <1>15, <2>1 DEF d
<1> QED BY <1>2, <1>3, <1>4, <1>12, <1>13, <1>14, <1>15

\* An intact message is accepted and carries the content of its frame.
LEMMA IntactAccepted ==
    ASSUME NEW fr \in ValidFrame, NEW g \in ValidFrame, ~Hollow(g.params),
           NEW t \in Traversals(g.params)
    PROVE  LET d == Deserialized(fr, PackedFrame(g, t))
           IN  d.returns /\ Content(d.frame) = Content(g)
<1> DEFINE m == PackedFrame(g, t)
           h == HeaderUnpacked(fr.header, m.header)
           p == ParametersUnpacked(fr.params, m.params)
           a == AttachmentsUnpacked(m.attachments)
           d == Deserialized(fr, m)
           f1 == [fr EXCEPT !.header = h.header]
           f2 == [f1 EXCEPT !.params = p.params]
           f3 == [f2 EXCEPT !.attachments = a.attachments]
<1>1. /\ Sane(m) /\ Len(m.header) = FIELDS /\ m.parses /\ m.header = g.header
      /\ Promised(m) = Contents(g.params)
      /\ a = [attachments |-> g.attachments, ok |-> TRUE]
  BY PackedFacts
<1>2. m.params.isMap /\ m.params.decodable = Len(m.params.entries)
  BY DEF PackedFrame
<1>3. fr \in FrameState /\ Fit(fr.params) /\ fr.header \in [1 .. FIELDS -> Field]
  BY DEF ValidFrame, FrameState
<1>4. g.header \in [1 .. FIELDS -> Field]
  BY DEF ValidFrame, FrameState
<1> HIDE DEF m
<1>5. h.ok /\ h.header = g.header
  <2>1. m.header \in Seq(Field \cup {Bad}) /\ Len(m.header) <= FIELDS
    BY <1>1 DEF Sane, Message
  <2> QED BY <1>1, <1>3, <1>4, <2>1, HeaderFacts
<1>6. p.ok
  BY <1>2, Zenon DEF ParametersUnpacked
<1>7. Contents(p.params) = Contents(g.params) /\ p.params \in Container
  BY <1>1, <1>3, <1>6, ParametersFacts DEF Fit, Good
<1>8. d = [frame |-> f3, returns |-> a.ok]
  BY <1>1, <1>5, <1>6, Zenon DEF Deserialized
<1> HIDE DEF h, p, a, d
<1>9. /\ f3.header = h.header /\ f3.params = p.params /\ f3.attachments = a.attachments
  BY <1>3 DEF FrameState
<1> HIDE DEF f1, f2, f3
<1>10. d.frame = f3 /\ d.returns
  BY <1>1, <1>8
<1>11. Content(f3) = Content(g)
  BY <1>1, <1>5, <1>7, <1>9 DEF Content
<1> QED BY <1>10, <1>11 DEF d, m

\* Every message that arrives can be read.
LEMMA ArrivalSane ==
    ASSUME FrameInv, NEW m \in Arrivals
    PROVE  Sane(m)
<1>1. buffer # NoBuffer /\ (m = buffer \/ m \in Damaged(buffer))
  BY DEF Arrivals
<1>2. PICK g \in ValidFrame, t \in Seq(Entry) : Sent(g, t)
  BY <1>1 DEF FrameInv
<1>3. Sane(buffer) /\ Len(buffer.header) = FIELDS
  BY <1>2, PackedFacts DEF Sent
<1> QED BY <1>1, <1>3, DamagedSane

-----------------------------------------------------------------------------
(***************************************************************************)
(* The steps.                                                              *)
(***************************************************************************)

\* A part of a valid frame may be replaced by one of its type.
LEMMA ValidPart ==
    ASSUME NEW fr \in ValidFrame
    PROVE  /\ \A x \in [1 .. FIELDS -> Field] : [fr EXCEPT !.header = x] \in ValidFrame
           /\ \A c : Fit(c) => [fr EXCEPT !.params = c] \in ValidFrame
           /\ \A s \in Seq(Attachment) : [fr EXCEPT !.attachments = s] \in ValidFrame
<1>1. fr \in FrameState /\ Fit(fr.params)
  BY DEF ValidFrame
<1>2. ASSUME NEW x \in [1 .. FIELDS -> Field] PROVE [fr EXCEPT !.header = x] \in ValidFrame
  <2> DEFINE e == [fr EXCEPT !.header = x]
  <2>1. e \in FrameState /\ e.params = fr.params
    BY <1>1 DEF FrameState
  <2> HIDE DEF e
  <2> QED BY <1>1, <2>1 DEF ValidFrame, e
<1>3. ASSUME NEW c, Fit(c) PROVE [fr EXCEPT !.params = c] \in ValidFrame
  <2> DEFINE e == [fr EXCEPT !.params = c]
  <2>1. c \in Container
    BY <1>3 DEF Fit, Good
  <2>2. e \in FrameState /\ e.params = c
    BY <1>1, <2>1 DEF FrameState
  <2> HIDE DEF e
  <2> QED BY <1>3, <2>2 DEF ValidFrame, e
<1>4. ASSUME NEW s \in Seq(Attachment) PROVE [fr EXCEPT !.attachments = s] \in ValidFrame
  <2> DEFINE e == [fr EXCEPT !.attachments = s]
  <2>1. e \in FrameState /\ e.params = fr.params
    BY <1>1 DEF FrameState
  <2> HIDE DEF e
  <2> QED BY <1>1, <2>1 DEF ValidFrame, e
<1> QED BY <1>2, <1>3, <1>4

\* What an operation on frame f may do to the frames: f becomes fr, which has lost
\* its store only if f had none or is moved from.
Effect(f, fr) ==
    /\ fr \in ValidFrame \cup {Absent}
    /\ frames' = [frames EXCEPT ![f] = fr]
    /\ UNCHANGED <<buffer, sent>>
    /\ frames[f] # Absent /\ fr # Absent /\ Hollow(fr.params)
          => Hollow(frames[f].params) \/ MoveOut(f)

LEMMA ExistsValid ==
    ASSUME FrameInv, NEW f \in Frame, frames[f] # Absent
    PROVE  /\ frames[f] \in ValidFrame
           /\ Fit(frames[f].params)
           /\ frames[f].params \in Container
           /\ frames[f].header \in [1 .. FIELDS -> Field]
           /\ frames[f].attachments \in Seq(Attachment)
BY DEF FrameInv, ValidFrame, FrameState

LEMMA ConstructEffect ==
    ASSUME FrameInv, NEW f \in Frame, NEW header \in [1 .. FIELDS -> Field], NEW hint \in Hints,
           Construct(f, header, hint)
    PROVE  \E fr : Effect(f, fr)
<1> DEFINE fr == [header |-> header, params |-> PrimeStorage(hint), attachments |-> << >>]
<1>1. hint \in Nat
  BY HintsAssumption
<1>2. Fit(PrimeStorage(hint)) /\ PrimeStorage(hint) \in Container
  BY <1>1, PrimeStorageFit DEF Fit, Good
<1>3. fr \in FrameState /\ fr.params = PrimeStorage(hint)
  BY <1>2, EmptySeq DEF FrameState
<1>4. frames[f] = Absent /\ frames' = [frames EXCEPT ![f] = fr] /\ UNCHANGED <<buffer, sent>>
  BY DEF Construct, Becomes
<1> HIDE DEF fr
<1>5. fr \in ValidFrame
  BY <1>2, <1>3 DEF ValidFrame
<1> QED BY <1>4, <1>5 DEF Effect

LEMMA DestroyEffect ==
    ASSUME NEW f \in Frame, Destroy(f)
    PROVE  \E fr : Effect(f, fr)
<1>1. Effect(f, Absent)
  BY DEF Destroy, Becomes, Effect
<1> QED BY <1>1

LEMMA SetFieldEffect ==
    ASSUME FrameInv, NEW f \in Frame, NEW i \in 1 .. FIELDS, NEW h \in Field, SetField(f, i, h)
    PROVE  \E fr : Effect(f, fr)
<1> DEFINE new == [frames[f].header EXCEPT ![i] = h]
           fr == [frames[f] EXCEPT !.header = new]
<1>1. frames[f] # Absent
  BY DEF SetField, Exists
<1>2. frames' = [frames EXCEPT ![f] = fr] /\ UNCHANGED <<buffer, sent>>
  BY DEF SetField, Becomes
<1>3. new \in [1 .. FIELDS -> Field]
  BY <1>1, ExistsValid
<1> HIDE DEF new
<1>4. fr \in ValidFrame
  BY <1>1, <1>3, ExistsValid, ValidPart
<1>5. fr.params = frames[f].params
  BY <1>1, ExistsValid DEF ValidFrame, FrameState
<1> HIDE DEF fr
<1> QED BY <1>2, <1>4, <1>5 DEF Effect

LEMMA ChangeParameterEffect ==
    ASSUME FrameInv, NEW f \in Frame, NEW k \in Key, NEW v \in Val, ChangeParameter(f, k, v)
    PROVE  \E fr : Effect(f, fr)
<1> DEFINE c == frames[f].params
<1>1. frames[f] # Absent /\ ~Hollow(c)
  BY DEF ChangeParameter, Usable, Exists
<1>2. frames[f] \in ValidFrame /\ Fit(c) /\ c \in Container /\ OneStore(c)
  BY <1>1, ExistsValid DEF Fit, Good
<1>3. \E d : /\ Fit(d) /\ ~Hollow(d)
             /\ Becomes(f, [frames[f] EXCEPT !.params = d])
  <2>1. Fit(Insert(c, k, v)) /\ ~Hollow(Insert(c, k, v))
    BY <1>1, <1>2, InsertFit, ContentsOfInsert
  <2>2. Has(c, k) => Fit(Assign(c, k, v)) /\ ~Hollow(Assign(c, k, v))
    BY <1>1, <1>2, AssignFit, ContentsOfAssign
  <2>3. \/ Becomes(f, [frames[f] EXCEPT !.params = Insert(c, k, v)])
        \/ Has(c, k) /\ Becomes(f, [frames[f] EXCEPT !.params = Assign(c, k, v)])
    BY DEF ChangeParameter
  <2> HIDE DEF c
  <2> QED BY <2>1, <2>2, <2>3, Zenon
<1>4. PICK d : Fit(d) /\ ~Hollow(d) /\ Becomes(f, [frames[f] EXCEPT !.params = d])
  BY <1>3
<1> DEFINE fr == [frames[f] EXCEPT !.params = d]
<1>5. fr \in ValidFrame
  BY <1>2, <1>4, ValidPart
<1>6. fr.params = d
  BY <1>2 DEF ValidFrame, FrameState
<1>7. frames' = [frames EXCEPT ![f] = fr] /\ UNCHANGED <<buffer, sent>>
  BY <1>4 DEF Becomes
<1> HIDE DEF fr
<1> QED BY <1>4, <1>5, <1>6, <1>7 DEF Effect

LEMMA AddAttachmentEffect ==
    ASSUME FrameInv, NEW f \in Frame, NEW a \in Attachment, AddAttachment(f, a)
    PROVE  \E fr : Effect(f, fr)
<1> DEFINE new == Append(frames[f].attachments, a)
           fr == [frames[f] EXCEPT !.attachments = new]
<1>1. frames[f] # Absent
  BY DEF AddAttachment, Exists
<1>2. frames' = [frames EXCEPT ![f] = fr] /\ UNCHANGED <<buffer, sent>>
  BY DEF AddAttachment, Becomes
<1>3. new \in Seq(Attachment)
  BY <1>1, ExistsValid, AppendProperties
<1> HIDE DEF new
<1>4. fr \in ValidFrame
  BY <1>1, <1>3, ExistsValid, ValidPart
<1>5. fr.params = frames[f].params
  BY <1>1, ExistsValid DEF ValidFrame, FrameState
<1> HIDE DEF fr
<1> QED BY <1>2, <1>4, <1>5 DEF Effect

\* clear(): the frame has a store afterwards, whatever it was.
LEMMA ClearEffect ==
    ASSUME FrameInv, NEW f \in Frame, Clear(f)
    PROVE  \E fr : Effect(f, fr) /\ ~Hollow(fr.params)
<1> DEFINE c == Cleared(frames[f].params)
           mid == [frames[f] EXCEPT !.params = c]
           fr == [frames[f] EXCEPT !.params = c, !.attachments = << >>]
<1>1. frames[f] # Absent
  BY DEF Clear, Exists
<1>2. frames' = [frames EXCEPT ![f] = fr] /\ UNCHANGED <<buffer, sent>>
  BY DEF Clear, Becomes
<1>3. Fit(c) /\ ~Hollow(c)
  BY <1>1, ExistsValid, ClearedFit, ContentsOfCleared
<1> HIDE DEF c
<1>4. mid \in ValidFrame
  BY <1>1, <1>3, ExistsValid, ValidPart
<1>5. fr = [mid EXCEPT !.attachments = << >>] /\ mid.params = c /\ fr.params = c
  BY <1>1, ExistsValid DEF ValidFrame, FrameState
<1> HIDE DEF mid
<1>6. fr \in ValidFrame
  BY <1>4, <1>5, ValidPart, EmptySeq
<1> HIDE DEF fr
<1> QED BY <1>2, <1>3, <1>5, <1>6 DEF Effect

LEMMA RelocateEffect ==
    ASSUME FrameInv, NEW f \in Frame, Relocate(f)
    PROVE  \E fr : Effect(f, fr)
<1> DEFINE c == frames[f].params
           d == [c EXCEPT !.initial_reserve = 0]
           fr == [frames[f] EXCEPT !.params = d]
<1>1. frames[f] # Absent
  BY DEF Relocate, Exists
<1>2. frames' = [frames EXCEPT ![f] = fr] /\ UNCHANGED <<buffer, sent>>
  BY <1>1 DEF Relocate, Becomes
<1>3. Fit(c) /\ c \in Container /\ frames[f] \in FrameState
  BY <1>1, ExistsValid DEF ValidFrame
<1>4. Fit(d) /\ (Hollow(d) <=> Hollow(c))
  BY <1>3, MovesFit, ContentsOfMoved
<1> HIDE DEF d
<1>5. fr \in ValidFrame
  BY <1>1, <1>4, ExistsValid, ValidPart
<1>6. fr.params = d
  BY <1>3 DEF FrameState
<1> HIDE DEF fr
<1> QED BY <1>2, <1>4, <1>5, <1>6 DEF Effect

LEMMA MoveOutEffect ==
    ASSUME FrameInv, NEW f \in Frame, MoveOut(f)
    PROVE  \E fr : Effect(f, fr)
<1> DEFINE c == MovedOut(frames[f].params)
           mid == [frames[f] EXCEPT !.params = c]
           fr == [frames[f] EXCEPT !.params = c, !.attachments = << >>]
<1>1. frames[f] # Absent
  BY DEF MoveOut, Exists
<1>2. frames' = [frames EXCEPT ![f] = fr] /\ UNCHANGED <<buffer, sent>>
  BY DEF MoveOut, Becomes
<1>3. Fit(c)
  <2>1. 0 \in Nat
    OBVIOUS
  <2> QED BY <1>1, <2>1, ExistsValid, MovesFit
<1> HIDE DEF c
<1>4. mid \in ValidFrame
  BY <1>1, <1>3, ExistsValid, ValidPart
<1>5. fr = [mid EXCEPT !.attachments = << >>]
  BY <1>1, ExistsValid DEF ValidFrame, FrameState
<1> HIDE DEF mid
<1>6. fr \in ValidFrame
  BY <1>4, <1>5, ValidPart, EmptySeq
<1> HIDE DEF fr
<1> QED BY <1>2, <1>6 DEF Effect

\* deserialize(): the frame lost its store neither in the call, nor before it if the
\* message is accepted.
LEMMA DeserializeEffect ==
    ASSUME FrameInv, NEW f \in Frame, NEW m \in Arrivals, Deserialize(f, m)
    PROVE  LET fr == Deserialized(frames[f], m).frame
           IN  /\ Effect(f, fr)
               /\ result' = "true" => ~Hollow(fr.params)
               /\ result' = "true" <=> Deserialized(frames[f], m).returns
<1> DEFINE d == Deserialized(frames[f], m)
<1>1. frames[f] # Absent
  BY DEF Deserialize, Exists
<1>2. /\ frames' = [frames EXCEPT ![f] = d.frame]
      /\ result' = IF d.returns THEN "true" ELSE "false"
      /\ UNCHANGED <<buffer, sent>>
  BY Zenon DEF Deserialize
<1>3. Sane(m)
  BY ArrivalSane
<1>4. /\ d.frame \in ValidFrame /\ d.returns \in BOOLEAN
      /\ Hollow(d.frame.params) => Hollow(frames[f].params) /\ ~d.returns
  BY <1>1, <1>3, ExistsValid, DeserializedFacts
<1> HIDE DEF d
<1>5. result' = "true" <=> d.returns
  BY <1>2, <1>4
<1> QED BY <1>2, <1>4, <1>5 DEF Effect, d

\* Every step has such an effect, serializes a frame, or ends the process.
LEMMA StepEffect ==
    ASSUME FrameInv, Next
    PROVE  \/ \E f \in Frame : \E fr : Effect(f, fr)
           \/ \E f \in Frame : Serialize(f)
           \/ \E how : EndsProcess(how)
<1> SUFFICES ASSUME NEW f \in Frame,
                    \/ \E header \in [1 .. FIELDS -> Field], hint \in Hints :
                          Construct(f, header, hint)
                    \/ Destroy(f) \/ Clear(f) \/ Relocate(f) \/ MoveOut(f)
                    \/ \E i \in 1 .. FIELDS, h \in Field : SetField(f, i, h)
                    \/ \E k \in Key, v \in Val : ChangeParameter(f, k, v)
                    \/ \E name \in Name, body \in Body :
                          AddAttachment(f, [name |-> name, raw_data |-> body])
                    \/ \E m \in Arrivals : Deserialize(f, m)
             PROVE  \E fr : Effect(f, fr)
  BY Zenon DEF Next, UseHollow, DeserializeUndefined
<1>1. CASE \E header \in [1 .. FIELDS -> Field], hint \in Hints : Construct(f, header, hint)
  BY <1>1, ConstructEffect
<1>2. CASE Destroy(f)
  BY <1>2, DestroyEffect
<1>3. CASE Clear(f)
  BY <1>3, ClearEffect
<1>4. CASE Relocate(f)
  BY <1>4, RelocateEffect
<1>5. CASE MoveOut(f)
  BY <1>5, MoveOutEffect
<1>6. CASE \E i \in 1 .. FIELDS, h \in Field : SetField(f, i, h)
  BY <1>6, SetFieldEffect
<1>7. CASE \E k \in Key, v \in Val : ChangeParameter(f, k, v)
  BY <1>7, ChangeParameterEffect
<1>8. CASE \E name \in Name, body \in Body :
              AddAttachment(f, [name |-> name, raw_data |-> body])
  <2>1. PICK name \in Name, body \in Body :
           AddAttachment(f, [name |-> name, raw_data |-> body])
    BY <1>8
  <2>2. [name |-> name, raw_data |-> body] \in Attachment
    BY DEF Attachment
  <2> QED BY <2>1, <2>2, AddAttachmentEffect
<1>9. CASE \E m \in Arrivals : Deserialize(f, m)
  BY <1>9, DeserializeEffect
<1> QED BY <1>1, <1>2, <1>3, <1>4, <1>5, <1>6, <1>7, <1>8, <1>9

LEMMA InvInit == Init => FrameInv
BY DEF Init, FrameInv

LEMMA InvNext ==
    ASSUME FrameInv, [Next]_vars
    PROVE  FrameInv'
<1>1. CASE UNCHANGED vars
  BY <1>1 DEF FrameInv, Sent, vars
<1>2. CASE \E f \in Frame : \E fr : Effect(f, fr)
  <2>0. PICK f \in Frame : \E fr : Effect(f, fr)
    BY <1>2
  <2>1. PICK fr : Effect(f, fr)
    BY <2>0
  <2>2. frames' \in [Frame -> ValidFrame \cup {Absent}]
    BY <2>1 DEF FrameInv, Effect
  <2>3. buffer' = buffer /\ sent' = sent
    BY <2>1 DEF Effect
  <2> QED BY <2>2, <2>3 DEF FrameInv, Sent
<1>3. CASE \E f \in Frame : Serialize(f)
  <2>1. PICK f \in Frame : Serialize(f)
    BY <1>3
  <2>2. frames[f] # Absent /\ ~Hollow(frames[f].params)
    BY <2>1 DEF Serialize, Usable, Exists
  <2>3. frames[f] \in ValidFrame /\ Sound(frames[f].params)
    BY <2>2, ExistsValid DEF Fit
  <2>4. PICK t \in Traversals(frames[f].params) : buffer' = PackedFrame(frames[f], t)
    BY <2>1 DEF Serialize
  <2>5. t \in Seq(Entry)
    BY <2>2, <2>3, TraversalIsContents
  <2>6. sent' = Content(frames[f]) /\ frames' = frames
    BY <2>1 DEF Serialize
  <2>7. Sent(frames[f], t)'
    BY <2>2, <2>4, <2>6 DEF Sent
  <2>8. \E g \in ValidFrame, x \in Seq(Entry) : Sent(g, x)'
    BY <2>3, <2>4, <2>5, <2>6, <2>7 DEF Sent
  <2> QED BY <2>6, <2>8 DEF FrameInv
<1>4. CASE \E how : EndsProcess(how)
  BY <1>4 DEF EndsProcess, FrameInv
<1> QED BY <1>1, <1>2, <1>3, <1>4, StepEffect

\* Every frame there is has one store, or lost it to a move; the buffer is nothing or
\* the complete serialization of a frame whose content was noted.
THEOREM FrameInvariant == Spec => []FrameInv
<1>1. Init => FrameInv
  BY InvInit
<1>2. FrameInv /\ [Next]_vars => FrameInv'
  BY InvNext
<1> QED BY <1>1, <1>2, PTL DEF Spec

-----------------------------------------------------------------------------
(***************************************************************************)
(* The properties.                                                         *)
(***************************************************************************)

\* An intact buffer is accepted by any frame, in whatever state it is, and gives it
\* the header, the parameters and the attachments that were serialized (serialize,
\* deserialize).
THEOREM DeliveryCorrect == Spec => DeliveryIsFaithful
<1> DEFINE Act == \A f \in Frame :
                     Deserialize(f, buffer) => result' = "true" /\ Content(frames'[f]) = sent
<1>1. FrameInv /\ [Next]_vars => [Act]_vars
  <2> SUFFICES ASSUME FrameInv, NEW f \in Frame, Deserialize(f, buffer)
               PROVE  result' = "true" /\ Content(frames'[f]) = sent
    OBVIOUS
  <2>1. frames[f] # Absent /\ buffer # NoBuffer /\ buffer \in Arrivals
    BY DEF Deserialize, Exists, Arrivals
  <2>2. PICK g \in ValidFrame, t \in Seq(Entry) : Sent(g, t)
    BY <2>1 DEF FrameInv
  <2>3. frames[f] \in ValidFrame
    BY <2>1, ExistsValid
  <2> DEFINE d == Deserialized(frames[f], buffer)
  <2>4. d.returns /\ Content(d.frame) = sent
    BY <2>2, <2>3, IntactAccepted DEF Sent
  <2>5. frames' = [frames EXCEPT ![f] = d.frame] /\ (result' = "true" <=> d.returns)
    BY <2>1, DeserializeEffect DEF Effect
  <2> HIDE DEF d
  <2>6. frames'[f] = d.frame
    BY <2>5 DEF FrameInv
  <2> QED BY <2>4, <2>5, <2>6
<1> QED BY <1>1, FrameInvariant, PTL DEF Spec, DeliveryIsFaithful

\* Whatever is received, a frame keeps one store for its parameters; only being moved
\* from leaves it without, until clear() or the next accepted message (deserialize,
\* unpack, clear, the implicit moves).
THEOREM FramesUsable == Spec => FramesStayUsable
<1> DEFINE Act == \A f \in Frame :
             frames[f] # Absent /\ frames'[f] # Absent =>
                /\ OneStore(frames'[f].params)
                /\ Hollow(frames'[f].params) => Hollow(frames[f].params) \/ MoveOut(f)
                /\ Hollow(frames'[f].params) =>
                      ~(Clear(f) \/ \E m \in Arrivals : Deserialize(f, m) /\ result' = "true")
<1>1. FrameInv /\ FrameInv' /\ [Next]_vars => [Act]_vars
  <2> SUFFICES ASSUME FrameInv, FrameInv', Next,
                      NEW f \in Frame, frames[f] # Absent, frames'[f] # Absent
               PROVE  /\ OneStore(frames'[f].params)
                      /\ Hollow(frames'[f].params) => Hollow(frames[f].params) \/ MoveOut(f)
                      /\ Hollow(frames'[f].params) =>
                            ~(Clear(f) \/ \E m \in Arrivals : Deserialize(f, m) /\ result' = "true")
    BY Zenon
  <2>1. OneStore(frames'[f].params)
    BY DEF FrameInv, ValidFrame, Fit, Good
  <2>2. Hollow(frames'[f].params) => Hollow(frames[f].params) \/ MoveOut(f)
    <3>1. CASE \E g \in Frame : \E fr : Effect(g, fr)
      <4>0. PICK g \in Frame : \E fr : Effect(g, fr)
        BY <3>1
      <4>1. PICK fr : Effect(g, fr)
        BY <4>0
      <4>2. frames' = [frames EXCEPT ![g] = fr]
        BY <4>1 DEF Effect
      <4>3. CASE f = g
        BY <4>1, <4>2, <4>3 DEF Effect, FrameInv
      <4>4. CASE f # g
        BY <4>2, <4>4 DEF FrameInv
      <4> QED BY <4>3, <4>4
    <3>2. CASE \E g \in Frame : Serialize(g)
      BY <3>2 DEF Serialize
    <3>3. CASE \E how : EndsProcess(how)
      BY <3>3 DEF EndsProcess
    <3> QED BY <3>1, <3>2, <3>3, StepEffect
  <2>3. Clear(f) => ~Hollow(frames'[f].params)
    BY ClearEffect DEF Effect, FrameInv
  <2>4. ASSUME NEW m \in Arrivals, Deserialize(f, m), result' = "true"
        PROVE  ~Hollow(frames'[f].params)
    <3> DEFINE fr == Deserialized(frames[f], m).frame
    <3>1. Effect(f, fr) /\ ~Hollow(fr.params)
      BY <2>4, DeserializeEffect
    <3> HIDE DEF fr
    <3> QED BY <3>1 DEF Effect, FrameInv
  <2> QED BY <2>1, <2>2, <2>3, <2>4
<1> QED BY <1>1, FrameInvariant, PTL DEF Spec, FramesStayUsable

\* A failing deserialize() stops between two parts: new attachments never stand beside
\* old parameters, nor new parameters beside a header that was only begun
\* (deserialize).
THEOREM ReplacementOrdered == Spec => ReplacedInOrder
<1> DEFINE Act == \A f \in Frame, m \in Arrivals :
              Deserialize(f, m) =>
                 LET old == frames[f]
                     new == frames'[f]
                 IN  /\ (new.attachments # old.attachments \/ result' = "true"
                           => Contents(new.params) = Promised(m))
                     /\ (new.params # old.params \/ result' = "true"
                           => \/ new.header = m.header
                              \/ Len(m.header) < FIELDS /\ new.header = old.header)
<1>1. FrameInv /\ [Next]_vars => [Act]_vars
  <2> SUFFICES ASSUME FrameInv, NEW f \in Frame, NEW m \in Arrivals, Deserialize(f, m)
               PROVE  LET old == frames[f]
                          new == frames'[f]
                      IN  /\ (new.attachments # old.attachments \/ result' = "true"
                                => Contents(new.params) = Promised(m))
                          /\ (new.params # old.params \/ result' = "true"
                                => \/ new.header = m.header
                                   \/ Len(m.header) < FIELDS /\ new.header = old.header)
    OBVIOUS
  <2> DEFINE d == Deserialized(frames[f], m)
  <2>1. frames[f] # Absent
    BY DEF Deserialize, Exists
  <2>2. frames[f] \in ValidFrame /\ Sane(m)
    BY <2>1, ExistsValid, ArrivalSane
  <2>3. frames' = [frames EXCEPT ![f] = d.frame] /\ (result' = "true" <=> d.returns)
    BY DeserializeEffect DEF Effect
  <2>4. /\ d.frame.attachments # frames[f].attachments \/ d.returns
              => Contents(d.frame.params) = Promised(m)
        /\ d.frame.params # frames[f].params \/ d.returns
              => \/ d.frame.header = m.header
                 \/ Len(m.header) < FIELDS /\ d.frame.header = frames[f].header
    BY <2>2, DeserializedFacts
  <2> HIDE DEF d
  <2>5. frames'[f] = d.frame
    BY <2>3 DEF FrameInv
  <2> QED BY <2>3, <2>4, <2>5
<1> QED BY <1>1, FrameInvariant, PTL DEF Spec, ReplacedInOrder

=============================================================================
