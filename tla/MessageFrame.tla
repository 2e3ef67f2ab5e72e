----------------------------- MODULE MessageFrame -----------------------------
(***************************************************************************)
(* MessageFrame: a header, a HybridMessageMap and a list of attachments    *)
(* that are serialized into one buffer and deserialized from it, part      *)
(* after part.  A received buffer is the one that was serialized or one    *)
(* that was damaged on the way, and memory may run out while it is         *)
(* decoded; an exception in one part makes deserialize() return false with *)
(* the parts before it already replaced.  Frames are moved, not copied.    *)
(*                                                                         *)
(* Release build.  The parts that MessagePack parses a buffer into are     *)
(* modelled by what unpack() and deserialize() tell apart of them.         *)
(***************************************************************************)
EXTENDS HybridContainer

CONSTANTS Frame,           \* the MessageFrame objects of the program
          Hints,           \* the values of FrameConfig::initial_reserve
          FIELDS,          \* how many fields a header has: 8 in the code
          Field,           \* the values of header fields
          Bad,             \* a field or name that as<>() does not convert
          Name, Body,      \* names and contents of attachments
          Empty,           \* an attachment without bytes
          MaxAttachments,  \* bound: attachments added to a frame
          Absent,          \* the state of a frame that does not exist
          NoBuffer         \* nothing has been serialized yet

ASSUME HintsAssumption == Hints \subseteq Nat
ASSUME FieldsAssumption == FIELDS \in Nat \ {0}
ASSUME BadAssumption == Bad \notin Field /\ Bad \notin Name

Attachment == [name : Name, raw_data : Body \cup {Empty}]

\* A header is its fields in the order in which pack() writes them.
FrameState == [header      : [1 .. FIELDS -> Field],
               params      : Container,
               attachments : Seq(Attachment)]

VARIABLES frames,   \* frames[f]: Absent or a FrameState
          buffer,   \* the last serialized message, or NoBuffer
          sent,     \* history: what the serialized frame contained
          result    \* what the last deserialize() returned, or how the process ended

vars == <<frames, buffer, sent, result>>

-----------------------------------------------------------------------------
\* The array of two elements that an attachment is serialized to.
PackedAttachment(a) ==
    [isPair |-> TRUE, name |-> a.name, isBin |-> TRUE, data |-> a.raw_data, fits |-> TRUE]

\* The buffer: header, parameters in an order that the container is traversed
\* in, attachments.  decodable: how many parameters decode without throwing.
PackedFrame(frame, traversal) ==
    [parses      |-> TRUE,
     header      |-> frame.header,
     params      |-> [isMap |-> TRUE, entries |-> traversal, decodable |-> Len(traversal)],
     attachments |-> [isArray |-> TRUE,
                      items   |-> [i \in DOMAIN frame.attachments |->
                                      PackedAttachment(frame.attachments[i])]]]

\* What a frame means to the program that reads it.
Content(frame) == [header      |-> frame.header,
                   params      |-> Contents(frame.params),
                   attachments |-> frame.attachments]

\* What may be wrong with a buffer: it is cut or garbled, and does not parse to an
\* array of three; or it is well-formed MessagePack with one part that is not what
\* the frame expects.  Memory that runs out has the effect of a part that does not
\* decode, except for the bytes of an attachment (fits).
Damaged(m) ==
    LET items == m.attachments.items
    IN  {[m EXCEPT !.parses = FALSE],
         [m EXCEPT !.params.isMap = FALSE],
         [m EXCEPT !.attachments.isArray = FALSE]}
        \cup {[m EXCEPT !.header = SubSeq(@, 1, n)] : n \in 0 .. FIELDS - 1}
        \cup {[m EXCEPT !.header[i] = Bad] : i \in 1 .. FIELDS}
        \cup {[m EXCEPT !.params.decodable = n] : n \in 0 .. Len(m.params.entries) - 1}
        \cup {[m EXCEPT !.attachments.items[i].isPair = FALSE] : i \in DOMAIN items}
        \cup {[m EXCEPT !.attachments.items[i].name = Bad] : i \in DOMAIN items}
        \cup {[m EXCEPT !.attachments.items[i].isBin = FALSE] : i \in DOMAIN items}
        \cup {[m EXCEPT !.attachments.items[i].fits = FALSE] : i \in DOMAIN items}

Arrivals == IF buffer = NoBuffer THEN {} ELSE {buffer} \cup Damaged(buffer)

-----------------------------------------------------------------------------
\* MessageHeader::unpack(): a shorter array is ignored; the fields before one
\* that does not convert are replaced, and then it throws.
HeaderUnpacked(header, fields) ==
    IF Len(fields) < FIELDS
    THEN [header |-> header, ok |-> TRUE]
    ELSE LET throws(i) == \E j \in 1 .. i : fields[j] = Bad
         IN  [header |-> [i \in 1 .. FIELDS |-> IF throws(i) THEN header[i] ELSE fields[i]],
              ok     |-> ~throws(FIELDS)]

\* HybridMessageMap::unpack() of a map or of anything else, where it is defined (see
\* DeserializeUndefined).
ParametersUnpacked(c, obj) ==
    IF obj.isMap
    THEN [params |-> Unpacked(c, obj.entries, obj.decodable),
          ok     |-> obj.decodable = Len(obj.entries)]
    ELSE [params |-> Cleared(c), ok |-> TRUE]

\* The pairs at which as<std::string>() throws, and those whose bytes do not fit.
Nameless(items) == {i \in DOMAIN items : items[i].isPair /\ items[i].name = Bad}

Bodiless(items) == {i \in DOMAIN items : items[i].isPair /\ items[i].isBin /\ ~items[i].fits}

\* The items that become attachments: pairs, up to the first that throws; bytes that
\* do not fit leave their name behind.
Taken(items) ==
    LET nameless == Nameless(items)
        bodiless == Bodiless(items)
    IN  {i \in DOMAIN items : /\ items[i].isPair
                              /\ \A j \in nameless : i < j
                              /\ \A j \in bodiless : i <= j}

\* The k-th of the indices that are taken: emplace_back() keeps the order.
Rank(taken, i) == Cardinality({j \in taken : j <= i})

Kth(taken, k) == CHOOSE i \in taken : Rank(taken, i) = k

\* A body that is not BIN is left empty.
Received(x) == [name |-> x.name, raw_data |-> IF x.isBin /\ x.fits THEN x.data ELSE Empty]

AttachmentsUnpacked(obj) ==
    LET items == obj.items
        taken == Taken(items)
    IN  IF ~obj.isArray
        THEN [attachments |-> << >>, ok |-> TRUE]
        ELSE [attachments |-> [k \in 1 .. Cardinality(taken) |-> Received(items[Kth(taken, k)])],
              ok          |-> Nameless(items) \cup Bodiless(items) = {}]

\* A mutant of Deserialized: no attachments.clear().
DeserializedAppends(frame, m) ==
    LET h == HeaderUnpacked(frame.header, m.header)
        p == ParametersUnpacked(frame.params, m.params)
        a == AttachmentsUnpacked(m.attachments)
    IN  IF m.parses /\ h.ok /\ p.ok
        THEN [frame   |-> [header      |-> h.header,
                           params      |-> p.params,
                           attachments |-> frame.attachments \o a.attachments],
              returns |-> a.ok]
        ELSE [frame |-> frame, returns |-> FALSE]

\* A mutant of Deserialized: attachments.clear() comes before the parameters.
DeserializedClearsFirst(frame, m) ==
    LET h == HeaderUnpacked(frame.header, m.header)
        p == ParametersUnpacked(frame.params, m.params)
        a == AttachmentsUnpacked(m.attachments)
        withHeader == [frame EXCEPT !.header = h.header, !.attachments = << >>]
        withParams == [withHeader EXCEPT !.params = p.params]
        withAll == [withParams EXCEPT !.attachments = a.attachments]
    IN  IF ~m.parses THEN [frame |-> frame, returns |-> FALSE]
        ELSE IF ~h.ok THEN [frame |-> withHeader, returns |-> FALSE]
        ELSE IF ~p.ok THEN [frame |-> withParams, returns |-> FALSE]
        ELSE [frame |-> withAll, returns |-> a.ok]

\* deserialize(): nothing is touched before the whole buffer has been parsed;
\* then header, parameters and attachments are replaced in this order.
Deserialized(frame, m) ==
    LET h == HeaderUnpacked(frame.header, m.header)
        p == ParametersUnpacked(frame.params, m.params)
        a == AttachmentsUnpacked(m.attachments)
        withHeader == [frame EXCEPT !.header = h.header]
        withParams == [withHeader EXCEPT !.params = p.params]
        withAll == [withParams EXCEPT !.attachments = a.attachments]
    IN  IF ~m.parses THEN [frame |-> frame, returns |-> FALSE]
        ELSE IF ~h.ok THEN [frame |-> withHeader, returns |-> FALSE]
        ELSE IF ~p.ok THEN [frame |-> withParams, returns |-> FALSE]
        ELSE [frame |-> withAll, returns |-> a.ok]

-----------------------------------------------------------------------------
Running == result \in {"true", "false"}

Exists(f) == Running /\ frames[f] # Absent

Usable(f) == Exists(f) /\ ~Hollow(frames[f].params)

Becomes(f, frame) ==
    /\ frames' = [frames EXCEPT ![f] = frame]
    /\ UNCHANGED <<buffer, sent, result>>

Construct(f, header, hint) ==
    /\ Running
    /\ frames[f] = Absent
    /\ Becomes(f, [header      |-> header,
                   params      |-> PrimeStorage(hint),
                   attachments |-> << >>])

Destroy(f) == Exists(f) /\ Becomes(f, Absent)

\* The setters of header().
SetField(f, i, h) == Exists(f) /\ Becomes(f, [frames[f] EXCEPT !.header[i] = h])

\* add() always inserts; set() and update() assign to a key that is there, and
\* set() inserts one that is not.
ChangeParameter(f, k, v) ==
    /\ Usable(f)
    /\ \/ Becomes(f, [frames[f] EXCEPT !.params = Insert(@, k, v)])
       \/ /\ Has(frames[f].params, k)
          /\ Becomes(f, [frames[f] EXCEPT !.params = Assign(@, k, v)])

AddAttachment(f, a) ==
    /\ Exists(f)
    /\ Len(frames[f].attachments) < MaxAttachments
    /\ Becomes(f, [frames[f] EXCEPT !.attachments = Append(@, a)])

\* The header stays.
Clear(f) ==
    /\ Exists(f)
    /\ Becomes(f, [frames[f] EXCEPT !.params = Cleared(@), !.attachments = << >>])

\* The frame is moved to a new object that takes its place, as when a vector of
\* frames grows: its container loses the hint.
Relocate(f) == Exists(f) /\ Becomes(f, [frames[f] EXCEPT !.params.initial_reserve = 0])

\* The frame is moved to an object that the program keeps elsewhere: its header is
\* copied, its container may be left without a store.
MoveOut(f) ==
    Exists(f) /\ Becomes(f, [frames[f] EXCEPT !.params = MovedOut(@), !.attachments = << >>])

Serialize(f) ==
    /\ Usable(f)
    /\ \E t \in Traversals(frames[f].params) : buffer' = PackedFrame(frames[f], t)
    /\ sent' = Content(frames[f])
    /\ UNCHANGED <<frames, result>>

\* The process ends, or nothing can be said of it any more: nothing is left of it.
EndsProcess(how) ==
    /\ frames' = [g \in Frame |-> Absent]
    /\ buffer' = NoBuffer
    /\ sent' = NoBuffer
    /\ result' = how

\* The parameter functions and serialize() of a frame that lost its map.
UseHollow(f) == Exists(f) /\ ~Usable(f) /\ EndsProcess("crashed")

Deserialize(f, m) ==
    /\ Exists(f)
    /\ buffer # NoBuffer
    /\ LET d == Deserialized(frames[f], m)
       IN  /\ frames' = [frames EXCEPT ![f] = d.frame]
           /\ result' = IF d.returns THEN "true" ELSE "false"
    /\ UNCHANGED <<buffer, sent>>

\* deserialize() that comes to a parameter which does not decode: it may be one with
\* the tag of a string and something else behind it, or one whose string does not fit
\* in memory, and the exception then destroys a value without its string.
DeserializeUndefined(f, m) ==
    /\ Exists(f)
    /\ m.parses
    /\ HeaderUnpacked(frames[f].header, m.header).ok
    /\ ~ParametersUnpacked(frames[f].params, m.params).ok
    /\ EndsProcess("undefined")

Init ==
    /\ frames = [f \in Frame |-> Absent]
    /\ buffer = NoBuffer
    /\ sent = NoBuffer
    /\ result = "true"

Next ==
    \E f \in Frame :
       \/ \E header \in [1 .. FIELDS -> Field], hint \in Hints : Construct(f, header, hint)
       \/ Destroy(f) \/ Clear(f) \/ Relocate(f) \/ MoveOut(f) \/ Serialize(f) \/ UseHollow(f)
       \/ \E i \in 1 .. FIELDS, h \in Field : SetField(f, i, h)
       \/ \E k \in Key, v \in Val : ChangeParameter(f, k, v)
       \/ \E name \in Name, body \in Body : AddAttachment(f, [name |-> name, raw_data |-> body])
       \/ \E m \in Arrivals : Deserialize(f, m) \/ DeserializeUndefined(f, m)

Spec == Init /\ [][Next]_vars
=============================================================================
