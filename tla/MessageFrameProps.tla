-------------------------- MODULE MessageFrameProps --------------------------
(***************************************************************************)
(* What must hold of frames that are filled, serialized, and deserialized  *)
(* from intact and from damaged buffers, in any order.                     *)
(***************************************************************************)
EXTENDS MessageFrame

\* An intact buffer is accepted, and gives any frame exactly the content of the
\* frame it was serialized from, whatever failed deserialize() calls, moves, hints
\* and contents the receiving frame has behind it (serialize, deserialize).
DeliveryIsFaithful ==
    [][\A f \in Frame :
          Deserialize(f, buffer) =>
             result' = "true" /\ Content(frames'[f]) = sent]_vars

\* extended_usage.cpp: deserialize() "returns false and leaves the object usable".
\* Whatever is received, a container has one store, and it is there; only moving a
\* frame away may leave it without, until the next clear() or accepted message
\* (deserialize, unpack, clear, the implicit moves).
FramesStayUsable ==
    [][\A f \in Frame :
          frames[f] # Absent /\ frames'[f] # Absent =>
             /\ OneStore(frames'[f].params)
             /\ Hollow(frames'[f].params) => Hollow(frames[f].params) \/ MoveOut(f)
             /\ Hollow(frames'[f].params) =>
                   ~(Clear(f) \/ \E m \in Arrivals : Deserialize(f, m) /\ result' = "true")]_vars

\* The dictionary that the parameters of a message stand for.
Promised(m) == IF m.params.isMap THEN FirstWins(m.params.entries) ELSE EmptyMap

\* A frame is replaced from the front: attachments that changed stand beside the
\* complete parameters of the same message, and parameters that changed, as well as
\* every accepted message, beside its header, or the old one if the message has a
\* short one.  So a false result never leaves new attachments with old parameters,
\* or loses the attachments while the parameters fail (deserialize).
ReplacedInOrder ==
    [][\A f \in Frame, m \in Arrivals :
          Deserialize(f, m) =>
             LET old == frames[f]
                 new == frames'[f]
             IN  /\ (new.attachments # old.attachments \/ result' = "true"
                       => Contents(new.params) = Promised(m))
                 /\ (new.params # old.params \/ result' = "true"
                       => \/ new.header = m.header
                          \/ Len(m.header) < FIELDS /\ new.header = old.header)]_vars
=============================================================================
