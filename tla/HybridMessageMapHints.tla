------------------------ MODULE HybridMessageMapHints ------------------------
(***************************************************************************)
(* The sizing hint of a container across moves.  The hint an object was    *)
(* created with is remembered beside the model: it follows the contents    *)
(* that are moved into a new object, and an assigned object keeps its own. *)
(***************************************************************************)
EXTENDS HybridMessageMap

VARIABLE hintOf   \* the hint of the container each object holds

hintVars == <<vars, hintOf>>

HintsInit == Init /\ hintOf = [o \in Object |-> 0]

HintsNext ==
    \E o \in Object :
       \/ \E hint \in Hints : Construct(o, hint) /\ hintOf' = [hintOf EXCEPT ![o] = hint]
       \/ \E s \in Object : /\ MoveConstruct(o, s)
                            /\ hintOf' = [hintOf EXCEPT ![o] = hintOf[s]]
       \/ /\ \/ Destroy(o) \/ Clear(o)
             \/ \E s \in Object : MoveAssign(o, s)
             \/ \E k \in Key, v \in Val : Set(o, k, v)
          /\ UNCHANGED hintOf

HintsSpec == HintsInit /\ [][HintsNext]_hintVars

-----------------------------------------------------------------------------
\* docs/architecture.md, "Behavior across clear()": clear() "re-applies the
\* original FrameConfig hint"; with a hint it "goes straight back into map
\* mode".  So clear() chooses the mode by the hint the container was created
\* with, also after the container was moved.
HintSurvivesClear ==
    [][\A o \in Object :
          Clear(o) => (maps'[o].is_vector_mode <=> hintOf[o] <= SMALL_CAPACITY)]_hintVars
=============================================================================
