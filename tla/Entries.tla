------------------------------- MODULE Entries -------------------------------
(***************************************************************************)
(* Sequences of (key, value) entries and the dictionaries built from them. *)
(* A key stands for the composed string "device US param" (ParameterKey,   *)
(* FlatKey); how it is composed is the subject of module FlatKeys.  A      *)
(* value stands for a ParameterValue.                                      *)
(***************************************************************************)
EXTENDS Integers, Sequences

CONSTANTS Key,   \* the composed parameter keys
          Val    \* the parameter values

\* std::pair<ParameterKey, ParameterValue>
Entry == [key : Key, val : Val]

\* Every dictionary: a partial function from keys to values.
Dictionary == UNION {[S -> Val] : S \in SUBSET Key}

EmptyMap == [k \in {} |-> k]

KeysOf(s) == {s[i].key : i \in DOMAIN s}

\* The first entry with key k, the one std::find_if stops at.
FirstIndex(s, k) ==
    CHOOSE i \in DOMAIN s : /\ s[i].key = k
                            /\ \A j \in DOMAIN s : s[j].key = k => i <= j

\* s with the value of its first entry for k replaced.
Overwrite(s, k, v) == [s EXCEPT ![FirstIndex(s, k)] = [key |-> k, val |-> v]]

\* The entries of s emplaced one after the other into the hash map m: emplace
\* leaves an entry that is already there alone, so the first one wins.
Emplace(m, s) ==
    [k \in DOMAIN m \cup KeysOf(s) |->
        IF k \in DOMAIN m THEN m[k] ELSE s[FirstIndex(s, k)].val]

\* The dictionary a linear search of s from its front reads.
FirstWins(s) == Emplace(EmptyMap, s)

\* No key occurs twice.
IsDistinct(s) == \A i, j \in DOMAIN s : s[i].key = s[j].key => i = j
=============================================================================
