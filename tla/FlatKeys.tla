------------------------------- MODULE FlatKeys -------------------------------
(***************************************************************************)
(* How a device name and a parameter name become one key, and how a stored *)
(* key is compared with them.  A string is a sequence of characters; US is *)
(* the ASCII Unit Separator.  The library has two ways to look up a pair:  *)
(* a comparison in three pieces that builds no string (vector mode) and a  *)
(* composed key that is hashed (map mode, and every *_flat function).      *)
(*                                                                         *)
(* The state is one stored entry's key and what was looked up last; it is  *)
(* enough to compare the two ways on any stored key.                       *)
(***************************************************************************)
EXTENDS Integers, Sequences

CONSTANTS Char,      \* the characters of names, US among them
          US,        \* '\x1F'
          Names,     \* the device and parameter names in use
          WireKeys   \* the keys a received map may hold: any strings

ASSUME USAssumption == US \in Char
ASSUME NamesAssumption == Names \subseteq Seq(Char)
ASSUME WireKeysAssumption == WireKeys \subseteq Seq(Char)

\* A mutant of Compose: the names are joined without a separator.
ComposeWithoutUS(device, param) == device \o param

\* FlatKey::compose(), ParameterKey(device, param) and find()'s stack_key.
Compose(device, param) == device \o <<US>> \o param

\* s.compare(0, Len(t), t) = 0: whether s starts with t.
StartsWith(s, t) == SubSeq(s, 1, Len(t)) = t

\* A mutant of Matches: any character may stand between the names.
MatchesAnySeparator(full_key, device, param) ==
    /\ Len(full_key) = Len(device) + 1 + Len(param)
    /\ StartsWith(full_key, device)
    /\ SubSeq(full_key, Len(device) + 2, Len(full_key)) = param

\* The comparison of the lambdas in find(), set_impl() and update_impl():
\* length first, so that the separator's place exists.
Matches(full_key, device, param) ==
    /\ Len(full_key) = Len(device) + 1 + Len(param)
    /\ StartsWith(full_key, device)
    /\ full_key[Len(device) + 1] = US
    /\ SubSeq(full_key, Len(device) + 2, Len(full_key)) = param

\* How the callbacks given to iterate() read a key: flat_key.find(US), then the
\* substrings before and after; a key without US is all device.
Separators(full_key) == {i \in DOMAIN full_key : full_key[i] = US}

\* A mutant of SplitAtFirst: rfind() instead of find().
SplitAtLast(full_key) ==
    IF Separators(full_key) = {}
    THEN [device |-> full_key, param |-> << >>]
    ELSE LET pos == CHOOSE i \in Separators(full_key) :
                       \A j \in Separators(full_key) : i >= j
         IN  [device |-> SubSeq(full_key, 1, pos - 1),
              param  |-> SubSeq(full_key, pos + 1, Len(full_key))]

SplitAtFirst(full_key) ==
    IF Separators(full_key) = {}
    THEN [device |-> full_key, param |-> << >>]
    ELSE LET pos == CHOOSE i \in Separators(full_key) :
                       \A j \in Separators(full_key) : i <= j
         IN  [device |-> SubSeq(full_key, 1, pos - 1),
              param  |-> SubSeq(full_key, pos + 1, Len(full_key))]

VARIABLES full_key,   \* the key of the stored entry
          query,      \* the device and parameter looked up last
          found       \* [vector, map]: what each way of looking up answered

vars == <<full_key, query, found>>

Queries == [device : Names, param : Names]

NotAsked == [vector |-> FALSE, map |-> FALSE]

TypeOK ==
    /\ full_key \in Seq(Char)
    /\ query \in Queries
    /\ found \in [vector : BOOLEAN, map : BOOLEAN]

\* add(device, param, ...): the key is stitched by ParameterKey.
AddParameter(device, param) ==
    /\ full_key' = Compose(device, param)
    /\ query' = [device |-> device, param |-> param]
    /\ found' = NotAsked

\* unpack(): ParameterKey{key_view} takes any string for a key.
Receive(key) ==
    /\ full_key' = key
    /\ found' = NotAsked
    /\ UNCHANGED query

\* The same lookup by each of the two ways.
Find(device, param) ==
    /\ query' = [device |-> device, param |-> param]
    /\ found' = [vector |-> Matches(full_key, device, param),
                 map    |-> full_key = Compose(device, param)]
    /\ UNCHANGED full_key

Init ==
    /\ query \in Queries
    /\ full_key = Compose(query.device, query.param)
    /\ found = NotAsked

Next ==
    \/ \E device, param \in Names : AddParameter(device, param) \/ Find(device, param)
    \/ \E key \in WireKeys : Receive(key)

Spec == Init /\ [][Next]_vars

-----------------------------------------------------------------------------
\* Whichever mode the container is in, a lookup gives the same answer: the
\* comparison in pieces accepts exactly the composed key, also for names that
\* are empty, contain US or are prefixes of each other (find, find_flat).
ModesAgree == found.vector = found.map

NoSeparator(s) == \A i \in DOMAIN s : s[i] # US

\* Two different parameters never share a key as long as device names do not
\* contain the separator; parameter names may (compose, find).
KeysDoNotCollide ==
    \A device, param \in Names :
        (/\ NoSeparator(device) /\ NoSeparator(query.device)
         /\ Compose(device, param) = Compose(query.device, query.param)) =>
            device = query.device /\ param = query.param

\* A callback of iterate() that cuts the key at its first separator gets back
\* the two names it was composed of, also when they are empty or the parameter
\* name contains the separator (compose, the iterate() callbacks).
CallbacksRecoverNames ==
    \A device, param \in Names :
        (NoSeparator(device) /\ full_key = Compose(device, param)) =>
            SplitAtFirst(full_key) = [device |-> device, param |-> param]
=============================================================================
