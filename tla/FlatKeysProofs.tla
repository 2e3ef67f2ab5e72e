---------------------------- MODULE FlatKeysProofs ----------------------------
(***************************************************************************)
(* The key format, for every alphabet and names of every length: the two   *)
(* ways to look a pair up agree, and a key determines its names.           *)
(***************************************************************************)
EXTENDS FlatKeys, SequenceTheorems, TLAPS

\* The length and the characters of a composed key.
LEMMA ComposeProperties ==
    ASSUME NEW d \in Seq(Char), NEW p \in Seq(Char)
    PROVE  /\ Compose(d, p) \in Seq(Char)
           /\ Len(d) \in Nat /\ Len(p) \in Nat
           /\ Len(Compose(d, p)) = Len(d) + 1 + Len(p)
           /\ \A i \in 1 .. Len(d) : Compose(d, p)[i] = d[i]
           /\ Compose(d, p)[Len(d) + 1] = US
           /\ \A i \in 1 .. Len(p) : Compose(d, p)[Len(d) + 1 + i] = p[i]
<1> DEFINE sep == <<US>>
           dsep == d \o sep
<1>1. sep \in Seq(Char) /\ Len(sep) = 1 /\ sep[1] = US
  BY USAssumption
<1>2. Len(d) \in Nat /\ Len(p) \in Nat
  BY LenProperties
<1> HIDE DEF sep
<1>3. /\ dsep \in Seq(Char)
      /\ Len(dsep) = Len(d) + 1
      /\ \A i \in 1 .. Len(d) + 1 : dsep[i] = IF i <= Len(d) THEN d[i] ELSE sep[i - Len(d)]
  <2>1. /\ dsep \in Seq(Char)
        /\ Len(dsep) = Len(d) + Len(sep)
        /\ \A i \in 1 .. Len(d) + Len(sep) :
              dsep[i] = IF i <= Len(d) THEN d[i] ELSE sep[i - Len(d)]
    BY <1>1, ConcatProperties, Zenon
  <2> HIDE DEF dsep
  <2> QED BY <1>1, <2>1
<1>4. \A i \in 1 .. Len(d) : dsep[i] = d[i]
  BY <1>2, <1>3
<1>5. dsep[Len(d) + 1] = US
  <2>1. /\ Len(d) + 1 \in 1 .. Len(d) + 1
        /\ ~(Len(d) + 1 <= Len(d))
        /\ Len(d) + 1 - Len(d) = 1
    BY <1>2
  <2>2. dsep[Len(d) + 1] = sep[Len(d) + 1 - Len(d)]
    BY <1>3, <2>1
  <2> QED BY <1>1, <2>1, <2>2
<1> HIDE DEF dsep
<1> DEFINE key == dsep \o p
<1>6. /\ key \in Seq(Char)
      /\ Len(key) = Len(d) + 1 + Len(p)
      /\ \A i \in 1 .. Len(d) + 1 + Len(p) :
            key[i] = IF i <= Len(d) + 1 THEN dsep[i] ELSE p[i - (Len(d) + 1)]
  <2>1. /\ key \in Seq(Char)
        /\ Len(key) = Len(dsep) + Len(p)
        /\ \A i \in 1 .. Len(dsep) + Len(p) :
              key[i] = IF i <= Len(dsep) THEN dsep[i] ELSE p[i - Len(dsep)]
    BY <1>3, ConcatProperties, Zenon
  <2> HIDE DEF key
  <2> QED BY <1>3, <2>1
<1>7. Compose(d, p) = key
  BY DEF Compose, dsep, sep
<1> HIDE DEF key
<1>8. \A i \in 1 .. Len(d) : key[i] = d[i]
  <2> TAKE i \in 1 .. Len(d)
  <2>1. i \in 1 .. Len(d) + 1 + Len(p) /\ i <= Len(d) + 1
    BY <1>2
  <2> QED BY <1>4, <1>6, <2>1
<1>9. key[Len(d) + 1] = US
  <2>1. Len(d) + 1 \in 1 .. Len(d) + 1 + Len(p) /\ Len(d) + 1 <= Len(d) + 1
    BY <1>2
  <2> QED BY <1>5, <1>6, <2>1
<1>10. \A i \in 1 .. Len(p) : key[Len(d) + 1 + i] = p[i]
  <2> TAKE i \in 1 .. Len(p)
  <2>1. /\ Len(d) + 1 + i \in 1 .. Len(d) + 1 + Len(p)
        /\ ~(Len(d) + 1 + i <= Len(d) + 1)
        /\ Len(d) + 1 + i - (Len(d) + 1) = i
    BY <1>2
  <2> QED BY <1>6, <2>1
<1> QED BY <1>2, <1>6, <1>7, <1>8, <1>9, <1>10

\* The comparison in pieces accepts the composed key and no other string: the
\* vector mode and the map mode look up the same thing.
LEMMA MatchesIffComposed ==
    ASSUME NEW k \in Seq(Char), NEW d \in Seq(Char), NEW p \in Seq(Char)
    PROVE  Matches(k, d, p) <=> k = Compose(d, p)
<1> DEFINE c == Compose(d, p)
<1>1. /\ c \in Seq(Char) /\ Len(d) \in Nat /\ Len(p) \in Nat
      /\ Len(c) = Len(d) + 1 + Len(p)
      /\ \A i \in 1 .. Len(d) : c[i] = d[i]
      /\ c[Len(d) + 1] = US
      /\ \A i \in 1 .. Len(p) : c[Len(d) + 1 + i] = p[i]
  BY ComposeProperties
<1> HIDE DEF c
<1> DEFINE head == SubSeq(k, 1, Len(d))
           tail == SubSeq(k, Len(d) + 2, Len(k))
<1>2. ASSUME Len(k) = Len(d) + 1 + Len(p)
      PROVE  /\ head \in Seq(Char) /\ Len(head) = Len(d)
             /\ \A i \in 1 .. Len(d) : head[i] = k[i]
             /\ tail \in Seq(Char) /\ Len(tail) = Len(p)
             /\ \A i \in 1 .. Len(p) : tail[i] = k[Len(d) + 1 + i]
  <2>1. \A i \in 1 .. Len(k) : k[i] \in Char
    BY ElementOfSeq
  <2>2. /\ head \in Seq(Char)
        /\ Len(head) = IF 1 <= Len(d) THEN Len(d) - 1 + 1 ELSE 0
        /\ \A i \in 1 .. Len(d) - 1 + 1 : head[i] = k[1 + i - 1]
    BY <1>1, <1>2, <2>1, SubSeqProperties
  <2>3. /\ tail \in Seq(Char)
        /\ Len(tail) = IF Len(d) + 2 <= Len(k) THEN Len(k) - (Len(d) + 2) + 1 ELSE 0
        /\ \A i \in 1 .. Len(k) - (Len(d) + 2) + 1 : tail[i] = k[Len(d) + 2 + i - 1]
    BY <1>1, <1>2, <2>1, SubSeqProperties
  <2> HIDE DEF head, tail
  <2>4. Len(head) = Len(d) /\ \A i \in 1 .. Len(d) : head[i] = k[i]
    BY <1>1, <2>2
  <2>5. Len(tail) = Len(p)
    BY <1>1, <1>2, <2>3
  <2>6. \A i \in 1 .. Len(p) : tail[i] = k[Len(d) + 1 + i]
    <3> TAKE i \in 1 .. Len(p)
    <3>1. i \in 1 .. Len(k) - (Len(d) + 2) + 1 /\ Len(d) + 2 + i - 1 = Len(d) + 1 + i
      BY <1>1, <1>2
    <3> QED BY <2>3, <3>1
  <2> QED BY <2>2, <2>3, <2>4, <2>5, <2>6
<1>3. Matches(k, d, p) <=> /\ Len(k) = Len(d) + 1 + Len(p)
                           /\ head = d
                           /\ k[Len(d) + 1] = US
                           /\ tail = p
  BY DEF Matches, StartsWith
<1> HIDE DEF head, tail
<1>4. ASSUME Matches(k, d, p) PROVE k = c
  <2>1. Len(k) = Len(c)
    BY <1>1, <1>3, <1>4
  <2>2. ASSUME NEW i \in 1 .. Len(k) PROVE k[i] = c[i]
    <3>1. CASE i <= Len(d)
      BY <1>1, <1>2, <1>3, <1>4, <3>1
    <3>2. CASE i = Len(d) + 1
      BY <1>1, <1>3, <1>4, <3>2
    <3>3. CASE i > Len(d) + 1
      <4> DEFINE j == i - (Len(d) + 1)
      <4>1. j \in 1 .. Len(p) /\ i = Len(d) + 1 + j
        BY <1>1, <1>3, <1>4, <3>3
      <4> HIDE DEF j
      <4> QED BY <1>1, <1>2, <1>3, <1>4, <4>1
    <3> QED BY <1>1, <3>1, <3>2, <3>3
  <2> QED BY <1>1, <2>1, <2>2, SeqEqual
<1>5. ASSUME k = c PROVE Matches(k, d, p)
  <2>1. head = d
    BY <1>1, <1>2, <1>5, SeqEqual
  <2>2. tail = p
    BY <1>1, <1>2, <1>5, SeqEqual
  <2> QED BY <1>1, <1>3, <1>5, <2>1, <2>2
<1> QED BY <1>4, <1>5 DEF c

\* Cutting a composed key at its first separator gives back the names, when the
\* device name has no separator in it.
LEMMA SplitOfCompose ==
    ASSUME NEW d \in Seq(Char), NEW p \in Seq(Char), NoSeparator(d)
    PROVE  SplitAtFirst(Compose(d, p)) = [device |-> d, param |-> p]
<1> DEFINE c == Compose(d, p)
           pos == CHOOSE i \in Separators(c) : \A j \in Separators(c) : i <= j
<1>1. /\ c \in Seq(Char) /\ Len(d) \in Nat /\ Len(p) \in Nat
      /\ Len(c) = Len(d) + 1 + Len(p)
      /\ \A i \in 1 .. Len(d) : c[i] = d[i]
      /\ c[Len(d) + 1] = US
      /\ \A i \in 1 .. Len(p) : c[Len(d) + 1 + i] = p[i]
  BY ComposeProperties
<1>2. Matches(c, d, p)
  BY <1>1, MatchesIffComposed
<1> HIDE DEF c
<1>3. DOMAIN c = 1 .. Len(c) /\ DOMAIN d = 1 .. Len(d)
  BY <1>1, LenProperties
<1>4. Len(d) + 1 \in Separators(c)
  BY <1>1, <1>3 DEF Separators
<1>5. \A j \in Separators(c) : j \in Nat /\ Len(d) + 1 <= j
  <2> TAKE j \in Separators(c)
  <2>1. j \in 1 .. Len(c) /\ c[j] = US
    BY <1>3 DEF Separators
  <2>2. \A i \in 1 .. Len(d) : d[i] # US
    BY <1>3 DEF NoSeparator
  <2>3. ASSUME j <= Len(d) PROVE FALSE
    <3>1. j \in 1 .. Len(d)
      BY <1>1, <2>1, <2>3
    <3> QED BY <1>1, <2>1, <2>2, <3>1
  <2> QED BY <1>1, <2>1, <2>3
<1>6. pos \in Separators(c) /\ \A j \in Separators(c) : pos <= j
  BY <1>4, <1>5
<1>7. pos = Len(d) + 1
  <2> HIDE DEF pos
  <2> QED BY <1>1, <1>4, <1>5, <1>6
<1>8. SubSeq(c, 1, Len(d)) = d /\ SubSeq(c, Len(d) + 2, Len(c)) = p
  BY <1>2 DEF Matches, StartsWith
<1>9. pos - 1 = Len(d) /\ pos + 1 = Len(d) + 2
  <2> HIDE DEF pos
  <2> QED BY <1>1, <1>7
<1>10. SplitAtFirst(c) = [device |-> SubSeq(c, 1, pos - 1),
                          param  |-> SubSeq(c, pos + 1, Len(c))]
  BY <1>4 DEF SplitAtFirst
<1> HIDE DEF pos
<1> QED BY <1>8, <1>9, <1>10 DEF c

\* A key determines the two names, when device names have no separator in them.
LEMMA ComposeInjective ==
    ASSUME NEW d \in Seq(Char), NEW p \in Seq(Char),
           NEW e \in Seq(Char), NEW q \in Seq(Char),
           NoSeparator(d), NoSeparator(e), Compose(d, p) = Compose(e, q)
    PROVE  d = e /\ p = q
<1>1. [device |-> d, param |-> p] = [device |-> e, param |-> q]
  BY SplitOfCompose
<1> QED BY <1>1

-----------------------------------------------------------------------------
LEMMA InitTypeOK == Init => TypeOK
<1> SUFFICES ASSUME Init PROVE TypeOK
  OBVIOUS
<1>1. query \in Queries /\ query.device \in Seq(Char) /\ query.param \in Seq(Char)
  BY NamesAssumption DEF Init, Queries
<1>2. full_key \in Seq(Char)
  BY <1>1, ComposeProperties DEF Init
<1> QED BY <1>1, <1>2 DEF Init, TypeOK, NotAsked

LEMMA NextTypeOK == TypeOK /\ [Next]_vars => TypeOK'
<1> SUFFICES ASSUME TypeOK, [Next]_vars PROVE TypeOK'
  OBVIOUS
<1>1. ASSUME NEW device \in Names, NEW param \in Names, AddParameter(device, param)
      PROVE  TypeOK'
  <2>1. Compose(device, param) \in Seq(Char)
    BY NamesAssumption, ComposeProperties
  <2> QED BY <1>1, <2>1 DEF AddParameter, TypeOK, Queries, NotAsked
<1>2. ASSUME NEW device \in Names, NEW param \in Names, Find(device, param)
      PROVE  TypeOK'
  <2>1. Matches(full_key, device, param) \in BOOLEAN
    BY DEF Matches, StartsWith
  <2> QED BY <1>2, <2>1 DEF Find, TypeOK, Queries
<1>3. ASSUME NEW key \in WireKeys, Receive(key) PROVE TypeOK'
  BY <1>3, WireKeysAssumption DEF Receive, TypeOK, NotAsked
<1>4. CASE UNCHANGED vars
  BY <1>4 DEF vars, TypeOK
<1> QED BY <1>1, <1>2, <1>3, <1>4 DEF Next

\* A lookup answers the same in vector mode and in map mode, for every stored
\* key, composed or received, and all names.
THEOREM ModesAlwaysAgree == Spec => []ModesAgree
<1>1. Init => ModesAgree
  BY DEF Init, ModesAgree, NotAsked
<1>2. TypeOK /\ ModesAgree /\ [Next]_vars => ModesAgree'
  <2> SUFFICES ASSUME TypeOK, ModesAgree, [Next]_vars PROVE ModesAgree'
    OBVIOUS
  <2>1. ASSUME NEW device \in Names, NEW param \in Names, Find(device, param)
        PROVE  ModesAgree'
    <3>1. full_key \in Seq(Char) /\ device \in Seq(Char) /\ param \in Seq(Char)
      BY NamesAssumption DEF TypeOK
    <3>2. Matches(full_key, device, param) = (full_key = Compose(device, param))
      <4>1. Matches(full_key, device, param) \in BOOLEAN
        BY DEF Matches, StartsWith
      <4> QED BY <3>1, <4>1, MatchesIffComposed
    <3> QED BY <2>1, <3>2 DEF Find, ModesAgree
  <2>2. CASE UNCHANGED vars
    BY <2>2 DEF vars, ModesAgree
  <2>3. ASSUME NEW device \in Names, NEW param \in Names, AddParameter(device, param)
        PROVE  ModesAgree'
    BY <2>3 DEF AddParameter, ModesAgree, NotAsked
  <2>4. ASSUME NEW key \in WireKeys, Receive(key) PROVE ModesAgree'
    BY <2>4 DEF Receive, ModesAgree, NotAsked
  <2> QED BY <2>1, <2>2, <2>3, <2>4 DEF Next
<1> QED BY InitTypeOK, NextTypeOK, <1>1, <1>2, PTL DEF Spec

\* No two parameters of devices without a separator in their names share a key.
THEOREM KeysNeverCollide == Spec => []KeysDoNotCollide
<1>1. TypeOK => KeysDoNotCollide
  <2> SUFFICES ASSUME TypeOK, NEW device \in Names, NEW param \in Names,
                      NoSeparator(device), NoSeparator(query.device),
                      Compose(device, param) = Compose(query.device, query.param)
               PROVE  device = query.device /\ param = query.param
    BY DEF KeysDoNotCollide
  <2>1. /\ device \in Seq(Char) /\ param \in Seq(Char)
        /\ query.device \in Seq(Char) /\ query.param \in Seq(Char)
    BY NamesAssumption DEF TypeOK, Queries
  <2> QED BY <2>1, ComposeInjective
<1> QED BY InitTypeOK, NextTypeOK, <1>1, PTL DEF Spec

\* The callbacks of iterate() always recover the names a key was composed of.
THEOREM NamesAlwaysRecovered == Spec => []CallbacksRecoverNames
<1>1. CallbacksRecoverNames
  BY NamesAssumption, SplitOfCompose DEF CallbacksRecoverNames
<1> QED BY <1>1, PTL
=============================================================================
