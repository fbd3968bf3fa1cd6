----------------------------- MODULE LedgerProofs -----------------------------
(***************************************************************************)
(* What holds of LedgerQueries for any leaves, lists and page sizes: an    *)
(* answered list is the whole list of one block, its links open, and the   *)
(* lists of UTXQs and MTXQs agree on what is matched.                      *)
(***************************************************************************)
EXTENDS LedgerQueries, FiniteSetTheorems, SequenceTheorems, TLAPS

(* A sequence that has the elements of one and then those of another is    *)
(* their concatenation.                                                    *)
LEMMA Joined ==
    ASSUME NEW S, NEW s \in Seq(S), NEW t \in Seq(S), NEW r \in Seq(S),
           Len(r) = Len(s) + Len(t),
           \A i \in 1..Len(s) : r[i] = s[i],
           \A i \in 1..Len(t) : r[Len(s) + i] = t[i]
    PROVE  s \o t = r
<1>1. s \o t \in Seq(S) /\ Len(s \o t) = Len(r)
  OBVIOUS
<1>2. ASSUME NEW i \in 1..Len(r)
      PROVE  (s \o t)[i] = r[i]
  <2>1. CASE i <= Len(s)
    BY <2>1
  <2>2. CASE i > Len(s)
    <3>1. i - Len(s) \in 1..Len(t) /\ i = Len(s) + (i - Len(s))
      BY <2>2
    <3>2. (s \o t)[i] = t[i - Len(s)]
      BY <2>2
    <3> QED
      BY <3>1, <3>2
  <2> QED
    BY <2>1, <2>2
<1> QED
  BY <1>1, <1>2, SeqEqual

(* The concatenations that addresses are made of.                          *)
LEMMA Join21 ==
    ASSUME NEW a, NEW b, NEW c
    PROVE  << a, b >> \o << c >> = << a, b, c >>
<1> DEFINE S == {a, b, c}
           s == << a, b >>
           t == << c >>
           r == << a, b, c >>
<1>1. s \in Seq(S) /\ t \in Seq(S) /\ r \in Seq(S)
  OBVIOUS
<1>2. /\ Len(r) = Len(s) + Len(t)
      /\ \A i \in 1..Len(s) : r[i] = s[i]
      /\ \A i \in 1..Len(t) : r[Len(s) + i] = t[i]
  OBVIOUS
<1> HIDE DEF r, s, t, S
<1>3. s \o t = r
  BY <1>1, <1>2, Joined
<1> QED
  BY <1>3 DEF s, t, r

LEMMA Join22 ==
    ASSUME NEW a, NEW b, NEW c, NEW d
    PROVE  << a, b >> \o << c, d >> = << a, b, c, d >>
<1> DEFINE S == {a, b, c, d}
           s == << a, b >>
           t == << c, d >>
           r == << a, b, c, d >>
<1>1. s \in Seq(S) /\ t \in Seq(S) /\ r \in Seq(S)
  OBVIOUS
<1>2. /\ Len(r) = Len(s) + Len(t)
      /\ \A i \in 1..Len(s) : r[i] = s[i]
      /\ \A i \in 1..Len(t) : r[Len(s) + i] = t[i]
  OBVIOUS
<1> HIDE DEF r, s, t, S
<1>3. s \o t = r
  BY <1>1, <1>2, Joined
<1> QED
  BY <1>3 DEF s, t, r

LEMMA Join32 ==
    ASSUME NEW a, NEW b, NEW c, NEW d, NEW e
    PROVE  << a, b, c >> \o << d, e >> = << a, b, c, d, e >>
<1> DEFINE S == {a, b, c, d, e}
           s == << a, b, c >>
           t == << d, e >>
           r == << a, b, c, d, e >>
<1>1. s \in Seq(S) /\ t \in Seq(S) /\ r \in Seq(S)
  OBVIOUS
<1>2. /\ Len(r) = Len(s) + Len(t)
      /\ \A i \in 1..Len(s) : r[i] = s[i]
      /\ \A i \in 1..Len(t) : r[Len(s) + i] = t[i]
  OBVIOUS
<1> HIDE DEF r, s, t, S
<1>3. s \o t = r
  BY <1>1, <1>2, Joined
<1> QED
  BY <1>3 DEF s, t, r

LEMMA Join41 ==
    ASSUME NEW a, NEW b, NEW c, NEW d, NEW e
    PROVE  << a, b, c, d >> \o << e >> = << a, b, c, d, e >>
<1> DEFINE S == {a, b, c, d, e}
           s == << a, b, c, d >>
           t == << e >>
           r == << a, b, c, d, e >>
<1>1. s \in Seq(S) /\ t \in Seq(S) /\ r \in Seq(S)
  OBVIOUS
<1>2. /\ Len(r) = Len(s) + Len(t)
      /\ \A i \in 1..Len(s) : r[i] = s[i]
      /\ \A i \in 1..Len(t) : r[Len(s) + i] = t[i]
  OBVIOUS
<1> HIDE DEF r, s, t, S
<1>3. s \o t = r
  BY <1>1, <1>2, Joined
<1> QED
  BY <1>3 DEF s, t, r

(* The rows of fields that addresses are.                                  *)
LEMMA ElementForm ==
    ASSUME NEW e
    PROVE  AddressOfElement(e) = << Namespace, e.family, e.system, e.key, e.ident >>
<1>1. SyskeyPrefix(e.family, e.system, e.key) = << Namespace, e.family, e.system, e.key >>
  BY Join22 DEF SyskeyPrefix, FamilyPrefix
<1> QED
  BY <1>1, Join41 DEF AddressOfElement, ElementAddress

LEMMA SettingForm ==
    ASSUME NEW d
    PROVE  SettingAddress(d) = << Namespace, "setting", d, "filler" >>
BY Join22 DEF SettingAddress, FamilyPrefix

LEMMA TrackForm ==
    ASSUME NEW t
    PROVE  AddressOfTrack(t) = << Namespace, "track", t.ident, t.property >>
BY Join22 DEF AddressOfTrack, TrackAddress, FamilyPrefix

LEMMA ExchangeForm ==
    ASSUME NEW mtype, NEW a, NEW b, NEW ident
    PROVE  OperationPrefix(mtype, << a, b >>) \o << "0", ident >>
             = << Namespace, "exchange", mtype, a, b, "0", ident >>
<1>1. MtypePrefix(mtype) = << Namespace, "exchange", mtype >>
  BY Join21 DEF MtypePrefix, FamilyPrefix
<1>2. OperationPrefix(mtype, << a, b >>) = << Namespace, "exchange", mtype, a, b >>
  BY <1>1, Join32 DEF OperationPrefix
<1> DEFINE S == {Namespace, "exchange", mtype, a, b, "0", ident}
           s == << Namespace, "exchange", mtype, a, b >>
           t == << "0", ident >>
           r == << Namespace, "exchange", mtype, a, b, "0", ident >>
<1>3. s \in Seq(S) /\ t \in Seq(S) /\ r \in Seq(S)
  OBVIOUS
<1>4. /\ Len(r) = Len(s) + Len(t)
      /\ \A i \in 1..Len(s) : r[i] = s[i]
      /\ \A i \in 1..Len(t) : r[Len(s) + i] = t[i]
  OBVIOUS
<1> HIDE DEF r, s, t, S
<1>5. s \o t = r
  BY <1>3, <1>4, Joined
<1> QED
  BY <1>2, <1>5 DEF s, t, r

LEMMA UtxqForm ==
    ASSUME NEW u \in Utxqs
    PROVE  /\ AddressOfUtxq(u)
                = << Namespace, "exchange", "utxq", u.verb[1], u.verb[2], "0", u.ident >>
           /\ MatchedAddress(u)
                = << Namespace, "exchange", "utxq", u.verb[1], u.verb[2], "1", u.ident >>
<1> DEFINE a == u.verb[1]
           b == u.verb[2]
<1>1. u.verb = << a, b >>
  BY LedgerAssumption
<1>2. AddressOfUtxq(u) = OperationPrefix("utxq", u.verb) \o << "0", u.ident >>
  BY DEF AddressOfUtxq, UtxqUnmatched
<1> HIDE DEF a, b
<1>3. AddressOfUtxq(u) = << Namespace, "exchange", "utxq", a, b, "0", u.ident >>
  BY <1>1, <1>2, ExchangeForm
<1>4. MatchedAddress(u) = << Namespace, "exchange", "utxq", a, b, "1", u.ident >>
  BY <1>3 DEF MatchedAddress, SetUtxqMatched, FlagField
<1> QED
  BY <1>3, <1>4 DEF a, b

LEMMA MtxqForm ==
    ASSUME NEW m \in Mtxqs
    PROVE  AddressOfMtxq(m)
             = << Namespace, "exchange", "mtxq", m.verb[1], m.verb[2], "0", m.ident >>
<1> DEFINE a == m.verb[1]
           b == m.verb[2]
<1>1. m.verb = << a, b >>
  BY LedgerAssumption
<1>2. AddressOfMtxq(m) = OperationPrefix("mtxq", m.verb) \o << "0", m.ident >>
  BY DEF AddressOfMtxq, MtxqAddress
<1> HIDE DEF a, b
<1>3. AddressOfMtxq(m) = << Namespace, "exchange", "mtxq", a, b, "0", m.ident >>
  BY <1>1, <1>2, ExchangeForm
<1> QED
  BY <1>3 DEF a, b

-------------------------------------------------------------------------------
(* The kind of a leaf, as its address names it.                            *)
KindOf(a) == IF a[2] = "exchange" THEN a[3] ELSE a[2]

(* The kinds of the addresses that transactions write to; the flag tells   *)
(* the two addresses of a UTXQ apart.                                      *)
LEMMA ElementKind ==
    ASSUME NEW e \in Elements
    PROVE  KindOf(AddressOfElement(e)) = e.family
BY ElementForm, LedgerAssumption DEF KindOf

LEMMA DimensionKinds ==
    ASSUME NEW d
    PROVE  KindOf(SettingAddress(d)) = "setting" /\ KindOf(CandidateAddress(d)) = "candidates"
<1>1. CandidateAddress(d)[2] = "candidates"
  BY DEF CandidateAddress
<1> QED
  BY <1>1, SettingForm DEF KindOf

LEMMA TrackKind ==
    ASSUME NEW t
    PROVE  KindOf(AddressOfTrack(t)) = "track"
BY TrackForm DEF KindOf

LEMMA UtxqKind ==
    ASSUME NEW u \in Utxqs
    PROVE  /\ KindOf(AddressOfUtxq(u)) = "utxq" /\ ~IsMatched(AddressOfUtxq(u))
           /\ KindOf(MatchedAddress(u)) = "utxq" /\ IsMatched(MatchedAddress(u))
BY UtxqForm DEF KindOf, IsMatched, FlagField

LEMMA MtxqKind ==
    ASSUME NEW m \in Mtxqs
    PROVE  KindOf(AddressOfMtxq(m)) = "mtxq"
BY MtxqForm DEF KindOf

(* Two MTXQs do not share an address.                                      *)
LEMMA MtxqAddressOwn ==
    ASSUME NEW m \in Mtxqs, NEW n \in Mtxqs, AddressOfMtxq(m) = AddressOfMtxq(n)
    PROVE  m = n
<1>1. m.verb[1] = n.verb[1] /\ m.verb[2] = n.verb[2] /\ m.ident = n.ident
  BY MtxqForm
<1>2. m.verb = n.verb
  BY <1>1, LedgerAssumption
<1> QED
  BY <1>1, <1>2, LedgerAssumption

(* What a leaf of each kind is an address of.                              *)
LEMMA KindsOfLeaves ==
    ASSUME NEW a \in LeafAddresses
    PROVE  /\ KindOf(a) \in {"asset", "unit"} => \E e \in Elements : a = AddressOfElement(e)
           /\ KindOf(a) = "utxq" => \E u \in Utxqs : a \in {AddressOfUtxq(u), MatchedAddress(u)}
           /\ KindOf(a) = "mtxq" => \E m \in Mtxqs : a = AddressOfMtxq(m)
<1>1. ASSUME NEW e \in Elements, a = AddressOfElement(e)
      PROVE  KindOf(a) \in {"asset", "unit"}
  BY <1>1, ElementKind, LedgerAssumption
<1>2. ASSUME NEW d, a \in {SettingAddress(d), CandidateAddress(d)}
      PROVE  KindOf(a) \in {"setting", "candidates"}
  BY <1>2, DimensionKinds
<1>3. ASSUME NEW u \in Utxqs, a \in {AddressOfUtxq(u), MatchedAddress(u)}
      PROVE  KindOf(a) = "utxq"
  BY <1>3, UtxqKind
<1>4. ASSUME NEW m \in Mtxqs, a = AddressOfMtxq(m)
      PROVE  KindOf(a) = "mtxq"
  BY <1>4, MtxqKind
<1>5. ASSUME NEW t \in Tracks, a = AddressOfTrack(t)
      PROVE  KindOf(a) = "track"
  BY <1>5, TrackKind
<1>6. \/ \E e \in Elements : a = AddressOfElement(e)
      \/ \E d \in Dimensions : a \in {SettingAddress(d), CandidateAddress(d)}
      \/ \E u \in Utxqs : a \in {AddressOfUtxq(u), MatchedAddress(u)}
      \/ \E m \in Mtxqs : a = AddressOfMtxq(m)
      \/ \E t \in Tracks : a = AddressOfTrack(t)
  BY DEF LeafAddresses
<1> QED
  BY <1>1, <1>2, <1>3, <1>4, <1>5, <1>6

(* An address is a row of four fields at least.                            *)
LEMMA LeafFields ==
    ASSUME NEW a \in LeafAddresses
    PROVE  \E S : a \in Seq(S) /\ Len(a) >= 4 /\ a[1] = Namespace
<1> DEFINE Row == \E S : a \in Seq(S) /\ Len(a) >= 4 /\ a[1] = Namespace
<1>1. ASSUME NEW x1, NEW x2, NEW x3, a = << Namespace, x1, x2, x3 >>
      PROVE  Row
  <2>1. a \in Seq({Namespace, x1, x2, x3}) /\ Len(a) = 4 /\ a[1] = Namespace
    BY <1>1
  <2> QED
    BY <2>1
<1>2. ASSUME NEW x1, NEW x2, NEW x3, NEW x4, a = << Namespace, x1, x2, x3, x4 >>
      PROVE  Row
  <2>1. a \in Seq({Namespace, x1, x2, x3, x4}) /\ Len(a) = 5 /\ a[1] = Namespace
    BY <1>2
  <2> QED
    BY <2>1
<1>3. ASSUME NEW x1, NEW x2, NEW x3, NEW x4, NEW x5, NEW x6,
             a = << Namespace, x1, x2, x3, x4, x5, x6 >>
      PROVE  Row
  <2>1. a \in Seq({Namespace, x1, x2, x3, x4, x5, x6}) /\ Len(a) = 7 /\ a[1] = Namespace
    BY <1>3
  <2> QED
    BY <2>1
<1> HIDE DEF Row
<1>4. ASSUME NEW e \in Elements, a = AddressOfElement(e)
      PROVE  Row
  BY <1>2, <1>4, ElementForm
<1>5. ASSUME NEW d \in Dimensions, a = SettingAddress(d) \/ a = CandidateAddress(d)
      PROVE  Row
  BY <1>1, <1>5, SettingForm DEF CandidateAddress
<1>6. ASSUME NEW u \in Utxqs, a = AddressOfUtxq(u) \/ a = MatchedAddress(u)
      PROVE  Row
  BY <1>3, <1>6, UtxqForm
<1>7. ASSUME NEW m \in Mtxqs, a = AddressOfMtxq(m)
      PROVE  Row
  BY <1>3, <1>7, MtxqForm
<1>8. ASSUME NEW t \in Tracks, a = AddressOfTrack(t)
      PROVE  Row
  BY <1>1, <1>8, TrackForm
<1>9. Row
  BY <1>4, <1>5, <1>6, <1>7, <1>8 DEF LeafAddresses
<1> QED
  BY <1>9 DEF Row

(* A prefix agrees with the fields that it has.                            *)
LEMMA PrefixFields ==
    ASSUME NEW S, NEW s \in Seq(S), NEW t \in Seq(S), Len(s) <= Len(t)
    PROVE  IsPrefix(s, t) <=> \A i \in 1..Len(s) : s[i] = t[i]
<1> DEFINE front(r) == SubSeq(r, 1, Len(s))
<1>1. /\ front(s) \in Seq(S) /\ Len(front(s)) = Len(s)
      /\ \A i \in 1..Len(s) : front(s)[i] = s[i]
  OBVIOUS
<1>2. /\ front(t) \in Seq(S) /\ Len(front(t)) = Len(s)
      /\ \A i \in 1..Len(s) : front(t)[i] = t[i]
  OBVIOUS
<1>3. IsPrefix(s, t) <=> front(s) = front(t)
  BY DEF IsPrefix
<1> HIDE DEF front
<1>4. front(s) = front(t) <=> \A i \in 1..Len(s) : front(s)[i] = front(t)[i]
  BY <1>1, <1>2, SeqEqual
<1> QED
  BY <1>1, <1>2, <1>3, <1>4

(* A list asks for the leaves of its own kind: the prefixes of the four    *)
(* lists select neither settings nor candidates nor tracks.                *)
LEMMA PrefixSelects ==
    ASSUME NEW l \in {"asset", "unit", "utxq", "mtxq"}, NEW a \in LeafAddresses
    PROVE  IsPrefix(Prefix(l), a) <=> KindOf(a) = l
<1>1. PICK S : a \in Seq(S) /\ Len(a) >= 4 /\ a[1] = Namespace
  BY LeafFields
<1>2. CASE l \in {"asset", "unit"}
  <2> DEFINE T == S \cup {Namespace, l}
             p == << Namespace, l >>
  <2>1. Prefix(l) = p
    BY <1>2 DEF Prefix, FamilyPrefix
  <2>2. a \in Seq(T)
    BY <1>1, SeqMonotonic
  <2>3. p \in Seq(T) /\ Len(p) = 2 /\ p[1] = Namespace /\ p[2] = l
    OBVIOUS
  <2> HIDE DEF p, T
  <2>4. IsPrefix(p, a) <=> a[2] = l
    <3>1. IsPrefix(p, a) <=> \A i \in 1..Len(p) : p[i] = a[i]
      BY <1>1, <2>2, <2>3, PrefixFields
    <3>2. 1..Len(p) = {1, 2}
      BY <2>3
    <3> QED
      BY <1>1, <2>3, <3>1, <3>2
  <2>5. KindOf(a) = l <=> a[2] = l
    <3>1. KindOf(a) = l => KindOf(a) # "exchange" /\ KindOf(a) \in {"asset", "unit"}
      BY <1>2
    <3>2. KindOf(a) = l => \E e \in Elements : a = AddressOfElement(e)
      BY <3>1, KindsOfLeaves
    <3>3. ASSUME NEW e \in Elements
          PROVE  AddressOfElement(e)[2] = KindOf(AddressOfElement(e))
      BY ElementForm, ElementKind
    <3>4. a[2] = l => KindOf(a) = l
      BY <1>2 DEF KindOf
    <3> QED
      BY <3>2, <3>3, <3>4
  <2> QED
    BY <2>1, <2>4, <2>5
<1>3. CASE l \in {"utxq", "mtxq"}
  <2> DEFINE T == S \cup {Namespace, "exchange", l}
             p == << Namespace, "exchange", l >>
  <2>1. Prefix(l) = p
    BY <1>3, Join21 DEF Prefix, MtypePrefix, FamilyPrefix
  <2>2. a \in Seq(T)
    BY <1>1, SeqMonotonic
  <2>3. p \in Seq(T) /\ Len(p) = 3 /\ p[1] = Namespace /\ p[2] = "exchange" /\ p[3] = l
    OBVIOUS
  <2> HIDE DEF p, T
  <2>4. IsPrefix(p, a) <=> a[2] = "exchange" /\ a[3] = l
    <3>1. IsPrefix(p, a) <=> \A i \in 1..Len(p) : p[i] = a[i]
      BY <1>1, <2>2, <2>3, PrefixFields
    <3>2. 1..Len(p) = {1, 2, 3}
      BY <2>3
    <3> QED
      BY <1>1, <2>3, <3>1, <3>2
  <2>5. KindOf(a) = l => a[2] = "exchange"
    <3>1. KindOf(a) = l =>
             \/ \E u \in Utxqs : a \in {AddressOfUtxq(u), MatchedAddress(u)}
             \/ \E m \in Mtxqs : a = AddressOfMtxq(m)
      BY <1>3, KindsOfLeaves
    <3>2. \A u \in Utxqs : AddressOfUtxq(u)[2] = "exchange" /\ MatchedAddress(u)[2] = "exchange"
      BY UtxqForm
    <3>3. \A m \in Mtxqs : AddressOfMtxq(m)[2] = "exchange"
      BY MtxqForm
    <3> QED
      BY <3>1, <3>2, <3>3
  <2> QED
    BY <2>1, <2>4, <2>5 DEF KindOf
<1> QED
  BY <1>2, <1>3
-------------------------------------------------------------------------------
Leaf ==
    {ElementLeaf(e) : e \in Elements} \cup {UtxqLeaf(u) : u \in Utxqs}
        \cup {MtxqLeaf(m) : m \in Mtxqs} \cup {[type |-> "settings"]} \cup {[type |-> "candidates"]}

(* What can stand at an address.                                           *)
Stands(a, leaf) ==
    \/ \E e \in Elements : a = AddressOfElement(e) /\ leaf = ElementLeaf(e)
    \/ \E u \in Utxqs : a \in {AddressOfUtxq(u), MatchedAddress(u)} /\ leaf = UtxqLeaf(u)
    \/ \E m \in Mtxqs : a = AddressOfMtxq(m) /\ leaf = MtxqLeaf(m)
    \/ \E d \in Dimensions : a = SettingAddress(d) /\ leaf = [type |-> "settings"]
    \/ \E d \in Dimensions : a = CandidateAddress(d) /\ leaf = [type |-> "candidates"]

(* It is of the kind that the address names,                               *)
LEMMA StandsKind ==
    ASSUME NEW a, NEW leaf, Stands(a, leaf)
    PROVE  /\ leaf \in Leaf /\ leaf # Absent
           /\ KindOf(a) \in {"asset", "unit", "utxq", "mtxq"} => leaf.type = KindOf(a)
           /\ KindOf(a) # "track"
<1>1. ASSUME NEW e \in Elements, a = AddressOfElement(e), leaf = ElementLeaf(e)
      PROVE  leaf.type = KindOf(a) /\ KindOf(a) # "track"
  BY <1>1, ElementKind, LedgerAssumption DEF ElementLeaf
<1>2. ASSUME NEW u \in Utxqs, a \in {AddressOfUtxq(u), MatchedAddress(u)}, leaf = UtxqLeaf(u)
      PROVE  leaf.type = KindOf(a) /\ KindOf(a) # "track"
  BY <1>2, UtxqKind DEF UtxqLeaf
<1>3. ASSUME NEW m \in Mtxqs, a = AddressOfMtxq(m), leaf = MtxqLeaf(m)
      PROVE  leaf.type = KindOf(a) /\ KindOf(a) # "track"
  BY <1>3, MtxqKind DEF MtxqLeaf
<1>4. ASSUME NEW d, a = SettingAddress(d) \/ a = CandidateAddress(d)
      PROVE  KindOf(a) \in {"setting", "candidates"}
  BY <1>4, DimensionKinds
<1>5. leaf \in Leaf
  BY DEF Stands, Leaf
<1>6. leaf # Absent
  BY <1>5, AbsentAssumption DEF Leaf
<1> QED
  BY <1>1, <1>2, <1>3, <1>4, <1>5, <1>6 DEF Stands

(* ... and there is one leaf that can stand at an address: a leaf that is  *)
(* written again is what it was.                                           *)
LEMMA StandsOnce ==
    ASSUME NEW a, NEW v, NEW w, Stands(a, v), Stands(a, w)
    PROVE  v = w
<1>1. ASSUME NEW x, Stands(a, x)
      PROVE  /\ KindOf(a) \in {"asset", "unit"} => x = [type |-> KindOf(a), link |-> a]
             /\ KindOf(a) = "utxq" => x = [type |-> "utxq"]
             /\ KindOf(a) = "mtxq" => \E m \in Mtxqs : a = AddressOfMtxq(m) /\ x = MtxqLeaf(m)
             /\ KindOf(a) = "setting" => x = [type |-> "settings"]
             /\ KindOf(a) = "candidates" => x = [type |-> "candidates"]
             /\ KindOf(a) \in {"asset", "unit", "utxq", "mtxq", "setting", "candidates"}
  <2>1. ASSUME NEW e \in Elements, a = AddressOfElement(e), x = ElementLeaf(e)
        PROVE  KindOf(a) \in {"asset", "unit"} /\ x = [type |-> KindOf(a), link |-> a]
    BY <2>1, ElementKind, LedgerAssumption DEF ElementLeaf
  <2>2. ASSUME NEW u \in Utxqs, a \in {AddressOfUtxq(u), MatchedAddress(u)}, x = UtxqLeaf(u)
        PROVE  KindOf(a) = "utxq" /\ x = [type |-> "utxq"]
    BY <2>2, UtxqKind DEF UtxqLeaf
  <2>3. ASSUME NEW m \in Mtxqs, a = AddressOfMtxq(m), x = MtxqLeaf(m)
        PROVE  KindOf(a) = "mtxq"
    BY <2>3, MtxqKind
  <2>4. ASSUME NEW d \in Dimensions, a = SettingAddress(d), x = [type |-> "settings"]
        PROVE  KindOf(a) = "setting"
    BY <2>4, DimensionKinds
  <2>5. ASSUME NEW d \in Dimensions, a = CandidateAddress(d), x = [type |-> "candidates"]
        PROVE  KindOf(a) = "candidates"
    BY <2>5, DimensionKinds
  <2> QED
    BY <1>1, <2>1, <2>2, <2>3, <2>4, <2>5 DEF Stands
<1>2. CASE KindOf(a) = "mtxq"
  <2>1. PICK m \in Mtxqs : a = AddressOfMtxq(m) /\ v = MtxqLeaf(m)
    BY <1>1, <1>2
  <2>2. PICK n \in Mtxqs : a = AddressOfMtxq(n) /\ w = MtxqLeaf(n)
    BY <1>1, <1>2
  <2> QED
    BY <2>1, <2>2, MtxqAddressOwn
<1> QED
  BY <1>1, <1>2

(* A chain on which every leaf stands where it can.                        *)
SoundChain(chain) ==
    /\ chain \in [LeafAddresses -> Leaf \cup {Absent}]
    /\ \A a \in LeafAddresses : chain[a] # Absent => Stands(a, chain[a])

Put(chain, a, leaf) == [chain EXCEPT ![a] = leaf]

(* A transaction that writes what can stand there adds to the chain, and   *)
(* takes nothing from it.                                                  *)
LEMMA Written ==
    ASSUME NEW chain, SoundChain(chain),
           NEW a \in LeafAddresses, NEW leaf, Stands(a, leaf)
    PROVE  /\ SoundChain(Put(chain, a, leaf))
           /\ Put(chain, a, leaf)[a] = leaf /\ leaf # Absent
           /\ \A b \in LeafAddresses : b # a => Put(chain, a, leaf)[b] = chain[b]
           /\ chain[a] # Absent => Put(chain, a, leaf)[a] = chain[a]
<1> DEFINE longer == Put(chain, a, leaf)
<1>1. leaf \in Leaf /\ leaf # Absent
  BY StandsKind
<1>2. /\ longer \in [LeafAddresses -> Leaf \cup {Absent}]
      /\ longer[a] = leaf
      /\ \A b \in LeafAddresses : b # a => longer[b] = chain[b]
  BY <1>1 DEF SoundChain, Put
<1> HIDE DEF longer
<1>3. chain[a] # Absent => chain[a] = leaf
  BY StandsOnce DEF SoundChain
<1>4. SoundChain(longer)
  BY <1>2 DEF SoundChain
<1>5. /\ SoundChain(longer)
      /\ longer[a] = leaf /\ leaf # Absent
      /\ \A b \in LeafAddresses : b # a => longer[b] = chain[b]
      /\ chain[a] # Absent => longer[a] = chain[a]
  BY <1>1, <1>2, <1>3, <1>4
<1> QED
  BY <1>5 DEF longer
-------------------------------------------------------------------------------
(* The sequence of a finite set has each of its elements once.             *)
LEMMA RowsOfSet ==
    ASSUME NEW S, IsFiniteSet(S)
    PROVE  /\ SetToSeq(S) \in Seq(S) /\ Len(SetToSeq(S)) = Cardinality(S)
           /\ IsInjective(SetToSeq(S)) /\ ToSet(SetToSeq(S)) = S
<1>1. Cardinality(S) \in Nat /\ ExistsBijection(1..Cardinality(S), S)
  BY FS_CardinalityType
<1>2. PICK f \in [1..Cardinality(S) -> S] :
              IsInjective(f) /\ \A x \in S : \E i \in 1..Cardinality(S) : f[i] = x
  BY <1>1 DEF ExistsBijection, Bijection, Injection, Surjection, IsInjective
<1>3. SetToSeq(S) \in [1..Cardinality(S) -> S] /\ IsInjective(SetToSeq(S))
  BY <1>2 DEF SetToSeq
<1>4. SetToSeq(S) \in Surjection(1..Cardinality(S), S)
  <2>1. SetToSeq(S) \in Injection(1..Cardinality(S), S)
    BY <1>3 DEF Injection
  <2> DEFINE n == Cardinality(S)
  <2>2. n \in Nat
    BY <1>1
  <2> HIDE DEF n
  <2>3. n \in Int /\ 1 \in Int
    BY <2>2
  <2>4. IsFiniteSet(1..n) /\ Cardinality(1..n) = IF 1 > n THEN 0 ELSE n - 1 + 1
    BY <2>3, FS_Interval, Zenon
  <2>5. Cardinality(1..n) = n
    BY <2>2, <2>4
  <2> QED
    BY <2>1, <2>4, <2>5, FS_Injection, FS_CardinalityType DEF n
<1>5. ToSet(SetToSeq(S)) = S
  BY <1>3, <1>4 DEF ToSet, Surjection
<1> HIDE DEF IsInjective
<1>6. SetToSeq(S) \in Seq(S) /\ Len(SetToSeq(S)) = Cardinality(S)
  BY <1>1, <1>3
<1> QED
  BY <1>3, <1>5, <1>6
-------------------------------------------------------------------------------
(* The chain: what stands on it stands where it can, and a UTXQ is matched *)
(* exactly if an MTXQ of it is there.                                      *)
ChainInv ==
    /\ SoundChain(leaves)
    /\ \A m \in Mtxqs : AddressOfMtxq(m) \in Present => MatchedAddress(m.of) \in Present
    /\ \A u \in Utxqs : MatchedAddress(u) \in Present =>
          \E m \in Mtxqs : AddressOfMtxq(m) \in Present /\ MatchedAddress(m.of) = MatchedAddress(u)

(* The leaves stay as they are.                                            *)
Keeps == \A a \in Present : a \in Present' /\ leaves'[a] = leaves[a]

LEMMA ElementStands ==
    ASSUME NEW e \in Elements
    PROVE  AddressOfElement(e) \in LeafAddresses /\ Stands(AddressOfElement(e), ElementLeaf(e))
BY DEF LeafAddresses, Stands

LEMMA UtxqStands ==
    ASSUME NEW u \in Utxqs
    PROVE  /\ AddressOfUtxq(u) \in LeafAddresses /\ Stands(AddressOfUtxq(u), UtxqLeaf(u))
           /\ MatchedAddress(u) \in LeafAddresses /\ Stands(MatchedAddress(u), UtxqLeaf(u))
<1>1. AddressOfUtxq(u) \in LeafAddresses /\ MatchedAddress(u) \in LeafAddresses
  BY DEF LeafAddresses
<1> QED
  BY <1>1 DEF Stands

LEMMA MtxqStands ==
    ASSUME NEW m \in Mtxqs
    PROVE  AddressOfMtxq(m) \in LeafAddresses /\ Stands(AddressOfMtxq(m), MtxqLeaf(m))
BY DEF LeafAddresses, Stands

(* A leaf that is no part of a match.                                      *)
LEMMA PlainWrite ==
    ASSUME ChainInv, NEW a \in LeafAddresses, NEW leaf, Stands(a, leaf),
           leaves' = [leaves EXCEPT ![a] = leaf],
           KindOf(a) # "mtxq", KindOf(a) = "utxq" => ~IsMatched(a)
    PROVE  ChainInv' /\ Keeps
<1>1. /\ SoundChain(leaves')
      /\ leaves'[a] = leaf /\ leaf # Absent
      /\ \A b \in LeafAddresses : b # a => leaves'[b] = leaves[b]
      /\ leaves[a] # Absent => leaves'[a] = leaves[a]
  <2>1. leaves' = Put(leaves, a, leaf)
    BY DEF Put
  <2> DEFINE longer == Put(leaves, a, leaf)
  <2>2. /\ SoundChain(longer)
        /\ longer[a] = leaf /\ leaf # Absent
        /\ \A b \in LeafAddresses : b # a => longer[b] = leaves[b]
        /\ leaves[a] # Absent => longer[a] = leaves[a]
    BY Written DEF ChainInv
  <2> HIDE DEF longer
  <2>3. leaves' = longer
    BY <2>1 DEF longer
  <2> QED
    BY <2>2, <2>3
<1>2. Present' = Present \cup {a}
  BY <1>1 DEF Present
<1>3. \A m \in Mtxqs : AddressOfMtxq(m) # a
  BY MtxqKind
<1>4. \A u \in Utxqs : MatchedAddress(u) # a
  BY UtxqKind
<1>5. ChainInv'
  BY <1>1, <1>2, <1>3, <1>4 DEF ChainInv
<1>6. Keeps
  BY <1>1, <1>2 DEF Keeps, Present
<1> QED
  BY <1>5, <1>6

(* The two leaves of a match.                                              *)
LEMMA MatchWrite ==
    ASSUME ChainInv, NEW m \in Mtxqs,
           leaves' = [leaves EXCEPT ![MatchedAddress(m.of)] = UtxqLeaf(m.of),
                                    ![AddressOfMtxq(m)] = MtxqLeaf(m)]
    PROVE  ChainInv' /\ Keeps
<1> DEFINE half == Put(leaves, MatchedAddress(m.of), UtxqLeaf(m.of))
           a == MatchedAddress(m.of)
           b == AddressOfMtxq(m)
<1>1. m.of \in Utxqs
  BY LedgerAssumption
<1>2. /\ a \in LeafAddresses /\ Stands(a, UtxqLeaf(m.of))
      /\ b \in LeafAddresses /\ Stands(b, MtxqLeaf(m))
  BY <1>1, UtxqStands, MtxqStands
<1>3. leaves' = Put(half, b, MtxqLeaf(m))
  BY DEF Put
<1>4. /\ SoundChain(half)
      /\ half[a] # Absent
      /\ \A c \in LeafAddresses : c # a => half[c] = leaves[c]
      /\ leaves[a] # Absent => half[a] = leaves[a]
  BY <1>2, Written DEF ChainInv
<1> HIDE DEF half
<1>5. /\ SoundChain(leaves')
      /\ leaves'[b] # Absent
      /\ \A c \in LeafAddresses : c # b => leaves'[c] = half[c]
      /\ half[b] # Absent => leaves'[b] = half[b]
  <2> DEFINE whole == Put(half, b, MtxqLeaf(m))
  <2>1. /\ SoundChain(whole)
        /\ whole[b] # Absent
        /\ \A c \in LeafAddresses : c # b => whole[c] = half[c]
        /\ half[b] # Absent => whole[b] = half[b]
    BY <1>2, <1>4, Written
  <2> HIDE DEF whole
  <2>2. leaves' = whole
    BY <1>3 DEF whole
  <2> QED
    BY <2>1, <2>2
<1>6. a # b
  BY <1>1, UtxqKind, MtxqKind
<1> HIDE DEF a, b
<1>7. Present' = Present \cup {a, b}
  BY <1>2, <1>4, <1>5, <1>6 DEF Present
<1>8. \A n \in Mtxqs : AddressOfMtxq(n) \in Present' => MatchedAddress(n.of) \in Present'
  <2>1. TAKE n \in Mtxqs
  <2>2. HAVE AddressOfMtxq(n) \in Present'
  <2>3. AddressOfMtxq(n) # a
    BY <1>1, UtxqKind, MtxqKind DEF a
  <2>4. CASE AddressOfMtxq(n) = b
    BY <1>7, <2>4, MtxqAddressOwn DEF a, b
  <2>5. CASE AddressOfMtxq(n) \in Present
    BY <1>7, <2>5 DEF ChainInv
  <2> QED
    BY <1>7, <2>2, <2>3, <2>4, <2>5
<1>9. \A u \in Utxqs : MatchedAddress(u) \in Present' =>
        \E n \in Mtxqs : AddressOfMtxq(n) \in Present' /\ MatchedAddress(n.of) = MatchedAddress(u)
  <2>1. TAKE u \in Utxqs
  <2>2. HAVE MatchedAddress(u) \in Present'
  <2>3. MatchedAddress(u) # b
    BY UtxqKind, MtxqKind DEF b
  <2>4. CASE MatchedAddress(u) = a
    BY <1>7, <2>4 DEF a, b
  <2>5. CASE MatchedAddress(u) \in Present
    BY <1>7, <2>5 DEF ChainInv
  <2> QED
    BY <1>7, <2>2, <2>3, <2>4, <2>5
<1>10. Keeps
  BY <1>2, <1>4, <1>5, <1>6, <1>7 DEF Keeps, Present
<1> QED
  BY <1>5, <1>8, <1>9, <1>10 DEF ChainInv

(* The transactions add to the chain.                                      *)
LEMMA TxnsAdd ==
    ASSUME ChainInv, ApplyTxn
    PROVE  ChainInv' /\ Keeps /\ UNCHANGED lists
<1>1. ASSUME UNCHANGED leaves
      PROVE  ChainInv' /\ Keeps
  BY <1>1 DEF ChainInv, Keeps, Present
<1>2. ASSUME NEW e \in Elements, RegisterElement(e)
      PROVE  ChainInv' /\ Keeps /\ UNCHANGED lists
  <2>1. KindOf(AddressOfElement(e)) \in {"asset", "unit"}
    BY ElementKind, LedgerAssumption
  <2> QED
    BY <1>2, <2>1, ElementStands, PlainWrite DEF RegisterElement
<1>3. ASSUME NEW payload \in Payloads, ApplyExchange(payload)
      PROVE  ChainInv' /\ Keeps /\ UNCHANGED lists
  <2>1. CASE Exchange!Initiate(payload)
    <3>1. payload.type = "UTXQ" /\ leaves' = [leaves EXCEPT ![payload.ukey] = payload.udata]
      BY <2>1 DEF Exchange!Initiate
    <3>2. PICK u \in Utxqs : payload.ukey = AddressOfUtxq(u) /\ payload.udata = UtxqLeaf(u)
      BY <3>1 DEF Payloads
    <3> QED
      BY <1>3, <3>1, <3>2, UtxqStands, UtxqKind, PlainWrite DEF ApplyExchange
  <2>2. CASE Exchange!Reciprocate(payload)
    <3>1. /\ payload.type = "MTXQ"
          /\ leaves' = [leaves EXCEPT ![payload.ukey] = payload.udata,
                                      ![payload.mkey] = payload.mdata]
      BY <2>2 DEF Exchange!Reciprocate
    <3>2. PICK m \in Mtxqs :
                 /\ payload.ukey = MatchedAddress(m.of) /\ payload.udata = UtxqLeaf(m.of)
                 /\ payload.mkey = AddressOfMtxq(m) /\ payload.mdata = MtxqLeaf(m)
      BY <3>1 DEF Payloads
    <3> QED
      BY <1>3, <3>1, <3>2, MatchWrite DEF ApplyExchange
  <2>3. CASE Exchange!RefuseMatch(payload)
    BY <1>1, <1>3, <2>3 DEF ApplyExchange, Exchange!RefuseMatch
  <2> QED
    BY <1>3, <2>1, <2>2, <2>3 DEF ApplyExchange, Exchange!Apply
<1>4. ASSUME NEW t \in Tracks, ApplyTrack(t)
      PROVE  ChainInv' /\ Keeps /\ UNCHANGED lists
  BY <1>1, <1>4 DEF ApplyTrack, TrackRaises, TrackActions
<1> QED
  BY <1>2, <1>3, <1>4 DEF ApplyTxn

(* The chain after the genesis batch has settings and candidates only.     *)
LEMMA ChainInit ==
    ASSUME LInit
    PROVE  ChainInv
<1>1. ASSUME NEW a \in LeafAddresses
      PROVE  /\ leaves[a] \in Leaf \cup {Absent}
             /\ leaves[a] # Absent => /\ Stands(a, leaves[a])
                                      /\ KindOf(a) \in {"setting", "candidates"}
  <2>1. CASE \E d \in Dimensions : a = SettingAddress(d)
    BY <2>1, DimensionKinds DEF LInit, Stands, Leaf
  <2>2. CASE (\E d \in Dimensions : a = CandidateAddress(d))
                /\ ~ \E d \in Dimensions : a = SettingAddress(d)
    BY <2>2, DimensionKinds DEF LInit, Stands, Leaf
  <2>3. CASE ~ \E d \in Dimensions : a \in {SettingAddress(d), CandidateAddress(d)}
    BY <2>3 DEF LInit
  <2> QED
    BY <2>1, <2>2, <2>3
<1>2. SoundChain(leaves)
  <2>1. leaves = [a \in LeafAddresses |-> leaves[a]]
    BY DEF LInit
  <2> QED
    BY <1>1, <2>1 DEF SoundChain
<1>3. \A m \in Mtxqs : AddressOfMtxq(m) \notin Present
  BY <1>1, MtxqKind DEF Present
<1>4. \A u \in Utxqs : MatchedAddress(u) \notin Present
  BY <1>1, UtxqKind DEF Present
<1> QED
  BY <1>2, <1>3, <1>4 DEF ChainInv
-------------------------------------------------------------------------------
(* What a list asks for, on the chain as it is.                            *)
Selection(l) == {a \in Present : KindOf(a) = l}

Asked(l) == lists[l].state \in {"paging", "200"}

ListStates ==
    [state : {"idle", "paging", "200", "500"}, rows : Seq(LeafAddresses), data : Seq(LeafAddresses),
     next : Nat, height : Nat]

(* How much of a list has been read.                                       *)
Pages(list) ==
    /\ list.state = "idle" => list.data = << >> /\ list.next = 0
    /\ list.state = "paging" => /\ list.next <= Len(list.rows)
                                /\ list.data = SubSeq(list.rows, 1, list.next)
    /\ list.state = "200" => list.data = list.rows
    /\ list.state = "500" => list.data = << >>
    /\ IsInjective(list.rows)

(* A list is of the chain as it was at some height: it has leaves that     *)
(* stay, and it is up to date as long as the chain does not grow.          *)
Snapshot(l) ==
    Asked(l) =>
        /\ ToSet(lists[l].rows) \subseteq Selection(l)
        /\ lists[l].height <= Cardinality(Present)
        /\ lists[l].height = Cardinality(Present) => ToSet(lists[l].rows) = Selection(l)

ListsInv ==
    /\ lists \in [Lists -> ListStates]
    /\ \A l \in Lists : Pages(lists[l]) /\ Snapshot(l)

Matched(utxqs) == {a \in utxqs : IsMatched(a)}

Witnessed(mtxqs) == {leaves[a].utxq_addr : a \in mtxqs}

(* MatchesAreWitnessed of the lists as they were asked for, whether they   *)
(* have been read already or not.                                          *)
OneStory ==
    "utxq" \in Lists /\ "mtxq" \in Lists /\ Asked("utxq") /\ Asked("mtxq") =>
        LET matched   == Matched(ToSet(lists["utxq"].rows))
            witnessed == Witnessed(ToSet(lists["mtxq"].rows))
        IN  /\ lists["utxq"].height <= lists["mtxq"].height => matched \subseteq witnessed
            /\ lists["mtxq"].height <= lists["utxq"].height => witnessed \subseteq matched

LInv == ChainInv /\ ListsInv /\ OneStory

LEMMA PresentFinite ==
    IsFiniteSet(Present) /\ Cardinality(Present) \in Nat
<1>1. IsFiniteSet(LeafAddresses) /\ Present \in SUBSET LeafAddresses
  BY LedgerAssumption DEF Present
<1>2. IsFiniteSet(Present)
  BY <1>1, FS_Subset
<1> QED
  BY <1>2, FS_CardinalityType

(* What the validator selects for a list.                                  *)
LEMMA SelectionRows ==
    ASSUME NEW l \in Lists
    PROVE  LET rows == SetToSeq({a \in Present : IsPrefix(Prefix(l), a)})
           IN  /\ rows \in Seq(LeafAddresses) /\ IsInjective(rows)
               /\ ToSet(rows) = Selection(l)
<1>1. {a \in Present : IsPrefix(Prefix(l), a)} = Selection(l)
  BY PrefixSelects, LedgerAssumption DEF Present, Selection
<1>2. IsFiniteSet(Selection(l))
  <2>1. Selection(l) \in SUBSET Present
    BY DEF Selection
  <2> QED
    BY <2>1, PresentFinite, FS_Subset
<1> DEFINE rows == SetToSeq(Selection(l))
<1>3. rows \in Seq(Selection(l)) /\ IsInjective(rows) /\ ToSet(rows) = Selection(l)
  BY <1>2, RowsOfSet
<1>4. Selection(l) \subseteq LeafAddresses
  BY DEF Selection, Present
<1> HIDE DEF rows
<1>5. rows \in Seq(LeafAddresses)
  BY <1>3, <1>4, SeqMonotonic
<1> QED
  BY <1>1, <1>3, <1>5 DEF rows

(* A chain that keeps its leaves and does not grow stays as it is.         *)
LEMMA PresentGrows ==
    ASSUME Keeps
    PROVE  /\ Cardinality(Present) <= Cardinality(Present')
           /\ Cardinality(Present) = Cardinality(Present') => Present' = Present
<1>1. Present \in SUBSET Present'
  BY DEF Keeps
<1>2. IsFiniteSet(Present')
  <2>1. IsFiniteSet(LeafAddresses) /\ Present' \in SUBSET LeafAddresses
    BY LedgerAssumption DEF Present
  <2> QED
    BY <2>1, FS_Subset
<1> QED
  BY <1>1, <1>2, FS_Subset

(* The pages that have been read and the next one.                         *)
LEMMA PagesJoin ==
    ASSUME NEW S, NEW rows \in Seq(S), NEW n \in Nat, NEW p \in Nat, n <= p, p <= Len(rows)
    PROVE  SubSeq(rows, 1, n) \o SubSeq(rows, n + 1, p) = SubSeq(rows, 1, p)
<1> DEFINE s == SubSeq(rows, 1, n)
           t == SubSeq(rows, n + 1, p)
           r == SubSeq(rows, 1, p)
<1>1. s \in Seq(S) /\ Len(s) = n /\ \A i \in 1..n : s[i] = rows[i]
  OBVIOUS
<1>2. t \in Seq(S) /\ Len(t) = p - n /\ \A i \in 1..(p - n) : t[i] = rows[n + i]
  OBVIOUS
<1>3. r \in Seq(S) /\ Len(r) = p /\ \A i \in 1..p : r[i] = rows[i]
  OBVIOUS
<1> HIDE DEF s, t, r
<1>4. /\ Len(r) = Len(s) + Len(t)
      /\ \A i \in 1..Len(s) : r[i] = s[i]
      /\ \A i \in 1..Len(t) : r[Len(s) + i] = t[i]
  <2>1. Len(r) = Len(s) + Len(t)
    BY <1>1, <1>2, <1>3
  <2>2. ASSUME NEW i \in 1..Len(s)
        PROVE  r[i] = s[i]
    <3>1. i \in 1..n /\ i \in 1..p
      BY <1>1, <2>2
    <3> QED
      BY <1>1, <1>3, <3>1
  <2>3. ASSUME NEW i \in 1..Len(t)
        PROVE  r[Len(s) + i] = t[i]
    <3>1. i \in 1..(p - n) /\ n + i \in 1..p
      BY <1>2, <2>3
    <3> QED
      BY <1>1, <1>2, <1>3, <3>1
  <2> QED
    BY <2>1, <2>2, <2>3
<1>5. s \o t = r
  BY <1>1, <1>2, <1>3, <1>4, Joined
<1> QED
  BY <1>5 DEF s, t, r

LEMMA WholeSubSeq ==
    ASSUME NEW S, NEW rows \in Seq(S)
    PROVE  SubSeq(rows, 1, Len(rows)) = rows
OBVIOUS

(* The lists of UTXQs and MTXQs of the chain as it is.                     *)
LEMMA Story ==
    ASSUME ChainInv,
           NEW U, U \subseteq Selection("utxq"), NEW M, M \subseteq Selection("mtxq")
    PROVE  /\ M = Selection("mtxq") => Matched(U) \subseteq Witnessed(M)
           /\ U = Selection("utxq") => Witnessed(M) \subseteq Matched(U)
<1>1. ASSUME NEW m \in Mtxqs, AddressOfMtxq(m) \in Present
      PROVE  leaves[AddressOfMtxq(m)].utxq_addr = MatchedAddress(m.of)
  <2>1. leaves[AddressOfMtxq(m)] = MtxqLeaf(m)
    BY <1>1, MtxqStands, StandsOnce DEF ChainInv, SoundChain, Present
  <2> QED
    BY <2>1 DEF MtxqLeaf
<1>2. ASSUME M = Selection("mtxq"), NEW a \in Matched(U)
      PROVE  a \in Witnessed(M)
  <2>1. a \in Present /\ a \in LeafAddresses /\ KindOf(a) = "utxq" /\ IsMatched(a)
    BY <1>2 DEF Matched, Selection, Present
  <2>2. PICK u \in Utxqs : a = MatchedAddress(u)
    BY <2>1, KindsOfLeaves, UtxqKind
  <2>3. PICK m \in Mtxqs : AddressOfMtxq(m) \in Present /\ MatchedAddress(m.of) = a
    BY <2>1, <2>2 DEF ChainInv
  <2>4. AddressOfMtxq(m) \in M
    BY <1>2, <2>3, MtxqKind DEF Selection
  <2> QED
    BY <1>1, <2>3, <2>4 DEF Witnessed
<1>3. ASSUME U = Selection("utxq"), NEW x \in Witnessed(M)
      PROVE  x \in Matched(U)
  <2>1. PICK a \in M : x = leaves[a].utxq_addr
    BY <1>3 DEF Witnessed
  <2>2. a \in Present /\ a \in LeafAddresses /\ KindOf(a) = "mtxq"
    BY DEF Selection, Present
  <2>3. PICK m \in Mtxqs : a = AddressOfMtxq(m)
    BY <2>2, KindsOfLeaves
  <2>4. x = MatchedAddress(m.of) /\ x \in Present /\ m.of \in Utxqs
    BY <1>1, <2>1, <2>2, <2>3, LedgerAssumption DEF ChainInv
  <2> QED
    BY <1>3, <2>4, UtxqKind DEF Matched, Selection
<1> QED
  BY <1>2, <1>3
-------------------------------------------------------------------------------
(* The steps of the lists: what Ask, ReadPage and PageFails write.         *)
LEMMA AskWrites ==
    ASSUME ListsInv, NEW l \in Lists, NEW name, Ask(l, name)
    PROVE  /\ lists' \in [Lists -> ListStates]
           /\ \A k \in Lists : k # l => lists'[k] = lists[k]
           /\ lists'[l].data = << >> /\ lists'[l].next = 0
           /\ lists'[l].height = Cardinality(Present)
           /\ \/ lists'[l].state = "500" /\ lists'[l].rows = << >>
              \/ /\ lists'[l].state = "paging" /\ IsInjective(lists'[l].rows)
                 /\ ToSet(lists'[l].rows) = Selection(l)
           /\ leaves' = leaves
<1> DEFINE state == IF AgreementMissing(l, name) THEN "500" ELSE "paging"
           whole == SetToSeq({a \in Present : IsPrefix(Prefix(l), a)})
           rows  == IF AgreementMissing(l, name) THEN << >> ELSE whole
           height == Cardinality(Present)
<1>1. whole \in Seq(LeafAddresses) /\ IsInjective(whole) /\ ToSet(whole) = Selection(l)
  BY SelectionRows
<1>2. lists' = [lists EXCEPT ![l].state = state, ![l].rows = rows, ![l].height = height]
  BY DEF Ask
<1>3. /\ lists \in [Lists -> ListStates] /\ lists[l].state = "idle"
      /\ lists[l].data = << >> /\ lists[l].next = 0
  BY DEF ListsInv, Pages, Ask
<1>4. height \in Nat
  BY PresentFinite
<1> HIDE DEF whole
<1>5. rows \in Seq(LeafAddresses) /\ state \in {"500", "paging"}
  BY <1>1
<1>6. \/ state = "500" /\ rows = << >>
      \/ state = "paging" /\ rows = whole
  OBVIOUS
<1> HIDE DEF state, rows, height
<1>7. /\ lists' \in [Lists -> ListStates]
      /\ \A k \in Lists : k # l => lists'[k] = lists[k]
      /\ lists'[l].state = state /\ lists'[l].rows = rows /\ lists'[l].height = height
      /\ lists'[l].data = lists[l].data /\ lists'[l].next = lists[l].next
  BY <1>2, <1>3, <1>4, <1>5 DEF ListStates
<1> QED
  BY <1>1, <1>3, <1>6, <1>7 DEF height, Ask

LEMMA ReadPageWrites ==
    ASSUME ListsInv, NEW l \in Lists, ReadPage(l)
    PROVE  /\ lists' \in [Lists -> ListStates]
           /\ \A k \in Lists : k # l => lists'[k] = lists[k]
           /\ lists'[l].rows = lists[l].rows /\ lists'[l].height = lists[l].height
           /\ Asked(l) /\ Pages(lists'[l])
           /\ leaves' = leaves
<1> DEFINE list == lists[l]
           n    == list.next + PageSize
           p    == IF n < Len(list.rows) THEN n ELSE Len(list.rows)
           data == SubSeq(list.rows, 1, p)
           state == IF n < Len(list.rows) THEN "paging" ELSE "200"
<1>1. /\ lists \in [Lists -> ListStates] /\ list.state = "paging"
      /\ list.rows \in Seq(LeafAddresses) /\ list.next \in Nat /\ list.next <= Len(list.rows)
      /\ list.data = SubSeq(list.rows, 1, list.next) /\ IsInjective(list.rows)
  BY DEF ListsInv, ListStates, Pages, ReadPage
<1>2. PageSize \in Nat /\ n \in Nat /\ Len(list.rows) \in Nat
  BY <1>1, LedgerAssumption
<1>3. p \in Nat /\ list.next <= p /\ p <= Len(list.rows)
  BY <1>1, <1>2
<1>4. Concat(list.data, PageFrom(list.rows, list.next)) = data
  <2>1. PageFrom(list.rows, list.next) = SubSeq(list.rows, list.next + 1, p)
    BY DEF PageFrom
  <2> HIDE DEF p
  <2> QED
    BY <1>1, <1>3, <2>1, PagesJoin DEF Concat
<1>5. data \in Seq(LeafAddresses)
  BY <1>1, <1>3
<1>6. lists' = [lists EXCEPT ![l].data = data, ![l].next = n, ![l].state = state]
  BY <1>4 DEF ReadPage
<1>7. state \in {"paging", "200"} /\ (state = "paging" => n <= Len(list.rows) /\ data = SubSeq(list.rows, 1, n))
         /\ (state = "200" => data = list.rows)
  BY <1>1, <1>2, WholeSubSeq
<1> HIDE DEF n, data, state
<1>8. /\ lists' \in [Lists -> ListStates]
      /\ \A k \in Lists : k # l => lists'[k] = lists[k]
      /\ lists'[l].state = state /\ lists'[l].data = data /\ lists'[l].next = n
      /\ lists'[l].rows = list.rows /\ lists'[l].height = list.height
  BY <1>1, <1>2, <1>5, <1>6, <1>7 DEF ListStates
<1> QED
  BY <1>1, <1>7, <1>8 DEF Pages, Asked, ReadPage

LEMMA PageFailsWrites ==
    ASSUME ListsInv, NEW l \in Lists, PageFails(l)
    PROVE  /\ lists' \in [Lists -> ListStates]
           /\ \A k \in Lists : k # l => lists'[k] = lists[k]
           /\ Pages(lists'[l]) /\ lists'[l].state = "500"
           /\ leaves' = leaves
<1> DEFINE state == "500"
           data == << >>
<1>1. lists \in [Lists -> ListStates] /\ IsInjective(lists[l].rows)
  BY DEF ListsInv, Pages
<1>2. lists' = [lists EXCEPT ![l].state = state, ![l].data = data]
  BY DEF PageFails
<1>3. state \in {"500"} /\ data \in Seq(LeafAddresses)
  OBVIOUS
<1> HIDE DEF state, data
<1>4. /\ lists' \in [Lists -> ListStates]
      /\ \A k \in Lists : k # l => lists'[k] = lists[k]
      /\ lists'[l].state = state /\ lists'[l].data = data
      /\ lists'[l].rows = lists[l].rows
  BY <1>1, <1>2, <1>3 DEF ListStates
<1> QED
  BY <1>1, <1>4 DEF state, data, Pages, PageFails
-------------------------------------------------------------------------------
LEMMA LInvInit ==
    ASSUME LInit
    PROVE  LInv
<1>1. /\ lists \in [Lists -> ListStates]
      /\ \A l \in Lists : /\ lists[l].state = "idle" /\ lists[l].rows = << >>
                          /\ lists[l].data = << >> /\ lists[l].next = 0
  BY DEF LInit, ListStates
<1>2. IsInjective(<< >>)
  BY DEF IsInjective
<1> QED
  BY <1>1, <1>2, ChainInit DEF LInv, ListsInv, Pages, Snapshot, OneStory, Asked

(* A transaction: the lists stay, and what is on them stays on the chain.  *)
LEMMA TxnKeepsLists ==
    ASSUME LInv, ApplyTxn
    PROVE  ListsInv' /\ OneStory'
<1>1. ChainInv' /\ Keeps /\ lists' = lists
  BY TxnsAdd DEF LInv
<1>2. ASSUME NEW l \in Lists
      PROVE  Snapshot(l)'
  <2> SUFFICES ASSUME Asked(l)'
               PROVE  /\ ToSet(lists[l].rows) \subseteq Selection(l)'
                      /\ lists[l].height <= Cardinality(Present')
                      /\ lists[l].height = Cardinality(Present') =>
                            ToSet(lists[l].rows) = Selection(l)'
    BY <1>1 DEF Snapshot
  <2>1. /\ ToSet(lists[l].rows) \subseteq Selection(l)
        /\ lists[l].height <= Cardinality(Present)
        /\ lists[l].height = Cardinality(Present) => ToSet(lists[l].rows) = Selection(l)
    BY <1>1 DEF LInv, ListsInv, Snapshot, Asked
  <2>2. Selection(l) \subseteq Selection(l)'
    BY <1>1 DEF Keeps, Selection
  <2>3. /\ Cardinality(Present) <= Cardinality(Present')
        /\ Cardinality(Present) = Cardinality(Present') => Present' = Present
    BY <1>1, PresentGrows
  <2>4. lists[l].height \in Nat /\ Cardinality(Present) \in Nat /\ Cardinality(Present') \in Nat
    <3>1. Cardinality(Present') \in Nat
      <4>1. IsFiniteSet(LeafAddresses) /\ Present' \in SUBSET LeafAddresses
        BY LedgerAssumption DEF Present
      <4> QED
        BY <4>1, FS_Subset, FS_CardinalityType
    <3> QED
      BY <3>1, PresentFinite DEF LInv, ListsInv, ListStates
  <2>5. lists[l].height <= Cardinality(Present')
    BY <2>1, <2>3, <2>4
  <2>6. ASSUME lists[l].height = Cardinality(Present')
        PROVE  ToSet(lists[l].rows) = Selection(l)'
    <3>1. lists[l].height = Cardinality(Present) /\ Present' = Present
      BY <2>1, <2>3, <2>4, <2>6
    <3> QED
      BY <2>1, <3>1 DEF Selection
  <2> QED
    BY <2>1, <2>2, <2>5, <2>6
<1>3. ListsInv'
  BY <1>1, <1>2 DEF LInv, ListsInv
<1>4. OneStory'
  <2> SUFFICES ASSUME "utxq" \in Lists, "mtxq" \in Lists, Asked("utxq"), Asked("mtxq")
               PROVE  Witnessed(ToSet(lists["mtxq"].rows))'
                        = Witnessed(ToSet(lists["mtxq"].rows))
    BY <1>1 DEF LInv, OneStory, Asked
  <2>1. ToSet(lists["mtxq"].rows) \subseteq Present
    BY DEF LInv, ListsInv, Snapshot, Selection
  <2>2. \A a \in ToSet(lists["mtxq"].rows) : leaves'[a] = leaves[a]
    BY <1>1, <2>1 DEF Keeps
  <2> QED
    BY <1>1, <2>2 DEF Witnessed
<1> QED
  BY <1>3, <1>4

(* A list is asked for: it is the newest, and tells the chain's own story. *)
LEMMA AskKeepsLists ==
    ASSUME LInv, NEW l \in Lists, NEW name, Ask(l, name)
    PROVE  ListsInv' /\ OneStory'
<1>1. /\ lists' \in [Lists -> ListStates]
      /\ \A k \in Lists : k # l => lists'[k] = lists[k]
      /\ lists'[l].data = << >> /\ lists'[l].next = 0
      /\ lists'[l].height = Cardinality(Present)
      /\ \/ lists'[l].state = "500" /\ lists'[l].rows = << >>
         \/ /\ lists'[l].state = "paging" /\ IsInjective(lists'[l].rows)
            /\ ToSet(lists'[l].rows) = Selection(l)
      /\ leaves' = leaves
  BY AskWrites DEF LInv
<1>2. Present' = Present /\ \A k : Selection(k)' = Selection(k)
  BY <1>1 DEF Present, Selection
<1>3. Pages(lists'[l])
  <2>1. lists'[l].rows \in Seq(LeafAddresses)
    BY <1>1 DEF ListStates
  <2>2. 0 <= Len(lists'[l].rows) /\ SubSeq(lists'[l].rows, 1, 0) = << >>
    BY <2>1
  <2>3. IsInjective(<< >>)
    BY DEF IsInjective
  <2> QED
    BY <1>1, <2>2, <2>3 DEF Pages
<1>4. Cardinality(Present) \in Nat
  BY PresentFinite
<1>5. Snapshot(l)'
  BY <1>1, <1>2, <1>4 DEF Snapshot, Asked
<1>6. ListsInv'
  <2>1. ASSUME NEW k \in Lists, k # l
        PROVE  Pages(lists'[k]) /\ Snapshot(k)'
    BY <1>1, <1>2, <2>1 DEF LInv, ListsInv, Snapshot, Asked
  <2> QED
    BY <1>1, <1>3, <1>5, <2>1 DEF ListsInv
<1>7. OneStory'
  <2> SUFFICES ASSUME "utxq" \in Lists, "mtxq" \in Lists, Asked("utxq")', Asked("mtxq")'
               PROVE  OneStory'
    BY DEF OneStory
  <2> DEFINE U == ToSet(lists'["utxq"].rows)
             M == ToSet(lists'["mtxq"].rows)
  <2>1. /\ U \subseteq Selection("utxq") /\ M \subseteq Selection("mtxq")
        /\ lists'["utxq"].height <= Cardinality(Present)
        /\ lists'["mtxq"].height <= Cardinality(Present)
        /\ lists'["utxq"].height = Cardinality(Present) => U = Selection("utxq")
        /\ lists'["mtxq"].height = Cardinality(Present) => M = Selection("mtxq")
    BY <1>2, <1>6 DEF ListsInv, Snapshot
  <2>2. lists'["utxq"].height \in Nat /\ lists'["mtxq"].height \in Nat
    BY <1>1 DEF ListStates
  <2> HIDE DEF U, M
  <2>3. /\ M = Selection("mtxq") => Matched(U) \subseteq Witnessed(M)
        /\ U = Selection("utxq") => Witnessed(M) \subseteq Matched(U)
    BY <2>1, Story DEF LInv
  <2>4. Witnessed(ToSet(lists["mtxq"].rows))' = Witnessed(M)
    BY <1>1 DEF Witnessed, M
  <2>5. /\ lists'["utxq"].height <= lists'["mtxq"].height => Matched(U) \subseteq Witnessed(M)
        /\ lists'["mtxq"].height <= lists'["utxq"].height => Witnessed(M) \subseteq Matched(U)
    <3>1. CASE l \in {"utxq", "mtxq"}
      BY <1>1, <1>4, <2>1, <2>2, <2>3, <3>1
    <3>2. CASE l \notin {"utxq", "mtxq"}
      <4>1. lists'["utxq"] = lists["utxq"] /\ lists'["mtxq"] = lists["mtxq"]
        BY <1>1, <3>2
      <4>2. Asked("utxq") /\ Asked("mtxq")
        BY <4>1 DEF Asked
      <4> QED
        BY <4>1, <4>2 DEF LInv, OneStory, U, M
    <3> QED
      BY <3>1, <3>2
  <2> QED
    BY <2>4, <2>5 DEF OneStory, U, M
<1> QED
  BY <1>6, <1>7

(* The pages of a list change neither what it was asked for nor what is on *)
(* the chain.                                                              *)
LEMMA PageKeepsLists ==
    ASSUME LInv, NEW l \in Lists, ReadPage(l) \/ PageFails(l)
    PROVE  ListsInv' /\ OneStory'
<1>1. /\ lists' \in [Lists -> ListStates]
      /\ \A k \in Lists : k # l => lists'[k] = lists[k]
      /\ Pages(lists'[l]) /\ leaves' = leaves
      /\ \/ Asked(l) /\ lists'[l].rows = lists[l].rows /\ lists'[l].height = lists[l].height
         \/ lists'[l].state = "500"
  BY ReadPageWrites, PageFailsWrites DEF LInv
<1>2. Present' = Present /\ \A k : Selection(k)' = Selection(k)
  BY <1>1 DEF Present, Selection
<1>3. ASSUME NEW k \in Lists, Asked(k)'
      PROVE  /\ Asked(k) /\ lists'[k].rows = lists[k].rows
             /\ lists'[k].height = lists[k].height
  BY <1>1, <1>3 DEF Asked
<1>4. ListsInv'
  <2>1. ASSUME NEW k \in Lists
        PROVE  Pages(lists'[k])
    BY <1>1 DEF LInv, ListsInv
  <2>2. ASSUME NEW k \in Lists
        PROVE  Snapshot(k)'
    BY <1>2, <1>3 DEF LInv, ListsInv, Snapshot
  <2> QED
    BY <1>1, <2>1, <2>2 DEF ListsInv
<1>5. OneStory'
  BY <1>1, <1>3 DEF LInv, OneStory, Witnessed
<1> QED
  BY <1>4, <1>5

LEMMA LInvStep ==
    ASSUME LInv, [LNext]_<< leaves, lists >>
    PROVE  LInv'
<1>1. CASE ApplyTxn
  BY <1>1, TxnsAdd, TxnKeepsLists DEF LInv
<1>2. ASSUME leaves' = leaves
      PROVE  ChainInv'
  BY <1>2 DEF LInv, ChainInv, Present
<1>3. ASSUME NEW l \in Lists, NEW name \in Names, Ask(l, name)
      PROVE  LInv'
  BY <1>2, <1>3, AskKeepsLists DEF LInv, Ask
<1>4. ASSUME NEW l \in Lists, ReadPage(l) \/ PageFails(l)
      PROVE  LInv'
  BY <1>2, <1>4, PageKeepsLists DEF LInv, ReadPage, PageFails
<1>5. CASE UNCHANGED << leaves, lists >>
  BY <1>2, <1>5
     DEF LInv, ListsInv, OneStory, Snapshot, Asked, Selection, Present, Witnessed
<1> QED
  BY <1>1, <1>3, <1>4, <1>5 DEF LNext
-------------------------------------------------------------------------------
(* LInv holds of every state.                                              *)
THEOREM LedgerInvariant == LSpec => []LInv
BY LInvInit, LInvStep, PTL DEF LSpec

(* The leaves are where, and what, their transactions write.               *)
LEMMA LeavesTyped ==
    ASSUME LInv
    PROVE  LTypeOK
<1>1. ASSUME NEW a \in LeafAddresses, NEW leaf, Stands(a, leaf)
      PROVE  leaves[a] \in {Absent, leaf}
  BY <1>1, StandsOnce DEF LInv, ChainInv, SoundChain
<1>2. \A e \in Elements : leaves[AddressOfElement(e)] \in {Absent, ElementLeaf(e)}
  BY <1>1, ElementStands
<1>3. \A u \in Utxqs : {leaves[AddressOfUtxq(u)], leaves[MatchedAddress(u)]}
                            \subseteq {Absent, UtxqLeaf(u)}
  BY <1>1, UtxqStands
<1>4. \A m \in Mtxqs : leaves[AddressOfMtxq(m)] \in {Absent, MtxqLeaf(m)}
  BY <1>1, MtxqStands
<1>5. \A t \in Tracks : leaves[AddressOfTrack(t)] = Absent
  <2>1. \A t \in Tracks : AddressOfTrack(t) \in LeafAddresses
    BY DEF LeafAddresses
  <2>2. \A t \in Tracks : ~Stands(AddressOfTrack(t), leaves[AddressOfTrack(t)])
    BY TrackKind, StandsKind
  <2> QED
    BY <2>1, <2>2 DEF LInv, ChainInv, SoundChain
<1> QED
  BY <1>2, <1>3, <1>4, <1>5
     DEF LTypeOK, LInv, ChainInv, SoundChain, ListsInv, ListStates

(* The type invariant: every leaf stands where its family's addresses are, *)
(* and no track is ever on the chain (TrackHandler.apply fails).           *)
THEOREM LedgerTyped == LSpec => []LTypeOK
BY LedgerInvariant, LeavesTyped, PTL

(* What has been read of a list stands on the chain, and is of its kind.   *)
LEMMA ReadStands ==
    ASSUME LInv, NEW l \in Lists
    PROVE  /\ lists[l].state = "200" => lists[l].data = lists[l].rows
           /\ lists[l].state = "500" => lists[l].data = << >>
           /\ Listed(l) \subseteq Selection(l)
           /\ \A a \in Listed(l) : leaves[a] # Absent /\ leaves[a].type = l
           /\ IsInjective(lists[l].data)
<1> DEFINE list == lists[l]
<1>1. list \in ListStates /\ Pages(list) /\ Snapshot(l)
  BY DEF LInv, ListsInv
<1>2. /\ list.state \in {"idle", "paging", "200", "500"}
      /\ list.rows \in Seq(LeafAddresses) /\ list.next \in Nat
  BY <1>1 DEF ListStates
<1>3. CASE list.state \in {"idle", "500"}
  <2>1. list.data = << >>
    BY <1>1, <1>3 DEF Pages
  <2>2. ToSet(<< >>) = {} /\ IsInjective(<< >>)
    BY DEF ToSet, IsInjective
  <2> QED
    BY <1>3, <2>1, <2>2 DEF Listed
<1>4. CASE list.state \in {"paging", "200"}
  <2>1. /\ list.data \in Seq(LeafAddresses) /\ Len(list.data) <= Len(list.rows)
        /\ \A i \in 1..Len(list.data) : list.data[i] = list.rows[i]
    <3>1. ASSUME NEW n \in Nat, n <= Len(list.rows)
          PROVE  LET part == SubSeq(list.rows, 1, n)
                 IN  /\ part \in Seq(LeafAddresses) /\ Len(part) = n
                     /\ \A i \in 1..n : part[i] = list.rows[i]
      BY <1>2, <3>1
    <3>2. \E n \in Nat : n <= Len(list.rows) /\ list.data = SubSeq(list.rows, 1, n)
      <4>1. CASE list.state = "paging"
        BY <1>1, <1>2, <4>1 DEF Pages
      <4>2. CASE list.state = "200"
        <5>1. Len(list.rows) \in Nat /\ list.data = SubSeq(list.rows, 1, Len(list.rows))
          BY <1>1, <1>2, <4>2, WholeSubSeq DEF Pages
        <5> QED
          BY <5>1
      <4> QED
        BY <1>4, <4>1, <4>2
    <3> HIDE DEF list
    <3> QED
      BY <3>1, <3>2
  <2>2. IsInjective(list.rows)
    BY <1>1 DEF Pages
  <2>3. IsInjective(list.data)
    <3> HIDE DEF list
    <3>1. /\ Len(list.data) \in Nat /\ DOMAIN list.data = 1..Len(list.data)
          /\ Len(list.rows) \in Nat /\ DOMAIN list.rows = 1..Len(list.rows)
      BY <1>2, <2>1
    <3>2. DOMAIN list.data \subseteq DOMAIN list.rows
      BY <2>1, <3>1
    <3>3. ASSUME NEW a \in DOMAIN list.data, NEW b \in DOMAIN list.data,
                 list.data[a] = list.data[b]
          PROVE  a = b
      <4>1. list.rows[a] = list.rows[b]
        BY <2>1, <3>1, <3>3
      <4> QED
        BY <2>2, <3>2, <4>1 DEF IsInjective
    <3> QED
      BY <3>3 DEF IsInjective
  <2>4. ToSet(list.data) \subseteq ToSet(list.rows)
    BY <1>2, <2>1 DEF ToSet
  <2>5. Listed(l) \subseteq Selection(l)
    BY <1>1, <1>4, <2>4 DEF Snapshot, Asked, Listed
  <2>6. \A a \in Selection(l) : leaves[a] # Absent /\ leaves[a].type = l
    BY StandsKind, LedgerAssumption DEF Selection, Present, LInv, ChainInv, SoundChain
  <2> QED
    BY <1>1, <1>4, <2>3, <2>5, <2>6 DEF Pages
<1> QED
  BY <1>2, <1>3, <1>4

(* A list is answered whole or not at all (__get_leaf_data and the         *)
(* decoders), whatever the page size and however the chain grows meanwhile.*)
THEOREM ListsAreWhole == LSpec => []ListIsWhole
<1>1. LInv => ListIsWhole
  BY ReadStands DEF ListIsWhole
<1> QED
  BY <1>1, LedgerInvariant, PTL

(* The link of a listed leaf leads to it, and opens as what it is: the     *)
(* slice of the address that tells UTXQs from MTXQs is the prefix of one   *)
(* list only.                                                              *)
THEOREM LinksAlwaysOpen == LSpec => []LinksOpen
<1>1. ASSUME LInv, NEW l \in Lists, NEW a \in Listed(l)
      PROVE  leaves[a] # Absent /\ leaves[a].type = ReadAs(l, a)
  <2>1. a \in LeafAddresses /\ KindOf(a) = l /\ leaves[a] # Absent /\ leaves[a].type = l
    BY <1>1, ReadStands DEF Selection, Present
  <2>2. IsMtypePrefix("utxq", a) <=> l = "utxq"
    BY <2>1, PrefixSelects DEF IsMtypePrefix, Prefix
  <2> QED
    BY <2>1, <2>2, LedgerAssumption DEF ReadAs, Endpoint
<1>2. LInv => LinksOpen
  BY <1>1 DEF LinksOpen
<1> QED
  BY <1>2, LedgerInvariant, PTL

(* The lists of UTXQs and MTXQs, asked for at different heights of the     *)
(* chain and read page by page, agree on what is matched: the MTXQ handler *)
(* writes the matched UTXQ with the MTXQ, and nothing is ever deleted.     *)
THEOREM ListsTellOneStory == LSpec => []MatchesAreWitnessed
<1>1. ASSUME LInv, Answered("utxq"), Answered("mtxq")
      PROVE  /\ OneStory /\ Asked("utxq") /\ Asked("mtxq")
             /\ lists["utxq"].data = lists["utxq"].rows
             /\ lists["mtxq"].data = lists["mtxq"].rows
  BY <1>1, ReadStands DEF LInv, Answered, Asked
<1>2. LInv => MatchesAreWitnessed
  BY <1>1 DEF MatchesAreWitnessed, OneStory, Answered, Matched, Witnessed, Listed
<1> QED
  BY <1>2, LedgerInvariant, PTL
===============================================================================
