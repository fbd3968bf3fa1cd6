----------------------------- MODULE LedgerQueries -----------------------------
(***************************************************************************)
(* The lists that the REST service makes of the chain: assets, units,      *)
(* UTXQs and MTXQs.  A list is read from the validator page by page, while *)
(* the families' transactions go on.  The first page comes from the chain  *)
(* head, and the links to the others name the block of the first: that is  *)
(* the promise of Sawtooth's REST API.  The address of a leaf decides      *)
(* what list it is on and, when its link is followed, what it is read as.  *)
(***************************************************************************)
EXTENDS Addressing, Integers, FiniteSets

CONSTANTS
    Elements,     \* assets and units: family, system, key and ident
    Dimensions,   \* families with settings and candidates
    Utxqs,        \* verb and ident
    Mtxqs,        \* verb, ident, and of which UTXQ
    Tracks,       \* ident and property
    Lists,        \* the lists that are asked for
    Agreements,   \* the names of the configured agreements
    Names,        \* the names that are given for one
    PageSize,
    Absent

VARIABLES
    leaves,   \* chain: the leaf at each address
    lists     \* the lists and how far they are

AddressOfElement(e) == ElementAddress(e.family, e.system, e.key, e.ident)
AddressOfUtxq(u)    == UtxqUnmatched(u.verb, u.ident)
MatchedAddress(u)   == SetUtxqMatched(AddressOfUtxq(u))
AddressOfMtxq(m)    == MtxqAddress(m.verb, m.ident)
AddressOfTrack(t)   == TrackAddress(t.ident, t.property)

LeafAddresses ==
    {AddressOfElement(e) : e \in Elements}
        \cup {SettingAddress(d) : d \in Dimensions} \cup {CandidateAddress(d) : d \in Dimensions}
        \cup {AddressOfUtxq(u) : u \in Utxqs} \cup {MatchedAddress(u) : u \in Utxqs}
        \cup {AddressOfMtxq(m) : m \in Mtxqs} \cup {AddressOfTrack(t) : t \in Tracks}

(* A leaf as the message it holds.                                         *)
ElementLeaf(e) == [type |-> e.family, link |-> AddressOfElement(e)]
UtxqLeaf(u)    == [type |-> "utxq"]
MtxqLeaf(m)    == [type |-> "mtxq", utxq_addr |-> MatchedAddress(m.of)]

Payloads ==
    {[type |-> "UTXQ", ukey |-> AddressOfUtxq(u), udata |-> UtxqLeaf(u)] : u \in Utxqs}
        \cup {[type |-> "MTXQ", ukey |-> MatchedAddress(m.of), udata |-> UtxqLeaf(m.of),
               mkey |-> AddressOfMtxq(m), mdata |-> MtxqLeaf(m), proof |-> "valid"] : m \in Mtxqs}

(* An ident is a fresh UUID, so that no two MTXQs share an address.        *)
ASSUME LedgerAssumption ==
    /\ IsFiniteSet(LeafAddresses)
    /\ \A e \in Elements : e.family \in {"asset", "unit"}
    /\ \A x \in Utxqs \cup Mtxqs : x.verb = << x.verb[1], x.verb[2] >>
    /\ \A m \in Mtxqs : m.of \in Utxqs
    /\ \A m, n \in Mtxqs : m.verb = n.verb /\ m.ident = n.ident => m = n
    /\ Lists \subseteq {"asset", "unit", "utxq", "mtxq"}
    /\ PageSize \in Nat \ {0}

ASSUME AbsentAssumption ==
    Absent \notin {ElementLeaf(e) : e \in Elements} \cup {UtxqLeaf(u) : u \in Utxqs}
                      \cup {MtxqLeaf(m) : m \in Mtxqs} \cup {[type |-> "settings"]}
                      \cup {[type |-> "candidates"]}

Exchange == INSTANCE ExchangeTP WITH Blobs <- {}

(* The chain after the genesis batch; no list has been asked for.          *)
LInit ==
    /\ leaves = [a \in LeafAddresses |->
                    IF \E d \in Dimensions : a = SettingAddress(d) THEN [type |-> "settings"]
                    ELSE IF \E d \in Dimensions : a = CandidateAddress(d) THEN [type |-> "candidates"]
                    ELSE Absent]
    /\ lists = [l \in Lists |-> [state |-> "idle", rows |-> << >>, data |-> << >>,
                               next |-> 0, height |-> 0]]
-------------------------------------------------------------------------------
(* The transactions.                                                       *)
RegisterElement(e) ==
    /\ leaves' = [leaves EXCEPT ![AddressOfElement(e)] = ElementLeaf(e)]
    /\ UNCHANGED lists

(* An MTXQ is submitted for a UTXQ that is there.                          *)
ApplyExchange(payload) ==
    /\ payload.type = "MTXQ" =>
          \E u \in Utxqs : payload.ukey = MatchedAddress(u) /\ leaves[AddressOfUtxq(u)] # Absent
    /\ Exchange!Apply(payload)
    /\ UNCHANGED lists

(* What a handler of the track family has of its own, and the actions that *)
(* its payload knows.                                                      *)
TrackHandlerFields ==
    {"_addresser", "_auth_list", "_action", "addresser", "family_name", "family_versions",
     "namespaces"}

TrackActions == {"TRACK"}

(* Faulty: the action is there, and so is what it is compared with.        *)
NeverRaises == FALSE

(* After the write, self.action is compared with TrackPayload.CREATE.      *)
TrackRaises == "action" \notin TrackHandlerFields \/ "CREATE" \notin TrackActions

(* The validator drops what a handler has written that raises.             *)
ApplyTrack(t) ==
    /\ leaves' = IF TrackRaises
                   THEN leaves
                   ELSE [leaves EXCEPT ![AddressOfTrack(t)] = [type |-> "track"]]
    /\ UNCHANGED lists

ApplyTxn ==
    \/ \E e \in Elements : RegisterElement(e)
    \/ \E payload \in Payloads : ApplyExchange(payload)
    \/ \E t \in Tracks : ApplyTrack(t)
-------------------------------------------------------------------------------
(* The lists.                                                              *)
Prefix(l) ==
    CASE l = "asset" -> FamilyPrefix("asset")
      [] l = "unit"  -> FamilyPrefix("unit")
      [] l \in {"utxq", "mtxq"} -> MtypePrefix(l)

Present == {a \in LeafAddresses : leaves[a] # Absent}

(* The exchange lists ask for an agreement, and an unknown one raises.     *)
AgreementMissing(l, name) == l \in {"utxq", "mtxq"} /\ name \notin Agreements

Ask(l, name) ==
    /\ lists[l].state = "idle"
    /\ lists' = [lists EXCEPT
          ![l].state  = IF AgreementMissing(l, name) THEN "500" ELSE "paging",
          ![l].rows   = IF AgreementMissing(l, name)
                          THEN << >>
                          ELSE SetToSeq({a \in Present : IsPrefix(Prefix(l), a)}),
          ![l].height = Cardinality(Present)]
    /\ UNCHANGED leaves

PageFrom(rows, i) ==
    SubSeq(rows, i + 1, IF i + PageSize < Len(rows) THEN i + PageSize ELSE Len(rows))

(* Faulty: every page takes the place of the one before.                   *)
LastPage(data, page) == page

(* A page is appended to what there is already.                            *)
Concat(data, page) == data \o page

(* Each page but the last has the link of the next.                        *)
ReadPage(l) ==
    /\ lists[l].state = "paging"
    /\ lists' = [lists EXCEPT
          ![l].data  = Concat(@, PageFrom(lists[l].rows, lists[l].next)),
          ![l].next  = @ + PageSize,
          ![l].state = IF lists[l].next + PageSize < Len(lists[l].rows) THEN "paging" ELSE "200"]
    /\ UNCHANGED leaves

(* A page that is not answered with 200 ends the list, the first with      *)
(* RestException and a later one with AttributeError: nobody gets a part.  *)
PageFails(l) ==
    /\ lists[l].state = "paging"
    /\ lists' = [lists EXCEPT ![l].state = "500", ![l].data = << >>]
    /\ UNCHANGED leaves

LNext ==
    \/ ApplyTxn
    \/ \E l \in Lists :
          (\E name \in Names : Ask(l, name)) \/ ReadPage(l) \/ PageFails(l)

LSpec == LInit /\ [][LNext]_<< leaves, lists >>
-------------------------------------------------------------------------------
(* Where the link of a listed leaf leads, and what the leaf is read as.    *)
Endpoint(l) == IF l \in {"asset", "unit"} THEN l ELSE "exchange"

ReadAs(l, address) ==
    IF Endpoint(l) # "exchange" THEN Endpoint(l)
    ELSE IF IsMtypePrefix("utxq", address) THEN "utxq" ELSE "mtxq"

Listed(l) == ToSet(lists[l].data)

Answered(l) == l \in Lists /\ lists[l].state = "200"

(* Every leaf stands where its family's addresses are; and there is no     *)
(* track on the chain, because every track transaction fails.              *)
LTypeOK ==
    /\ DOMAIN leaves = LeafAddresses
    /\ \A e \in Elements : leaves[AddressOfElement(e)] \in {Absent, ElementLeaf(e)}
    /\ \A u \in Utxqs : {leaves[AddressOfUtxq(u)], leaves[MatchedAddress(u)]}
                            \subseteq {Absent, UtxqLeaf(u)}
    /\ \A m \in Mtxqs : leaves[AddressOfMtxq(m)] \in {Absent, MtxqLeaf(m)}
    /\ \A t \in Tracks : leaves[AddressOfTrack(t)] = Absent
    /\ \A l \in Lists : lists[l].state \in {"idle", "paging", "200", "500"}

(* A list that is answered is the whole list of one block, without         *)
(* repetitions, and of leaves of its own kind only; a list that fails is   *)
(* not answered in part.                                                   *)
ListIsWhole ==
    \A l \in Lists :
        /\ lists[l].state = "200" => lists[l].data = lists[l].rows
        /\ lists[l].state = "500" => lists[l].data = << >>
        /\ \A a \in Listed(l) : leaves[a] # Absent /\ leaves[a].type = l
        /\ IsInjective(lists[l].data)

(* The link of a listed leaf leads to it, and it is read as what it is.    *)
LinksOpen ==
    \A l \in Lists : Answered(l) =>
        \A a \in Listed(l) : leaves[a] # Absent /\ leaves[a].type = ReadAs(l, a)

(* The lists of UTXQs and MTXQs, whichever is the older one, tell one      *)
(* story: a UTXQ that the older list shows as matched has its MTXQ on the  *)
(* newer list, and the UTXQ of an MTXQ on the older list is shown as       *)
(* matched on the newer one.                                               *)
MatchesAreWitnessed ==
    Answered("utxq") /\ Answered("mtxq") =>
        LET matched   == {a \in Listed("utxq") : IsMatched(a)}
            witnessed == {leaves[a].utxq_addr : a \in Listed("mtxq")}
        IN  /\ lists["utxq"].height <= lists["mtxq"].height => matched \subseteq witnessed
            /\ lists["mtxq"].height <= lists["utxq"].height => witnessed \subseteq matched
===============================================================================
