---------------------------- MODULE QuorumRegistry ----------------------------
(***************************************************************************)
(* What the asset and unit families promise of a registry under            *)
(* governance, without containers, lists, positions and caches.  Electors  *)
(* register entries themselves, or open a proposal, on which each elector  *)
(* has one vote; a proposal enters the registry only when a quorum of      *)
(* electors supports it, and leaves without trace when a quorum opposes    *)
(* it, when everybody has spoken, or when its last vote is withdrawn.      *)
(***************************************************************************)
EXTENDS Integers, FiniteSets

CONSTANTS
    Keys,
    Entries,
    Addresses,
    AddressOf,
    NotRegistered

VARIABLES
    electors,    \* who may register, propose and vote
    quorum,      \* how many of them register a proposal
    pending,     \* the open proposals
    registry     \* the entry at each address

vars == << electors, quorum, pending, registry >>

(* An open proposal: who supports it, who opposes it, who cast a vote that *)
(* counts for neither.                                                     *)
Proposals ==
    [id : Addresses, entry : Entries,
     yes : SUBSET Keys, no : SUBSET Keys, blank : SUBSET Keys]

Voted(p) == p.yes \cup p.no \cup p.blank

TypeOK ==
    /\ electors \subseteq Keys
    /\ quorum \in Int
    /\ pending \subseteq Proposals
    /\ registry \in [Addresses -> Entries \cup {NotRegistered}]

Init ==
    /\ electors \in SUBSET Keys
    /\ quorum \in Int
    /\ pending = {}
    /\ registry = [a \in Addresses |-> NotRegistered]
-------------------------------------------------------------------------------
Register(entry) ==
    /\ electors # {}
    /\ registry' = [registry EXCEPT ![AddressOf[entry]] = entry]
    /\ UNCHANGED << electors, quorum, pending >>

Open(key, entry) ==
    /\ key \in electors
    /\ quorum > 1
    /\ \A p \in pending : p.id # AddressOf[entry]
    /\ pending' = pending \cup
                    {[id |-> AddressOf[entry], entry |-> entry,
                      yes |-> {key}, no |-> {}, blank |-> {}]}
    /\ UNCHANGED << electors, quorum, registry >>

(* The vote of key, which has none on p yet, added on one side.            *)
MayVote(key, p) == key \in electors \ Voted(p)

Supported(p, key) == [p EXCEPT !.yes = @ \cup {key}]
Opposed(p, key)   == [p EXCEPT !.no = @ \cup {key}]
Abstained(p, key) == [p EXCEPT !.blank = @ \cup {key}]

Ballots(p, key)   == {Supported(p, key), Opposed(p, key), Abstained(p, key)}

HasQuorum(side) == Cardinality(side) >= quorum

EverybodySpoke(p) == p.yes \cup p.no = electors

Approve(key, p) ==
    /\ MayVote(key, p)
    /\ HasQuorum(Supported(p, key).yes)
    /\ registry' = [registry EXCEPT ![p.id] = p.entry]
    /\ pending' = pending \ {p}
    /\ UNCHANGED << electors, quorum >>

Dismiss(key, p) ==
    /\ MayVote(key, p)
    /\ \E q \in Ballots(p, key) :
          /\ ~HasQuorum(q.yes)
          /\ HasQuorum(q.no) \/ EverybodySpoke(q)
    /\ pending' = pending \ {p}
    /\ UNCHANGED << electors, quorum, registry >>

Count(key, p) ==
    /\ MayVote(key, p)
    /\ \E q \in Ballots(p, key) :
          /\ ~HasQuorum(q.yes)
          /\ ~HasQuorum(q.no)
          /\ pending' = (pending \ {p}) \cup {q}
    /\ UNCHANGED << electors, quorum, registry >>

Withdraw(key, p) ==
    /\ key \in electors \cap Voted(p)
    /\ LET q == [p EXCEPT !.yes = @ \ {key}, !.no = @ \ {key}, !.blank = @ \ {key}]
       IN  pending' = IF Voted(q) = {} THEN pending \ {p} ELSE (pending \ {p}) \cup {q}
    /\ UNCHANGED << electors, quorum, registry >>

Next ==
    \/ \E entry \in Entries : Register(entry)
    \/ \E key \in Keys, entry \in Entries : Open(key, entry)
    \/ \E key \in Keys, p \in pending :
          Approve(key, p) \/ Dismiss(key, p) \/ Count(key, p) \/ Withdraw(key, p)

Spec == Init /\ [][Next]_vars
===============================================================================
