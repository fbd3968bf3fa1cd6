----------------------------- MODULE Configuration -----------------------------
(***************************************************************************)
(* What the program makes of its two configuration files: of the           *)
(* agreements, who may deal with whom; of the dualities, which verbs       *)
(* initiate an exchange, and which reciprocate one and depend on it.  A    *)
(* verb is a pair, its namespace and its name in it.                       *)
(***************************************************************************)
EXTENDS Sequences, SequencesExt

CONSTANTS
    Signers,      \* names that the file gives keys to
    Agreements,   \* the names of each agreement, a sequence
    Namespaces    \* initiates and reciprocates of each namespace

(* An operator with fresh keys joins the signers of the file.              *)
HB_OPERATOR == "__ZZZ_fff_hashblock_OPERATOR"

KeyOwners == Signers \cup {HB_OPERATOR}

(* The namespace of the templates is taken out; the secret of an agreement *)
(* is made of one key of each side.                                        *)
Loads ==
    /\ "hashblock" \in DOMAIN Namespaces
    /\ \A a \in DOMAIN Agreements :
          Len(Agreements[a]) = 2 /\ ToSet(Agreements[a]) \subseteq KeyOwners

(* A secret as the set of those who share it; when the file does not load, *)
(* there is no program.                                                    *)
Partners == IF Loads THEN {ToSet(Agreements[a]) : a \in DOMAIN Agreements} ELSE {}

SpecNames == DOMAIN Namespaces \ {"hashblock"}

Initiates ==
    UNION {{<< ns, verb >> : verb \in Namespaces[ns].initiates} : ns \in SpecNames}

Reciprocates ==
    UNION {{<< ns, verb >> : verb \in DOMAIN Namespaces[ns].reciprocates} : ns \in SpecNames}

ReciprocateDependsOn == [rverb \in Reciprocates |-> Namespaces[rverb[1]].reciprocates[rverb[2]]]
===============================================================================
