------------------------------ MODULE Addressing ------------------------------
(***************************************************************************)
(* The layout of the addresses on the chain.  An address is a row of       *)
(* fields, most of them hashes cut to a few digits; a field is written     *)
(* here as what is hashed, which takes the hashes of the names in use to   *)
(* differ.  Prefixes of the row select the leaves of a family, of a        *)
(* system's key, or of one kind of exchange.                               *)
(***************************************************************************)
EXTENDS Sequences, SequencesExt

Namespace == "hashblock"

FamilyPrefix(family) == << Namespace, family >>

SettingAddress(stype) == FamilyPrefix("setting") \o << stype, "filler" >>

(* Faulty: the container stands among the entries of its family.           *)
CandidatesInFamily(family) == FamilyPrefix(family) \o << "candidates", "filler" >>

(* The containers have a branch of their own, beside the families.         *)
CandidateAddress(family) == << Namespace, "candidates", family, "filler" >>

SyskeyPrefix(family, system, key) == FamilyPrefix(family) \o << system, key >>

ElementAddress(family, system, key, ident) == SyskeyPrefix(family, system, key) \o << ident >>

TrackAddress(ident, property) == FamilyPrefix("track") \o << ident, property >>

MtypePrefix(mtype) == FamilyPrefix("exchange") \o << mtype >>

(* Faulty: the slice ends before the kind of exchange.                     *)
IsFamilyPrefix(mtype, address) == IsPrefix(FamilyPrefix("exchange"), address)

IsMtypePrefix(mtype, address) == IsPrefix(MtypePrefix(mtype), address)

(* A verb is a pair: its namespace and its name in it.                     *)
OperationPrefix(mtype, verb) == MtypePrefix(mtype) \o verb

UtxqUnmatched(verb, ident) == OperationPrefix("utxq", verb) \o << "0", ident >>

MtxqAddress(verb, ident) == OperationPrefix("mtxq", verb) \o << "0", ident >>

(* The flag comes after namespace, family, kind and the two of the verb.   *)
FlagField == 6

IsMatched(address) == address[FlagField] = "1"

SetUtxqMatched(address) == [address EXCEPT ![FlagField] = "1"]
===============================================================================
