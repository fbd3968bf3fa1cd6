----------------------------- MODULE MCGovernance -----------------------------
(***************************************************************************)
(* Governance for TLC: two keys, which are listed together or one at a     *)
(* time, and an entry at each of two addresses.                            *)
(***************************************************************************)
EXTENDS Governance, TLC

CONSTANTS k1, k2, e1, e2, a1, a2

MCAddressOf == [e \in Entries |-> IF e = e1 THEN a1 ELSE a2]
MCAuthLists == {<< k1, k2 >>, << k2 >>}

(* The entries are interchangeable, each with its address.                 *)
MCSymmetry ==
    {p \in {p @@ q : p \in Permutations({e1, e2}), q \in Permutations({a1, a2})} :
        p[e1] = e1 <=> p[a1] = a1}
===============================================================================
