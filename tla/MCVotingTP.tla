------------------------------ MODULE MCVotingTP ------------------------------
(***************************************************************************)
(* VotingTP for TLC: two, three or four listed keys, and strangers to the  *)
(* shorter lists; two addresses, and two entries that share the first of   *)
(* them.                                                                   *)
(***************************************************************************)
EXTENDS VotingTP, TLC

CONSTANTS k1, k2, k3, k4, e1, e2, e3, a1, a2

MCKeys == {k1, k2, k3, k4}
MCAddressOf == [e \in Entries |-> IF e = e3 THEN a2 ELSE a1]

MCAuthLists == {<< k1, k2 >>, << k1, k2, k3 >>, << k1, k2, k3, k4 >>}
MCThresholds == 1..3

MCRepeatedKeys == {<< k1, k2, k2 >>}

(* Bound: two electors vote at both addresses, three at the one that two   *)
(* entries contend for, and four on one entry.                             *)
VotedOn == {e1} \cup (IF Len(settings.auth_list) < 4 THEN {e2} ELSE {})
                \cup (IF Len(settings.auth_list) < 3 THEN {e3} ELSE {})

WithinBound ==
    /\ \A a \in Addresses : registry[a] \in VotedOn \cup {NotRegistered}
    /\ \A i \in DOMAIN candidates : candidates[i].proposal \in VotedOn

MCSpec == Init /\ [][Next /\ WithinBound']_vars
===============================================================================
