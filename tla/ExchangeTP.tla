------------------------------ MODULE ExchangeTP ------------------------------
(***************************************************************************)
(* The transaction handler of the exchange family.  The payloads carry     *)
(* opaque blobs and the addresses they go to, so the handler sees leaves   *)
(* being there or not, and nothing of what they say:                       *)
(*    UTXQ  writes udata at ukey;                                          *)
(*    MTXQ  writes udata at ukey, the matched address of the UTXQ, where   *)
(*          nothing may stand yet, and mdata at mkey.                      *)
(* The validator applies transactions one at a time, each as one step.     *)
(***************************************************************************)
CONSTANTS
    LeafAddresses,   \* the addresses of the exchange namespace
    Blobs,           \* what can stand at them
    Absent,          \* nothing there
    Payloads         \* the payloads that reach the handler

VARIABLE leaves      \* chain: the blob at each address

LeavesOK == leaves \in [LeafAddresses -> Blobs \cup {Absent}]

Init == leaves = [a \in LeafAddresses |-> Absent]

(* The exit codes of `hbzksnark -v`: it prints the answer of the verifier  *)
(* and exits with 0 whatever the answer is, unless it dies of what it was  *)
(* given in place of a proof.                                              *)
ExitCodes(proof) == IF proof = "malformed" THEN {0, 1} ELSE {0}

(* zksnark_verify goes by the exit code.                                   *)
Verifies(proof) == 0 \in ExitCodes(proof)
Fails(proof)    == 1 \in ExitCodes(proof)

(* The payload is a UTXQ.                                                  *)
Initiate(payload) ==
    /\ payload.type = "UTXQ"
    /\ leaves' = [leaves EXCEPT ![payload.ukey] = payload.udata]

(* Faulty: nobody looks whether the UTXQ is matched already.               *)
ReciprocateAgain(payload) ==
    /\ payload.type = "MTXQ"
    /\ Verifies(payload.proof)
    /\ leaves' = [leaves EXCEPT ![payload.ukey] = payload.udata,
                                ![payload.mkey] = payload.mdata]

(* Faulty: the matched leaf is not written.                                *)
ReciprocateHalf(payload) ==
    /\ payload.type = "MTXQ"
    /\ leaves[payload.ukey] = Absent
    /\ Verifies(payload.proof)
    /\ leaves' = [leaves EXCEPT ![payload.mkey] = payload.mdata]

(* Faulty: the leaf that has to be absent has to be there.                 *)
ReciprocateMatched(payload) ==
    /\ payload.type = "MTXQ"
    /\ leaves[payload.ukey] # Absent
    /\ Verifies(payload.proof)
    /\ leaves' = [leaves EXCEPT ![payload.ukey] = payload.udata,
                                ![payload.mkey] = payload.mdata]

(* The payload is an MTXQ, and its UTXQ is not matched yet.                *)
Reciprocate(payload) ==
    /\ payload.type = "MTXQ"
    /\ leaves[payload.ukey] = Absent
    /\ Verifies(payload.proof)
    /\ leaves' = [leaves EXCEPT ![payload.ukey] = payload.udata,
                                ![payload.mkey] = payload.mdata]

(* InvalidTransaction: the UTXQ is matched already, or the verifier died.  *)
RefuseMatch(payload) ==
    /\ payload.type = "MTXQ"
    /\ leaves[payload.ukey] # Absent \/ Fails(payload.proof)
    /\ UNCHANGED leaves

Apply(payload) == Initiate(payload) \/ Reciprocate(payload) \/ RefuseMatch(payload)

Next == \E payload \in Payloads : Apply(payload)

Spec == Init /\ [][Next]_leaves
-------------------------------------------------------------------------------
(* The README: the family validates that the value of the exchanged assets *)
(* balances; the processor's tests: an unmatchable event is refused.  So   *)
(* only an MTXQ with a valid proof of its balance enters the chain.        *)
MatchesBalance ==
    [][ \A payload \in Payloads : Reciprocate(payload) => payload.proof = "valid" ]_leaves
===============================================================================
