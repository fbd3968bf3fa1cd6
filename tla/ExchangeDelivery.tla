--------------------------- MODULE ExchangeDelivery ---------------------------
(***************************************************************************)
(* Exchange with a record of what the validator lost, and with the         *)
(* fairness of its scheduler: it goes on with what was submitted, as long  *)
(* as there is something, be it that it applies or that it loses some.     *)
(***************************************************************************)
EXTENDS Exchange

VARIABLE lost   \* the transactions that were lost; nothing in the code reads it

DInit == Init /\ lost = {}

DNext ==
    \/ (ServeRequest \/ ApplyTxn) /\ UNCHANGED lost
    \/ LoseTxn /\ lost' = lost \cup (queue \ queue')

DSpec == DInit /\ [][DNext]_<< vars, lost >> /\ WF_vars(ApplyTxn)
-------------------------------------------------------------------------------
(* An MTXQ that was submitted settles its UTXQ, by its own match or by     *)
(* that of the request that was faster, unless it gets lost on the way.    *)
SubmittedGetsMatched ==
    \A r \in Reciprocators :
        stage[r] = "sent" ~>
            /\ request[r] # Absent
            /\ \/ leaves[request[r].utxq_addr] # Absent
               \/ MtxqPayload(r, UtxqOf(request[r]), request[r]) \in lost
===============================================================================
