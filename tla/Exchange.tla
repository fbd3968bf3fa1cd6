------------------------------- MODULE Exchange -------------------------------
(***************************************************************************)
(* The exchange of value: the requests that the REST service serves in     *)
(* parallel, which read the chain, check and submit; the submitted         *)
(* transactions, which the validator applies in any order and may lose;    *)
(* and the transaction handler, ExchangeTP.                                *)
(*                                                                         *)
(* A UTXQ request initiates an exchange under a fresh address.  An MTXQ    *)
(* request reciprocates one: it reads the matched address of the UTXQ,     *)
(* where nothing should stand, and the UTXQ itself, checks the request     *)
(* against it, proves the balance and submits; what it read may be history *)
(* when the transaction is applied.                                        *)
(*                                                                         *)
(* A request's uuid is the request itself, so that its addresses are       *)
(* fresh.  Encryption is switched off in the code, and a leaf holds what   *)
(* was put into it.  A quantity (value, unit and asset) is one of          *)
(* Quantities, and an MTXQ's own quantity and ratio are modelled by the    *)
(* initiating quantity they balance with.                                  *)
(***************************************************************************)
EXTENDS FiniteSets

CONSTANTS
    Initiators,        \* UTXQ requests
    Reciprocators,     \* MTXQ requests
    Traders,           \* names with keys
    Partnerships,      \* sets of traders that share a secret
    InitiateVerbs,
    ReciprocateVerbs,
    DependsOn,         \* the initiating verb of a reciprocating one
    Quantities,
    Absent

Verbs == InitiateVerbs \cup ReciprocateVerbs

ASSUME ExchangeAssumption ==
    /\ DependsOn \in [ReciprocateVerbs -> InitiateVerbs]
    /\ Partnerships \subseteq SUBSET Traders

(* The leaf addresses: set_utxq_matched turns the flag in a UTXQ's         *)
(* address.                                                                *)
Unmatched(u)   == [kind |-> "utxq", ident |-> u]
Matched(u)     == [kind |-> "matched", ident |-> u]
MtxqAddress(r) == [kind |-> "mtxq", ident |-> r]

LeafAddresses ==
    {Unmatched(u) : u \in Initiators} \cup {Matched(u) : u \in Initiators}
        \cup {MtxqAddress(r) : r \in Reciprocators}

Utxqs == [plus : Traders, minus : Traders, operation : Verbs, quantity : Quantities]

Mtxqs == [plus : Traders, minus : Traders, operation : ReciprocateVerbs,
          balances : Quantities, utxq_addr : {Matched(u) : u \in Initiators}]

ASSUME AbsentAssumption == Absent \notin Utxqs \cup Mtxqs

Arrangement(plus, minus) == \E partners \in Partnerships : {plus, minus} \subseteq partners

UtxqPayload(u, utxq) == [type |-> "UTXQ", ukey |-> Unmatched(u), udata |-> utxq]

MtxqPayload(r, utxq, mtxq) ==
    [type |-> "MTXQ", ukey |-> mtxq.utxq_addr, mkey |-> MtxqAddress(r),
     udata |-> utxq, mdata |-> mtxq, proof |-> "valid"]

RestPayloads ==
    {UtxqPayload(u, utxq) : u \in Initiators, utxq \in Utxqs}
        \cup {MtxqPayload(r, utxq, mtxq) : r \in Reciprocators, utxq \in Utxqs, mtxq \in Mtxqs}

VARIABLES
    leaves,    \* chain: the leaf at each address
    queue,     \* submitted transactions that are not applied
    stage,     \* how far each request is
    request    \* what an MTXQ request asks for, and of which UTXQ

vars == << leaves, queue, stage, request >>

TP == INSTANCE ExchangeTP WITH Blobs <- Utxqs \cup Mtxqs, Payloads <- RestPayloads

ETypeOK ==
    /\ TP!LeavesOK
    /\ queue \subseteq RestPayloads
    /\ stage \in [Initiators \cup Reciprocators -> {"new", "checking", "checked", "sent", "failed"}]
    /\ request \in [Reciprocators -> Mtxqs \cup {Absent}]

Init ==
    /\ TP!Init
    /\ queue = {}
    /\ stage = [q \in Initiators \cup Reciprocators |-> "new"]
    /\ request = [r \in Reciprocators |-> Absent]

(* The request goes on from one stage to the next.                         *)
Advance(q, from, to) == stage[q] = from /\ stage' = [stage EXCEPT ![q] = to]
-------------------------------------------------------------------------------
(* create_utxq: __validate_partners makes an exception for traders without *)
(* a partnership and does not raise it, and the verb may be any that the   *)
(* dualities name.                                                         *)
CreateUtxq(u, utxq) ==
    /\ Advance(u, "new", "sent")
    /\ queue' = queue \cup {UtxqPayload(u, utxq)}
    /\ UNCHANGED << leaves, request >>

(* Faulty: the request goes on with the address of the unmatched UTXQ.     *)
StartMtxqUnmatched(r, mtxq) ==
    /\ Arrangement(mtxq.plus, mtxq.minus)
    /\ Advance(r, "new", "checking")
    /\ request' = [request EXCEPT ![r] = [mtxq EXCEPT !.utxq_addr = Unmatched(@.ident)]]
    /\ UNCHANGED << leaves, queue >>

(* create_mtxq as far as it goes without the chain: partnership_secret     *)
(* raises if there is none, and the address may not be a matched one.      *)
StartMtxq(r, mtxq) ==
    /\ Arrangement(mtxq.plus, mtxq.minus)
    /\ Advance(r, "new", "checking")
    /\ request' = [request EXCEPT ![r] = mtxq]
    /\ UNCHANGED << leaves, queue >>

(* get_node on the matched address finds nothing.                          *)
SeeUnmatched(r) ==
    /\ Advance(r, "checking", "checked")
    /\ leaves[request[r].utxq_addr] = Absent
    /\ UNCHANGED << leaves, queue, request >>

(* get_node fails for another reason, which is taken for the same answer.  *)
ReadFails(r) ==
    /\ Advance(r, "checking", "checked")
    /\ UNCHANGED << leaves, queue, request >>

(* Faulty: the request is not checked against the UTXQ.                    *)
AnswersAnything(mtxq, utxq) == utxq # Absent

(* The UTXQ is there, it is what the verb reciprocates, and the prover     *)
(* finds the quantities in balance.                                        *)
AnswersUtxq(mtxq, utxq) ==
    /\ utxq # Absent
    /\ DependsOn[mtxq.operation] = utxq.operation
    /\ mtxq.balances = utxq.quantity

UtxqOf(mtxq) == leaves[Unmatched(mtxq.utxq_addr.ident)]

(* The UTXQ is read, the request checked against it, and submitted.        *)
SubmitMtxq(r) ==
    /\ Advance(r, "checked", "sent")
    /\ AnswersUtxq(request[r], UtxqOf(request[r]))
    /\ queue' = queue \cup {MtxqPayload(r, UtxqOf(request[r]), request[r])}
    /\ UNCHANGED << leaves, request >>

(* The request ends with an exception before it submits: the UTXQ is       *)
(* matched, missing or another one, a unit or an asset does not exist, or  *)
(* a call fails.                                                           *)
Fail(q) ==
    /\ \E from \in {"new", "checking", "checked"} : Advance(q, from, "failed")
    /\ UNCHANGED << leaves, queue, request >>

(* The validator applies a transaction.                                    *)
ApplyTxn ==
    /\ \E payload \in queue : TP!Apply(payload) /\ queue' = queue \ {payload}
    /\ UNCHANGED << stage, request >>

(* The validator loses a transaction with its batch.                       *)
LoseTxn ==
    /\ \E payload \in queue : queue' = queue \ {payload}
    /\ UNCHANGED << leaves, stage, request >>

(* A step of a request that the REST service serves.                       *)
ServeRequest ==
    \/ \E u \in Initiators, utxq \in Utxqs : CreateUtxq(u, utxq)
    \/ \E r \in Reciprocators, mtxq \in Mtxqs : StartMtxq(r, mtxq)
    \/ \E r \in Reciprocators : SeeUnmatched(r) \/ ReadFails(r) \/ SubmitMtxq(r)
    \/ \E q \in Initiators \cup Reciprocators : Fail(q)

Next == ServeRequest \/ ApplyTxn \/ LoseTxn

Spec == Init /\ [][Next]_vars
-------------------------------------------------------------------------------
(* Nothing is matched by halves, and nothing twice: the matched leaf of a  *)
(* UTXQ is there exactly if one MTXQ that names it is, whichever requests  *)
(* raced for it and whatever they had read.                                *)
MatchesOf(u) ==
    {r \in Reciprocators : /\ leaves[MtxqAddress(r)] # Absent
                           /\ leaves[MtxqAddress(r)].utxq_addr = Matched(u)}

MatchedOnce ==
    \A u \in Initiators :
        Cardinality(MatchesOf(u)) = IF leaves[Matched(u)] = Absent THEN 0 ELSE 1

(* What is matched was initiated: the matched leaf is the UTXQ as it still *)
(* stands at its own address, and the MTXQ reciprocates and balances it.   *)
MatchIsSound ==
    \A u \in Initiators : leaves[Matched(u)] # Absent =>
        /\ leaves[Matched(u)] = leaves[Unmatched(u)]
        /\ \A r \in MatchesOf(u) :
              /\ DependsOn[leaves[MtxqAddress(r)].operation] = leaves[Matched(u)].operation
              /\ leaves[MtxqAddress(r)].balances = leaves[Matched(u)].quantity

(* The chain is a ledger of exchanges: see ExchangeLedger.                 *)
Ledger == INSTANCE ExchangeLedger WITH
    Terms        <- Utxqs,
    Answers      <- [utxq \in Utxqs |->
                        {mtxq \in Mtxqs : /\ DependsOn[mtxq.operation] = utxq.operation
                                          /\ mtxq.balances = utxq.quantity}],
    None         <- Absent,
    initiated    <- [u \in Initiators |-> leaves[Unmatched(u)]],
    reciprocated <- [r \in Reciprocators |-> leaves[MtxqAddress(r)]],
    matchedBy    <- [u \in Initiators |-> IF leaves[Matched(u)] = Absent
                                            THEN Absent
                                            ELSE CHOOSE r \in MatchesOf(u) : TRUE]

ImplementsLedger == Ledger!Spec
===============================================================================
