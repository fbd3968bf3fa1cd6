---------------------------- MODULE ExchangeProofs ----------------------------
(***************************************************************************)
(* What holds of Exchange for any requests, traders, verbs and quantities, *)
(* and whether transactions get lost or not: an event is matched once, and *)
(* soundly, although requests act on what they read a while ago.           *)
(***************************************************************************)
EXTENDS Exchange, FiniteSetTheorems, TLAPS

(* The addresses of different kinds and of different events differ.        *)
LEMMA Addresses ==
    /\ \A u \in Initiators : Unmatched(u) \in LeafAddresses /\ Matched(u) \in LeafAddresses
    /\ \A r \in Reciprocators : MtxqAddress(r) \in LeafAddresses
    /\ \A u, v : Unmatched(u) = Unmatched(v) => u = v
    /\ \A u, v : Matched(u) = Matched(v) => u = v
    /\ \A r, s : MtxqAddress(r) = MtxqAddress(s) => r = s
    /\ \A u, v : Unmatched(u) # Matched(v)
    /\ \A u, r : Unmatched(u) # MtxqAddress(r) /\ Matched(u) # MtxqAddress(r)
<1>1. \A u, v : Unmatched(u) = Unmatched(v) => u = v
  BY DEF Unmatched
<1>2. \A u, v : Matched(u) = Matched(v) => u = v
  BY DEF Matched
<1>3. \A r, s : MtxqAddress(r) = MtxqAddress(s) => r = s
  BY DEF MtxqAddress
<1>4. \A u, v : Unmatched(u) # Matched(v)
  BY DEF Unmatched, Matched
<1>5. \A u, r : Unmatched(u) # MtxqAddress(r) /\ Matched(u) # MtxqAddress(r)
  BY DEF Unmatched, Matched, MtxqAddress
<1>6. /\ \A u \in Initiators : Unmatched(u) \in LeafAddresses /\ Matched(u) \in LeafAddresses
      /\ \A r \in Reciprocators : MtxqAddress(r) \in LeafAddresses
  BY DEF LeafAddresses
<1> QED
  BY <1>1, <1>2, <1>3, <1>4, <1>5, <1>6

(* An MTXQ names the matched address of a UTXQ, and UtxqOf finds that      *)
(* UTXQ.                                                                   *)
LEMMA NamedUtxq ==
    ASSUME NEW mtxq \in Mtxqs
    PROVE  \E u \in Initiators : /\ mtxq.utxq_addr = Matched(u)
                                 /\ UtxqOf(mtxq) = leaves[Unmatched(u)]
<1>1. PICK u \in Initiators : mtxq.utxq_addr = Matched(u)
  BY DEF Mtxqs
<1>2. mtxq.utxq_addr.ident = u
  BY <1>1 DEF Matched
<1> QED
  BY <1>1, <1>2 DEF UtxqOf

(* The transactions that requests submit are of the two kinds.             *)
LEMMA UtxqFields ==
    ASSUME NEW u \in Initiators, NEW utxq \in Utxqs
    PROVE  /\ UtxqPayload(u, utxq) \in RestPayloads
           /\ UtxqPayload(u, utxq).type = "UTXQ"
           /\ UtxqPayload(u, utxq).ukey = Unmatched(u)
           /\ UtxqPayload(u, utxq).udata = utxq
BY DEF UtxqPayload, RestPayloads

(* ... the other kind.                                                     *)
LEMMA MtxqFields ==
    ASSUME NEW r \in Reciprocators, NEW utxq \in Utxqs, NEW mtxq \in Mtxqs
    PROVE  /\ MtxqPayload(r, utxq, mtxq) \in RestPayloads
           /\ MtxqPayload(r, utxq, mtxq).type = "MTXQ"
           /\ MtxqPayload(r, utxq, mtxq).ukey = mtxq.utxq_addr
           /\ MtxqPayload(r, utxq, mtxq).udata = utxq
           /\ MtxqPayload(r, utxq, mtxq).mkey = MtxqAddress(r)
           /\ MtxqPayload(r, utxq, mtxq).mdata = mtxq
BY DEF MtxqPayload, RestPayloads

(* What applying a transaction does to the leaves.                         *)
LEMMA ApplyUtxq ==
    ASSUME NEW u \in Initiators, NEW utxq \in Utxqs, TP!Apply(UtxqPayload(u, utxq))
    PROVE  leaves' = [leaves EXCEPT ![Unmatched(u)] = utxq]
BY UtxqFields DEF TP!Apply, TP!Initiate, TP!Reciprocate, TP!RefuseMatch

(* ... an MTXQ is refused, or written where nothing stood.                 *)
LEMMA ApplyMtxq ==
    ASSUME NEW r \in Reciprocators, NEW utxq \in Utxqs, NEW mtxq \in Mtxqs,
           TP!Apply(MtxqPayload(r, utxq, mtxq))
    PROVE  \/ UNCHANGED leaves
           \/ /\ leaves[mtxq.utxq_addr] = Absent
              /\ leaves' = [leaves EXCEPT ![mtxq.utxq_addr] = utxq,
                                          ![MtxqAddress(r)] = mtxq]
BY MtxqFields DEF TP!Apply, TP!Initiate, TP!Reciprocate, TP!RefuseMatch
-------------------------------------------------------------------------------
(* A submitted transaction that is not applied: a UTXQ whose address is    *)
(* still free ...                                                          *)
Waiting(u, payload) ==
    /\ stage[u] = "sent"
    /\ leaves[Unmatched(u)] = Absent
    /\ \E utxq \in Utxqs : payload = UtxqPayload(u, utxq)

(* ... or the MTXQ of a request, which carries the UTXQ as it stands.      *)
Answering(r, payload) ==
    /\ stage[r] = "sent"
    /\ request[r] \in Mtxqs
    /\ leaves[MtxqAddress(r)] = Absent
    /\ AnswersUtxq(request[r], UtxqOf(request[r]))
    /\ payload = MtxqPayload(r, UtxqOf(request[r]), request[r])

QueueInv ==
    \A payload \in queue :
        \/ \E u \in Initiators : Waiting(u, payload)
        \/ \E r \in Reciprocators : Answering(r, payload)

(* A UTXQ is submitted once.                                               *)
SubmittedOnce ==
    \A p, q \in queue : p.type = "UTXQ" /\ q.type = "UTXQ" /\ p.ukey = q.ukey => p = q

(* A match on the chain: the MTXQ is what its request asked for, and the   *)
(* matched leaf is the UTXQ, which it answers.                             *)
Settled(r) ==
    /\ stage[r] = "sent"
    /\ request[r] \in Mtxqs
    /\ leaves[MtxqAddress(r)] = request[r]
    /\ leaves[request[r].utxq_addr] = UtxqOf(request[r])
    /\ AnswersUtxq(request[r], UtxqOf(request[r]))

RequestInv ==
    /\ \A r \in Reciprocators : stage[r] \in {"checking", "checked"} => request[r] \in Mtxqs
    /\ \A u \in Initiators :
          /\ leaves[Unmatched(u)] \in Utxqs \cup {Absent}
          /\ leaves[Unmatched(u)] # Absent => stage[u] = "sent"

MatchInv ==
    /\ \A r \in Reciprocators : leaves[MtxqAddress(r)] # Absent => Settled(r)
    /\ \A u \in Initiators : leaves[Matched(u)] # Absent => MatchesOf(u) # {}
    /\ \A u \in Initiators : \A r, s \in MatchesOf(u) : r = s

(* The inductive invariant. MatchedOnce and MatchIsSound speak of what is  *)
(* on the chain; that they survive a step depends on what is on its way.   *)
EInv == ETypeOK /\ QueueInv /\ SubmittedOnce /\ RequestInv /\ MatchInv

(* At first nothing is submitted and nothing is there.                     *)
LEMMA ExchangeInit == Init => EInv
<1> SUFFICES ASSUME Init PROVE EInv
  OBVIOUS
<1>1. /\ \A a \in LeafAddresses : leaves[a] = Absent
      /\ leaves \in [LeafAddresses -> Utxqs \cup Mtxqs \cup {Absent}]
  BY DEF Init, TP!Init
<1>2. ETypeOK
  BY <1>1 DEF Init, ETypeOK, TP!LeavesOK
<1>3. QueueInv /\ SubmittedOnce
  BY DEF Init, QueueInv, SubmittedOnce
<1>4. RequestInv
  BY <1>1, Addresses DEF Init, RequestInv
<1>5. MatchInv
  BY <1>1, Addresses DEF MatchInv, MatchesOf
<1> QED
  BY <1>2, <1>3, <1>4, <1>5 DEF EInv

(* As long as the leaves stay, and the requests that were submitted too,   *)
(* what was submitted remains sound, and so does what is on the chain.     *)
LEMMA Quiet ==
    ASSUME UNCHANGED leaves,
           \A q \in Initiators \cup Reciprocators : stage[q] = "sent" => stage'[q] = "sent",
           \A r \in Reciprocators : stage[r] = "sent" => request'[r] = request[r]
    PROVE  /\ \A u \in Initiators : \A payload : Waiting(u, payload) => Waiting(u, payload)'
           /\ \A r \in Reciprocators : \A payload : Answering(r, payload) => Answering(r, payload)'
           /\ MatchInv => MatchInv'
<1>1. \A u \in Initiators : \A payload : Waiting(u, payload) => Waiting(u, payload)'
  BY DEF Waiting
<1>2. \A r \in Reciprocators : \A payload : Answering(r, payload) => Answering(r, payload)'
  BY DEF Answering, UtxqOf
<1>3. \A r \in Reciprocators : Settled(r) => Settled(r)'
  BY DEF Settled, UtxqOf
<1>4. MatchInv => MatchInv'
  BY <1>3 DEF MatchInv, MatchesOf
<1> QED
  BY <1>1, <1>2, <1>4

(* A request that goes on does not go on from its submission.              *)
LEMMA Advancing ==
    ASSUME ETypeOK, NEW q \in Initiators \cup Reciprocators, NEW from, NEW to, from # "sent",
           Advance(q, from, to)
    PROVE  /\ stage[q] = from /\ stage'[q] = to
           /\ \A p \in Initiators \cup Reciprocators : p # q => stage'[p] = stage[p]
           /\ \A p \in Initiators \cup Reciprocators : stage[p] = "sent" => stage'[p] = "sent"
BY DEF ETypeOK, Advance

(* A UTXQ is submitted: its address is free, and no other transaction for  *)
(* it is on its way, because its request is new.                           *)
LEMMA CreateUtxqStep ==
    ASSUME EInv, NEW u \in Initiators, NEW utxq \in Utxqs, CreateUtxq(u, utxq)
    PROVE  EInv'
<1> USE DEF EInv
<1>1. /\ UNCHANGED << leaves, request >>
      /\ queue' = queue \cup {UtxqPayload(u, utxq)}
      /\ Advance(u, "new", "sent")
  BY DEF CreateUtxq
<1>2. /\ stage[u] = "new" /\ stage'[u] = "sent"
      /\ \A p \in Initiators \cup Reciprocators : p # u => stage'[p] = stage[p]
      /\ \A p \in Initiators \cup Reciprocators : stage[p] = "sent" => stage'[p] = "sent"
  BY <1>1, Advancing
<1>3. ETypeOK'
  BY <1>1, UtxqFields DEF ETypeOK, TP!LeavesOK, Advance
<1>4. QueueInv'
  <2>1. Waiting(u, UtxqPayload(u, utxq))'
    BY <1>1, <1>2 DEF Waiting, RequestInv
  <2> QED
    BY <1>1, <1>2, <2>1, Quiet DEF QueueInv
<1>5. SubmittedOnce'
  <2>1. ASSUME NEW p \in queue, p.type = "UTXQ"
        PROVE  p.ukey # Unmatched(u)
    <3>1. CASE \E v \in Initiators : Waiting(v, p)
      BY <1>2, <3>1, UtxqFields, Addresses DEF Waiting
    <3>2. CASE \E r \in Reciprocators : Answering(r, p)
      BY <2>1, <3>2, MtxqFields DEF Answering, AnswersUtxq, MtxqPayload
    <3> QED
      BY <3>1, <3>2 DEF QueueInv
  <2>2. UtxqPayload(u, utxq).ukey = Unmatched(u)
    BY UtxqFields
  <2> QED
    BY <1>1, <2>1, <2>2 DEF SubmittedOnce
<1>6. RequestInv'
  BY <1>1, <1>2 DEF RequestInv
<1>7. MatchInv'
  BY <1>1, <1>2, Quiet
<1> QED
  BY <1>3, <1>4, <1>5, <1>6, <1>7

(* An MTXQ request begins: nothing of it is submitted yet.                 *)
LEMMA StartMtxqStep ==
    ASSUME EInv, NEW r \in Reciprocators, NEW mtxq \in Mtxqs, StartMtxq(r, mtxq)
    PROVE  EInv'
<1> USE DEF EInv
<1>1. /\ UNCHANGED << leaves, queue >>
      /\ request' = [request EXCEPT ![r] = mtxq]
      /\ Advance(r, "new", "checking")
  BY DEF StartMtxq
<1>2. /\ stage[r] = "new" /\ stage'[r] = "checking"
      /\ \A p \in Initiators \cup Reciprocators : p # r => stage'[p] = stage[p]
      /\ \A p \in Initiators \cup Reciprocators : stage[p] = "sent" => stage'[p] = "sent"
  BY <1>1, Advancing
<1>3. ETypeOK'
  BY <1>1 DEF ETypeOK, TP!LeavesOK, Advance
<1>4. /\ \A s \in Reciprocators : s # r => request'[s] = request[s]
      /\ request'[r] = mtxq
  BY <1>1 DEF ETypeOK
<1>5. QueueInv' /\ SubmittedOnce'
  BY <1>1, <1>2, <1>4, Quiet DEF QueueInv, SubmittedOnce
<1>6. RequestInv'
  BY <1>1, <1>2, <1>4 DEF RequestInv
<1>7. MatchInv'
  BY <1>1, <1>2, <1>4, Quiet
<1> QED
  BY <1>3, <1>5, <1>6, <1>7

(* A request reads the matched address, or fails: nothing but its own      *)
(* progress changes.                                                       *)
LEMMA ProgressStep ==
    ASSUME EInv, NEW q \in Initiators \cup Reciprocators, NEW from \in {"new", "checking", "checked"},
           NEW to \in {"checked", "failed"}, to = "checked" => from = "checking",
           Advance(q, from, to), UNCHANGED << leaves, queue, request >>
    PROVE  EInv'
<1> USE DEF EInv
<1>1. /\ stage[q] = from /\ stage'[q] = to
      /\ \A p \in Initiators \cup Reciprocators : p # q => stage'[p] = stage[p]
      /\ \A p \in Initiators \cup Reciprocators : stage[p] = "sent" => stage'[p] = "sent"
  BY Advancing
<1>2. ETypeOK'
  BY DEF ETypeOK, TP!LeavesOK, Advance
<1>3. QueueInv' /\ SubmittedOnce'
  BY <1>1, Quiet DEF QueueInv, SubmittedOnce
<1>4. RequestInv'
  BY <1>1 DEF RequestInv
<1>5. MatchInv'
  BY <1>1, Quiet
<1> QED
  BY <1>2, <1>3, <1>4, <1>5

(* An MTXQ is submitted: what it answers stands at its address, for good.  *)
LEMMA SubmitMtxqStep ==
    ASSUME EInv, NEW r \in Reciprocators, SubmitMtxq(r)
    PROVE  EInv'
<1> USE DEF EInv
<1> DEFINE payload == MtxqPayload(r, UtxqOf(request[r]), request[r])
<1>1. /\ UNCHANGED << leaves, request >>
      /\ queue' = queue \cup {payload}
      /\ AnswersUtxq(request[r], UtxqOf(request[r]))
      /\ Advance(r, "checked", "sent")
  BY DEF SubmitMtxq
<1>2. /\ stage[r] = "checked" /\ stage'[r] = "sent"
      /\ \A p \in Initiators \cup Reciprocators : p # r => stage'[p] = stage[p]
      /\ \A p \in Initiators \cup Reciprocators : stage[p] = "sent" => stage'[p] = "sent"
  BY <1>1, Advancing
<1>3. request[r] \in Mtxqs
  BY <1>2 DEF RequestInv
<1>4. UtxqOf(request[r]) \in Utxqs
  BY <1>1, <1>3, NamedUtxq DEF RequestInv, AnswersUtxq
<1>5. payload \in RestPayloads /\ payload.type = "MTXQ"
  BY <1>3, <1>4, MtxqFields
<1>6. ETypeOK'
  BY <1>1, <1>5 DEF ETypeOK, TP!LeavesOK, Advance
<1>7. QueueInv'
  <2>1. leaves[MtxqAddress(r)] = Absent
    BY <1>2 DEF MatchInv, Settled
  <2>2. Answering(r, payload)'
    BY <1>1, <1>2, <1>3, <2>1 DEF Answering, UtxqOf
  <2>3. payload' = payload
    BY <1>1 DEF UtxqOf
  <2> HIDE DEF payload
  <2>4. \A p \in queue : (\E u \in Initiators : Waiting(u, p)') \/ (\E s \in Reciprocators : Answering(s, p)')
    BY <1>1, <1>2, Quiet DEF QueueInv
  <2> QED
    BY <1>1, <2>2, <2>3, <2>4 DEF QueueInv
<1>8. SubmittedOnce'
  BY <1>1, <1>5 DEF SubmittedOnce
<1>9. RequestInv'
  BY <1>1, <1>2 DEF RequestInv
<1>10. MatchInv'
  BY <1>1, <1>2, Quiet
<1> QED
  BY <1>6, <1>7, <1>8, <1>9, <1>10

(* A transaction that leaves the queue without an effect is not missed.    *)
LEMMA DropStep ==
    ASSUME EInv, queue' \subseteq queue, UNCHANGED << leaves, stage, request >>
    PROVE  EInv'
<1> USE DEF EInv
<1>1. ETypeOK'
  BY DEF ETypeOK, TP!LeavesOK
<1>2. QueueInv' /\ SubmittedOnce'
  BY Quiet DEF QueueInv, SubmittedOnce
<1>3. RequestInv' /\ MatchInv'
  BY Quiet DEF RequestInv
<1> QED
  BY <1>1, <1>2, <1>3

(* What a UTXQ changes on the chain, when it is applied: its own leaf,     *)
(* which was free.                                                         *)
LEMMA UtxqEffect ==
    ASSUME EInv, NEW u \in Initiators, NEW utxq \in Utxqs,
           Waiting(u, UtxqPayload(u, utxq)), TP!Apply(UtxqPayload(u, utxq))
    PROVE  /\ leaves[Unmatched(u)] = Absent
           /\ leaves' \in [LeafAddresses -> Utxqs \cup Mtxqs \cup {Absent}]
           /\ leaves'[Unmatched(u)] = utxq
           /\ \A v \in Initiators : v # u => leaves'[Unmatched(v)] = leaves[Unmatched(v)]
           /\ \A v \in Initiators : leaves'[Matched(v)] = leaves[Matched(v)]
           /\ \A r \in Reciprocators : leaves'[MtxqAddress(r)] = leaves[MtxqAddress(r)]
           /\ \A v \in Initiators : MatchesOf(v)' = MatchesOf(v)
<1>1. /\ leaves' = [leaves EXCEPT ![Unmatched(u)] = utxq]
      /\ leaves \in [LeafAddresses -> Utxqs \cup Mtxqs \cup {Absent}]
      /\ leaves[Unmatched(u)] = Absent
  BY ApplyUtxq DEF EInv, ETypeOK, TP!LeavesOK, Waiting
<1>2. /\ leaves' \in [LeafAddresses -> Utxqs \cup Mtxqs \cup {Absent}]
      /\ leaves'[Unmatched(u)] = utxq
      /\ \A v \in Initiators : v # u => leaves'[Unmatched(v)] = leaves[Unmatched(v)]
      /\ \A v \in Initiators : leaves'[Matched(v)] = leaves[Matched(v)]
      /\ \A r \in Reciprocators : leaves'[MtxqAddress(r)] = leaves[MtxqAddress(r)]
  BY <1>1, Addresses
<1>3. \A v \in Initiators : MatchesOf(v)' = MatchesOf(v)
  BY <1>2 DEF MatchesOf
<1> QED
  BY <1>1, <1>2, <1>3

(* A UTXQ is applied: no match refers to it, and no other transaction that *)
(* waits writes there.                                                     *)
LEMMA ApplyUtxqStep ==
    ASSUME EInv, NEW u \in Initiators, NEW utxq \in Utxqs, UtxqPayload(u, utxq) \in queue,
           Waiting(u, UtxqPayload(u, utxq)), TP!Apply(UtxqPayload(u, utxq)),
           queue' = queue \ {UtxqPayload(u, utxq)}, UNCHANGED << stage, request >>
    PROVE  EInv'
<1> USE DEF EInv
<1>1. leaves[Unmatched(u)] = Absent /\ stage[u] = "sent"
  BY DEF Waiting
<1>2. /\ leaves' \in [LeafAddresses -> Utxqs \cup Mtxqs \cup {Absent}]
      /\ leaves'[Unmatched(u)] = utxq
      /\ \A v \in Initiators : v # u => leaves'[Unmatched(v)] = leaves[Unmatched(v)]
      /\ \A v \in Initiators : leaves'[Matched(v)] = leaves[Matched(v)]
      /\ \A r \in Reciprocators : leaves'[MtxqAddress(r)] = leaves[MtxqAddress(r)]
      /\ \A v \in Initiators : MatchesOf(v)' = MatchesOf(v)
  BY UtxqEffect
<1>3. ETypeOK'
  BY <1>2 DEF ETypeOK, TP!LeavesOK
<1>4. ASSUME NEW mtxq \in Mtxqs, UtxqOf(mtxq) # Absent
      PROVE  /\ UtxqOf(mtxq)' = UtxqOf(mtxq)
             /\ leaves'[mtxq.utxq_addr] = leaves[mtxq.utxq_addr]
  <2>1. PICK v \in Initiators : mtxq.utxq_addr = Matched(v) /\ UtxqOf(mtxq) = leaves[Unmatched(v)]
    BY NamedUtxq
  <2>2. mtxq.utxq_addr.ident = v
    BY <2>1 DEF Matched
  <2>3. UtxqOf(mtxq)' = leaves'[Unmatched(v)]
    BY <2>2 DEF UtxqOf
  <2> QED
    BY <1>1, <1>2, <1>4, <2>1, <2>3
<1>5. QueueInv'
  <2>1. ASSUME NEW v \in Initiators, NEW p \in queue', Waiting(v, p)
        PROVE  Waiting(v, p)'
    <3>1. v # u
      BY <2>1, UtxqFields DEF Waiting, SubmittedOnce
    <3> QED
      BY <1>2, <2>1, <3>1 DEF Waiting
  <2>2. ASSUME NEW r \in Reciprocators, NEW p \in queue', Answering(r, p)
        PROVE  Answering(r, p)'
    <3>1. /\ request[r] \in Mtxqs
          /\ UtxqOf(request[r]) # Absent
      BY <2>2 DEF Answering, AnswersUtxq
    <3>2. UtxqOf(request[r])' = UtxqOf(request[r])
      BY <1>4, <3>1 DEF UtxqOf
    <3> QED
      BY <1>2, <2>2, <3>2 DEF Answering
  <2> QED
    BY <2>1, <2>2 DEF QueueInv
<1>6. SubmittedOnce'
  BY DEF SubmittedOnce
<1>7. RequestInv'
  BY <1>1, <1>2 DEF RequestInv
<1>8. MatchInv'
  <2>1. ASSUME NEW r \in Reciprocators, Settled(r)
        PROVE  Settled(r)'
    <3>1. /\ request[r] \in Mtxqs
          /\ UtxqOf(request[r]) # Absent
      BY <2>1 DEF Settled, AnswersUtxq
    <3>2. /\ UtxqOf(request[r])' = UtxqOf(request[r])
          /\ leaves'[request[r].utxq_addr] = leaves[request[r].utxq_addr]
      BY <1>4, <3>1 DEF UtxqOf
    <3> QED
      BY <1>2, <2>1, <3>2 DEF Settled
  <2> QED
    BY <1>2, <2>1 DEF MatchInv
<1> QED
  BY <1>3, <1>5, <1>6, <1>7, <1>8

(* What an MTXQ changes on the chain, when it is applied and not refused:  *)
(* u becomes matched, by r alone.                                          *)
MatchEffect(u, r) ==
    /\ request[r].utxq_addr = Matched(u)
    /\ UtxqOf(request[r]) = leaves[Unmatched(u)]
    /\ leaves[Unmatched(u)] \in Utxqs
    /\ request[r] # Absent
    /\ leaves' \in [LeafAddresses -> Utxqs \cup Mtxqs \cup {Absent}]
    /\ leaves'[Matched(u)] = leaves[Unmatched(u)]
    /\ leaves'[MtxqAddress(r)] = request[r]
    /\ \A v \in Initiators : leaves'[Unmatched(v)] = leaves[Unmatched(v)]
    /\ \A v \in Initiators : v # u => leaves'[Matched(v)] = leaves[Matched(v)]
    /\ \A s \in Reciprocators : s # r => leaves'[MtxqAddress(s)] = leaves[MtxqAddress(s)]
    /\ \A v \in Initiators : v # u => MatchesOf(v)' = MatchesOf(v)
    /\ MatchesOf(u)' = {r}

(* The request that is answered now is the first: an earlier match of u    *)
(* would have left something at its matched address.                       *)
LEMMA MtxqEffect ==
    ASSUME EInv, NEW r \in Reciprocators, NEW payload, Answering(r, payload),
           leaves[request[r].utxq_addr] = Absent,
           leaves' = [leaves EXCEPT ![request[r].utxq_addr] = UtxqOf(request[r]),
                                    ![MtxqAddress(r)] = request[r]]
    PROVE  \E u \in Initiators : MatchEffect(u, r)
<1> USE DEF EInv
<1>1. PICK u \in Initiators : /\ request[r].utxq_addr = Matched(u)
                              /\ UtxqOf(request[r]) = leaves[Unmatched(u)]
  BY NamedUtxq DEF Answering
<1>2. /\ stage[r] = "sent"
      /\ request[r] \in Mtxqs
      /\ leaves[MtxqAddress(r)] = Absent
      /\ leaves[Unmatched(u)] \in Utxqs
      /\ request[r] # Absent
  BY <1>1, AbsentAssumption DEF Answering, AnswersUtxq, RequestInv
<1>3. /\ leaves' \in [LeafAddresses -> Utxqs \cup Mtxqs \cup {Absent}]
      /\ leaves'[Matched(u)] = leaves[Unmatched(u)]
      /\ leaves'[MtxqAddress(r)] = request[r]
      /\ \A v \in Initiators : leaves'[Unmatched(v)] = leaves[Unmatched(v)]
      /\ \A v \in Initiators : v # u => leaves'[Matched(v)] = leaves[Matched(v)]
      /\ \A s \in Reciprocators : s # r => leaves'[MtxqAddress(s)] = leaves[MtxqAddress(s)]
  <2>1. leaves \in [LeafAddresses -> Utxqs \cup Mtxqs \cup {Absent}]
    BY DEF ETypeOK, TP!LeavesOK
  <2> QED
    BY <1>1, <1>2, <2>1, Addresses
<1>4. \A v \in Initiators : v # u => MatchesOf(v)' = MatchesOf(v)
  BY <1>1, <1>2, <1>3, Addresses DEF MatchesOf, MatchInv, Settled
<1>5. MatchesOf(u)' = {r}
  <2>1. ASSUME NEW s \in Reciprocators, s # r, leaves[MtxqAddress(s)] # Absent
        PROVE  leaves[MtxqAddress(s)].utxq_addr # Matched(u)
    BY <1>1, <2>1 DEF MatchInv, Settled, AnswersUtxq
  <2> QED
    BY <1>1, <1>2, <1>3, <2>1 DEF MatchesOf
<1> QED
  BY <1>1, <1>2, <1>3, <1>4, <1>5 DEF MatchEffect

(* An MTXQ is applied and not refused: its UTXQ was not matched, and the   *)
(* request is not on the chain yet, so this match is its UTXQ's only one.  *)
LEMMA ApplyMtxqStep ==
    ASSUME EInv, NEW r \in Reciprocators, NEW payload \in queue, Answering(r, payload),
           leaves[request[r].utxq_addr] = Absent,
           leaves' = [leaves EXCEPT ![request[r].utxq_addr] = UtxqOf(request[r]),
                                    ![MtxqAddress(r)] = request[r]],
           queue' = queue \ {payload}, UNCHANGED << stage, request >>
    PROVE  EInv'
<1> USE DEF EInv
<1>1. stage[r] = "sent" /\ request[r] \in Mtxqs
  BY DEF Answering
<1>2. PICK u \in Initiators : MatchEffect(u, r)
  BY MtxqEffect
<1>3. /\ request[r].utxq_addr = Matched(u)
      /\ UtxqOf(request[r]) = leaves[Unmatched(u)]
      /\ leaves[Unmatched(u)] \in Utxqs
      /\ leaves' \in [LeafAddresses -> Utxqs \cup Mtxqs \cup {Absent}]
      /\ leaves'[Matched(u)] = leaves[Unmatched(u)]
      /\ leaves'[MtxqAddress(r)] = request[r]
      /\ \A v \in Initiators : leaves'[Unmatched(v)] = leaves[Unmatched(v)]
      /\ \A v \in Initiators : v # u => leaves'[Matched(v)] = leaves[Matched(v)]
      /\ \A s \in Reciprocators : s # r => leaves'[MtxqAddress(s)] = leaves[MtxqAddress(s)]
  BY <1>2 DEF MatchEffect
<1>4. ETypeOK'
  BY <1>3 DEF ETypeOK, TP!LeavesOK
<1>5. ASSUME NEW mtxq \in Mtxqs
      PROVE  UtxqOf(mtxq)' = UtxqOf(mtxq)
  <2>1. PICK v \in Initiators : mtxq.utxq_addr = Matched(v)
    BY NamedUtxq
  <2>2. mtxq.utxq_addr.ident = v
    BY <2>1 DEF Matched
  <2> QED
    BY <1>3, <2>2 DEF UtxqOf
<1>6. QueueInv'
  <2>1. ASSUME NEW v \in Initiators, NEW p \in queue', Waiting(v, p)
        PROVE  Waiting(v, p)'
    BY <1>3, <2>1 DEF Waiting
  <2>2. ASSUME NEW s \in Reciprocators, NEW p \in queue', Answering(s, p)
        PROVE  Answering(s, p)'
    <3>1. s # r
      BY <2>2 DEF Answering
    <3>2. UtxqOf(request[s])' = UtxqOf(request[s])
      BY <1>5, <2>2 DEF Answering, UtxqOf
    <3> QED
      BY <1>3, <2>2, <3>1, <3>2 DEF Answering
  <2> QED
    BY <2>1, <2>2 DEF QueueInv
<1>7. SubmittedOnce'
  BY DEF SubmittedOnce
<1>8. RequestInv'
  BY <1>3 DEF RequestInv
<1>9. /\ \A v \in Initiators : v # u => MatchesOf(v)' = MatchesOf(v)
      /\ MatchesOf(u)' = {r}
  BY <1>2 DEF MatchEffect
<1>10. MatchInv'
  <2>1. Settled(r)'
    <3>1. UtxqOf(request[r])' = UtxqOf(request[r])
      BY <1>1, <1>5 DEF UtxqOf
    <3> QED
      BY <1>1, <1>3, <3>1 DEF Settled, Answering
  <2>2. ASSUME NEW s \in Reciprocators, s # r, Settled(s)
        PROVE  Settled(s)'
    <3>1. /\ request[s] \in Mtxqs
          /\ UtxqOf(request[s]) # Absent
          /\ leaves[request[s].utxq_addr] = UtxqOf(request[s])
      BY <2>2 DEF Settled, AnswersUtxq
    <3>2. PICK v \in Initiators : request[s].utxq_addr = Matched(v)
      BY <3>1, NamedUtxq
    <3>3. v # u
      BY <1>3, <3>1, <3>2
    <3>4. UtxqOf(request[s])' = UtxqOf(request[s])
      BY <1>5, <3>1 DEF UtxqOf
    <3> QED
      BY <1>3, <2>2, <3>2, <3>3, <3>4 DEF Settled
  <2>3. ASSUME NEW s \in Reciprocators, leaves'[MtxqAddress(s)] # Absent
        PROVE  Settled(s)'
    <3>1. CASE s = r
      BY <2>1, <3>1
    <3>2. CASE s # r
      BY <1>3, <2>2, <2>3, <3>2 DEF MatchInv
    <3> QED
      BY <3>1, <3>2
  <2>4. ASSUME NEW v \in Initiators
        PROVE  /\ leaves'[Matched(v)] # Absent => MatchesOf(v)' # {}
               /\ \A s, t \in MatchesOf(v)' : s = t
    <3>1. CASE v = u
      <4>1. MatchesOf(u)' = {r}
        BY <1>9
      <4> QED
        BY <3>1, <4>1
    <3>2. CASE v # u
      <4>1. leaves'[Matched(v)] = leaves[Matched(v)] /\ MatchesOf(v)' = MatchesOf(v)
        BY <1>3, <1>9, <3>2
      <4> QED
        BY <4>1 DEF MatchInv
    <3> QED
      BY <3>1, <3>2
  <2> QED
    BY <2>3, <2>4 DEF MatchInv
<1> QED
  BY <1>4, <1>6, <1>7, <1>8, <1>10

(* The validator applies a transaction, whichever it picks.                *)
LEMMA ApplyTxnStep ==
    ASSUME EInv, ApplyTxn
    PROVE  EInv'
<1>1. PICK payload \in queue : TP!Apply(payload) /\ queue' = queue \ {payload}
  BY DEF ApplyTxn
<1>2. UNCHANGED << stage, request >>
  BY DEF ApplyTxn
<1>3. CASE \E u \in Initiators : Waiting(u, payload)
  <2>1. PICK u \in Initiators, utxq \in Utxqs :
           Waiting(u, payload) /\ payload = UtxqPayload(u, utxq)
    BY <1>3 DEF Waiting
  <2> QED
    BY <1>1, <1>2, <2>1, ApplyUtxqStep
<1>4. CASE \E r \in Reciprocators : Answering(r, payload)
  <2>1. PICK r \in Reciprocators : Answering(r, payload)
    BY <1>4
  <2>2. /\ payload = MtxqPayload(r, UtxqOf(request[r]), request[r])
        /\ request[r] \in Mtxqs
        /\ UtxqOf(request[r]) # Absent
    BY <2>1 DEF Answering, AnswersUtxq
  <2>3. UtxqOf(request[r]) \in Utxqs
    BY <2>2, NamedUtxq DEF EInv, RequestInv
  <2>4. \/ UNCHANGED leaves
        \/ /\ leaves[request[r].utxq_addr] = Absent
           /\ leaves' = [leaves EXCEPT ![request[r].utxq_addr] = UtxqOf(request[r]),
                                       ![MtxqAddress(r)] = request[r]]
    BY <1>1, <2>2, <2>3, ApplyMtxq
  <2>5. CASE UNCHANGED leaves
    BY <1>1, <1>2, <2>5, DropStep
  <2> QED
    BY <1>1, <1>2, <2>1, <2>4, <2>5, ApplyMtxqStep
<1> QED
  BY <1>3, <1>4 DEF EInv, QueueInv

(* Every step keeps the invariant.                                         *)
LEMMA ExchangeStep == EInv /\ [Next]_vars => EInv'
<1> SUFFICES ASSUME EInv, [Next]_vars PROVE EInv'
  OBVIOUS
<1>1. ASSUME NEW u \in Initiators, NEW utxq \in Utxqs, CreateUtxq(u, utxq)
      PROVE  EInv'
  BY <1>1, CreateUtxqStep
<1>2. ASSUME NEW r \in Reciprocators, NEW mtxq \in Mtxqs, StartMtxq(r, mtxq)
      PROVE  EInv'
  BY <1>2, StartMtxqStep
<1>3. ASSUME NEW r \in Reciprocators, SeeUnmatched(r) \/ ReadFails(r)
      PROVE  EInv'
  BY <1>3, ProgressStep DEF SeeUnmatched, ReadFails
<1>4. ASSUME NEW r \in Reciprocators, SubmitMtxq(r)
      PROVE  EInv'
  BY <1>4, SubmitMtxqStep
<1>5. ASSUME NEW q \in Initiators \cup Reciprocators, Fail(q)
      PROVE  EInv'
  BY <1>5, ProgressStep DEF Fail
<1>6. CASE ApplyTxn
  BY <1>6, ApplyTxnStep
<1>7. CASE LoseTxn
  BY <1>7, DropStep DEF LoseTxn
<1>8. CASE UNCHANGED vars
  BY <1>8, DropStep DEF vars
<1> QED
  BY <1>1, <1>2, <1>3, <1>4, <1>5, <1>6, <1>7, <1>8 DEF Next, ServeRequest

(* The invariant holds at all times.                                       *)
THEOREM ExchangeInductive == Spec => []EInv
BY ExchangeInit, ExchangeStep, PTL DEF Spec

(* The chain, the queue and the requests are well typed at all times: a    *)
(* leaf holds what its address is for, or nothing.                         *)
THEOREM ExchangeTyped == Spec => []ETypeOK
<1>1. EInv => ETypeOK
  BY DEF EInv
<1> QED
  BY <1>1, ExchangeInductive, PTL
-------------------------------------------------------------------------------
(* The two leaves of a match enter the chain together, and no UTXQ is      *)
(* matched twice, however many requests race for it, whatever they read,   *)
(* in whatever order the validator applies what they submitted and         *)
(* whatever it loses.                                                      *)
THEOREM NoDoubleMatch == Spec => []MatchedOnce
<1>1. EInv => MatchedOnce
  <2> SUFFICES ASSUME EInv, NEW u \in Initiators
               PROVE  Cardinality(MatchesOf(u)) = IF leaves[Matched(u)] = Absent THEN 0 ELSE 1
    BY DEF MatchedOnce
  <2>1. ASSUME NEW r \in MatchesOf(u)
        PROVE  leaves[Matched(u)] # Absent
    BY <2>1 DEF MatchesOf, EInv, MatchInv, Settled, AnswersUtxq
  <2>2. CASE leaves[Matched(u)] = Absent
    <3>1. MatchesOf(u) = {}
      BY <2>1, <2>2
    <3> QED
      BY <2>2, <3>1, FS_EmptySet
  <2>3. CASE leaves[Matched(u)] # Absent
    <3>1. PICK r : MatchesOf(u) = {r}
      BY <2>3 DEF EInv, MatchInv
    <3> QED
      BY <2>3, <3>1, FS_Singleton
  <2> QED
    BY <2>2, <2>3
<1> QED
  BY <1>1, ExchangeInductive, PTL

(* What is matched is what was initiated, as it stands on the chain, and   *)
(* what matches it reciprocates and balances it.                           *)
THEOREM MatchesSound == Spec => []MatchIsSound
<1>1. EInv => MatchIsSound
  <2> SUFFICES ASSUME EInv, NEW u \in Initiators, leaves[Matched(u)] # Absent
               PROVE  /\ leaves[Matched(u)] = leaves[Unmatched(u)]
                      /\ \A r \in MatchesOf(u) :
                            /\ DependsOn[leaves[MtxqAddress(r)].operation] = leaves[Matched(u)].operation
                            /\ leaves[MtxqAddress(r)].balances = leaves[Matched(u)].quantity
    BY DEF MatchIsSound
  <2>1. ASSUME NEW r \in MatchesOf(u)
        PROVE  /\ leaves[Matched(u)] = leaves[Unmatched(u)]
               /\ AnswersUtxq(leaves[MtxqAddress(r)], leaves[Matched(u)])
    <3>1. /\ request[r] \in Mtxqs
          /\ leaves[MtxqAddress(r)] = request[r]
          /\ request[r].utxq_addr = Matched(u)
          /\ leaves[Matched(u)] = UtxqOf(request[r])
          /\ AnswersUtxq(request[r], UtxqOf(request[r]))
      BY DEF EInv, MatchInv, MatchesOf, Settled
    <3>2. UtxqOf(request[r]) = leaves[Unmatched(u)]
      BY <3>1, NamedUtxq, Addresses
    <3> QED
      BY <3>1, <3>2
  <2>2. MatchesOf(u) # {}
    BY DEF EInv, MatchInv
  <2> QED
    BY <2>1, <2>2 DEF AnswersUtxq
<1> QED
  BY <1>1, ExchangeInductive, PTL
-------------------------------------------------------------------------------
(* The ledger that the chain stands for.                                   *)
Matcher(requests) == CHOOSE r \in requests : TRUE

LedgerInitiated    == [u \in Initiators |-> leaves[Unmatched(u)]]
LedgerReciprocated == [r \in Reciprocators |-> leaves[MtxqAddress(r)]]
LedgerMatchedBy    == [u \in Initiators |-> IF leaves[Matched(u)] = Absent
                                              THEN Absent
                                              ELSE Matcher(MatchesOf(u))]

(* The empty chain is the empty ledger.                                    *)
LEMMA LedgerInit == Init => Ledger!Init
<1> SUFFICES ASSUME Init PROVE Ledger!Init
  OBVIOUS
<1>1. \A a \in LeafAddresses : leaves[a] = Absent
  BY DEF Init, TP!Init
<1> QED
  BY <1>1, Addresses DEF Ledger!Init

(* As long as the leaves stay, the ledger does.                            *)
LEMMA LedgerStutters == UNCHANGED leaves => UNCHANGED Ledger!vars
BY DEF Ledger!vars, MatchesOf

(* Applying a UTXQ initiates its event.                                    *)
LEMMA LedgerInitiates ==
    ASSUME EInv, NEW u \in Initiators, NEW utxq \in Utxqs,
           Waiting(u, UtxqPayload(u, utxq)), TP!Apply(UtxqPayload(u, utxq))
    PROVE  Ledger!Initiate(u, utxq)
<1>1. /\ leaves[Unmatched(u)] = Absent
      /\ leaves'[Unmatched(u)] = utxq
      /\ \A v \in Initiators : v # u => leaves'[Unmatched(v)] = leaves[Unmatched(v)]
      /\ \A v \in Initiators : leaves'[Matched(v)] = leaves[Matched(v)]
      /\ \A r \in Reciprocators : leaves'[MtxqAddress(r)] = leaves[MtxqAddress(r)]
      /\ \A v \in Initiators : MatchesOf(v)' = MatchesOf(v)
  BY UtxqEffect
<1>2. LedgerInitiated[u] = Absent
  BY <1>1 DEF LedgerInitiated
<1>3. LedgerInitiated' = [LedgerInitiated EXCEPT ![u] = utxq]
  BY <1>1 DEF LedgerInitiated
<1>4. LedgerReciprocated' = LedgerReciprocated
  BY <1>1 DEF LedgerReciprocated
<1>5. LedgerMatchedBy' = LedgerMatchedBy
  BY <1>1 DEF LedgerMatchedBy
<1> QED
  BY <1>2, <1>3, <1>4, <1>5
  DEF Ledger!Initiate, LedgerInitiated, LedgerReciprocated, LedgerMatchedBy, Matcher

(* Applying an MTXQ that is not refused matches the event it names.        *)
LEMMA LedgerMatches ==
    ASSUME EInv, NEW r \in Reciprocators, NEW payload, Answering(r, payload),
           leaves[request[r].utxq_addr] = Absent,
           leaves' = [leaves EXCEPT ![request[r].utxq_addr] = UtxqOf(request[r]),
                                    ![MtxqAddress(r)] = request[r]]
    PROVE  \E u \in Initiators : Ledger!Match(u, r)
<1> DEFINE Matching(utxq) == {mtxq \in Mtxqs : /\ DependsOn[mtxq.operation] = utxq.operation
                                               /\ mtxq.balances = utxq.quantity}
<1>1. PICK u \in Initiators : MatchEffect(u, r)
  BY MtxqEffect
<1>2. /\ leaves[Unmatched(u)] \in Utxqs
      /\ leaves[Unmatched(u)] # Absent
      /\ leaves[Matched(u)] = Absent
      /\ leaves[MtxqAddress(r)] = Absent
      /\ request[r] \in Matching(leaves[Unmatched(u)])
  BY <1>1, AbsentAssumption DEF MatchEffect, Answering, AnswersUtxq
<1>3. /\ leaves'[Matched(u)] # Absent
      /\ leaves'[MtxqAddress(r)] = request[r]
      /\ \A v \in Initiators : leaves'[Unmatched(v)] = leaves[Unmatched(v)]
      /\ \A v \in Initiators : v # u => leaves'[Matched(v)] = leaves[Matched(v)]
      /\ \A s \in Reciprocators : s # r => leaves'[MtxqAddress(s)] = leaves[MtxqAddress(s)]
      /\ \A v \in Initiators : v # u => MatchesOf(v)' = MatchesOf(v)
      /\ MatchesOf(u)' = {r}
  BY <1>1, <1>2 DEF MatchEffect
<1>4. LedgerInitiated' = LedgerInitiated
  BY <1>3 DEF LedgerInitiated
<1>5. LedgerReciprocated' = [LedgerReciprocated EXCEPT ![r] = request[r]]
  BY <1>3 DEF LedgerReciprocated
<1>6. LedgerMatchedBy' = [LedgerMatchedBy EXCEPT ![u] = r]
  <2>1. Matcher(MatchesOf(u)') = r
    BY <1>3 DEF Matcher
  <2>2. LedgerMatchedBy'[u] = r
    BY <1>3, <2>1 DEF LedgerMatchedBy
  <2>3. \A v \in Initiators : v # u => LedgerMatchedBy'[v] = LedgerMatchedBy[v]
    BY <1>3 DEF LedgerMatchedBy
  <2>4. /\ LedgerMatchedBy = [v \in Initiators |-> LedgerMatchedBy[v]]
        /\ LedgerMatchedBy' = [v \in Initiators |-> LedgerMatchedBy'[v]]
    BY DEF LedgerMatchedBy
  <2> QED
    BY <2>2, <2>3, <2>4
<1>7. /\ LedgerInitiated[u] = leaves[Unmatched(u)]
      /\ LedgerMatchedBy[u] = Absent
      /\ LedgerReciprocated[r] = Absent
  BY <1>2 DEF LedgerInitiated, LedgerMatchedBy, LedgerReciprocated
<1>8. request[r] \in [utxq \in Utxqs |-> Matching(utxq)][LedgerInitiated[u]]
  BY <1>2, <1>7
<1> QED
  BY <1>2, <1>4, <1>5, <1>6, <1>7, <1>8
  DEF Ledger!Match, LedgerInitiated, LedgerReciprocated, LedgerMatchedBy, Matcher

(* Every step of the system is one step of the ledger, or none.            *)
LEMMA LedgerStep == EInv /\ [Next]_vars => [Ledger!Next]_(Ledger!vars)
<1> SUFFICES ASSUME EInv, [Next]_vars PROVE [Ledger!Next]_(Ledger!vars)
  OBVIOUS
<1>1. CASE UNCHANGED leaves
  BY <1>1, LedgerStutters
<1>2. CASE ApplyTxn
  <2>1. PICK payload \in queue : TP!Apply(payload)
    BY <1>2 DEF ApplyTxn
  <2>2. CASE \E u \in Initiators : Waiting(u, payload)
    <3>1. PICK u \in Initiators, utxq \in Utxqs :
             Waiting(u, payload) /\ payload = UtxqPayload(u, utxq)
      BY <2>2 DEF Waiting
    <3>2. Ledger!Initiate(u, utxq)
      BY <2>1, <3>1, LedgerInitiates
    <3> QED
      BY <3>2 DEF Ledger!Next
  <2>3. CASE \E r \in Reciprocators : Answering(r, payload)
    <3>1. PICK r \in Reciprocators : Answering(r, payload)
      BY <2>3
    <3>2. /\ payload = MtxqPayload(r, UtxqOf(request[r]), request[r])
          /\ request[r] \in Mtxqs
          /\ UtxqOf(request[r]) \in Utxqs
      BY <3>1, NamedUtxq DEF Answering, AnswersUtxq, EInv, RequestInv
    <3>3. \/ UNCHANGED leaves
          \/ /\ leaves[request[r].utxq_addr] = Absent
             /\ leaves' = [leaves EXCEPT ![request[r].utxq_addr] = UtxqOf(request[r]),
                                         ![MtxqAddress(r)] = request[r]]
      BY <2>1, <3>2, ApplyMtxq
    <3>4. UNCHANGED leaves \/ \E u \in Initiators : Ledger!Match(u, r)
      BY <3>1, <3>3, LedgerMatches
    <3> QED
      BY <1>1, <3>4 DEF Ledger!Next
  <2> QED
    BY <2>2, <2>3 DEF EInv, QueueInv
<1>3. CASE ~ApplyTxn
  <2>1. UNCHANGED leaves
    BY <1>3 DEF Next, ServeRequest, vars, CreateUtxq, StartMtxq, SeeUnmatched, ReadFails, SubmitMtxq, Fail, LoseTxn
  <2> QED
    BY <1>1, <2>1
<1> QED
  BY <1>2, <1>3

(* The exchange implements the ledger: whatever happens between the        *)
(* requests and the chain, the chain only ever initiates events and        *)
(* matches them, once each, with terms that answer them.                   *)
THEOREM LedgerImplemented == Spec => ImplementsLedger
<1>1. Init => Ledger!Init
  BY LedgerInit
<1>2. EInv /\ [Next]_vars => [Ledger!Next]_(Ledger!vars)
  BY LedgerStep
<1> QED
  BY <1>1, <1>2, ExchangeInductive, PTL DEF Spec, ImplementsLedger, Ledger!Spec
===============================================================================
