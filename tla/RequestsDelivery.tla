--------------------------- MODULE RequestsDelivery ---------------------------
(***************************************************************************)
(* AssetRequests with a record of the calls that lost a batch, and with    *)
(* the fairness of the validator's scheduler: it goes on with the batches  *)
(* it can take, and a processor that stopped is started again.             *)
(***************************************************************************)
EXTENDS AssetRequests

VARIABLE lost   \* the calls that lost a batch; nothing in the code reads it

DInit == RInit /\ lost = {}

DNext ==
    \/ LoseBatch /\ lost' = lost \cup {t.call : t \in UNION {TxnsOf(batch) : batch \in pending \ pending'}}
    \/ /\ (\E c \in Calls : Serve(c)) \/ Validate \/ Discard \/ StopProcessor \/ StartProcessor
       /\ UNCHANGED lost

DFairness == WF_rvars(Validate) /\ WF_rvars(StartProcessor)

DSpec == DInit /\ [][DNext]_<< rvars, lost >> /\ DFairness
-------------------------------------------------------------------------------
(* The command's signer is one of the keys that it authorises.             *)
MayBegin(g) == ValidSettings(g) /\ g.signer \in Electors(g.auth_list)

Settled(g) ==
    /\ head.settings = SettingsTxn(g).settings
    /\ \A i \in DOMAIN GenesisEntries :
          head.registry[AddressOf[GenesisEntries[i]]] = GenesisEntries[i]

(* The genesis block comes to be, with the settings and all entries, if    *)
(* the command was made by somebody who may.                               *)
GenesisSettles ==
    (\E g \in GenesisCommands : MayBegin(g) /\ GenesisBatch(g) \in pending) ~>
        (\E g \in GenesisCommands : MayBegin(g) /\ Settled(g))

(* One elector proposes all of the file and another one accepts each entry *)
(* once, which is enough for the threshold.                                *)
Sufficient(c) ==
    LET votes == request[c].votes
        electors == Electors(head.settings.auth_list)
    IN  /\ request[c] # NoRequest
        /\ request[c].kind = "seed"
        /\ request[c].proposals[1].signer \in electors
        /\ votes[1].signer \in electors \ {request[c].proposals[1].signer}
        /\ \A n \in DOMAIN votes : votes[n].word = "accept"
        /\ \A n, m \in DOMAIN votes : votes[n].of = votes[m].of => n = m
        /\ Len(votes) = Len(request[c].proposals)
        /\ head.settings.threshold <= 2

InterferesWith(c, t) ==
    t.action \in {"VOTE", "UNSET"} /\ t.call # c
        /\ \E i \in DOMAIN request[c].proposals : t.entry = Entry(c, i)

(* All entries of the file are registered; or one of its batches got lost  *)
(* on the way, or another call voted on one of its entries.                *)
Delivered(c) ==
    \/ \A i \in DOMAIN request[c].proposals :
          head.registry[AddressOf[Entry(c, i)]] = Entry(c, i)
    \/ c \in lost
    \/ \E t \in done : InterferesWith(c, t)

(* No file that was loaded, with votes that suffice, stays undelivered:    *)
(* create_asset_unit_batch submits its votes apart from its proposals, and *)
(* answers before either of them is applied.                               *)
SeedDelivers ==
    []<>(\A c \in Calls : stage[c] = "200" /\ Sufficient(c) => Delivered(c))
===============================================================================
