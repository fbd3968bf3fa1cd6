----------------------------- MODULE AssetRequests -----------------------------
(***************************************************************************)
(* The life of one dimension from the genesis batch on: the calls of the   *)
(* REST service that create, propose and vote, and load files of proposals *)
(* with votes; the batches they submit; the validator, which executes a    *)
(* batch in a context of its own and commits it as a whole or not at all;  *)
(* and the handler, VotingTP, whose variables are that context here.       *)
(*                                                                         *)
(* An entry gets a fresh prime with the call that brings it, so that it is *)
(* named by the call and its position, and no other entry has its address. *)
(* Names and keys of signers are one to one.                               *)
(***************************************************************************)
EXTENDS VotingTP

CONSTANTS
    Calls,             \* calls of the REST service
    Requests,          \* what each call may ask for
    Unknown,           \* a signer's name that the configuration does not have
    Unnamed,           \* an empty name
    NoRequest,
    GenesisCommands,   \* arguments of the command line tool's genesis command
    GenesisEntries,    \* the units (or assets) the tool brings along, a sequence
    MaxDisturbances    \* bound: how often a context is discarded or the processor stops

ASSUME RequestsAssumption ==
    /\ \A e, f \in Entries : AddressOf[e] = AddressOf[f] => e = f
    /\ {Unknown, Unnamed} \cap Keys = {}
    /\ MaxDisturbances \in Nat
    /\ "genesis" \notin Calls
    /\ GenesisEntries \in Seq(Entries)
    /\ \A g \in GenesisCommands : g.auth_list \in AuthLists /\ g.threshold \in Thresholds

(* A request has a list of proposals, one if it creates or proposes, and a *)
(* list of votes, which name an entry of the chain or a proposal of the    *)
(* same file.                                                              *)
ASSUME RequestsTyped ==
    \A c \in Calls : \A r \in Requests[c] :
        /\ r # NoRequest
        /\ r.kind \in {"create", "propose", "seed", "vote"}
        /\ r.proposals \in Seq(ToSet(r.proposals)) /\ r.votes \in Seq(ToSet(r.votes))
        /\ r.kind \in {"create", "propose"} => Len(r.proposals) = 1
        /\ \A i \in DOMAIN r.proposals : << c, i >> \in Entries
        /\ r.kind = "vote" => \A n \in DOMAIN r.votes : r.votes[n].of \in Entries

VARIABLES
    head,        \* chain: settings, candidates and registry of the chain head
    done,        \* chain: the committed transactions
    pending,     \* submitted batches that are neither committed nor refused
    running,     \* the batch being executed and how far, or Idle
    up,          \* the family's processor runs
    disturbed,   \* how many disturbances there were
    request,     \* what each call asks for
    stage,       \* how far each call is, or its answer
    checked      \* how many of its votes were checked

rvars == << vars, head, done, pending, running, up, disturbed, request, stage, checked >>

callVars == << request, stage, checked >>

Setting == INSTANCE SettingTP

Answers == {"200", "400", "405", "500"}

(* The validator executes nothing: a batch of nobody, without transactions.*)
Idle == [batch |-> [signer |-> Unnamed, txns |-> << >>], executed |-> 0]
-------------------------------------------------------------------------------
(* Transactions.  The header's time stamp makes each one unique: it is the *)
(* n-th of its call.                                                       *)
Txn(c, n, action, signer, entry, vote, after) ==
    [call |-> c, n |-> n, action |-> action, signer |-> signer,
     entry |-> entry, vote |-> vote, after |-> after]

Entry(c, i) == << c, i >>

(* What is done about an entry, by the way it comes in.                    *)
EntryAction ==
    [genesis |-> "GENESIS", create |-> "DIRECT", propose |-> "PROPOSE", seed |-> "PROPOSE"]

ProposalTxn(c, i) ==
    Txn(c, i, EntryAction[request[c].kind], request[c].proposals[i].signer, Entry(c, i), UNSET, {})

(* Faulty: the words are listed in another order.                          *)
VoteNamedSwapped == [rescind |-> UNSET, accept |-> REJECT, reject |-> ACCEPT]

(* VOTE_ITEMS: the position of the word is the number of the vote.         *)
VoteNamed == [rescind |-> UNSET, accept |-> ACCEPT, reject |-> REJECT]

(* The proposal of a file that has the id a vote refers to.                *)
Refers(c, v) == \E i \in DOMAIN request[c].proposals : request[c].proposals[i].id = v.of

Referred(c, v) == CHOOSE i \in DOMAIN request[c].proposals : request[c].proposals[i].id = v.of

(* The proposal id of the chain that a vote is for.                        *)
EntryVotedOn(c, v) ==
    IF request[c].kind = "seed" THEN Entry(c, Referred(c, v)) ELSE v.of

(* Faulty: the votes of a file do not wait for its proposals.              *)
NoDependencies(c, v) == {}

(* The votes of a file depend on its proposals.                            *)
Dependencies(c, v) ==
    IF request[c].kind = "seed" THEN {ProposalTxn(c, Referred(c, v))} ELSE {}

VoteTxn(c, n) ==
    LET v == request[c].votes[n]
    IN  Txn(c, n, IF VoteNamed[v.word] = UNSET THEN "UNSET" ELSE "VOTE",
            v.signer, EntryVotedOn(c, v), VoteNamed[v.word], Dependencies(c, v))

(* A batch is signed by the signer of its first proposal or vote.          *)
ProposalBatch(c) ==
    [signer |-> request[c].proposals[1].signer,
     txns   |-> [i \in DOMAIN request[c].proposals |-> ProposalTxn(c, i)]]

VoteBatch(c) ==
    [signer |-> request[c].votes[1].signer,
     txns   |-> [n \in DOMAIN request[c].votes |-> VoteTxn(c, n)]]

(* The header of a transaction says that its own signer signs the batch:   *)
(* a batch with other signers is not valid.                                *)
OneSigner(batch) == \A i \in DOMAIN batch.txns : batch.txns[i].signer = batch.signer
-------------------------------------------------------------------------------
(* The names that have keys in the configuration.                          *)
ValidSigner(name) == name \in Keys

(* The genesis command.                                                    *)
ValidSettings(g) ==
    /\ ValidSigner(g.signer)
    /\ \A i \in DOMAIN g.auth_list : ValidSigner(g.auth_list[i])
    /\ g.threshold > 0
    /\ g.threshold <= Len(g.auth_list)

SettingsTxn(g) ==
    [action |-> "CREATE", signer |-> g.signer, after |-> {},
     settings |-> [auth_list |-> g.auth_list, threshold |-> g.threshold]]

GenesisTxns(g) ==
    [i \in DOMAIN GenesisEntries |->
        Txn("genesis", i, EntryAction["genesis"], g.signer, GenesisEntries[i], UNSET, {})]

(* Faulty: the entries come before the settings that allow them.           *)
EntriesFirst(g) ==
    [signer |-> g.signer, txns |-> Append(GenesisTxns(g), SettingsTxn(g))]

GenesisBatch(g) ==
    [signer |-> g.signer, txns |-> << SettingsTxn(g) >> \o GenesisTxns(g)]

(* The validator starts from the file that the command made, if it made    *)
(* one.                                                                    *)
RInit ==
    /\ settings = NoSettings
    /\ candidates = << >>
    /\ registry = [a \in Addresses |-> NotRegistered]
    /\ cache = NoSettings
    /\ head = [settings |-> settings, candidates |-> candidates, registry |-> registry]
    /\ done = {}
    /\ \E g \in GenesisCommands : pending = IF ValidSettings(g) THEN {GenesisBatch(g)} ELSE {}
    /\ running = Idle
    /\ up = TRUE
    /\ disturbed = 0
    /\ request = [c \in Calls |-> NoRequest]
    /\ stage = [c \in Calls |-> "new"]
    /\ checked = [c \in Calls |-> 0]
-------------------------------------------------------------------------------
(* The calls.  An unknown signer raises AuthException, which the load of a *)
(* file does not catch.                                                    *)
Denied(r) == IF r.kind = "seed" THEN "500" ELSE "405"

(* The answers to what is wrong with a request's proposals: an id that is  *)
(* used twice, a signer, no proposals at all.                              *)
Faults(r) ==
    {answer \in Answers :
        \/ /\ answer = "400"
           /\ \/ \E i, j \in DOMAIN r.proposals : i # j /\ r.proposals[i].id = r.proposals[j].id
              \/ \E i \in DOMAIN r.proposals : r.proposals[i].signer = Unnamed
        \/ /\ answer = Denied(r)
           /\ \E i \in DOMAIN r.proposals :
                 LET signer == r.proposals[i].signer
                 IN  signer # Unnamed /\ ~ValidSigner(signer)
        \/ answer = "500" /\ r.kind = "seed" /\ r.proposals = << >>}

(* A call comes in, once there is a chain, and its proposals are checked:  *)
(* the chain is asked for the fresh address, where nothing can be.         *)
Receive(c) ==
    /\ head.settings # NoSettings
    /\ stage[c] = "new"
    /\ \E r \in Requests[c] :
          /\ request' = [request EXCEPT ![c] = r]
          /\ \/ /\ Faults(r) = {}
                /\ stage' = [stage EXCEPT ![c] = IF r.kind = "vote" THEN "checking" ELSE "posting"]
             \/ \E answer \in Faults(r) : stage' = [stage EXCEPT ![c] = answer]
    /\ UNCHANGED << vars, head, done, pending, running, up, disturbed, checked >>

(* What a call ends with when the chain's REST interface does not answer   *)
(* it properly: 500, or, if there is a body that is not JSON, the          *)
(* ValueError of its decoding, which the endpoints take for wrong data.    *)
Unanswered == {"400", "500"}

(* The batch is posted: it is taken and the call goes on, or the call ends *)
(* with an error, because the batch is not valid, or did not arrive, or    *)
(* arrived and the answer did not.                                         *)
Post(c, batch, next) ==
    /\ \/ /\ OneSigner(batch)
          /\ pending' = pending \cup {batch}
          /\ \E result \in {next} \cup Unanswered : stage' = [stage EXCEPT ![c] = result]
       \/ /\ \E result \in Unanswered : stage' = [stage EXCEPT ![c] = result]
          /\ UNCHANGED pending
    /\ UNCHANGED << vars, head, done, running, up, disturbed, request, checked >>

PostProposals(c) ==
    /\ stage[c] = "posting"
    /\ Post(c, ProposalBatch(c), IF request[c].kind = "seed" THEN "checking" ELSE "200")

(* The head has a candidate under the id, or, for the votes of a file, it  *)
(* has no candidates at all.                                               *)
Found(c, v) ==
    \/ Proposed(head.candidates, AddressOf[EntryVotedOn(c, v)])
    \/ request[c].kind = "seed" /\ head.candidates = << >>

(* What becomes of the call when it checks a vote.                         *)
Check(c, v) ==
    IF request[c].kind = "seed" /\ ~Refers(c, v) THEN "500"
    ELSE IF v.signer = Unnamed THEN "400"
    ELSE IF ~ValidSigner(v.signer) THEN Denied(request[c])
    ELSE IF v.word \notin DOMAIN VoteNamed \/ ~Found(c, v) THEN "400"
    ELSE "checking"

CheckVote(c) ==
    /\ stage[c] = "checking"
    /\ checked[c] < Len(request[c].votes)
    /\ stage' = [stage EXCEPT ![c] = Check(c, request[c].votes[checked[c] + 1])]
    /\ checked' = [checked EXCEPT ![c] = @ + 1]
    /\ UNCHANGED << vars, head, done, pending, running, up, disturbed, request >>

(* Faulty: the votes are posted before they are all checked.               *)
PostVotesUnchecked(c) ==
    /\ stage[c] = "checking"
    /\ request[c].votes # << >>
    /\ \A n \in DOMAIN request[c].votes :
          LET v == request[c].votes[n]
          IN  v.word \in DOMAIN VoteNamed /\ (request[c].kind = "vote" \/ Refers(c, v))
    /\ Post(c, VoteBatch(c), IF checked[c] < Len(request[c].votes) THEN "checking" ELSE "200")

(* All votes are checked.  A file without votes has nobody to sign them.   *)
PostVotes(c) ==
    /\ stage[c] = "checking"
    /\ checked[c] = Len(request[c].votes)
    /\ request[c].votes # << >>
    /\ Post(c, VoteBatch(c), "200")

(* The chain or the service cannot be reached, or the call is cut off.     *)
Break(c) ==
    /\ stage[c] \in {"posting", "checking"}
    /\ \E result \in Unanswered : stage' = [stage EXCEPT ![c] = result]
    /\ UNCHANGED << vars, head, done, pending, running, up, disturbed, request, checked >>

Serve(c) ==
    Receive(c) \/ PostProposals(c) \/ CheckVote(c) \/ PostVotes(c) \/ Break(c)
-------------------------------------------------------------------------------
(* The handlers: the families' programs on one transaction.                *)
Execute(t) ==
    \/ t.action = "CREATE" /\ Setting!Create(t.settings) /\ UNCHANGED << registry, cache >>
    \/ t.action \in {"GENESIS", "DIRECT"} /\ Register(t.signer, t.entry)
    \/ t.action = "PROPOSE" /\ (Propose(t.signer, t.entry) \/ ProposeAtOnce(t.signer, t.entry))
    \/ t.action = "VOTE" /\ Vote(t.signer, AddressOf[t.entry], t.vote)
    \/ t.action = "UNSET" /\ Rescind(t.signer, AddressOf[t.entry])

TxnsOf(batch) == {batch.txns[i] : i \in DOMAIN batch.txns}

(* The validator takes a batch when everything it depends on is on the     *)
(* chain, in any order otherwise.                                          *)
Begin ==
    /\ running = Idle
    /\ \E batch \in pending :
          /\ \A t \in TxnsOf(batch) : t.after \subseteq done
          /\ running' = [batch |-> batch, executed |-> 0]
    /\ UNCHANGED << vars, head, done, pending, up, disturbed, callVars >>

NextTxn == running.batch.txns[running.executed + 1]

(* The setting family has a processor of its own.                          *)
HandlerRuns == up \/ NextTxn.action = "CREATE"

ExecuteNext ==
    /\ running # Idle
    /\ running.executed < Len(running.batch.txns)
    /\ HandlerRuns
    /\ Execute(NextTxn)
    /\ running' = [running EXCEPT !.executed = @ + 1]
    /\ UNCHANGED << head, done, pending, up, disturbed, callVars >>

Commit ==
    /\ running # Idle
    /\ running.executed = Len(running.batch.txns)
    /\ head' = [settings |-> settings, candidates |-> candidates, registry |-> registry]
    /\ done' = done \cup TxnsOf(running.batch)
    /\ pending' = pending \ {running.batch}
    /\ running' = Idle
    /\ UNCHANGED << vars, up, disturbed, callVars >>

(* Faulty: what the batch registered so far stays.                         *)
KeepWrites ==
    /\ settings' = head.settings
    /\ candidates' = head.candidates
    /\ registry' = registry
    /\ running' = Idle

(* The context is dropped, and the next one starts from the head.          *)
DropContext ==
    /\ settings' = head.settings
    /\ candidates' = head.candidates
    /\ registry' = head.registry
    /\ running' = Idle

(* The handler refuses the transaction.                                    *)
Refuses == ~ENABLED Execute(NextTxn)

(* A handler refuses a transaction of the batch, and the batch is done     *)
(* with; what the handler keeps, it keeps.                                 *)
RefuseBatch ==
    /\ running # Idle
    /\ running.executed < Len(running.batch.txns)
    /\ HandlerRuns
    /\ Refuses
    /\ cache' = IF NextTxn.action = "CREATE" THEN cache ELSE InForce
    /\ DropContext
    /\ pending' = pending \ {running.batch}
    /\ UNCHANGED << head, done, up, disturbed, callVars >>

(* The block is given up, and its batch is to be executed again.           *)
Discard ==
    /\ running # Idle
    /\ disturbed < MaxDisturbances
    /\ disturbed' = disturbed + 1
    /\ DropContext
    /\ UNCHANGED << cache, head, done, pending, up, callVars >>

(* A batch that was submitted gets lost in the validator.  The genesis     *)
(* batch is not submitted: the validator reads it from a file.             *)
LoseBatch ==
    /\ \E batch \in pending \ {running.batch} :
          /\ \A t \in TxnsOf(batch) : t.action # "CREATE"
          /\ pending' = pending \ {batch}
    /\ UNCHANGED << vars, head, done, running, up, disturbed, callVars >>

(* The processor of the family stops, in the middle of anything, and is    *)
(* started again: by a new main with a new handler.                        *)
StopProcessor ==
    /\ up
    /\ disturbed < MaxDisturbances
    /\ disturbed' = disturbed + 1
    /\ up' = FALSE
    /\ Restart
    /\ UNCHANGED << head, done, pending, running, callVars >>

StartProcessor ==
    /\ ~up
    /\ up' = TRUE
    /\ UNCHANGED << vars, head, done, pending, running, disturbed, callVars >>

Validate == Begin \/ ExecuteNext \/ Commit \/ RefuseBatch

RNext ==
    \/ \E c \in Calls : Serve(c)
    \/ Validate \/ Discard \/ LoseBatch
    \/ StopProcessor \/ StartProcessor

RSpec == RInit /\ [][RNext]_rvars
-------------------------------------------------------------------------------
BatchOK(batch) == OneSigner(batch) /\ batch.txns # << >>

RTypeOK ==
    /\ TypeOK
    /\ \A batch \in pending : BatchOK(batch)
    /\ running # Idle => running.batch \in pending
    /\ running = Idle => head = [settings |-> settings, candidates |-> candidates,
                                registry |-> registry]
    /\ up \in BOOLEAN
    /\ disturbed \in 0..MaxDisturbances
    /\ stage \in [Calls -> Answers \cup {"new", "posting", "checking"}]

(* Nothing is registered but by consent: an entry of the registry is one   *)
(* of the genesis batch, or an elector called to create it, or as many     *)
(* electors as the threshold asks for called for it, each by a proposal or *)
(* by the word "accept"; whatever the calls were answered, and whatever    *)
(* happened to their batches on the way.                                   *)
CallsFor(c, signer, entry) ==
    /\ request[c] # NoRequest
    /\ \/ \E i \in DOMAIN request[c].proposals :
             entry = Entry(c, i) /\ request[c].proposals[i].signer = signer
       \/ \E n \in DOMAIN request[c].votes :
             LET v == request[c].votes[n]
             IN  /\ v.signer = signer
                 /\ v.word = "accept"
                 /\ request[c].kind = "seed" => Refers(c, v)
                 /\ EntryVotedOn(c, v) = entry

RegisteredByConsent ==
    \A entry \in Entries :
        head.registry[AddressOf[entry]] = entry =>
            LET electors == Electors(head.settings.auth_list)
                for      == {key \in electors : \E c \in Calls : CallsFor(c, key, entry)}
            IN  \/ \E i \in DOMAIN GenesisEntries : entry = GenesisEntries[i]
                \/ \E c \in Calls : /\ request[c] # NoRequest
                                    /\ request[c].kind = "create"
                                    /\ entry = Entry(c, 1)
                                    /\ request[c].proposals[1].signer \in electors
                \/ Cardinality(for) >= head.settings.threshold

(* The transactions of calls that are on the chain or on their way.        *)
Effects ==
    {t \in done \cup UNION {TxnsOf(batch) : batch \in pending} :
        t.action \notin {"CREATE", "GENESIS"}}

(* What has an effect was found right as a whole: none of the proposals of *)
(* the call was at fault, none of its signers denied, and if its votes     *)
(* were sent, each of them is a vote that there is, by a signer that the   *)
(* configuration knows, on a proposal of the same file or on one that was  *)
(* on the chain.                                                           *)
RightVote(c, v) ==
    /\ ValidSigner(v.signer)
    /\ v.word \in DOMAIN VoteNamed
    /\ IF request[c].kind = "seed"
         THEN Refers(c, v)
         ELSE \E t \in done : t.action = "PROPOSE" /\ t.entry = v.of

EffectsWereChecked ==
    \A t \in Effects :
        /\ stage[t.call] # "405"
        /\ Faults(request[t.call]) = {}
        /\ t.action \in {"VOTE", "UNSET"} =>
              \A n \in DOMAIN request[t.call].votes : RightVote(t.call, request[t.call].votes[n])
===============================================================================
