---------------------------- MODULE RequestsProofs ----------------------------
(***************************************************************************)
(* What holds of AssetRequests for any calls, requests, entries and keys,  *)
(* and however often blocks are given up, batches get lost and processors  *)
(* stop: its types, that nothing is registered but by consent, and that    *)
(* what gets into the queue was found right as a whole.                    *)
(***************************************************************************)
EXTENDS AssetRequests, QuorumProofs

(* Settings that the genesis command can write.                            *)
Laws == [auth_list : AuthLists, threshold : Thresholds]

(* The settings S that the genesis batch brings are the only ones there    *)
(* are: on the chain, in the context, in the handler.                      *)
Lawful(S) ==
    /\ {settings, cache, head.settings} \subseteq {NoSettings, S}
    /\ head.settings # NoSettings => settings = head.settings
    /\ settings # NoSettings => Creatable(S)

(* Until they are on the chain there are no calls, and no batch but the    *)
(* genesis batch, which starts with them.                                  *)
Beginning ==
    /\ head.settings = NoSettings =>
          /\ \A c \in Calls : stage[c] = "new"
          /\ \A batch \in pending : batch.txns[1].action = "CREATE"
    /\ running # Idle /\ running.executed > 0 => settings # NoSettings

VoteChecked(c, v) ==
    /\ v.signer \in Keys
    /\ v.word \in DOMAIN VoteNamed
    /\ request[c].kind = "seed" => Refers(c, v)

Stages == Answers \cup {"new", "posting", "checking"}

(* How far a call is says what was found right about its request.          *)
CallOK(c) ==
    /\ IF stage[c] = "new" THEN request[c] = NoRequest ELSE request[c] \in Requests[c]
    /\ stage[c] \in {"posting", "checking"} => Faults(request[c]) = {}
    /\ stage[c] = "posting" => request[c].kind # "vote"
    /\ stage[c] \in {"new", "posting"} => checked[c] = 0
    /\ stage[c] = "checking" =>
          /\ request[c].kind \in {"seed", "vote"}
          /\ \A n \in DOMAIN request[c].votes : n <= checked[c] => VoteChecked(c, request[c].votes[n])

CallsInv ==
    /\ DOMAIN request = Calls /\ request = [c \in Calls |-> request[c]]
    /\ stage \in [Calls -> Stages] /\ checked \in [Calls -> Nat]
    /\ \A c \in Calls : CallOK(c)

(* The answers of a call that was not denied.                              *)
Ended == {"200", "400", "500"}

(* A transaction of a call, which was found right, and which has been      *)
(* answered unless there are still votes of a file to be checked.          *)
FromCall(t, c) ==
    /\ t.action \in {"DIRECT", "PROPOSE", "VOTE", "UNSET"}
    /\ t.call = c
    /\ t.signer \in Keys /\ t.entry \in Entries /\ t.vote \in VoteValues
    /\ t.action = "DIRECT" =>
          /\ request[c].kind = "create"
          /\ t.entry = Entry(c, 1) /\ t.signer = request[c].proposals[1].signer
    /\ t.action = "PROPOSE" \/ t.vote = ACCEPT => CallsFor(c, t.signer, t.entry)
    /\ Faults(request[c]) = {}
    /\ t.action \in {"VOTE", "UNSET"} =>
          /\ request[c].kind \in {"seed", "vote"}
          /\ \A n \in DOMAIN request[c].votes : VoteChecked(c, request[c].votes[n])
    /\ \/ stage[c] \in Ended
       \/ stage[c] = "checking" /\ t.action = "PROPOSE" /\ request[c].kind = "seed"

(* Every transaction is one of the genesis batch or of a call.             *)
TxnOK(S, t) ==
    \/ t.action = "CREATE" /\ t.settings = S
    \/ /\ t.action = "GENESIS" /\ t.call = "genesis" /\ t.signer \in Keys
       /\ t.entry \in ToSet(GenesisEntries)
    \/ \E c \in Calls : FromCall(t, c)

BatchSound(S, batch) ==
    /\ BatchOK(batch) /\ batch.txns \in Seq(TxnsOf(batch))
    /\ \A t \in TxnsOf(batch) : TxnOK(S, t)

BatchesInv(S) ==
    /\ \A batch \in pending : BatchSound(S, batch)
    /\ \A t \in done : TxnOK(S, t)
    /\ running # Idle =>
          /\ running = [batch |-> running.batch, executed |-> running.executed]
          /\ running.batch \in pending
          /\ running.executed \in 0..Len(running.batch.txns)

(* The electors who called for an entry.                                   *)
Supporters(S, entry) ==
    {key \in Electors(S.auth_list) : \E c \in Calls : CallsFor(c, key, entry)}

(* Every accepting vote in the container is backed by a call.              *)
BackedVotes(S, entry) ==
    {votes \in Votes : /\ OneVote(votes)
                       /\ VotersFor(votes, ACCEPT) \subseteq Supporters(S, entry)}

BackedBallots(S) ==
    {b \in Ballots : b.proposal_id = AddressOf[b.proposal] /\ b.votes \in BackedVotes(S, b.proposal)}

Consented(S) ==
    {entry \in Entries :
        \/ entry \in ToSet(GenesisEntries)
        \/ \E c \in Calls : /\ request[c] # NoRequest
                            /\ request[c].kind = "create"
                            /\ entry = Entry(c, 1)
                            /\ request[c].proposals[1].signer \in Electors(S.auth_list)
        \/ Cardinality(Supporters(S, entry)) >= S.threshold}

(* What a chain, or a context, holds: the settings law, the candidates     *)
(* list and the registry reg.                                              *)
Holds(S, law, list, reg, ballots, entries) ==
    /\ list \in Seq(ballots)
    /\ reg \in [Addresses -> Entries \cup {NotRegistered}]
    /\ \A entry \in Entries : reg[AddressOf[entry]] = entry => law = S /\ entry \in entries

Context == [settings |-> settings, candidates |-> candidates, registry |-> registry]

ChainsInv(S) ==
    /\ Holds(S, settings, candidates, registry, BackedBallots(S), Consented(S))
    /\ Holds(S, head.settings, head.candidates, head.registry, BackedBallots(S), Consented(S))
    /\ head = [settings |-> head.settings, candidates |-> head.candidates,
               registry |-> head.registry]
    /\ running = Idle => head = Context

RunInv == up \in BOOLEAN /\ disturbed \in 0..MaxDisturbances

RInv(S) == Lawful(S) /\ Beginning /\ CallsInv /\ BatchesInv(S) /\ ChainsInv(S) /\ RunInv

(* The inductive invariant.                                                *)
RInvariant == \E S \in Laws : RInv(S)
-------------------------------------------------------------------------------
(* What the settings of the genesis batch mean, once they are read.        *)
LEMMA LawFacts ==
    ASSUME NEW S \in Settings, Creatable(S), settings = S, cache \in {NoSettings, S}
    PROVE  /\ InForce = S
           /\ S.threshold \in Int /\ S.threshold > 0
           /\ S.auth_list \in Seq(Keys)
           /\ \A key : Authorizes(S, key) => key \in Electors(S.auth_list)
BY SettingsFacts DEF SettingsInv

LEMMA ElectorsFinite ==
    ASSUME NEW list \in Seq(Keys)
    PROVE  IsFiniteSet(Electors(list))
<1> DEFINE n == Len(list)
<1>1. n \in Nat /\ DOMAIN list = 1..n
  OBVIOUS
<1> HIDE DEF n
<1>2. 1 \in Int /\ n \in Int
  BY <1>1
<1>3. IsFiniteSet(1..n)
  BY <1>2, FS_Interval, Zenon
<1>4. list \in Surjection(1..n, Electors(list))
  BY <1>1 DEF Surjection, Electors
<1> QED
  BY <1>3, <1>4, FS_Surjection

(* Distinct voters for an entry, as many as the threshold asks for, all of *)
(* whom called for it: that is consent.                                    *)
LEMMA EnoughSupporters ==
    ASSUME NEW S \in Settings, S.auth_list \in Seq(Keys), S.threshold \in Int,
           NEW entry \in Entries, NEW voters \in SUBSET Supporters(S, entry),
           Cardinality(voters) >= S.threshold
    PROVE  entry \in Consented(S)
<1>1. Supporters(S, entry) \in SUBSET Electors(S.auth_list)
  BY DEF Supporters
<1>2. IsFiniteSet(Supporters(S, entry))
  BY <1>1, ElectorsFinite, FS_Subset
<1>3. IsFiniteSet(voters) /\ Cardinality(voters) <= Cardinality(Supporters(S, entry))
  BY <1>2, FS_Subset
<1>4. Cardinality(voters) \in Nat /\ Cardinality(Supporters(S, entry)) \in Nat
  BY <1>2, <1>3, FS_CardinalityType
<1>5. Cardinality(Supporters(S, entry)) >= S.threshold
  BY <1>3, <1>4
<1> QED
  BY <1>5 DEF Consented

(* The writes to the registry and the container.                           *)
LEMMA WriteEntry ==
    ASSUME NEW S, NEW list, NEW reg, NEW ballots, NEW entries,
           Holds(S, S, list, reg, ballots, entries), NEW entry \in Entries, entry \in entries
    PROVE  Holds(S, S, list, [reg EXCEPT ![AddressOf[entry]] = entry], ballots, entries)
<1> DEFINE longer == [reg EXCEPT ![AddressOf[entry]] = entry]
<1>1. AddressOf[entry] \in Addresses
  BY EntriesAssumption
<1>2. longer \in [Addresses -> Entries \cup {NotRegistered}]
  BY DEF Holds
<1>3. ASSUME NEW e \in Entries, longer[AddressOf[e]] = e
      PROVE  e \in entries
  <2>1. AddressOf[e] \in Addresses
    BY EntriesAssumption
  <2>2. CASE e = entry
    BY <2>2
  <2>3. CASE e # entry
    <3>1. AddressOf[e] # AddressOf[entry]
      BY <2>3, RequestsAssumption
    <3>2. longer[AddressOf[e]] = reg[AddressOf[e]]
      BY <1>1, <2>1, <3>1 DEF Holds
    <3> QED
      BY <1>3, <3>2 DEF Holds
  <2> QED
    BY <2>2, <2>3
<1> HIDE DEF longer
<1>4. Holds(S, S, list, longer, ballots, entries)
  BY <1>2, <1>3 DEF Holds
<1> QED
  BY <1>4 DEF longer

(* What a candidate in the container is.                                   *)
LEMMA BackedCandidate ==
    ASSUME NEW S, NEW list \in Seq(BackedBallots(S)), NEW i \in DOMAIN list
    PROVE  /\ list[i] \in Ballots
           /\ list[i].proposal_id = AddressOf[list[i].proposal]
           /\ list[i].proposal \in Entries
           /\ list[i].votes \in BackedVotes(S, list[i].proposal)
<1>1. list[i] \in BackedBallots(S)
  OBVIOUS
<1> QED
  BY <1>1 DEF BackedBallots, Ballots

LEMMA BackedProposal ==
    ASSUME NEW S, NEW list \in Seq(BackedBallots(S)),
           NEW entry \in Entries, NEW key \in Keys, key \in Supporters(S, entry)
    PROVE  WithProposal(list, AddressOf[entry], entry, key) \in Seq(BackedBallots(S))
<1> DEFINE R == [public_key : Keys, vote : VoteValues]
           v == VoteRecord(key, ACCEPT)
           ballot == [proposal_id |-> AddressOf[entry], proposal |-> entry, votes |-> << v >>]
<1>1. v \in R /\ v.public_key = key
  BY DEF VoteRecord, VoteValues
<1> HIDE DEF v
<1>2. << v >> \in Votes /\ DOMAIN << v >> = {1} /\ << v >>[1] = v
  BY <1>1 DEF Votes
<1>3. << v >> \in BackedVotes(S, entry)
  BY <1>1, <1>2 DEF BackedVotes, OneVote, VotersFor
<1>4. ballot \in BackedBallots(S)
  BY <1>3, EntriesAssumption DEF BackedBallots, Ballots, BackedVotes, Votes
<1>5. WithProposal(list, AddressOf[entry], entry, key) = Append(list, ballot)
  BY DEF WithProposal, v
<1> HIDE DEF ballot
<1> QED
  BY <1>4, <1>5

LEMMA BackedWithVotes ==
    ASSUME NEW S, NEW list \in Seq(BackedBallots(S)), NEW i \in DOMAIN list,
           NEW votes \in BackedVotes(S, list[i].proposal)
    PROVE  WithVotes(list, i, votes) \in Seq(BackedBallots(S))
<1> DEFINE ballot == [list[i] EXCEPT !.votes = votes]
<1>1. list[i] \in Ballots /\ list[i].proposal_id = AddressOf[list[i].proposal]
  BY BackedCandidate
<1>2. votes \in Seq([public_key : Keys, vote : VoteValues])
  BY DEF BackedVotes, Votes
<1>3. /\ ballot \in Ballots
      /\ ballot.proposal_id = list[i].proposal_id
      /\ ballot.proposal = list[i].proposal
      /\ ballot.votes = votes
  BY <1>1, <1>2 DEF Ballots
<1> HIDE DEF ballot
<1>4. ballot \in BackedBallots(S)
  BY <1>1, <1>3 DEF BackedBallots
<1>5. WithVotes(list, i, votes) = [list EXCEPT ![i] = ballot]
  BY DEF WithVotes, ballot
<1> QED
  BY <1>4, <1>5

LEMMA BackedWithout ==
    ASSUME NEW S, NEW list \in Seq(BackedBallots(S)), NEW i \in DOMAIN list
    PROVE  WithoutCandidate(list, i) \in Seq(BackedBallots(S))
<1>1. i \in 1..Len(list)
  OBVIOUS
<1> QED
  BY <1>1, RemoveAtProperties DEF WithoutCandidate

(* A vote more, or a vote less, of the keys that have one each.            *)
LEMMA VoteBacked ==
    ASSUME NEW S, NEW entry, NEW votes \in BackedVotes(S, entry),
           NEW key \in Keys, key \notin Voters(votes), NEW vote \in VoteValues,
           vote = ACCEPT => key \in Supporters(S, entry)
    PROVE  Append(votes, VoteRecord(key, vote)) \in BackedVotes(S, entry)
<1> DEFINE R == [public_key : Keys, vote : VoteValues]
           v == VoteRecord(key, vote)
<1>1. v \in R /\ v.public_key = key /\ v.vote = vote
  BY DEF VoteRecord
<1>2. votes \in Seq(R) /\ votes \in Votes /\ OneVote(votes)
         /\ VotersFor(votes, ACCEPT) \subseteq Supporters(S, entry)
  BY DEF BackedVotes, Votes
<1> HIDE DEF v
<1>3. Append(votes, v) \in Votes
  BY <1>1, <1>2 DEF Votes
<1>4. OneVote(Append(votes, v))
  BY <1>1, <1>2, OneVoteAppend
<1>5. VotersFor(Append(votes, v), ACCEPT)
        = VotersFor(votes, ACCEPT) \cup (IF v.vote = ACCEPT THEN {v.public_key} ELSE {})
  BY <1>1, <1>2, VotersAppend
<1> QED
  BY <1>1, <1>2, <1>3, <1>4, <1>5 DEF BackedVotes, v

LEMMA WithdrawalBacked ==
    ASSUME NEW S, NEW entry, NEW votes \in BackedVotes(S, entry), NEW j \in DOMAIN votes
    PROVE  RemoveAt(votes, j) \in BackedVotes(S, entry)
<1>1. votes \in Votes /\ OneVote(votes) /\ VotersFor(votes, ACCEPT) \subseteq Supporters(S, entry)
  BY DEF BackedVotes
<1>2. votes \in Seq([public_key : Keys, vote : VoteValues]) /\ j \in 1..Len(votes)
  BY <1>1 DEF Votes
<1>3. RemoveAt(votes, j) \in Votes /\ OneVote(RemoveAt(votes, j))
  BY <1>1, <1>2, RemoveAtProperties, OneVoteRemoveAt DEF Votes
<1>4. VotersFor(RemoveAt(votes, j), ACCEPT) = VotersFor(votes, ACCEPT) \ {votes[j].public_key}
  BY <1>1, VotersRemoveAt
<1> QED
  BY <1>1, <1>3, <1>4 DEF BackedVotes
-------------------------------------------------------------------------------
(* The handlers.  A context with the settings S, in which all is backed by *)
(* calls, ...                                                              *)
StartsFrom(S) ==
    /\ S \in Settings /\ Creatable(S)
    /\ settings = S /\ cache \in {NoSettings, S}
    /\ Holds(S, S, candidates, registry, BackedBallots(S), Consented(S))

(* ... is followed by one of the same kind.                                *)
LeadsTo(S) ==
    /\ settings' = S /\ cache' = S
    /\ Holds(S, S, candidates', registry', BackedBallots(S), Consented(S))

LEMMA StartFacts ==
    ASSUME NEW S, StartsFrom(S)
    PROVE  /\ InForce = S /\ settings = S
           /\ S \in Settings /\ S.threshold \in Int /\ S.threshold > 0
           /\ S.auth_list \in Seq(Keys)
           /\ \A key : Authorizes(S, key) => key \in Electors(S.auth_list) /\ key \in Keys
           /\ candidates \in Seq(BackedBallots(S))
           /\ registry \in [Addresses -> Entries \cup {NotRegistered}]
<1>1. /\ InForce = S /\ settings = S /\ S \in Settings
      /\ S.threshold \in Int /\ S.threshold > 0
      /\ S.auth_list \in Seq(Keys)
      /\ \A key : Authorizes(S, key) => key \in Electors(S.auth_list)
  BY LawFacts DEF StartsFrom
<1>2. Electors(S.auth_list) \subseteq Keys
  BY <1>1 DEF Electors
<1>3. /\ candidates \in Seq(BackedBallots(S))
      /\ registry \in [Addresses -> Entries \cup {NotRegistered}]
  BY DEF StartsFrom, Holds
<1> QED
  BY <1>1, <1>2, <1>3

(* ... the container has changed, and nothing is registered.               *)
LEMMA ListChanged ==
    ASSUME NEW S, StartsFrom(S), candidates' \in Seq(BackedBallots(S)),
           LoadSettings, UNCHANGED registry
    PROVE  LeadsTo(S)
<1>1. settings' = S /\ cache' = S
  BY StartFacts DEF LoadSettings
<1>2. Holds(S, S, candidates', registry', BackedBallots(S), Consented(S))
  BY DEF StartsFrom, Holds
<1> QED
  BY <1>1, <1>2 DEF LeadsTo

(* ... an entry with consent has been registered.                          *)
LEMMA EntryWritten ==
    ASSUME NEW S, StartsFrom(S), NEW entry \in Entries, entry \in Consented(S),
           candidates' \in Seq(BackedBallots(S)), LoadSettings,
           registry' = [registry EXCEPT ![AddressOf[entry]] = entry]
    PROVE  LeadsTo(S)
<1>1. settings' = S /\ cache' = S
  BY StartFacts DEF LoadSettings
<1>2. Holds(S, S, candidates, registry', BackedBallots(S), Consented(S))
  BY WriteEntry DEF StartsFrom
<1>3. Holds(S, S, candidates', registry', BackedBallots(S), Consented(S))
  BY <1>2 DEF Holds
<1> QED
  BY <1>1, <1>3 DEF LeadsTo

LEMMA RegisterBacked ==
    ASSUME NEW S, StartsFrom(S), NEW key, NEW entry \in Entries,
           key \in Electors(S.auth_list) => entry \in Consented(S),
           Register(key, entry)
    PROVE  LeadsTo(S)
<1>1. key \in Electors(S.auth_list)
  BY StartFacts DEF Register
<1>2. candidates' \in Seq(BackedBallots(S))
  BY StartFacts DEF Register
<1> QED
  BY <1>1, <1>2, EntryWritten DEF Register

LEMMA ProposalBacked ==
    ASSUME NEW S, StartsFrom(S), NEW key, NEW entry \in Entries,
           \E c \in Calls : CallsFor(c, key, entry),
           Propose(key, entry) \/ ProposeAtOnce(key, entry)
    PROVE  LeadsTo(S)
<1>1. key \in Keys /\ key \in Electors(S.auth_list)
  BY StartFacts DEF Propose, ProposeAtOnce
<1>2. key \in Supporters(S, entry)
  BY <1>1 DEF Supporters
<1>3. CASE Propose(key, entry)
  <2>1. WithProposal(candidates, AddressOf[entry], entry, key) \in Seq(BackedBallots(S))
    BY <1>1, <1>2, StartFacts, BackedProposal
  <2> QED
    BY <1>3, <2>1, ListChanged DEF Propose
<1>4. CASE ProposeAtOnce(key, entry)
  <2>1. S.threshold <= 1
    BY <1>4, StartFacts DEF ProposeAtOnce
  <2>2. Cardinality({key}) = 1
    BY FS_Singleton
  <2>3. entry \in Consented(S)
    BY <1>2, <2>1, <2>2, StartFacts, EnoughSupporters
  <2>4. candidates' \in Seq(BackedBallots(S))
    BY <1>4, StartFacts DEF ProposeAtOnce
  <2> QED
    BY <1>4, <2>3, <2>4, EntryWritten DEF ProposeAtOnce
<1> QED
  BY <1>3, <1>4

(* The votes with the new one are still backed.                            *)
LEMMA VotesWithBacked ==
    ASSUME NEW S, StartsFrom(S), NEW key, NEW entry \in Entries, NEW vote \in VoteValues,
           vote = ACCEPT => \E c \in Calls : CallsFor(c, key, entry),
           NEW i \in DOMAIN candidates, MayVote(key, AddressOf[entry], i)
    PROVE  /\ candidates[i].proposal = entry
           /\ VotesWith(i, key, vote) \in BackedVotes(S, entry)
<1>1. candidates[i].proposal_id = AddressOf[entry]
  BY DEF MayVote, IsFirst
<1>2. /\ candidates[i].proposal_id = AddressOf[candidates[i].proposal]
      /\ candidates[i].proposal \in Entries
      /\ candidates[i].votes \in BackedVotes(S, candidates[i].proposal)
  BY StartFacts, BackedCandidate
<1>3. candidates[i].proposal = entry
  BY <1>1, <1>2, RequestsAssumption
<1>4. key \in Keys /\ key \in Electors(S.auth_list)
  BY StartFacts DEF MayVote
<1>5. vote = ACCEPT => key \in Supporters(S, entry)
  BY <1>4 DEF Supporters
<1>6. key \notin Voters(candidates[i].votes)
  BY DEF MayVote
<1> QED
  BY <1>2, <1>3, <1>4, <1>5, <1>6, VoteBacked DEF VotesWith

LEMMA VotingBacked ==
    ASSUME NEW S, StartsFrom(S), NEW key, NEW entry \in Entries, NEW vote \in VoteValues,
           vote = ACCEPT => \E c \in Calls : CallsFor(c, key, entry),
           Vote(key, AddressOf[entry], vote)
    PROVE  LeadsTo(S)
<1>1. CASE VoteApproves(key, AddressOf[entry], vote)
  <2>1. PICK i \in DOMAIN candidates :
            /\ MayVote(key, AddressOf[entry], i)
            /\ Accepted(VotesWith(i, key, vote))
            /\ registry' = [registry EXCEPT ![AddressOf[entry]] = candidates[i].proposal]
            /\ candidates' = WithoutCandidate(candidates, i)
            /\ LoadSettings
    BY <1>1 DEF VoteApproves
  <2> DEFINE votes == VotesWith(i, key, vote)
  <2>2. candidates[i].proposal = entry /\ votes \in BackedVotes(S, entry)
    BY <2>1, VotesWithBacked
  <2>3. Tally(votes, ACCEPT) >= S.threshold
    BY <2>1, StartFacts DEF Accepted
  <2> HIDE DEF votes
  <2>4. votes \in Votes /\ OneVote(votes) /\ VotersFor(votes, ACCEPT) \subseteq Supporters(S, entry)
    BY <2>2 DEF BackedVotes
  <2>5. Cardinality(VotersFor(votes, ACCEPT)) = Tally(votes, ACCEPT)
    BY <2>4, VotersCounted
  <2>6. entry \in Consented(S)
    BY <2>3, <2>4, <2>5, StartFacts, EnoughSupporters
  <2>7. candidates' \in Seq(BackedBallots(S))
    BY <2>1, StartFacts, BackedWithout
  <2> QED
    BY <2>1, <2>2, <2>6, <2>7, EntryWritten
<1>2. CASE VoteRejects(key, AddressOf[entry], vote)
  <2>1. PICK i \in DOMAIN candidates :
            /\ candidates' = WithoutCandidate(candidates, i)
            /\ LoadSettings /\ UNCHANGED registry
    BY <1>2 DEF VoteRejects
  <2>2. candidates' \in Seq(BackedBallots(S))
    BY <2>1, StartFacts, BackedWithout
  <2> QED
    BY <2>1, <2>2, ListChanged
<1>3. CASE VoteRecorded(key, AddressOf[entry], vote)
  <2>1. PICK i \in DOMAIN candidates :
            /\ MayVote(key, AddressOf[entry], i)
            /\ candidates' = WithVotes(candidates, i, VotesWith(i, key, vote))
            /\ LoadSettings /\ UNCHANGED registry
    BY <1>3 DEF VoteRecorded
  <2>2. VotesWith(i, key, vote) \in BackedVotes(S, candidates[i].proposal)
    BY <2>1, VotesWithBacked
  <2>3. candidates' \in Seq(BackedBallots(S))
    BY <2>1, <2>2, StartFacts, BackedWithVotes
  <2> QED
    BY <2>1, <2>3, ListChanged
<1> QED
  BY <1>1, <1>2, <1>3 DEF Vote

LEMMA RescindBacked ==
    ASSUME NEW S, StartsFrom(S), NEW key, NEW id, Rescind(key, id)
    PROVE  LeadsTo(S)
<1>1. PICK i \in DOMAIN candidates :
          /\ \E j \in DOMAIN candidates[i].votes :
                candidates' = IF Len(candidates[i].votes) = 1
                                THEN WithoutCandidate(candidates, i)
                                ELSE WithVotes(candidates, i, RemoveAt(candidates[i].votes, j))
          /\ LoadSettings /\ UNCHANGED registry
  BY DEF Rescind
<1>2. PICK j \in DOMAIN candidates[i].votes :
          candidates' = IF Len(candidates[i].votes) = 1
                          THEN WithoutCandidate(candidates, i)
                          ELSE WithVotes(candidates, i, RemoveAt(candidates[i].votes, j))
  BY <1>1
<1>3. candidates[i].votes \in BackedVotes(S, candidates[i].proposal)
  BY StartFacts, BackedCandidate
<1>4. RemoveAt(candidates[i].votes, j) \in BackedVotes(S, candidates[i].proposal)
  BY <1>3, WithdrawalBacked
<1>5. /\ WithoutCandidate(candidates, i) \in Seq(BackedBallots(S))
      /\ WithVotes(candidates, i, RemoveAt(candidates[i].votes, j)) \in Seq(BackedBallots(S))
  BY <1>4, StartFacts, BackedWithout, BackedWithVotes
<1>6. candidates' \in Seq(BackedBallots(S))
  BY <1>2, <1>5
<1> QED
  BY <1>1, <1>6, ListChanged
-------------------------------------------------------------------------------
LEMMA LawsAreSettings ==
    ASSUME NEW S \in Laws
    PROVE  S \in Settings /\ S.threshold \in Int /\ S.auth_list \in Seq(Keys)
BY SettingsAssumption DEF Laws, Settings

LEMMA TakenRequest ==
    ASSUME CallsInv, NEW c \in Calls, stage[c] # "new"
    PROVE  request[c] \in Requests[c] /\ request[c] # NoRequest
<1>1. request[c] \in Requests[c]
  BY DEF CallsInv, CallOK
<1> QED
  BY <1>1, RequestsTyped

(* What a transaction of a call, or of the genesis batch, does.            *)
LEMMA TxnExecuted ==
    ASSUME NEW S \in Laws, Lawful(S), CallsInv, ChainsInv(S),
           NEW t, TxnOK(S, t), Execute(t), t.action # "CREATE" => settings # NoSettings
    PROVE  /\ settings' = S /\ cache' \in {NoSettings, S} /\ Creatable(S)
           /\ Holds(S, S, candidates', registry', BackedBallots(S), Consented(S))
<1>1. ASSUME StartsFrom(S), LeadsTo(S)
      PROVE  /\ settings' = S /\ cache' \in {NoSettings, S} /\ Creatable(S)
             /\ Holds(S, S, candidates', registry', BackedBallots(S), Consented(S))
  BY <1>1 DEF LeadsTo, StartsFrom
<1>2. t.action # "CREATE" => StartsFrom(S)
  BY LawsAreSettings DEF Lawful, ChainsInv, StartsFrom
<1>3. CASE t.action = "CREATE"
  <2>1. /\ Setting!Create(t.settings) /\ UNCHANGED << registry, cache >>
        /\ t.settings = S
    BY <1>3 DEF Execute, TxnOK, FromCall
  <2>2. settings' = S /\ candidates' = << >> /\ Creatable(S)
    BY <2>1 DEF Setting!Create, Setting!Creatable, Creatable
  <2>3. cache' \in {NoSettings, S}
    BY <2>1 DEF Lawful
  <2>4. Holds(S, S, << >>, registry, BackedBallots(S), Consented(S))
    BY DEF ChainsInv, Holds
  <2> QED
    BY <2>1, <2>2, <2>3, <2>4
<1>4. CASE t.action = "GENESIS"
  <2>1. t.entry \in ToSet(GenesisEntries) /\ Register(t.signer, t.entry)
    BY <1>4 DEF Execute, TxnOK, FromCall
  <2>2. t.entry \in Entries
    BY <2>1, RequestsAssumption DEF ToSet
  <2>3. t.entry \in Consented(S)
    BY <2>1, <2>2 DEF Consented
  <2> QED
    BY <1>1, <1>2, <1>4, <2>1, <2>2, <2>3, RegisterBacked
<1>5. ASSUME NEW c \in Calls, FromCall(t, c)
      PROVE  LeadsTo(S)
  <2>1. StartsFrom(S) /\ t.entry \in Entries /\ t.vote \in VoteValues
    BY <1>2, <1>5 DEF FromCall
  <2>2. CASE t.action = "DIRECT"
    <3>1. Register(t.signer, t.entry)
      BY <2>2 DEF Execute
    <3>2. request[c] # NoRequest
      BY <1>5, TakenRequest DEF FromCall, Ended
    <3>3. t.signer \in Electors(S.auth_list) => t.entry \in Consented(S)
      BY <1>5, <2>1, <2>2, <3>2 DEF FromCall, Consented
    <3> QED
      BY <2>1, <3>1, <3>3, RegisterBacked
  <2>3. CASE t.action = "PROPOSE"
    <3>1. Propose(t.signer, t.entry) \/ ProposeAtOnce(t.signer, t.entry)
      BY <2>3 DEF Execute
    <3>2. CallsFor(c, t.signer, t.entry)
      BY <1>5, <2>3 DEF FromCall
    <3> QED
      BY <2>1, <3>1, <3>2, ProposalBacked
  <2>4. CASE t.action = "VOTE"
    <3>1. Vote(t.signer, AddressOf[t.entry], t.vote)
      BY <2>4 DEF Execute
    <3>2. t.vote = ACCEPT => CallsFor(c, t.signer, t.entry)
      BY <1>5 DEF FromCall
    <3> QED
      BY <2>1, <3>1, <3>2, VotingBacked
  <2>5. CASE t.action = "UNSET"
    <3>1. Rescind(t.signer, AddressOf[t.entry])
      BY <2>5 DEF Execute
    <3> QED
      BY <2>1, <3>1, RescindBacked
  <2> QED
    BY <1>5, <2>2, <2>3, <2>4, <2>5 DEF FromCall
<1>6. CASE \E c \in Calls : FromCall(t, c)
  <2>1. t.action # "CREATE"
    BY <1>6 DEF FromCall
  <2> QED
    BY <1>1, <1>2, <1>5, <1>6, <2>1
<1> QED
  BY <1>3, <1>4, <1>6 DEF TxnOK
-------------------------------------------------------------------------------
(* Calls only add to what is called for.                                   *)
Grown == \A c \in Calls : request[c] # NoRequest => request'[c] = request[c]

LEMMA SupportKept ==
    ASSUME Grown, NEW S, NEW entry
    PROVE  Supporters(S, entry) \subseteq Supporters(S, entry)'
<1>1. ASSUME NEW c \in Calls, NEW key, CallsFor(c, key, entry)
      PROVE  CallsFor(c, key, entry)'
  <2>1. request'[c] = request[c]
    BY <1>1 DEF CallsFor, Grown
  <2>2. \A v : Referred(c, v)' = Referred(c, v)
    BY <2>1 DEF Referred
  <2>3. \A v : Refers(c, v)' = Refers(c, v)
    BY <2>1 DEF Refers
  <2>4. \A v : EntryVotedOn(c, v)' = EntryVotedOn(c, v)
    BY <2>1, <2>2 DEF EntryVotedOn
  <2> QED
    BY <1>1, <2>1, <2>3, <2>4 DEF CallsFor
<1> QED
  BY <1>1 DEF Supporters

LEMMA BallotsKept ==
    ASSUME Grown, NEW S
    PROVE  BackedBallots(S) \subseteq BackedBallots(S)'
<1>1. ASSUME NEW entry, NEW votes \in BackedVotes(S, entry)
      PROVE  votes \in BackedVotes(S, entry)'
  BY SupportKept DEF BackedVotes
<1> QED
  BY <1>1 DEF BackedBallots

LEMMA ConsentKept ==
    ASSUME Grown, NEW S \in Laws
    PROVE  Consented(S) \subseteq Consented(S)'
<1> SUFFICES ASSUME NEW entry \in Consented(S)
             PROVE  entry \in Consented(S)'
  OBVIOUS
<1>1. entry \in Entries
  BY DEF Consented
<1>2. CASE entry \in ToSet(GenesisEntries)
  BY <1>1, <1>2 DEF Consented
<1>3. ASSUME NEW c \in Calls, request[c] # NoRequest, request[c].kind = "create",
             entry = Entry(c, 1), request[c].proposals[1].signer \in Electors(S.auth_list)
      PROVE  entry \in Consented(S)'
  <2>1. request'[c] = request[c]
    BY <1>3 DEF Grown
  <2> QED
    BY <1>1, <1>3, <2>1 DEF Consented
<1>4. CASE Cardinality(Supporters(S, entry)) >= S.threshold
  <2>1. Supporters(S, entry) \subseteq Supporters(S, entry)'
    BY SupportKept
  <2>2. Supporters(S, entry)' \subseteq Electors(S.auth_list)
    BY DEF Supporters
  <2>3. IsFiniteSet(Supporters(S, entry)')
    BY <2>2, LawsAreSettings, ElectorsFinite, FS_Subset
  <2>4. /\ IsFiniteSet(Supporters(S, entry))
        /\ Cardinality(Supporters(S, entry)) <= Cardinality(Supporters(S, entry)')
    BY <2>1, <2>3, FS_Subset
  <2>5. /\ Cardinality(Supporters(S, entry)) \in Nat
        /\ Cardinality(Supporters(S, entry)') \in Nat
    BY <2>3, <2>4, FS_CardinalityType
  <2>6. Cardinality(Supporters(S, entry)') >= S.threshold
    BY <1>4, <2>4, <2>5, LawsAreSettings
  <2> QED
    BY <1>1, <2>6 DEF Consented
<1> QED
  BY <1>2, <1>3, <1>4 DEF Consented

LEMMA HoldsKept ==
    ASSUME Grown, NEW S \in Laws, NEW law, NEW list, NEW reg,
           Holds(S, law, list, reg, BackedBallots(S), Consented(S))
    PROVE  Holds(S, law, list, reg, BackedBallots(S)', Consented(S)')
<1>1. list \in Seq(BackedBallots(S)')
  BY BallotsKept, SeqMonotonic DEF Holds
<1> QED
  BY <1>1, ConsentKept DEF Holds
-------------------------------------------------------------------------------
(* The calls.  No call goes back: what its transactions rest on, stays.    *)
SeedSent(c) == stage[c] = "checking" /\ request[c].kind = "seed"

Progress ==
    /\ Grown
    /\ \A c \in Calls : /\ stage[c] \in Ended => stage'[c] \in Ended
                        /\ SeedSent(c) => stage'[c] \in {"checking"} \cup Ended

LEMMA TxnKept ==
    ASSUME CallsInv, Progress, NEW S, NEW t, TxnOK(S, t)
    PROVE  TxnOK(S, t)'
<1>1. ASSUME NEW c \in Calls, FromCall(t, c)
      PROVE  FromCall(t, c)'
  <2>1. stage[c] # "new"
    BY <1>1 DEF FromCall, Ended
  <2>2. request[c] # NoRequest
    BY <2>1, TakenRequest
  <2>3. request'[c] = request[c]
    BY <2>2 DEF Progress, Grown
  <2>4. \A v : Referred(c, v)' = Referred(c, v)
    BY <2>3 DEF Referred
  <2>5. \A v : Refers(c, v)' = Refers(c, v) /\ EntryVotedOn(c, v)' = EntryVotedOn(c, v)
    BY <2>3, <2>4 DEF Refers, EntryVotedOn
  <2>6. CallsFor(c, t.signer, t.entry) => CallsFor(c, t.signer, t.entry)'
    BY <2>3, <2>5 DEF CallsFor
  <2>7. \/ stage'[c] \in Ended
        \/ stage'[c] = "checking" /\ t.action = "PROPOSE" /\ request'[c].kind = "seed"
    <3>1. CASE stage[c] \in Ended
      BY <3>1 DEF Progress
    <3>2. CASE stage[c] = "checking" /\ t.action = "PROPOSE" /\ request[c].kind = "seed"
      BY <2>3, <3>2 DEF Progress, SeedSent
    <3> QED
      BY <1>1, <3>1, <3>2 DEF FromCall
  <2>8. \A v : VoteChecked(c, v)' = VoteChecked(c, v)
    BY <2>3, <2>5 DEF VoteChecked
  <2>9. Faults(request'[c]) = {}
    <3>1. Faults(request[c]) = {}
      BY <1>1 DEF FromCall
    <3> QED
      BY <2>3, <3>1, Zenon
  <2>10. t.action \in {"VOTE", "UNSET"} =>
            (\A n \in DOMAIN request[c].votes : VoteChecked(c, request[c].votes[n]))'
    <3>1. t.action \in {"VOTE", "UNSET"} =>
             \A n \in DOMAIN request[c].votes : VoteChecked(c, request[c].votes[n])
      BY <1>1 DEF FromCall
    <3> QED
      BY <2>3, <2>8, <3>1
  <2>11. /\ t.action \in {"DIRECT", "PROPOSE", "VOTE", "UNSET"}
         /\ t.call = c
         /\ t.signer \in Keys /\ t.entry \in Entries /\ t.vote \in VoteValues
         /\ t.action = "DIRECT" =>
               /\ request'[c].kind = "create"
               /\ t.entry = Entry(c, 1) /\ t.signer = request'[c].proposals[1].signer
         /\ t.action = "PROPOSE" \/ t.vote = ACCEPT => CallsFor(c, t.signer, t.entry)'
         /\ t.action \in {"VOTE", "UNSET"} => request'[c].kind \in {"seed", "vote"}
    BY <1>1, <2>3, <2>6 DEF FromCall
  <2> QED
    BY <2>7, <2>9, <2>10, <2>11 DEF FromCall
<1> QED
  BY <1>1 DEF TxnOK

LEMMA BatchKept ==
    ASSUME CallsInv, Progress, NEW S, NEW batch, BatchSound(S, batch)
    PROVE  BatchSound(S, batch)'
BY TxnKept DEF BatchSound

(* A step that leaves a call alone.                                        *)
LEMMA CallKept ==
    ASSUME NEW c \in Calls, CallOK(c), request'[c] = request[c],
           stage'[c] = stage[c], checked'[c] = checked[c]
    PROVE  CallOK(c)'
<1>1. \A v : Refers(c, v)' = Refers(c, v)
  BY DEF Refers
<1>2. \A v : VoteChecked(c, v)' = VoteChecked(c, v)
  BY <1>1 DEF VoteChecked
<1> QED
  BY <1>2 DEF CallOK

LEMMA CallsKept ==
    ASSUME CallsInv, UNCHANGED callVars
    PROVE  CallsInv' /\ Progress
<1>1. CallsInv'
  BY CallKept DEF CallsInv, callVars
<1> QED
  BY <1>1 DEF Progress, Grown, SeedSent, callVars, Ended

(* A step of one call.                                                     *)
Moves(c, r, s, k) ==
    /\ request' = [request EXCEPT ![c] = r]
    /\ stage' = [stage EXCEPT ![c] = s]
    /\ checked' = [checked EXCEPT ![c] = k]

LEMMA CallMoves ==
    ASSUME CallsInv, NEW c \in Calls, NEW r, NEW s \in Stages, NEW k \in Nat,
           Moves(c, r, s, k), CallOK(c)',
           request[c] # NoRequest => r = request[c],
           stage[c] \in Ended => s \in Ended, SeedSent(c) => s \in {"checking"} \cup Ended
    PROVE  CallsInv' /\ Progress
<1>1. /\ DOMAIN request' = Calls /\ request' = [d \in Calls |-> request'[d]]
      /\ stage' \in [Calls -> Stages] /\ checked' \in [Calls -> Nat]
  BY DEF CallsInv, Moves
<1>2. request'[c] = r /\ stage'[c] = s /\ checked'[c] = k
  BY DEF CallsInv, Moves
<1>3. ASSUME NEW d \in Calls, d # c
      PROVE  request'[d] = request[d] /\ stage'[d] = stage[d] /\ checked'[d] = checked[d]
  BY <1>3 DEF CallsInv, Moves
<1>4. \A d \in Calls : CallOK(d)'
  <2> SUFFICES ASSUME NEW d \in Calls, d # c
               PROVE  CallOK(d)'
    OBVIOUS
  <2>1. CallOK(d)
    BY DEF CallsInv
  <2> QED
    BY <1>3, <2>1, CallKept
<1>5. CallsInv'
  BY <1>1, <1>4 DEF CallsInv
<1>6. Progress
  BY <1>2, <1>3 DEF Progress, Grown, SeedSent
<1> QED
  BY <1>5, <1>6

(* A step of a call that leaves what is on the chain and in the validator, *)
(* and submits at most one batch.                                          *)
LEMMA CallStep ==
    ASSUME NEW S \in Laws, RInv(S), CallsInv', Progress, head.settings # NoSettings,
           UNCHANGED << vars, head, done, running, up, disturbed >>,
           pending' = pending \/ \E batch : /\ pending' = pending \cup {batch}
                                            /\ BatchSound(S, batch)'
    PROVE  RInv(S)'
<1> USE DEF RInv
<1>1. Lawful(S)'
  BY DEF Lawful, vars
<1>2. Beginning'
  BY DEF Beginning, vars
<1>3. BatchesInv(S)'
  <2>1. \A batch \in pending' : BatchSound(S, batch)'
    BY BatchKept DEF BatchesInv
  <2>2. \A t \in done' : TxnOK(S, t)'
    BY TxnKept DEF BatchesInv
  <2> QED
    BY <2>1, <2>2 DEF BatchesInv
<1>4. ChainsInv(S)'
  <2>1. /\ Holds(S, settings, candidates, registry, BackedBallots(S)', Consented(S)')
        /\ Holds(S, head.settings, head.candidates, head.registry,
                 BackedBallots(S)', Consented(S)')
    BY HoldsKept DEF ChainsInv, Progress
  <2> QED
    BY <2>1 DEF ChainsInv, Context, vars
<1>5. RunInv'
  BY DEF RunInv
<1> QED
  BY <1>1, <1>2, <1>3, <1>4, <1>5

LEMMA RequestFacts ==
    ASSUME NEW c \in Calls, NEW r \in Requests[c]
    PROVE  /\ r.kind \in {"create", "propose", "seed", "vote"}
           /\ Len(r.proposals) \in Nat /\ DOMAIN r.proposals = 1..Len(r.proposals)
           /\ Len(r.votes) \in Nat /\ DOMAIN r.votes = 1..Len(r.votes)
           /\ r.kind \in {"create", "propose"} => Len(r.proposals) = 1
           /\ \A i \in DOMAIN r.proposals : Entry(c, i) \in Entries
           /\ r.kind = "vote" => \A n \in DOMAIN r.votes : r.votes[n].of \in Entries
<1>1. r.proposals \in Seq(ToSet(r.proposals)) /\ r.votes \in Seq(ToSet(r.votes))
  BY RequestsTyped
<1>2. /\ Len(r.proposals) \in Nat /\ DOMAIN r.proposals = 1..Len(r.proposals)
      /\ Len(r.votes) \in Nat /\ DOMAIN r.votes = 1..Len(r.votes)
  BY <1>1
<1> QED
  BY <1>2, RequestsTyped DEF Entry

(* What a request without faults has.                                      *)
LEMMA Faultless ==
    ASSUME NEW r, Faults(r) = {}
    PROVE  /\ \A i \in DOMAIN r.proposals : r.proposals[i].signer \in Keys
           /\ r.kind = "seed" => r.proposals # << >>
<1>1. "400" \in Answers /\ "500" \in Answers /\ Denied(r) \in Answers
  BY DEF Answers, Denied
<1>2. ~ \E i \in DOMAIN r.proposals : r.proposals[i].signer = Unnamed
  BY <1>1 DEF Faults
<1>3. ~ \E i \in DOMAIN r.proposals :
            r.proposals[i].signer # Unnamed /\ ~ValidSigner(r.proposals[i].signer)
  BY <1>1 DEF Faults
<1>4. r.kind = "seed" => r.proposals # << >>
  BY <1>1 DEF Faults
<1> QED
  BY <1>2, <1>3, <1>4 DEF ValidSigner

LEMMA ReceiveStep ==
    ASSUME NEW S \in Laws, RInv(S), NEW c \in Calls, Receive(c)
    PROVE  RInv(S)'
<1>1. CallsInv /\ CallOK(c)
  BY DEF RInv, CallsInv
<1>2. stage[c] = "new" /\ head.settings # NoSettings
  BY DEF Receive
<1>3. request[c] = NoRequest /\ checked[c] = 0
  BY <1>1, <1>2 DEF CallOK
<1>4. PICK r \in Requests[c] :
          /\ request' = [request EXCEPT ![c] = r]
          /\ \/ /\ Faults(r) = {}
                /\ stage' = [stage EXCEPT ![c] = IF r.kind = "vote" THEN "checking" ELSE "posting"]
             \/ \E answer \in Faults(r) : stage' = [stage EXCEPT ![c] = answer]
  BY DEF Receive
<1>5. PICK s : /\ stage' = [stage EXCEPT ![c] = s]
               /\ \/ Faults(r) = {} /\ s = "checking" /\ r.kind = "vote"
                  \/ Faults(r) = {} /\ s = "posting" /\ r.kind # "vote"
                  \/ s \in Answers
  <2>1. CASE Faults(r) = {} /\ r.kind = "vote"
    BY <1>4, <2>1
  <2>2. CASE Faults(r) = {} /\ r.kind # "vote"
    BY <1>4, <2>2
  <2>3. CASE \E answer \in Faults(r) : stage' = [stage EXCEPT ![c] = answer]
    <3>1. Faults(r) \subseteq Answers
      BY DEF Faults
    <3> QED
      BY <2>3, <3>1
  <2> QED
    BY <1>4, <2>1, <2>2, <2>3
<1>6. s \in Stages /\ s # "new"
  BY <1>5 DEF Stages, Answers
<1>7. checked' = [checked EXCEPT ![c] = 0]
  BY <1>1, <1>3 DEF Receive, CallsInv
<1>8. Moves(c, r, s, 0)
  BY <1>4, <1>5, <1>7 DEF Moves
<1>9. request'[c] = r /\ stage'[c] = s /\ checked'[c] = 0
  BY <1>1, <1>4, <1>5, <1>7 DEF CallsInv
<1>10. \A n \in DOMAIN r.votes : ~(n <= 0)
  BY RequestFacts
<1>11. CallOK(c)'
  BY <1>5, <1>6, <1>9, <1>10 DEF CallOK, Answers
<1>12. CallsInv' /\ Progress
  BY <1>1, <1>2, <1>3, <1>6, <1>8, <1>11, CallMoves DEF Ended, SeedSent
<1> QED
  BY <1>2, <1>12, CallStep DEF Receive

(* A call that has a request and goes on, or ends.                         *)
LEMMA CallGoesOn ==
    ASSUME CallsInv, NEW c \in Calls, stage[c] \in {"posting", "checking"},
           NEW s \in Ended \cup {"checking", "405"}, SeedSent(c) => s # "405",
           s = "checking" => stage[c] = "checking" \/ request[c].kind = "seed",
           NEW k \in Nat, UNCHANGED request, stage' = [stage EXCEPT ![c] = s],
           checked' = [checked EXCEPT ![c] = k],
           \A n \in DOMAIN request[c].votes : s = "checking" /\ n <= k =>
               VoteChecked(c, request[c].votes[n])
    PROVE  CallsInv' /\ Progress
<1>1. request = [request EXCEPT ![c] = request[c]]
  BY DEF CallsInv
<1>2. s \in Stages /\ s \notin {"new", "posting"} /\ (SeedSent(c) => s \in {"checking"} \cup Ended)
  BY DEF Stages, Answers, Ended
<1>3. Moves(c, request[c], s, k)
  BY <1>1 DEF Moves
<1>4. request'[c] = request[c] /\ stage'[c] = s /\ checked'[c] = k
  BY DEF CallsInv
<1>5. CallOK(c)
  BY DEF CallsInv
<1>6. \A v : VoteChecked(c, v)' = VoteChecked(c, v)
  BY DEF VoteChecked, Refers
<1>7. s = "checking" => Faults(request[c]) = {} /\ request[c].kind \in {"seed", "vote"}
  BY <1>5 DEF CallOK
<1>8. CallOK(c)'
  BY <1>2, <1>4, <1>5, <1>6, <1>7 DEF CallOK
<1>9. stage[c] \notin Ended
  BY DEF Ended
<1> QED
  BY <1>2, <1>3, <1>8, <1>9, CallMoves

LEMMA CheckVoteStep ==
    ASSUME NEW S \in Laws, RInv(S), NEW c \in Calls, CheckVote(c)
    PROVE  RInv(S)'
<1> DEFINE k == checked[c] + 1
           v == request[c].votes[k]
           s == Check(c, v)
<1>1. CallsInv /\ CallOK(c) /\ stage[c] = "checking"
  BY DEF RInv, CallsInv, CheckVote
<1>2. s \in Ended \cup {"checking", "405"} /\ (SeedSent(c) => s # "405")
  BY DEF Check, Denied, Ended, SeedSent
<1>3. s = "checking" => VoteChecked(c, v)
  BY DEF Check, Denied, VoteChecked, ValidSigner
<1>4. checked[c] \in Nat /\ k \in Nat
  BY <1>1 DEF CallsInv
<1>5. \A n \in DOMAIN request[c].votes : n <= checked[c] => VoteChecked(c, request[c].votes[n])
  BY <1>1 DEF CallOK
<1>6. stage' = [stage EXCEPT ![c] = s] /\ checked' = [checked EXCEPT ![c] = k]
  BY <1>1 DEF CheckVote, CallsInv
<1>7. request[c] \in Requests[c]
  BY <1>1 DEF CallOK
<1>8. \A n \in DOMAIN request[c].votes : n \in Nat
  BY <1>7, RequestFacts
<1> HIDE DEF s
<1>9. \A n \in DOMAIN request[c].votes : s = "checking" /\ n <= k =>
          VoteChecked(c, request[c].votes[n])
  BY <1>3, <1>4, <1>5, <1>8
<1> HIDE DEF k
<1>10. UNCHANGED request
  BY DEF CheckVote
<1>11. CallsInv' /\ Progress
  BY <1>1, <1>2, <1>4, <1>6, <1>9, <1>10, CallGoesOn
<1>12. head.settings # NoSettings
  BY <1>1 DEF RInv, Beginning
<1> QED
  BY <1>11, <1>12, CallStep DEF CheckVote

LEMMA BreakStep ==
    ASSUME NEW S \in Laws, RInv(S), NEW c \in Calls, Break(c)
    PROVE  RInv(S)'
<1>1. CallsInv /\ CallOK(c) /\ stage[c] \in {"posting", "checking"}
  BY DEF RInv, CallsInv, Break
<1>2. PICK s \in Unanswered : stage' = [stage EXCEPT ![c] = s]
  BY DEF Break
<1>3. s \in Ended /\ s \notin {"checking", "405"} /\ UNCHANGED request
  BY DEF Ended, Unanswered, Break
<1>4. checked[c] \in Nat /\ checked' = [checked EXCEPT ![c] = checked[c]]
  BY <1>1 DEF CallsInv, Break
<1>5. CallsInv' /\ Progress
  BY <1>1, <1>2, <1>3, <1>4, CallGoesOn
<1>6. head.settings # NoSettings
  BY <1>1 DEF RInv, Beginning
<1> QED
  BY <1>5, <1>6, CallStep DEF Break

(* A batch with one transaction for each of a list of proposals or votes.  *)
LEMMA BatchMade ==
    ASSUME NEW batch, NEW n \in Nat, n # 0, batch.txns = [i \in 1..n |-> batch.txns[i]],
           OneSigner(batch)
    PROVE  /\ BatchOK(batch) /\ batch.txns \in Seq(TxnsOf(batch))
           /\ \A t \in TxnsOf(batch) : \E i \in 1..n : t = batch.txns[i]
<1>1. batch.txns \in [1..n -> TxnsOf(batch)]
  BY DEF TxnsOf
<1>2. batch.txns \in Seq(TxnsOf(batch)) /\ Len(batch.txns) = n /\ batch.txns # << >>
  BY <1>1
<1> QED
  BY <1>2 DEF BatchOK, TxnsOf

(* What becomes of the call and of the batch that it posts.                *)
LEMMA Posted ==
    ASSUME NEW c, NEW batch, NEW next, Post(c, batch, next)
    PROVE  \E s \in {next} \cup Unanswered :
               /\ stage' = [stage EXCEPT ![c] = s]
               /\ pending' = pending \/ (OneSigner(batch) /\ pending' = pending \cup {batch})
BY DEF Post

LEMMA ProposalTxnOK ==
    ASSUME NEW S, CallsInv, NEW c \in Calls, stage[c] = "posting",
           NEW i \in DOMAIN request[c].proposals, UNCHANGED request,
           \/ stage'[c] \in Ended
           \/ stage'[c] = "checking" /\ request[c].kind = "seed",
           NEW t, t = ProposalTxn(c, i)
    PROVE  TxnOK(S, t)'
<1> DEFINE r == request[c]
<1>1. CallOK(c)
  BY DEF CallsInv
<1>2. r \in Requests[c] /\ Faults(r) = {} /\ r.kind \in {"create", "propose", "seed"}
  BY <1>1, RequestFacts DEF CallOK
<1>3. /\ t.action = EntryAction[r.kind] /\ t.call = c
      /\ t.signer = r.proposals[i].signer /\ t.entry = Entry(c, i) /\ t.vote = UNSET
  BY DEF ProposalTxn, Txn
<1>4. /\ t.action \in {"DIRECT", "PROPOSE"}
      /\ t.action = "DIRECT" => r.kind = "create" /\ i = 1
      /\ r.kind = "seed" => t.action = "PROPOSE"
  BY <1>2, <1>3, RequestFacts DEF EntryAction
<1>5. t.signer \in Keys /\ t.entry \in Entries /\ t.vote \in VoteValues /\ t.vote # ACCEPT
  BY <1>2, <1>3, Faultless, RequestFacts DEF VoteValues, UNSET, ACCEPT
<1>6. r # NoRequest
  BY <1>2, RequestsTyped
<1>7. request' = request
  OBVIOUS
<1>8. CallsFor(c, t.signer, t.entry)'
  BY <1>3, <1>6, <1>7 DEF CallsFor
<1>9. FromCall(t, c)'
  BY <1>2, <1>3, <1>4, <1>5, <1>7, <1>8 DEF FromCall
<1> QED
  BY <1>9 DEF TxnOK

LEMMA PostProposalsStep ==
    ASSUME NEW S \in Laws, RInv(S), NEW c \in Calls, PostProposals(c)
    PROVE  RInv(S)'
<1> DEFINE r == request[c]
           next == IF r.kind = "seed" THEN "checking" ELSE "200"
           batch == ProposalBatch(c)
<1>1. CallsInv /\ CallOK(c) /\ stage[c] = "posting"
  BY DEF RInv, CallsInv, PostProposals
<1>2. Post(c, batch, next)
  BY DEF PostProposals
<1>3. PICK s \in {next} \cup Unanswered :
          /\ stage' = [stage EXCEPT ![c] = s]
          /\ pending' = pending \/ (OneSigner(batch) /\ pending' = pending \cup {batch})
  BY <1>2, Posted
<1>4. /\ s \in Ended \cup {"checking"} /\ s # "405"
      /\ s = "checking" => r.kind = "seed"
      /\ s # "checking" => s \in Ended
  BY DEF Ended, Unanswered
<1>5. /\ checked[c] = 0 /\ checked[c] \in Nat
      /\ checked' = [checked EXCEPT ![c] = checked[c]] /\ UNCHANGED request
  BY <1>1, <1>2 DEF CallOK, CallsInv, Post
<1>6. r \in Requests[c] /\ Faults(r) = {} /\ r.kind # "vote"
  BY <1>1 DEF CallOK
<1>7. \A n \in DOMAIN r.votes : ~(n <= 0)
  BY <1>6, RequestFacts
<1>8. CallsInv' /\ Progress
  BY <1>1, <1>3, <1>4, <1>5, <1>7, CallGoesOn
<1>9. stage'[c] = s
  BY <1>1, <1>3 DEF CallsInv
<1>10. batch' = batch
  BY <1>5 DEF ProposalBatch, ProposalTxn
<1>11. ASSUME OneSigner(batch)
       PROVE  BatchSound(S, batch)'
  <2> DEFINE n == Len(r.proposals)
  <2>1. n \in Nat /\ DOMAIN r.proposals = 1..n /\ n # 0
    <3>1. n \in Nat /\ DOMAIN r.proposals = 1..n
      BY <1>6, RequestFacts
    <3>2. r.kind = "seed" => n # 0
      <4>1. r.proposals \in Seq(ToSet(r.proposals))
        BY <1>6, RequestsTyped
      <4> QED
        BY <1>6, <4>1, Faultless
    <3>3. r.kind # "seed" => n # 0
      <4>1. r.kind # "seed" => n = 1
        BY <1>6, RequestFacts
      <4> QED
        BY <4>1
    <3> QED
      BY <3>1, <3>2, <3>3, Zenon
  <2>2. batch.txns = [i \in 1..n |-> ProposalTxn(c, i)]
    BY <2>1 DEF ProposalBatch
  <2>3. ASSUME NEW i \in 1..n, NEW t, t = ProposalTxn(c, i)
        PROVE  TxnOK(S, t)'
    BY <1>1, <1>4, <1>5, <1>9, <2>1, <2>3, ProposalTxnOK
  <2> HIDE DEF n, batch
  <2>4. \A i \in 1..n : batch.txns[i] = ProposalTxn(c, i)
    BY <2>2
  <2>5. batch.txns = [i \in 1..n |-> batch.txns[i]]
    BY <2>2
  <2> QED
    <3>1. /\ BatchOK(batch) /\ batch.txns \in Seq(TxnsOf(batch))
          /\ \A t \in TxnsOf(batch) : \E i \in 1..n : t = batch.txns[i]
      BY <1>11, <2>1, <2>5, BatchMade
    <3>2. \A t \in TxnsOf(batch) : TxnOK(S, t)'
      BY <2>3, <2>4, <3>1
    <3> QED
      BY <1>10, <3>1, <3>2 DEF BatchSound
<1>12. head.settings # NoSettings
  BY <1>1 DEF RInv, Beginning
<1>13. UNCHANGED << vars, head, done, running, up, disturbed >>
  BY <1>2 DEF Post
<1>14. pending' = pending \/ (pending' = pending \cup {batch} /\ BatchSound(S, batch)')
  BY <1>3, <1>11
<1> HIDE DEF batch
<1>15. pending' = pending \/ \E b : pending' = pending \cup {b} /\ BatchSound(S, b)'
  BY <1>10, <1>14
<1> QED
  BY <1>8, <1>12, <1>13, <1>15, CallStep

LEMMA VoteTxnOK ==
    ASSUME NEW S, CallsInv, NEW c \in Calls, stage[c] = "checking",
           NEW n \in DOMAIN request[c].votes,
           \A m \in DOMAIN request[c].votes : VoteChecked(c, request[c].votes[m]),
           UNCHANGED request, stage'[c] \in Ended, NEW t, t = VoteTxn(c, n)
    PROVE  TxnOK(S, t)'
<1> DEFINE r == request[c]
           v == r.votes[n]
<1>1. CallOK(c)
  BY DEF CallsInv
<1>2. r \in Requests[c] /\ r.kind \in {"seed", "vote"} /\ Faults(r) = {}
  BY <1>1 DEF CallOK
<1>3. /\ v.signer \in Keys /\ v.word \in DOMAIN VoteNamed
      /\ r.kind = "seed" => Refers(c, v)
  BY DEF VoteChecked
<1>4. /\ t.call = c /\ t.action \in {"UNSET", "VOTE"} /\ t.signer = v.signer
      /\ t.entry = EntryVotedOn(c, v) /\ t.vote = VoteNamed[v.word]
  BY DEF VoteTxn, Txn
<1>5. t.entry \in Entries
  <2>1. CASE r.kind = "seed"
    <3>1. Referred(c, v) \in DOMAIN r.proposals
      BY <1>3, <2>1 DEF Refers, Referred
    <3> QED
      BY <1>2, <1>4, <2>1, <3>1, RequestFacts DEF EntryVotedOn
  <2>2. CASE r.kind = "vote"
    BY <1>2, <1>4, <2>2, RequestFacts DEF EntryVotedOn
  <2> QED
    BY <1>2, <2>1, <2>2
<1>6. /\ t.vote \in VoteValues
      /\ t.vote = ACCEPT => v.word = "accept"
  BY <1>3, <1>4 DEF VoteNamed, VoteValues, ACCEPT, REJECT, UNSET
<1>7. r # NoRequest
  BY <1>2, RequestsTyped
<1>8. t.vote = ACCEPT => CallsFor(c, t.signer, t.entry)
  BY <1>3, <1>4, <1>6, <1>7 DEF CallsFor
<1>9. t.vote = ACCEPT => CallsFor(c, t.signer, t.entry)'
  BY <1>8 DEF CallsFor, Refers, EntryVotedOn, Referred
<1>10. \A m \in DOMAIN r.votes : VoteChecked(c, r.votes[m])'
  BY DEF VoteChecked, Refers
<1>11. FromCall(t, c)'
  BY <1>2, <1>3, <1>4, <1>5, <1>6, <1>9, <1>10 DEF FromCall
<1> QED
  BY <1>11 DEF TxnOK

LEMMA PostVotesStep ==
    ASSUME NEW S \in Laws, RInv(S), NEW c \in Calls, PostVotes(c)
    PROVE  RInv(S)'
<1> DEFINE r == request[c]
           batch == VoteBatch(c)
<1>1. /\ CallsInv /\ CallOK(c) /\ stage[c] = "checking"
      /\ checked[c] = Len(r.votes) /\ r.votes # << >>
  BY DEF RInv, CallsInv, PostVotes
<1>2. Post(c, batch, "200")
  BY DEF PostVotes
<1>3. PICK s \in {"200"} \cup Unanswered :
          /\ stage' = [stage EXCEPT ![c] = s]
          /\ pending' = pending \/ (OneSigner(batch) /\ pending' = pending \cup {batch})
  BY <1>2, Posted
<1>4. s \in Ended /\ s \notin {"checking", "405"}
  BY DEF Ended, Unanswered
<1>5. /\ checked[c] \in Nat
      /\ checked' = [checked EXCEPT ![c] = checked[c]] /\ UNCHANGED request
  BY <1>1, <1>2 DEF CallsInv, Post
<1>6. CallsInv' /\ Progress
  BY <1>1, <1>3, <1>4, <1>5, CallGoesOn
<1>7. r \in Requests[c]
  BY <1>1 DEF CallOK
<1>8. stage'[c] = s
  BY <1>1, <1>3 DEF CallsInv
<1>9. batch' = batch
  BY <1>5 DEF VoteBatch, VoteTxn, EntryVotedOn, Dependencies, Referred, ProposalTxn
<1>10. ASSUME OneSigner(batch)
       PROVE  BatchSound(S, batch)'
  <2> DEFINE n == Len(r.votes)
  <2>1. n \in Nat /\ DOMAIN r.votes = 1..n
    BY <1>7, RequestFacts
  <2>2. n # 0
    <3>1. r.votes \in Seq(ToSet(r.votes))
      BY <1>7, RequestsTyped
    <3> QED
      BY <1>1, <3>1
  <2>3. batch.txns = [i \in 1..n |-> VoteTxn(c, i)]
    BY <2>1 DEF VoteBatch
  <2>4. ASSUME NEW i \in 1..n, NEW t, t = VoteTxn(c, i)
        PROVE  TxnOK(S, t)'
    <3>1. \A m \in DOMAIN r.votes : VoteChecked(c, r.votes[m])
      BY <1>1, <2>1 DEF CallOK
    <3> QED
      BY <1>1, <1>4, <1>5, <1>8, <2>1, <2>4, <3>1, VoteTxnOK
  <2> HIDE DEF n, batch
  <2>5. \A i \in 1..n : batch.txns[i] = VoteTxn(c, i)
    BY <2>3
  <2>6. batch.txns = [i \in 1..n |-> batch.txns[i]]
    BY <2>3
  <2>7. /\ BatchOK(batch) /\ batch.txns \in Seq(TxnsOf(batch))
        /\ \A t \in TxnsOf(batch) : \E i \in 1..n : t = batch.txns[i]
    BY <1>10, <2>1, <2>2, <2>6, BatchMade
  <2>8. \A t \in TxnsOf(batch) : TxnOK(S, t)'
    BY <2>4, <2>5, <2>7
  <2> QED
    BY <1>9, <2>7, <2>8 DEF BatchSound
<1>11. head.settings # NoSettings
  BY <1>1 DEF RInv, Beginning
<1>12. UNCHANGED << vars, head, done, running, up, disturbed >>
  BY <1>2 DEF Post
<1>13. pending' = pending \/ (pending' = pending \cup {batch} /\ BatchSound(S, batch)')
  BY <1>3, <1>10
<1> HIDE DEF batch
<1>14. pending' = pending \/ \E b : pending' = pending \cup {b} /\ BatchSound(S, b)'
  BY <1>9, <1>13
<1> QED
  BY <1>6, <1>11, <1>12, <1>14, CallStep

LEMMA ServeStep ==
    ASSUME NEW S \in Laws, RInv(S), NEW c \in Calls, Serve(c)
    PROVE  RInv(S)'
BY ReceiveStep, PostProposalsStep, CheckVoteStep, PostVotesStep, BreakStep DEF Serve
-------------------------------------------------------------------------------
(* The validator and the processor.                                        *)
LEMMA ChainsKept ==
    ASSUME NEW S \in Laws, Progress, ChainsInv(S), UNCHANGED << chain, head >>,
           running' = Idle => head = Context
    PROVE  ChainsInv(S)'
<1>1. /\ Holds(S, settings, candidates, registry, BackedBallots(S)', Consented(S)')
      /\ Holds(S, head.settings, head.candidates, head.registry,
               BackedBallots(S)', Consented(S)')
  BY HoldsKept DEF ChainsInv, Progress
<1> QED
  BY <1>1 DEF ChainsInv, Context, chain

(* The transactions that the validator has are of calls, or the genesis    *)
(* batch's.                                                                *)
LEMMA RunningBatch ==
    ASSUME NEW S, BatchesInv(S), running # Idle
    PROVE  /\ BatchSound(S, running.batch)
           /\ running.batch \in pending
           /\ running.executed \in Nat /\ Len(running.batch.txns) \in Nat
           /\ running.executed <= Len(running.batch.txns)
           /\ Len(running.batch.txns) > 0
           /\ \A i \in 1..Len(running.batch.txns) : TxnOK(S, running.batch.txns[i])
           /\ \A t \in TxnsOf(running.batch) : TxnOK(S, t)
<1>1. /\ BatchSound(S, running.batch) /\ running.batch \in pending
      /\ running.executed \in 0..Len(running.batch.txns)
  BY DEF BatchesInv
<1>2. /\ running.batch.txns \in Seq(TxnsOf(running.batch)) /\ running.batch.txns # << >>
      /\ \A t \in TxnsOf(running.batch) : TxnOK(S, t)
  BY <1>1 DEF BatchSound, BatchOK
<1>3. /\ Len(running.batch.txns) \in Nat /\ Len(running.batch.txns) > 0
      /\ DOMAIN running.batch.txns = 1..Len(running.batch.txns)
  BY <1>2
<1>4. \A i \in 1..Len(running.batch.txns) : TxnOK(S, running.batch.txns[i])
  BY <1>2, <1>3 DEF TxnsOf
<1> QED
  BY <1>1, <1>2, <1>3, <1>4

LEMMA BeginStep ==
    ASSUME NEW S \in Laws, RInv(S), Begin
    PROVE  RInv(S)'
<1> USE DEF RInv
<1>1. PICK batch \in pending : running' = [batch |-> batch, executed |-> 0]
  BY DEF Begin
<1>2. UNCHANGED << vars, head, done, pending, up, disturbed, callVars >> /\ running = Idle
  BY DEF Begin
<1>3. CallsInv' /\ Progress
  BY <1>2, CallsKept
<1>4. Lawful(S)' /\ RunInv'
  BY <1>2 DEF Lawful, RunInv, vars
<1>5. Beginning'
  BY <1>1, <1>2 DEF Beginning, vars, callVars
<1>6. BatchesInv(S)'
  <2>1. \A b \in pending' : BatchSound(S, b)'
    BY <1>2, <1>3, BatchKept DEF BatchesInv
  <2>2. \A t \in done' : TxnOK(S, t)'
    BY <1>2, <1>3, TxnKept DEF BatchesInv
  <2>3. BatchSound(S, batch)
    BY DEF BatchesInv
  <2>4. Len(batch.txns) \in Nat
    BY <2>3 DEF BatchSound
  <2>5. /\ running'.batch = batch /\ running'.executed = 0
        /\ running' = [batch |-> running'.batch, executed |-> running'.executed]
    BY <1>1
  <2> QED
    BY <1>2, <2>1, <2>2, <2>4, <2>5 DEF BatchesInv
<1>7. ChainsInv(S)'
  BY <1>2, <1>3, ChainsKept DEF ChainsInv, vars, chain
<1> QED
  BY <1>3, <1>4, <1>5, <1>6, <1>7

LEMMA ExecuteStep ==
    ASSUME NEW S \in Laws, RInv(S), ExecuteNext
    PROVE  RInv(S)'
<1> USE DEF RInv
<1> DEFINE n == running.executed + 1
<1>1. /\ running # Idle /\ running.executed < Len(running.batch.txns)
      /\ running' = [running EXCEPT !.executed = @ + 1]
      /\ UNCHANGED << head, done, pending, up, disturbed, callVars >>
  BY DEF ExecuteNext
<1>2. PICK t : t = running.batch.txns[n] /\ Execute(t)
  <2>1. Execute(running.batch.txns[n])
    BY DEF ExecuteNext, NextTxn
  <2> QED
    BY <2>1
<1>3. n \in 1..Len(running.batch.txns) /\ n \in Nat /\ n # 0 /\ running.executed \in Nat
  BY <1>1, RunningBatch
<1>4. TxnOK(S, t)
  BY <1>1, <1>2, <1>3, RunningBatch
<1>5. t.action # "CREATE" => settings # NoSettings
  <2> SUFFICES ASSUME settings = NoSettings
               PROVE  t.action = "CREATE"
    OBVIOUS
  <2>1. head.settings = NoSettings
    BY DEF Lawful
  <2>2. running.executed = 0
    BY <1>1, <1>3 DEF Beginning
  <2>3. running.batch \in pending
    BY <1>1, RunningBatch
  <2> QED
    BY <1>2, <2>1, <2>2, <2>3 DEF Beginning
<1>6. /\ settings' = S /\ cache' \in {NoSettings, S} /\ Creatable(S)
      /\ Holds(S, S, candidates', registry', BackedBallots(S), Consented(S))
  BY <1>2, <1>4, <1>5, TxnExecuted
<1>7. S # NoSettings
  BY LawsAreSettings, NoSettingsAssumption
<1>8. /\ running' = [batch |-> running.batch, executed |-> n]
      /\ running'.batch = running.batch /\ running'.executed = n
  <2>1. running = [batch |-> running.batch, executed |-> running.executed]
    BY <1>1 DEF BatchesInv
  <2> QED
    BY <1>1, <2>1
<1>9. running' # Idle
  BY <1>3, <1>8 DEF Idle
<1>10. CallsInv' /\ Progress
  BY <1>1, CallsKept
<1>11. Lawful(S)' /\ RunInv'
  BY <1>1, <1>6 DEF Lawful, RunInv
<1>12. Beginning'
  BY <1>1, <1>6, <1>7 DEF Beginning, callVars
<1>13. BatchesInv(S)'
  <2>1. \A b \in pending' : BatchSound(S, b)'
    BY <1>1, <1>10, BatchKept DEF BatchesInv
  <2>2. \A u \in done' : TxnOK(S, u)'
    BY <1>1, <1>10, TxnKept DEF BatchesInv
  <2>3. running'.batch \in pending' /\ running'.executed \in 0..Len(running'.batch.txns)
    BY <1>1, <1>3, <1>8, RunningBatch
  <2>4. running' = [batch |-> running'.batch, executed |-> running'.executed]
    BY <1>8
  <2> QED
    BY <2>1, <2>2, <2>3, <2>4 DEF BatchesInv
<1>14. ChainsInv(S)'
  <2>1. /\ Holds(S, settings', candidates', registry', BackedBallots(S)', Consented(S)')
        /\ Holds(S, head.settings, head.candidates, head.registry,
                 BackedBallots(S)', Consented(S)')
    BY <1>6, <1>10, HoldsKept DEF ChainsInv, Progress
  <2> QED
    BY <1>1, <1>9, <2>1 DEF ChainsInv
<1> QED
  BY <1>10, <1>11, <1>12, <1>13, <1>14

LEMMA CommitStep ==
    ASSUME NEW S \in Laws, RInv(S), Commit
    PROVE  RInv(S)'
<1> USE DEF RInv
<1>1. /\ running # Idle /\ running.executed = Len(running.batch.txns)
      /\ head' = Context /\ done' = done \cup TxnsOf(running.batch)
      /\ pending' \subseteq pending /\ running' = Idle
      /\ UNCHANGED << vars, up, disturbed, callVars >>
  BY DEF Commit, Context
<1>2. settings # NoSettings
  BY <1>1, RunningBatch DEF Beginning
<1>3. /\ head'.settings = settings /\ head'.candidates = candidates
      /\ head'.registry = registry
      /\ head' = [settings |-> head'.settings, candidates |-> head'.candidates,
                  registry |-> head'.registry]
  BY <1>1 DEF Context
<1>4. CallsInv' /\ Progress
  BY <1>1, CallsKept
<1>5. Lawful(S)' /\ RunInv'
  BY <1>1, <1>3 DEF Lawful, RunInv, vars
<1>6. Beginning'
  BY <1>1, <1>2, <1>3 DEF Beginning
<1>7. BatchesInv(S)'
  <2>1. \A b \in pending' : BatchSound(S, b)'
    BY <1>1, <1>4, BatchKept DEF BatchesInv
  <2>2. \A t \in done' : TxnOK(S, t)
    BY <1>1, RunningBatch DEF BatchesInv
  <2>3. \A t \in done' : TxnOK(S, t)'
    BY <1>4, <2>2, TxnKept
  <2> QED
    BY <1>1, <2>1, <2>3 DEF BatchesInv
<1>8. ChainsInv(S)'
  <2>1. Holds(S, settings, candidates, registry, BackedBallots(S)', Consented(S)')
    BY <1>4, HoldsKept DEF ChainsInv, Progress
  <2> QED
    BY <1>1, <1>3, <2>1 DEF ChainsInv, Context, vars
<1> QED
  BY <1>4, <1>5, <1>6, <1>7, <1>8

(* The context is dropped, because a transaction was refused or the block  *)
(* was given up.                                                           *)
LEMMA DropStep ==
    ASSUME NEW S \in Laws, RInv(S), DropContext, cache' \in {NoSettings, S},
           pending' \subseteq pending, RunInv', UNCHANGED << head, done, callVars >>
    PROVE  RInv(S)'
<1> USE DEF RInv
<1>1. /\ settings' = head.settings /\ candidates' = head.candidates
      /\ registry' = head.registry /\ running' = Idle
  BY DEF DropContext
<1>2. CallsInv' /\ Progress
  BY CallsKept
<1>3. Lawful(S)'
  BY <1>1 DEF Lawful
<1>4. Beginning'
  BY <1>1 DEF Beginning, callVars
<1>5. BatchesInv(S)'
  <2>1. \A b \in pending' : BatchSound(S, b)'
    BY <1>2, BatchKept DEF BatchesInv
  <2>2. \A t \in done' : TxnOK(S, t)'
    BY <1>2, TxnKept DEF BatchesInv
  <2> QED
    BY <1>1, <2>1, <2>2 DEF BatchesInv
<1>6. ChainsInv(S)'
  <2>1. Holds(S, head.settings, head.candidates, head.registry,
              BackedBallots(S)', Consented(S)')
    BY <1>2, HoldsKept DEF ChainsInv, Progress
  <2>2. head = [settings |-> head.settings, candidates |-> head.candidates,
                registry |-> head.registry]
    BY DEF ChainsInv
  <2>3. head = Context'
    BY <1>1, <2>2 DEF Context
  <2> QED
    BY <1>1, <2>1, <2>2, <2>3 DEF ChainsInv
<1> QED
  BY <1>2, <1>3, <1>4, <1>5, <1>6

LEMMA RefuseStep ==
    ASSUME NEW S \in Laws, RInv(S), RefuseBatch
    PROVE  RInv(S)'
<1>1. cache' \in {cache, InForce} /\ DropContext
  BY DEF RefuseBatch
<1>2. cache' \in {NoSettings, S}
  BY <1>1 DEF RInv, Lawful, InForce
<1>3. pending' \subseteq pending /\ UNCHANGED << head, done, up, disturbed, callVars >>
  BY DEF RefuseBatch
<1>4. RunInv'
  BY <1>3 DEF RInv, RunInv
<1> QED
  BY <1>1, <1>2, <1>3, <1>4, DropStep

LEMMA DiscardStep ==
    ASSUME NEW S \in Laws, RInv(S), Discard
    PROVE  RInv(S)'
<1>1. DropContext /\ UNCHANGED << cache, head, done, pending, up, callVars >>
  BY DEF Discard
<1>2. cache' \in {NoSettings, S}
  BY <1>1 DEF RInv, Lawful
<1>3. RunInv'
  BY RequestsAssumption DEF Discard, RInv, RunInv
<1> QED
  BY <1>1, <1>2, <1>3, DropStep

(* The processor stops or starts, a batch gets lost that is not being      *)
(* executed, or nothing happens.                                           *)
LEMMA ProcessorStep ==
    ASSUME NEW S \in Laws, RInv(S), cache' \in {NoSettings, cache}, RunInv',
           pending' \subseteq pending, running # Idle => running.batch \in pending',
           UNCHANGED << chain, head, done, running, callVars >>
    PROVE  RInv(S)'
<1> USE DEF RInv
<1>1. CallsInv' /\ Progress
  BY CallsKept
<1>2. Lawful(S)'
  BY DEF Lawful, chain
<1>3. Beginning'
  BY DEF Beginning, chain, callVars
<1>4. BatchesInv(S)'
  <2>1. \A b \in pending' : BatchSound(S, b)'
    BY <1>1, BatchKept DEF BatchesInv
  <2>2. \A t \in done' : TxnOK(S, t)'
    BY <1>1, TxnKept DEF BatchesInv
  <2> QED
    BY <2>1, <2>2 DEF BatchesInv
<1>5. ChainsInv(S)'
  BY <1>1, ChainsKept DEF ChainsInv
<1> QED
  BY <1>1, <1>2, <1>3, <1>4, <1>5

LEMMA RInvStep ==
    ASSUME NEW S \in Laws, RInv(S), [RNext]_rvars
    PROVE  RInv(S)'
<1>1. CASE \E c \in Calls : Serve(c)
  BY <1>1, ServeStep
<1>2. CASE Validate
  BY <1>2, BeginStep, ExecuteStep, CommitStep, RefuseStep DEF Validate
<1>3. CASE Discard
  BY <1>3, DiscardStep
<1>4. running # Idle => running.batch \in pending
  BY DEF RInv, BatchesInv
<1>5. CASE LoseBatch
  <2>1. pending' \subseteq pending /\ (running # Idle => running.batch \in pending')
    BY <1>4, <1>5 DEF LoseBatch
  <2>2. UNCHANGED << vars, head, done, running, up, disturbed, callVars >>
    BY <1>5 DEF LoseBatch
  <2>3. RunInv'
    BY <2>2 DEF RInv, RunInv
  <2> QED
    BY <2>1, <2>2, <2>3, ProcessorStep DEF vars, chain
<1>6. CASE StopProcessor
  <2>1. RunInv'
    <3>1. up' \in BOOLEAN
      BY <1>6, Zenon DEF StopProcessor
    <3>2. disturbed' \in 0..MaxDisturbances
      BY <1>6, RequestsAssumption DEF StopProcessor, RInv, RunInv
    <3> QED
      BY <3>1, <3>2 DEF RunInv
  <2> QED
    BY <1>4, <1>6, <2>1, ProcessorStep DEF StopProcessor, Restart
<1>7. CASE StartProcessor
  <2>1. RunInv'
    BY <1>7 DEF StartProcessor, RInv, RunInv
  <2> QED
    BY <1>4, <1>7, <2>1, ProcessorStep DEF StartProcessor, vars, chain
<1>8. CASE UNCHANGED rvars
  <2>1. RunInv'
    BY <1>8 DEF rvars, RInv, RunInv
  <2> QED
    BY <1>4, <1>8, <2>1, ProcessorStep DEF rvars, vars, chain, callVars
<1> QED
  BY <1>1, <1>2, <1>3, <1>5, <1>6, <1>7, <1>8 DEF RNext
-------------------------------------------------------------------------------
(* The batch of the genesis command.                                       *)
LEMMA GenesisSound ==
    ASSUME NEW g \in GenesisCommands, ValidSettings(g),
           NEW S, S = [auth_list |-> g.auth_list, threshold |-> g.threshold]
    PROVE  BatchSound(S, GenesisBatch(g)) /\ GenesisBatch(g).txns[1].action = "CREATE"
<1> DEFINE first == SettingsTxn(g)
           rest == GenesisTxns(g)
           batch == GenesisBatch(g)
           T == TxnsOf(batch)
           n == Len(GenesisEntries)
<1>1. n \in Nat /\ DOMAIN GenesisEntries = 1..n
  BY RequestsAssumption
<1>2. first.action = "CREATE" /\ first.signer = g.signer /\ first.settings = S
  BY DEF SettingsTxn
<1>3. /\ DOMAIN rest = 1..n
      /\ rest = [i \in 1..n |-> rest[i]]
      /\ \A i \in 1..n : /\ rest[i].action = "GENESIS" /\ rest[i].call = "genesis"
                         /\ rest[i].signer = g.signer
                         /\ rest[i].entry \in ToSet(GenesisEntries)
  BY <1>1 DEF GenesisTxns, EntryAction, Txn, ToSet
<1>4. g.signer \in Keys
  BY DEF ValidSettings, ValidSigner
<1>5. batch.signer = g.signer /\ batch.txns = << first >> \o rest
  BY DEF GenesisBatch
<1> HIDE DEF n, first, rest, batch
<1>6. rest \in Seq(ToSet(rest)) /\ Len(rest) = n
  <2>1. rest \in [1..n -> ToSet(rest)]
    BY <1>3 DEF ToSet
  <2> QED
    BY <1>1, <2>1
<1>7. /\ DOMAIN batch.txns = 1..(n + 1) /\ batch.txns[1] = first
      /\ \A i \in 2..(n + 1) : batch.txns[i] = rest[i - 1] /\ i - 1 \in 1..n
      /\ batch.txns = [i \in 1..(n + 1) |-> batch.txns[i]]
  <2> DEFINE U == {first} \cup ToSet(rest)
  <2>1. << first >> \in Seq(U) /\ rest \in Seq(U)
    BY <1>6
  <2> HIDE DEF U
  <2>2. /\ << first >> \o rest \in Seq(U) /\ Len(<< first >> \o rest) = n + 1
        /\ (<< first >> \o rest)[1] = first
        /\ \A i \in 2..(n + 1) : (<< first >> \o rest)[i] = rest[i - 1]
    BY <1>1, <1>6, <2>1
  <2> QED
    BY <1>1, <1>5, <2>2
<1>8. \A i \in 1..(n + 1) : batch.txns[i].signer = g.signer /\ TxnOK(S, batch.txns[i])
  <2> SUFFICES ASSUME NEW i \in 1..(n + 1)
               PROVE  batch.txns[i].signer = g.signer /\ TxnOK(S, batch.txns[i])
    OBVIOUS
  <2>1. CASE i = 1
    BY <1>2, <1>7, <2>1 DEF TxnOK
  <2>2. CASE i # 1
    <3>1. i \in 2..(n + 1)
      BY <1>1, <2>2
    <3> QED
      BY <1>3, <1>4, <1>7, <3>1 DEF TxnOK
  <2> QED
    BY <2>1, <2>2
<1>9. OneSigner(batch)
  BY <1>5, <1>7, <1>8 DEF OneSigner
<1>10. n + 1 \in Nat /\ n + 1 # 0
  BY <1>1
<1>11. /\ BatchOK(batch) /\ batch.txns \in Seq(TxnsOf(batch))
       /\ \A t \in TxnsOf(batch) : \E i \in 1..(n + 1) : t = batch.txns[i]
  BY <1>7, <1>9, <1>10, BatchMade
<1>12. BatchSound(S, batch)
  BY <1>8, <1>11 DEF BatchSound
<1> QED
  BY <1>2, <1>7, <1>12 DEF batch

LEMMA GenesisActions ==
    ASSUME NEW g \in GenesisCommands, NEW t \in TxnsOf(GenesisBatch(g))
    PROVE  t.action \in {"CREATE", "GENESIS"}
<1> DEFINE first == SettingsTxn(g)
           rest == GenesisTxns(g)
           n == Len(GenesisEntries)
<1>1. n \in Nat /\ DOMAIN GenesisEntries = 1..n
  BY RequestsAssumption
<1>2. first.action = "CREATE"
  BY DEF SettingsTxn
<1>3. rest \in [1..n -> {u \in ToSet(rest) : u.action = "GENESIS"}]
  BY <1>1 DEF GenesisTxns, EntryAction, Txn, ToSet
<1> DEFINE U == {u \in {first} \cup ToSet(rest) : u.action \in {"CREATE", "GENESIS"}}
<1>4. << first >> \in Seq(U) /\ rest \in Seq(U)
  <2>1. first \in U
    BY <1>2
  <2>2. rest \in [1..n -> U]
    BY <1>3
  <2> HIDE DEF U
  <2> QED
    BY <1>1, <2>1, <2>2
<1>5. \A u \in U : u.action \in {"CREATE", "GENESIS"}
  OBVIOUS
<1>6. GenesisBatch(g).txns = << first >> \o rest
  BY DEF GenesisBatch
<1> HIDE DEF first, rest, U
<1>7. GenesisBatch(g).txns \in Seq(U)
  BY <1>4, <1>6
<1> QED
  BY <1>5, <1>7 DEF TxnsOf

LEMMA RInvInit == RInit => RInvariant
<1> SUFFICES ASSUME RInit
             PROVE  RInvariant
  OBVIOUS
<1>1. PICK g \in GenesisCommands : pending = IF ValidSettings(g) THEN {GenesisBatch(g)} ELSE {}
  BY DEF RInit
<1> DEFINE S == [auth_list |-> g.auth_list, threshold |-> g.threshold]
<1>2. S \in Laws
  BY RequestsAssumption DEF Laws
<1>3. \A batch \in pending : BatchSound(S, batch) /\ batch.txns[1].action = "CREATE"
  BY <1>1, GenesisSound
<1> HIDE DEF S
<1>4. /\ settings = NoSettings /\ candidates = << >> /\ cache = NoSettings
      /\ registry = [a \in Addresses |-> NotRegistered] /\ head = Context
      /\ head.settings = NoSettings /\ head.candidates = << >> /\ head.registry = registry
      /\ running = Idle /\ done = {}
  BY DEF RInit, Context
<1>5. Lawful(S)
  BY <1>4 DEF Lawful
<1>6. CallsInv
  <2>1. \A c \in Calls : request[c] = NoRequest /\ stage[c] = "new" /\ checked[c] = 0
    BY DEF RInit
  <2>2. \A c \in Calls : CallOK(c)
    BY <2>1 DEF CallOK
  <2>3. /\ DOMAIN request = Calls /\ request = [c \in Calls |-> request[c]]
        /\ stage \in [Calls -> Stages] /\ checked \in [Calls -> Nat]
    BY DEF RInit, Stages
  <2> QED
    BY <2>2, <2>3 DEF CallsInv
<1>7. Beginning
  BY <1>3, <1>4 DEF Beginning, RInit
<1>8. BatchesInv(S)
  BY <1>3, <1>4 DEF BatchesInv
<1>9. ChainsInv(S)
  <2>1. << >> \in Seq(BackedBallots(S))
    OBVIOUS
  <2>2. \A entry \in Entries : registry[AddressOf[entry]] # entry
    BY <1>4, EntriesAssumption
  <2>3. registry \in [Addresses -> Entries \cup {NotRegistered}]
    BY <1>4
  <2>4. Holds(S, NoSettings, << >>, registry, BackedBallots(S), Consented(S))
    BY <2>1, <2>2, <2>3 DEF Holds
  <2>5. head = [settings |-> head.settings, candidates |-> head.candidates,
                registry |-> head.registry]
    BY <1>4 DEF Context
  <2> QED
    BY <1>4, <2>4, <2>5 DEF ChainsInv
<1>10. RunInv
  <2>1. up \in BOOLEAN
    BY Zenon DEF RInit
  <2>2. disturbed \in 0..MaxDisturbances
    BY RequestsAssumption DEF RInit
  <2> QED
    BY <2>1, <2>2 DEF RunInv
<1> QED
  BY <1>2, <1>5, <1>6, <1>7, <1>8, <1>9, <1>10 DEF RInvariant, RInv

(* What the validator and the calls have between them is as the calls made *)
(* it, in every state.                                                     *)
THEOREM RequestsInvariant == RSpec => []RInvariant
<1>1. RInvariant /\ [RNext]_rvars => RInvariant'
  BY RInvStep DEF RInvariant
<1> QED
  BY <1>1, RInvInit, PTL DEF RSpec
-------------------------------------------------------------------------------
LEMMA TypesFollow == RInvariant => RTypeOK
<1> SUFFICES ASSUME NEW S \in Laws, RInv(S)
             PROVE  RTypeOK
  BY DEF RInvariant
<1>1. settings \in Settings \cup {NoSettings} /\ cache \in Settings \cup {NoSettings}
  BY LawsAreSettings DEF RInv, Lawful
<1>2. candidates \in Seq(Ballots) /\ registry \in [Addresses -> Entries \cup {NotRegistered}]
  <2>1. BackedBallots(S) \subseteq Ballots
    BY DEF BackedBallots
  <2> QED
    BY <2>1, SeqMonotonic DEF RInv, ChainsInv, Holds
<1>3. TypeOK
  BY <1>1, <1>2 DEF TypeOK
<1>4. /\ \A batch \in pending : BatchOK(batch)
      /\ running # Idle => running.batch \in pending
  BY DEF RInv, BatchesInv, BatchSound
<1>5. running = Idle => head = [settings |-> settings, candidates |-> candidates,
                                registry |-> registry]
  BY DEF RInv, ChainsInv, Context
<1>6. stage \in [Calls -> Answers \cup {"new", "posting", "checking"}]
  BY DEF RInv, CallsInv, Stages
<1>7. up \in BOOLEAN /\ disturbed \in 0..MaxDisturbances
  BY DEF RInv, RunInv
<1> QED
  BY <1>3, <1>4, <1>5, <1>6, <1>7 DEF RTypeOK

(* The variables have their types, every batch that was taken has          *)
(* transactions of its signer only, and between two batches the handlers'  *)
(* context is the chain head.                                              *)
THEOREM RequestsTypeCorrect == RSpec => []RTypeOK
BY RequestsInvariant, TypesFollow, PTL

LEMMA ConsentFollows == RInvariant => RegisteredByConsent
<1> SUFFICES ASSUME NEW S \in Laws, RInv(S),
                    NEW entry \in Entries, head.registry[AddressOf[entry]] = entry
             PROVE  LET electors == Electors(head.settings.auth_list)
                        for == {key \in electors : \E c \in Calls : CallsFor(c, key, entry)}
                    IN  \/ \E i \in DOMAIN GenesisEntries : entry = GenesisEntries[i]
                        \/ \E c \in Calls : /\ request[c] # NoRequest
                                            /\ request[c].kind = "create"
                                            /\ entry = Entry(c, 1)
                                            /\ request[c].proposals[1].signer \in electors
                        \/ Cardinality(for) >= head.settings.threshold
  BY DEF RInvariant, RegisteredByConsent
<1>1. head.settings = S /\ entry \in Consented(S)
  BY DEF RInv, ChainsInv, Holds
<1> QED
  BY <1>1 DEF Consented, Supporters, ToSet

(* Whatever the calls ask for, in whatever order their batches come, and   *)
(* however often a block is given up, an entry of the chain has the        *)
(* consent of those who may give it.                                       *)
THEOREM ConsentKeeps == RSpec => []RegisteredByConsent
BY RequestsInvariant, ConsentFollows, PTL
-------------------------------------------------------------------------------
(* What votes are for: the ids that transactions propose, and the ids of   *)
(* the candidates of a container, which is where they come from.           *)
ProposedBy(txns) == {AddressOf[t.entry] : t \in {u \in txns : u.action = "PROPOSE"}}

Ids(list) == {list[i].proposal_id : i \in DOMAIN list}

Executed == {running.batch.txns[i] : i \in 1..running.executed}

ListsPlaced ==
    /\ Ids(head.candidates) \subseteq ProposedBy(done)
    /\ Ids(candidates) \subseteq ProposedBy(done \cup Executed)

(* The n-th vote of a call is for a proposal that was on the chain.        *)
Placed(c, n) == AddressOf[request[c].votes[n].of] \in ProposedBy(done)

ChecksPlaced(c) ==
    stage[c] = "checking" /\ request[c].kind = "vote" =>
        \A n \in DOMAIN request[c].votes : n <= checked[c] => Placed(c, n)

TxnPlaced(t) ==
    t.action \in {"VOTE", "UNSET"} /\ request[t.call].kind = "vote" =>
        \A n \in DOMAIN request[t.call].votes : Placed(t.call, n)

VotesPlaced ==
    /\ \A c \in Calls : ChecksPlaced(c)
    /\ \A t \in Effects : TxnPlaced(t)

(* The inductive invariant of what has an effect.                          *)
SentInvariant == RInvariant /\ ListsPlaced /\ VotesPlaced

LEMMA ProposedMore ==
    ASSUME NEW txns, NEW more, txns \subseteq more
    PROVE  ProposedBy(txns) \subseteq ProposedBy(more)
BY DEF ProposedBy

(* The changes of the container bring no ids but that of a new proposal.   *)
LEMMA IdsWithProposal ==
    ASSUME NEW list \in Seq(Ballots), NEW id, NEW entry, NEW key
    PROVE  Ids(WithProposal(list, id, entry, key)) \subseteq Ids(list) \cup {id}
<1> DEFINE ballot == [proposal_id |-> id, proposal |-> entry, votes |-> << VoteRecord(key, ACCEPT) >>]
           longer == Append(list, ballot)
<1>1. ballot.proposal_id = id
  OBVIOUS
<1>2. WithProposal(list, id, entry, key) = longer
  BY DEF WithProposal
<1> HIDE DEF ballot
<1>3. /\ Len(list) \in Nat /\ DOMAIN list = 1..Len(list)
      /\ DOMAIN longer = 1..(Len(list) + 1)
      /\ \A i \in 1..Len(list) : longer[i] = list[i]
      /\ longer[Len(list) + 1] = ballot
  OBVIOUS
<1> HIDE DEF longer
<1>4. \A i \in 1..(Len(list) + 1) : i \in 1..Len(list) \/ i = Len(list) + 1
  BY <1>3
<1>5. \A i \in DOMAIN longer : longer[i].proposal_id \in Ids(list) \cup {id}
  BY <1>1, <1>3, <1>4 DEF Ids
<1> QED
  BY <1>2, <1>5 DEF Ids

LEMMA IdsWithVotes ==
    ASSUME NEW list \in Seq(Ballots), NEW i \in DOMAIN list, NEW votes
    PROVE  Ids(WithVotes(list, i, votes)) \subseteq Ids(list)
<1> DEFINE new == WithVotes(list, i, votes)
<1>1. DOMAIN new = DOMAIN list
  BY DEF WithVotes
<1>2. \A j \in DOMAIN list : j # i => new[j] = list[j]
  BY DEF WithVotes
<1>3. new[i].proposal_id = list[i].proposal_id
  <2>1. new[i] = [list[i] EXCEPT !.votes = votes]
    BY DEF WithVotes
  <2>2. list[i] \in Ballots
    OBVIOUS
  <2> QED
    BY <2>1, <2>2 DEF Ballots
<1> HIDE DEF new
<1>4. \A j \in DOMAIN new : new[j].proposal_id \in Ids(list)
  BY <1>1, <1>2, <1>3 DEF Ids
<1> QED
  BY <1>4 DEF Ids, new

LEMMA IdsWithout ==
    ASSUME NEW list \in Seq(Ballots), NEW i \in DOMAIN list
    PROVE  Ids(WithoutCandidate(list, i)) \subseteq Ids(list)
<1>1. Len(list) \in Nat /\ i \in 1..Len(list) /\ DOMAIN list = 1..Len(list)
  OBVIOUS
<1> DEFINE new == RemoveAt(list, i)
<1>2. /\ DOMAIN new = 1..(Len(list) - 1)
      /\ \A j \in 1..(Len(list) - 1) : new[j] = IF j < i THEN list[j] ELSE list[j + 1]
  BY <1>1, RemoveAtProperties
<1> HIDE DEF new
<1>3. \A j \in DOMAIN new : new[j].proposal_id \in Ids(list)
  BY <1>1, <1>2 DEF Ids
<1> QED
  BY <1>3 DEF Ids, WithoutCandidate, new

(* A transaction brings no ids but the one that it proposes.               *)
LEMMA ExecutedIds ==
    ASSUME candidates \in Seq(Ballots), NEW t, Execute(t),
           NEW ids, Ids(candidates) \subseteq ids,
           t.action = "PROPOSE" => AddressOf[t.entry] \in ids
    PROVE  Ids(candidates') \subseteq ids
<1>1. CASE t.action = "CREATE"
  <2>1. candidates' = << >>
    BY <1>1 DEF Execute, Setting!Create
  <2> QED
    BY <2>1 DEF Ids
<1>2. CASE t.action \in {"GENESIS", "DIRECT"}
  <2>1. UNCHANGED candidates
    BY <1>2 DEF Execute, Register
  <2> QED
    BY <2>1
<1>3. CASE t.action = "PROPOSE"
  <2>1. \/ UNCHANGED candidates
        \/ candidates' = WithProposal(candidates, AddressOf[t.entry], t.entry, t.signer)
    BY <1>3 DEF Execute, Propose, ProposeAtOnce
  <2> QED
    BY <1>3, <2>1, IdsWithProposal
<1>4. CASE t.action = "VOTE"
  <2>1. Vote(t.signer, AddressOf[t.entry], t.vote)
    BY <1>4 DEF Execute
  <2>2. PICK i \in DOMAIN candidates :
            \/ candidates' = WithoutCandidate(candidates, i)
            \/ candidates' = WithVotes(candidates, i, VotesWith(i, t.signer, t.vote))
    BY <2>1 DEF Vote, VoteApproves, VoteRejects, VoteRecorded
  <2> QED
    BY <2>2, IdsWithVotes, IdsWithout
<1>5. CASE t.action = "UNSET"
  <2>1. Rescind(t.signer, AddressOf[t.entry])
    BY <1>5 DEF Execute
  <2>2. PICK i \in DOMAIN candidates : \E j \in DOMAIN candidates[i].votes :
            candidates' = IF Len(candidates[i].votes) = 1
                            THEN WithoutCandidate(candidates, i)
                            ELSE WithVotes(candidates, i, RemoveAt(candidates[i].votes, j))
    BY <2>1 DEF Rescind
  <2> QED
    BY <2>2, IdsWithVotes, IdsWithout
<1> QED
  BY <1>1, <1>2, <1>3, <1>4, <1>5 DEF Execute

(* The containers of the chain and of the context, as the validator moves  *)
(* on.                                                                     *)
LEMMA ListsKept ==
    ASSUME ListsPlaced, UNCHANGED << candidates, head, done, running >>
    PROVE  ListsPlaced'
<1>1. Executed' = Executed
  BY DEF Executed
<1> QED
  BY <1>1 DEF ListsPlaced

LEMMA ListsDropped ==
    ASSUME ListsPlaced, candidates' = head.candidates, UNCHANGED << head, done >>
    PROVE  ListsPlaced'
<1>1. ProposedBy(done') \subseteq ProposedBy(done' \cup Executed')
  BY ProposedMore
<1>2. Ids(head.candidates) \subseteq ProposedBy(done)
  BY DEF ListsPlaced
<1> QED
  BY <1>1, <1>2 DEF ListsPlaced

LEMMA ListsExecuted ==
    ASSUME NEW S \in Laws, RInv(S), ListsPlaced, ExecuteNext
    PROVE  ListsPlaced'
<1> DEFINE n == running.executed + 1
           t == running.batch.txns[n]
           old == done \cup Executed
           new == done' \cup Executed'
<1>1. /\ running # Idle /\ UNCHANGED << head, done >>
      /\ running' = [running EXCEPT !.executed = @ + 1] /\ Execute(t)
  BY DEF ExecuteNext, NextTxn
<1>2. /\ running = [batch |-> running.batch, executed |-> running.executed]
      /\ running.executed \in Nat
  BY <1>1, RunningBatch DEF RInv, BatchesInv
<1>3. running'.batch = running.batch /\ running'.executed = n
  BY <1>1, <1>2
<1>4. Executed \subseteq Executed' /\ t \in Executed'
  BY <1>2, <1>3 DEF Executed
<1>5. ProposedBy(old) \subseteq ProposedBy(new)
  BY <1>1, <1>4, ProposedMore
<1>6. t.action = "PROPOSE" => AddressOf[t.entry] \in ProposedBy(new)
  BY <1>4 DEF ProposedBy
<1>7. candidates \in Seq(Ballots)
  BY TypesFollow DEF RInvariant, RTypeOK, TypeOK
<1>8. Ids(candidates) \subseteq ProposedBy(new)
  BY <1>5 DEF ListsPlaced
<1> HIDE DEF t, new
<1>9. Ids(candidates') \subseteq ProposedBy(new)
  BY <1>1, <1>6, <1>7, <1>8, ExecutedIds
<1> QED
  BY <1>1, <1>9 DEF ListsPlaced, new

LEMMA ListsStep ==
    ASSUME NEW S \in Laws, RInv(S), ListsPlaced, [RNext]_rvars
    PROVE  ListsPlaced'
<1>1. CASE \E c \in Calls : Serve(c)
  <2>1. UNCHANGED << candidates, head, done, running >>
    BY <1>1 DEF Serve, Receive, PostProposals, CheckVote, PostVotes, Post, Break, vars
  <2> QED
    BY <2>1, ListsKept
<1>2. CASE Begin
  <2>1. candidates = head.candidates
    BY <1>2 DEF Begin, RInv, ChainsInv, Context
  <2> QED
    BY <1>2, <2>1, ListsDropped DEF Begin, vars
<1>3. CASE ExecuteNext
  BY <1>3, ListsExecuted
<1>4. CASE Commit
  <2>1. /\ running # Idle /\ running.executed = Len(running.batch.txns)
        /\ head'.candidates = candidates /\ candidates' = candidates
        /\ done' = done \cup TxnsOf(running.batch)
    BY <1>4 DEF Commit, vars
  <2>2. Executed \subseteq TxnsOf(running.batch)
    <3>1. running.batch.txns \in Seq(TxnsOf(running.batch))
      BY <2>1, RunningBatch DEF RInv, BatchSound
    <3> QED
      BY <2>1, <3>1 DEF Executed, TxnsOf
  <2>3. ProposedBy(done \cup Executed) \subseteq ProposedBy(done')
    BY <2>1, <2>2, ProposedMore
  <2>4. ProposedBy(done') \subseteq ProposedBy(done' \cup Executed')
    BY ProposedMore
  <2> QED
    BY <2>1, <2>3, <2>4 DEF ListsPlaced
<1>5. CASE RefuseBatch \/ Discard
  BY <1>5, ListsDropped DEF RefuseBatch, Discard, DropContext
<1>6. CASE LoseBatch \/ StopProcessor \/ StartProcessor \/ UNCHANGED rvars
  <2>1. UNCHANGED << candidates, head, done, running >>
    BY <1>6 DEF LoseBatch, StopProcessor, StartProcessor, Restart, rvars, vars, chain
  <2> QED
    BY <2>1, ListsKept
<1> QED
  BY <1>1, <1>2, <1>3, <1>4, <1>5, <1>6 DEF RNext, Validate

(* The calls.  What is proposed stays, and calls keep their requests.      *)
LEMMA GrownStep ==
    ASSUME NEW S \in Laws, RInv(S), [RNext]_rvars
    PROVE  Grown
<1>1. ASSUME NEW c \in Calls, Receive(c)
      PROVE  Grown
  <2>1. CallsInv /\ request[c] = NoRequest
    BY <1>1 DEF RInv, CallsInv, CallOK, Receive
  <2>2. PICK r : request' = [request EXCEPT ![c] = r]
    BY <1>1 DEF Receive
  <2> QED
    BY <2>1, <2>2 DEF CallsInv, Grown
<1>2. CASE UNCHANGED request
  BY <1>2 DEF Grown
<1>3. ASSUME NEW c \in Calls, Serve(c)
      PROVE  Grown
  BY <1>1, <1>2, <1>3 DEF Serve, PostProposals, CheckVote, PostVotes, Post, Break
<1>4. CASE Validate \/ Discard \/ LoseBatch
  BY <1>2, <1>4
     DEF Validate, Begin, ExecuteNext, Commit, RefuseBatch, Discard, LoseBatch, callVars
<1>5. CASE StopProcessor \/ StartProcessor \/ UNCHANGED rvars
  BY <1>2, <1>5 DEF StopProcessor, StartProcessor, rvars, callVars
<1> QED
  BY <1>3, <1>4, <1>5 DEF RNext

LEMMA PlacedKept ==
    ASSUME done \subseteq done', NEW c \in Calls, request'[c] = request[c],
           NEW n, Placed(c, n)
    PROVE  Placed(c, n)'
<1>1. ProposedBy(done) \subseteq ProposedBy(done')
  BY ProposedMore
<1> QED
  BY <1>1 DEF Placed

(* The transactions of calls.                                              *)
LEMMA EffectFacts ==
    ASSUME NEW S, BatchesInv(S), NEW t \in Effects
    PROVE  \E c \in Calls : FromCall(t, c) /\ t.call = c
<1>1. TxnOK(S, t) /\ t.action \notin {"CREATE", "GENESIS"}
  BY DEF BatchesInv, BatchSound, Effects
<1> QED
  BY <1>1 DEF TxnOK, FromCall

LEMMA TxnPlacedKept ==
    ASSUME NEW S, CallsInv, BatchesInv(S), Grown, done \subseteq done',
           NEW t \in Effects, TxnPlaced(t)
    PROVE  TxnPlaced(t)'
<1>1. PICK c \in Calls : FromCall(t, c) /\ t.call = c
  BY EffectFacts
<1>2. request'[c] = request[c]
  BY <1>1, TakenRequest DEF FromCall, Ended, Grown
<1>3. \A n : Placed(c, n) => Placed(c, n)'
  BY <1>2, PlacedKept
<1> QED
  BY <1>1, <1>2, <1>3 DEF TxnPlaced

(* A step that leaves each call alone, or checks that its votes are        *)
(* placed, and that submits only votes that are.                           *)
LEMMA VotesKept ==
    ASSUME NEW S \in Laws, RInv(S), VotesPlaced, Grown, done \subseteq done',
           \A c \in Calls :
               \/ ChecksPlaced(c)'
               \/ /\ request'[c] = request[c] /\ stage'[c] = stage[c]
                  /\ checked'[c] = checked[c],
           \A t \in Effects' : t \in Effects \/ TxnPlaced(t)'
    PROVE  VotesPlaced'
<1>1. ASSUME NEW c \in Calls, request'[c] = request[c], stage'[c] = stage[c],
             checked'[c] = checked[c]
      PROVE  ChecksPlaced(c)'
  <2>1. \A n : Placed(c, n) => Placed(c, n)'
    BY <1>1, PlacedKept
  <2>2. ChecksPlaced(c)
    BY DEF VotesPlaced
  <2> QED
    BY <1>1, <2>1, <2>2 DEF ChecksPlaced
<1>2. \A c \in Calls : ChecksPlaced(c)'
  BY <1>1
<1>3. \A t \in Effects : TxnPlaced(t)'
  BY TxnPlacedKept DEF VotesPlaced, RInv
<1> QED
  BY <1>2, <1>3 DEF VotesPlaced

(* A call that takes a step leaves the others alone.                       *)
LEMMA OthersLeft ==
    ASSUME CallsInv, NEW c \in Calls, Serve(c), NEW d \in Calls, d # c
    PROVE  request'[d] = request[d] /\ stage'[d] = stage[d] /\ checked'[d] = checked[d]
<1>1. request'[d] = request[d]
  BY DEF CallsInv, Serve, Receive, PostProposals, CheckVote, PostVotes, Post, Break
<1>2. stage'[d] = stage[d]
  BY DEF CallsInv, Serve, Receive, PostProposals, CheckVote, PostVotes, Post, Break
<1>3. checked'[d] = checked[d]
  BY DEF CallsInv, Serve, Receive, PostProposals, CheckVote, PostVotes, Post, Break
<1> QED
  BY <1>1, <1>2, <1>3

LEMMA GoesOnIfFound ==
    ASSUME NEW c, NEW v, Check(c, v) = "checking"
    PROVE  Found(c, v)
BY DEF Check, Denied

(* A vote that was just found right is on a candidate of the chain.        *)
LEMMA CheckedPlaced ==
    ASSUME NEW S \in Laws, RInv(S), ListsPlaced, VotesPlaced, NEW c \in Calls, CheckVote(c)
    PROVE  ChecksPlaced(c)'
<1> DEFINE r == request[c]
           k == checked[c] + 1
           v == r.votes[k]
<1>1. CallsInv /\ CallOK(c) /\ stage[c] = "checking"
  BY DEF RInv, CallsInv, CheckVote
<1>2. /\ request' = request /\ done' = done
      /\ stage'[c] = Check(c, v) /\ checked'[c] = k
  BY <1>1 DEF CheckVote, CallsInv
<1>3. checked[c] \in Nat /\ r \in Requests[c]
  BY <1>1 DEF CallsInv, CallOK
<1>4. SUFFICES ASSUME stage'[c] = "checking", r.kind = "vote", NEW n \in DOMAIN r.votes, n <= k
               PROVE  Placed(c, n)'
  BY <1>2 DEF ChecksPlaced
<1>5. n \in Nat
  BY <1>3, RequestFacts
<1>6. CASE n <= checked[c]
  <2>1. Placed(c, n)
    BY <1>1, <1>4, <1>6 DEF VotesPlaced, ChecksPlaced
  <2> QED
    BY <1>2, <2>1, PlacedKept
<1>7. CASE n = k
  <2>1. Found(c, v)
    BY <1>2, <1>4, GoesOnIfFound
  <2>2. Proposed(head.candidates, AddressOf[v.of])
    BY <1>4, <2>1 DEF Found, EntryVotedOn
  <2>3. AddressOf[v.of] \in Ids(head.candidates)
    BY <2>2 DEF Proposed, Ids
  <2>4. Placed(c, n)
    BY <1>7, <2>3 DEF ListsPlaced, Placed
  <2> QED
    BY <1>2, <2>4, PlacedKept
<1> QED
  BY <1>3, <1>4, <1>5, <1>6, <1>7

(* The votes that are sent have all been checked.                          *)
LEMMA SentPlaced ==
    ASSUME NEW S \in Laws, RInv(S), VotesPlaced, NEW c \in Calls, PostVotes(c),
           NEW t \in TxnsOf(VoteBatch(c))
    PROVE  TxnPlaced(t)'
<1>1. /\ CallsInv /\ CallOK(c) /\ stage[c] = "checking"
      /\ checked[c] = Len(request[c].votes) /\ request' = request /\ done' = done
  BY DEF RInv, CallsInv, PostVotes, Post
<1>2. t.call = c
  <2>1. PICK n \in DOMAIN request[c].votes : t = VoteTxn(c, n)
    BY DEF TxnsOf, VoteBatch
  <2> QED
    BY <2>1 DEF VoteTxn, Txn
<1>3. request[c] \in Requests[c]
  BY <1>1 DEF CallOK
<1>4. \A n \in DOMAIN request[c].votes : n <= checked[c]
  BY <1>1, <1>3, RequestFacts
<1>5. request[c].kind = "vote" => \A n \in DOMAIN request[c].votes : Placed(c, n)
  BY <1>1, <1>4 DEF VotesPlaced, ChecksPlaced
<1>6. \A n : Placed(c, n) => Placed(c, n)'
  BY <1>1, PlacedKept
<1> QED
  BY <1>1, <1>2, <1>5, <1>6 DEF TxnPlaced

LEMMA ServePlaced ==
    ASSUME NEW S \in Laws, RInv(S), ListsPlaced, VotesPlaced, Grown,
           NEW c \in Calls, Serve(c)
    PROVE  VotesPlaced'
<1>1. CallsInv /\ CallOK(c)
  BY DEF RInv, CallsInv
<1>2. UNCHANGED done
  BY DEF Serve, Receive, PostProposals, CheckVote, PostVotes, Post, Break
<1>3. ChecksPlaced(c)'
  <2>1. CASE Receive(c)
    <3>1. checked'[c] = 0 /\ (stage'[c] = "checking" => request'[c] \in Requests[c])
      <4>1. checked[c] = 0
        BY <1>1, <2>1 DEF Receive, CallOK
      <4>2. PICK r \in Requests[c] : request' = [request EXCEPT ![c] = r]
        BY <2>1 DEF Receive
      <4> QED
        BY <1>1, <2>1, <4>1, <4>2 DEF Receive, CallsInv
    <3>2. stage'[c] = "checking" => \A n \in DOMAIN request'[c].votes : ~(n <= 0)
      BY <3>1, RequestFacts
    <3> QED
      BY <3>1, <3>2 DEF ChecksPlaced
  <2>2. CASE PostProposals(c)
    <3>1. stage'[c] = "checking" => request[c].kind = "seed"
      BY <1>1, <2>2 DEF PostProposals, Post, CallsInv, Unanswered
    <3>2. request' = request
      BY <2>2 DEF PostProposals, Post
    <3> QED
      BY <3>1, <3>2 DEF ChecksPlaced
  <2>3. CASE CheckVote(c)
    BY <2>3, CheckedPlaced
  <2>4. CASE PostVotes(c) \/ Break(c)
    <3>1. stage'[c] # "checking"
      BY <1>1, <2>4 DEF PostVotes, Post, Break, CallsInv, Unanswered
    <3> QED
      BY <3>1 DEF ChecksPlaced
  <2> QED
    BY <2>1, <2>2, <2>3, <2>4 DEF Serve
<1>4. ASSUME NEW t \in Effects'
      PROVE  t \in Effects \/ TxnPlaced(t)'
  <2>1. CASE UNCHANGED pending
    BY <1>2, <2>1 DEF Effects
  <2>2. CASE PostProposals(c)
    <3>1. pending' \subseteq pending \cup {ProposalBatch(c)}
      BY <2>2 DEF PostProposals, Post
    <3>2. t \in Effects \/ t \in TxnsOf(ProposalBatch(c))
      BY <1>2, <3>1 DEF Effects
    <3>3. t \in TxnsOf(ProposalBatch(c)) => t.action \notin {"VOTE", "UNSET"}
      <4>1. request[c] \in Requests[c] /\ request[c].kind \in {"create", "propose", "seed"}
        BY <1>1, <2>2, RequestFacts DEF PostProposals, CallOK
      <4>2. ASSUME t \in TxnsOf(ProposalBatch(c))
            PROVE  t.action = EntryAction[request[c].kind]
        <5>1. PICK i \in DOMAIN request[c].proposals : t = ProposalTxn(c, i)
          BY <4>2 DEF TxnsOf, ProposalBatch
        <5> QED
          BY <5>1 DEF ProposalTxn, Txn
      <4> QED
        BY <4>1, <4>2 DEF EntryAction
    <3> QED
      BY <3>2, <3>3 DEF TxnPlaced
  <2>3. CASE PostVotes(c)
    <3>1. pending' \subseteq pending \cup {VoteBatch(c)}
      BY <2>3 DEF PostVotes, Post
    <3>2. t \in Effects \/ t \in TxnsOf(VoteBatch(c))
      BY <1>2, <3>1 DEF Effects
    <3> QED
      BY <2>3, <3>2, SentPlaced
  <2> QED
    BY <2>1, <2>2, <2>3 DEF Serve, Receive, CheckVote, Break
<1>5. \A d \in Calls : \/ ChecksPlaced(d)'
                        \/ /\ request'[d] = request[d] /\ stage'[d] = stage[d]
                           /\ checked'[d] = checked[d]
  BY <1>1, <1>3, OthersLeft
<1> QED
  BY <1>2, <1>4, <1>5, VotesKept

LEMMA VotesStep ==
    ASSUME NEW S \in Laws, RInv(S), ListsPlaced, VotesPlaced, [RNext]_rvars
    PROVE  VotesPlaced'
<1>1. Grown
  BY GrownStep
<1>2. CASE \E c \in Calls : Serve(c)
  BY <1>1, <1>2, ServePlaced
<1>3. ASSUME UNCHANGED callVars, done \subseteq done', Effects' \subseteq Effects
      PROVE  VotesPlaced'
  <2>1. \A c \in Calls : \/ ChecksPlaced(c)'
                         \/ /\ request'[c] = request[c] /\ stage'[c] = stage[c]
                            /\ checked'[c] = checked[c]
    BY <1>3 DEF callVars
  <2>2. \A t \in Effects' : t \in Effects \/ TxnPlaced(t)'
    BY <1>3
  <2> QED
    BY <1>1, <1>3, <2>1, <2>2, VotesKept
<1>4. CASE Commit
  <2>1. running.batch \in pending
    BY <1>4 DEF Commit, RInv, BatchesInv
  <2>2. /\ done' = done \cup TxnsOf(running.batch) /\ pending' \subseteq pending
        /\ UNCHANGED callVars
    BY <1>4 DEF Commit
  <2>3. Effects' \subseteq Effects
    BY <2>1, <2>2 DEF Effects
  <2> QED
    BY <1>3, <2>2, <2>3
<1>5. ASSUME done' = done, pending' \subseteq pending, UNCHANGED callVars
      PROVE  VotesPlaced'
  <2>1. Effects' \subseteq Effects
    BY <1>5 DEF Effects
  <2> QED
    BY <1>3, <1>5, <2>1
<1>6. CASE Begin \/ ExecuteNext \/ RefuseBatch \/ Discard \/ LoseBatch
  BY <1>5, <1>6 DEF Begin, ExecuteNext, RefuseBatch, Discard, LoseBatch
<1>7. CASE StopProcessor \/ StartProcessor \/ UNCHANGED rvars
  BY <1>5, <1>7 DEF StopProcessor, StartProcessor, rvars, callVars
<1> QED
  BY <1>2, <1>4, <1>6, <1>7 DEF RNext, Validate

(* What is on its way or on the chain is what the calls checked, in every  *)
(* state.                                                                  *)
THEOREM SentKeeps == RSpec => []SentInvariant
<1>1. RInit => SentInvariant
  <2> SUFFICES ASSUME RInit
               PROVE  ListsPlaced /\ VotesPlaced
    BY RInvInit DEF SentInvariant
  <2>1. candidates = << >> /\ head.candidates = << >>
    BY DEF RInit
  <2>2. \A c \in Calls : stage[c] = "new"
    BY DEF RInit
  <2>3. Effects = {}
    <3>1. PICK g \in GenesisCommands : /\ pending \subseteq {GenesisBatch(g)} /\ done = {}
                                       /\ ValidSettings(g) \/ pending = {}
      BY DEF RInit
    <3>2. \A t \in TxnsOf(GenesisBatch(g)) : t.action \in {"CREATE", "GENESIS"}
      BY GenesisActions
    <3> QED
      BY <3>1, <3>2 DEF Effects
  <2> QED
    BY <2>1, <2>2, <2>3 DEF ListsPlaced, Ids, VotesPlaced, ChecksPlaced
<1>2. SentInvariant /\ [RNext]_rvars => SentInvariant'
  BY RInvStep, ListsStep, VotesStep DEF SentInvariant, RInvariant
<1> QED
  BY <1>1, <1>2, PTL DEF RSpec

LEMMA ChecksFollow == SentInvariant => EffectsWereChecked
<1> SUFFICES ASSUME NEW S \in Laws, RInv(S), VotesPlaced, NEW t \in Effects
             PROVE  /\ stage[t.call] # "405"
                    /\ Faults(request[t.call]) = {}
                    /\ t.action \in {"VOTE", "UNSET"} =>
                          \A n \in DOMAIN request[t.call].votes :
                              RightVote(t.call, request[t.call].votes[n])
  BY DEF SentInvariant, RInvariant, EffectsWereChecked
<1>1. PICK c \in Calls : FromCall(t, c) /\ t.call = c
  BY EffectFacts DEF RInv
<1>2. stage[c] # "405" /\ stage[c] # "new" /\ Faults(request[c]) = {}
  BY <1>1 DEF FromCall, Ended
<1>3. ASSUME t.action \in {"VOTE", "UNSET"}, NEW n \in DOMAIN request[c].votes
      PROVE  RightVote(c, request[c].votes[n])
  <2> DEFINE v == request[c].votes[n]
  <2>1. VoteChecked(c, v) /\ request[c].kind \in {"seed", "vote"}
    BY <1>1, <1>3 DEF FromCall
  <2>2. CASE request[c].kind = "seed"
    BY <2>1, <2>2 DEF VoteChecked, RightVote, ValidSigner
  <2>3. CASE request[c].kind = "vote"
    <3>1. AddressOf[v.of] \in ProposedBy(done)
      BY <1>1, <1>3, <2>3 DEF VotesPlaced, TxnPlaced, Placed
    <3>2. PICK u \in done : u.action = "PROPOSE" /\ AddressOf[u.entry] = AddressOf[v.of]
      BY <3>1 DEF ProposedBy
    <3>3. u.entry \in Entries
      <4>1. TxnOK(S, u)
        BY DEF RInv, BatchesInv
      <4> QED
        BY <3>2, <4>1 DEF TxnOK, FromCall
    <3>4. v.of \in Entries
      BY <1>2, <2>3, TakenRequest, RequestFacts DEF RInv
    <3>5. u.entry = v.of
      BY <3>2, <3>3, <3>4, RequestsAssumption
    <3> QED
      BY <2>1, <2>3, <3>2, <3>5 DEF VoteChecked, RightVote, ValidSigner
  <2> QED
    BY <2>1, <2>2, <2>3
<1> QED
  BY <1>1, <1>2, <1>3

(* Nothing of a call gets into the queue, or on the chain, unless all of   *)
(* its proposals were without fault and, if it is votes, all of its votes  *)
(* were right when they were checked, whatever became of the call and of   *)
(* its answers.                                                            *)
THEOREM EffectsChecked == RSpec => []EffectsWereChecked
BY SentKeeps, ChecksFollow, PTL
===============================================================================
