---------------------------- MODULE VotingTPProofs ----------------------------
(***************************************************************************)
(* What holds of VotingTP for any keys, lists, thresholds, entries and     *)
(* addresses: its types, and the invariants of the candidates container,   *)
(* from the inductive invariant IInv.                                      *)
(***************************************************************************)
EXTENDS VotingTP, CandidatesProofs

(* The lists of votes, well typed.                                         *)
Votes == Seq([public_key : Keys, vote : VoteValues])

(* The settings a transaction is judged by are settings or none.           *)
LEMMA InForceType ==
    TypeOK => InForce \in Settings \cup {NoSettings}
BY DEF TypeOK, InForce

(* What stands in a well-typed container.                                  *)
LEMMA CandidateType ==
    ASSUME NEW list \in Seq(Ballots), NEW i \in DOMAIN list
    PROVE  /\ list[i] \in Ballots
           /\ list[i].proposal_id \in Addresses
           /\ list[i].proposal \in Entries
           /\ list[i].votes \in Votes
<1>1. list[i] \in Ballots
  OBVIOUS
<1> QED
  BY <1>1 DEF Ballots, Votes

(* The three changes that the handler makes to the container keep its      *)
(* type: a proposal more, other votes for a candidate, a candidate less.   *)
LEMMA WithProposalType ==
    ASSUME NEW list \in Seq(Ballots), NEW key \in Keys, NEW entry \in Entries
    PROVE  WithProposal(list, AddressOf[entry], entry, key) \in Seq(Ballots)
<1> DEFINE ballot == [proposal_id |-> AddressOf[entry], proposal |-> entry,
                      votes |-> << VoteRecord(key, ACCEPT) >>]
<1>1. VoteRecord(key, ACCEPT) \in [public_key : Keys, vote : VoteValues]
  BY DEF VoteRecord, VoteValues
<1>2. << VoteRecord(key, ACCEPT) >> \in Seq([public_key : Keys, vote : VoteValues])
  BY <1>1
<1>3. ballot \in Ballots
  BY <1>2, EntriesAssumption DEF Ballots
<1>4. WithProposal(list, AddressOf[entry], entry, key) = Append(list, ballot)
  BY DEF WithProposal
<1> HIDE DEF ballot
<1> QED
  BY <1>3, <1>4

(* ... other votes.                                                        *)
LEMMA WithVotesType ==
    ASSUME NEW list \in Seq(Ballots), NEW i \in DOMAIN list,
           NEW votes \in Votes
    PROVE  WithVotes(list, i, votes) \in Seq(Ballots)
<1>1. [list[i] EXCEPT !.votes = votes] \in Ballots
  BY CandidateType DEF Ballots, Votes
<1>2. WithVotes(list, i, votes) = [list EXCEPT ![i] = [list[i] EXCEPT !.votes = votes]]
  BY DEF WithVotes
<1> QED
  BY <1>1, <1>2

(* ... a candidate less.                                                   *)
LEMMA WithoutCandidateType ==
    ASSUME NEW list \in Seq(Ballots), NEW i \in DOMAIN list
    PROVE  WithoutCandidate(list, i) \in Seq(Ballots)
BY RemoveAtProperties DEF WithoutCandidate

(* The votes with the new one are well typed.                              *)
LEMMA VotesWithType ==
    ASSUME TypeOK, NEW i \in DOMAIN candidates, NEW key \in Keys, NEW vote \in VoteValues
    PROVE  VotesWith(i, key, vote) \in Votes
<1>1. candidates[i].votes \in Votes
  BY CandidateType DEF TypeOK
<1>2. VoteRecord(key, vote) \in [public_key : Keys, vote : VoteValues]
  BY DEF VoteRecord
<1> QED
  BY <1>1, <1>2 DEF VotesWith, Votes

(* A chain after the first CREATE is well typed.                           *)
LEMMA TypeInit == Init => TypeOK
BY DEF Init, TypeOK

(* Every transaction and every restart keeps the types.                    *)
LEMMA TypeStep == TypeOK /\ [Next]_vars => TypeOK'
<1> SUFFICES ASSUME TypeOK, [Next]_vars
             PROVE  TypeOK'
  OBVIOUS
<1> USE DEF TypeOK
<1>1. ASSUME LoadSettings
      PROVE  settings' \in Settings \cup {NoSettings} /\ cache' \in Settings \cup {NoSettings}
  BY <1>1, InForceType DEF LoadSettings
<1>2. ASSUME NEW key \in Keys, NEW entry \in Entries, Direct(key, entry)
      PROVE  TypeOK'
  <2>1. registry' \in [Addresses -> Entries \cup {NotRegistered}]
    BY <1>2, EntriesAssumption DEF Direct, Register, ProposeAtOnce
  <2> QED
    BY <1>1, <1>2, <2>1 DEF Direct, Register, ProposeAtOnce
<1>3. ASSUME NEW key \in Keys, NEW entry \in Entries, Propose(key, entry)
      PROVE  TypeOK'
  BY <1>1, <1>3, WithProposalType DEF Propose
<1>4. ASSUME NEW key \in Keys, NEW id \in Addresses, NEW vote \in VoteValues, Vote(key, id, vote)
      PROVE  TypeOK'
  <2>1. CASE VoteApproves(key, id, vote)
    <3>1. PICK i \in DOMAIN candidates :
             /\ registry' = [registry EXCEPT ![id] = candidates[i].proposal]
             /\ candidates' = WithoutCandidate(candidates, i)
             /\ LoadSettings
      BY <2>1 DEF VoteApproves
    <3>2. candidates[i].proposal \in Entries
      BY CandidateType
    <3> QED
      BY <1>1, <3>1, <3>2, WithoutCandidateType
  <2>2. CASE VoteRejects(key, id, vote)
    BY <1>1, <2>2, WithoutCandidateType DEF VoteRejects
  <2>3. CASE VoteRecorded(key, id, vote)
    <3>1. PICK i \in DOMAIN candidates :
             /\ candidates' = WithVotes(candidates, i, VotesWith(i, key, vote))
             /\ LoadSettings
             /\ UNCHANGED registry
      BY <2>3 DEF VoteRecorded
    <3>2. candidates' \in Seq(Ballots)
      BY <3>1, VotesWithType, WithVotesType
    <3> QED
      BY <1>1, <3>1, <3>2
  <2> QED
    BY <1>4, <2>1, <2>2, <2>3 DEF Vote
<1>5. ASSUME NEW key \in Keys, NEW id \in Addresses, Rescind(key, id)
      PROVE  TypeOK'
  <2>1. PICK i \in DOMAIN candidates :
           /\ \E j \in DOMAIN candidates[i].votes :
                 candidates' = IF Len(candidates[i].votes) = 1
                                 THEN WithoutCandidate(candidates, i)
                                 ELSE WithVotes(candidates, i, RemoveAt(candidates[i].votes, j))
           /\ LoadSettings
           /\ UNCHANGED registry
    BY <1>5 DEF Rescind
  <2>2. ASSUME NEW j \in DOMAIN candidates[i].votes
        PROVE  RemoveAt(candidates[i].votes, j) \in Votes
    <3>1. candidates[i].votes \in Seq([public_key : Keys, vote : VoteValues])
      BY CandidateType DEF Votes
    <3>2. j \in 1..Len(candidates[i].votes)
      BY <3>1
    <3> QED
      BY <3>1, <3>2, RemoveAtProperties DEF Votes
  <2>3. candidates' \in Seq(Ballots)
    BY <2>1, <2>2, WithVotesType, WithoutCandidateType
  <2> QED
    BY <1>1, <2>1, <2>3
<1>6. CASE Refuse
  BY <1>1, <1>6 DEF Refuse
<1>7. CASE Restart
  BY <1>7 DEF Restart, chain
<1>8. CASE UNCHANGED vars
  BY <1>8 DEF vars
<1> QED
  BY <1>2, <1>3, <1>4, <1>5, <1>6, <1>7, <1>8 DEF Next

(* The chain and the handler are well typed at all times: above all, the   *)
(* positions that ACTION_VOTE and ACTION_UNSET look up are positions of    *)
(* the lists they are used on.                                             *)
THEOREM TypeCorrect == Spec => []TypeOK
<1>1. Init => TypeOK
  BY TypeInit
<1>2. TypeOK /\ [Next]_vars => TypeOK'
  BY TypeStep
<1> QED
  BY <1>1, <1>2, PTL DEF Spec
-------------------------------------------------------------------------------
(* As long as the setting family does not touch the dimension, its         *)
(* settings are those of a valid CREATE, and the handler's cache is empty  *)
(* or up to date. Without this a vote could be counted against another     *)
(* list.                                                                   *)
SettingsInv ==
    /\ settings \in Settings
    /\ Creatable(settings)
    /\ cache \in {NoSettings, settings}

(* The votes do not decide their proposal yet.                             *)
Undecided(votes) ==
    /\ votes # << >>
    /\ Tally(votes, ACCEPT) < settings.threshold
    /\ Tally(votes, REJECT) < settings.threshold
    /\ Tally(votes, ACCEPT) + Tally(votes, REJECT) < Len(settings.auth_list)

(* The votes a waiting proposal can have.                                  *)
SoundVotes ==
    {votes \in Votes : /\ OneVote(votes)
                       /\ Voters(votes) \subseteq Electors(settings.auth_list)
                       /\ Undecided(votes)}

(* The candidates that can wait.                                           *)
SoundBallots ==
    {b \in Ballots : b.proposal_id = AddressOf[b.proposal] /\ b.votes \in SoundVotes}

(* The inductive invariant. UniqueProposals, OneVoteEach and               *)
(* NothingDecidedWaits are each about the list of candidates by position;  *)
(* a step that removes a position moves the others. So the invariant says  *)
(* what kind of candidates the list has, whatever their positions, and     *)
(* that their ids differ.                                                  *)
IInv ==
    /\ TypeOK
    /\ SettingsInv
    /\ DistinctIds(candidates)
    /\ candidates \in Seq(SoundBallots)

(* What the settings invariant means for a transaction: it is judged by    *)
(* the settings of the chain, and whoever is authorised is listed.         *)
LEMMA SettingsFacts ==
    ASSUME SettingsInv
    PROVE  /\ InForce = settings
           /\ settings.threshold \in Int
           /\ settings.threshold > 0
           /\ settings.auth_list \in Seq(Keys)
           /\ settings.threshold <= Len(settings.auth_list)
           /\ \A key : Authorizes(settings, key) => key \in Electors(settings.auth_list)
<1>1. /\ settings.auth_list \in AuthLists \cup {NoAuthList}
      /\ settings.threshold \in Thresholds \cup {NoThreshold}
  BY DEF SettingsInv, Settings
<1>2. /\ settings.auth_list \in Seq(Keys)
      /\ settings.threshold \in Int
      /\ settings.threshold > 0
      /\ settings.threshold <= Len(settings.auth_list)
  BY <1>1, SettingsAssumption DEF SettingsInv, Creatable
<1>3. settings.auth_list # << >>
  BY <1>2
<1>4. InForce = settings
  BY DEF SettingsInv, InForce
<1> QED
  BY <1>2, <1>3, <1>4 DEF Authorizes

(* Transactions of the family do not change its settings.                  *)
LEMMA SettingsStep == SettingsInv /\ [Next]_vars => SettingsInv'
<1> SUFFICES ASSUME SettingsInv, [Next]_vars
             PROVE  SettingsInv'
  OBVIOUS
<1>1. settings' = settings /\ cache' \in {NoSettings, settings, cache}
  <2>1. LoadSettings => settings' = settings /\ cache' = settings
    BY SettingsFacts DEF LoadSettings
  <2> QED
    BY <2>1 DEF Next, Direct, Register, ProposeAtOnce, Propose, Vote, VoteApproves, VoteRejects,
       VoteRecorded, Rescind, Refuse, Restart, chain, vars
<1> QED
  BY <1>1 DEF SettingsInv, Creatable

(* The proposer's own vote: it decides nothing when the threshold is above *)
(* one.                                                                    *)
LEMMA FirstVoteSound ==
    ASSUME SettingsInv, settings.threshold > 1,
           NEW key \in Keys, key \in Electors(settings.auth_list)
    PROVE  << VoteRecord(key, ACCEPT) >> \in SoundVotes
<1> DEFINE votes == << VoteRecord(key, ACCEPT) >>
<1>1. /\ VoteRecord(key, ACCEPT) \in [public_key : Keys, vote : VoteValues]
      /\ VoteRecord(key, ACCEPT).public_key = key
      /\ VoteRecord(key, ACCEPT).vote = ACCEPT
  BY DEF VoteRecord, VoteValues
<1>2. votes \in Votes /\ DOMAIN votes = {1} /\ votes # << >>
  BY <1>1 DEF Votes
<1>3. votes[1].public_key = key /\ votes[1].vote = ACCEPT
  BY <1>1
<1> HIDE DEF votes
<1>4. OneVote(votes) /\ Voters(votes) = {key}
  BY <1>2, <1>3 DEF OneVote, Voters
<1>5. {j \in DOMAIN votes : votes[j].vote = ACCEPT} = {1}
  BY <1>2, <1>3
<1>6. {j \in DOMAIN votes : votes[j].vote = REJECT} = {}
  BY <1>2, <1>3 DEF ACCEPT, REJECT
<1>7. Tally(votes, ACCEPT) = 1 /\ Tally(votes, REJECT) = 0
  BY <1>5, <1>6, FS_Singleton, FS_EmptySet DEF Tally
<1>8. Undecided(votes)
  BY <1>2, <1>7, SettingsFacts DEF Undecided
<1> QED
  BY <1>2, <1>4, <1>8 DEF SoundVotes, votes

(* A vote that is counted and decides nothing keeps the votes sound.       *)
LEMMA VoteRecordedSound ==
    ASSUME SettingsInv, NEW votes \in SoundVotes,
           NEW key \in Keys, key \in Electors(settings.auth_list), key \notin Voters(votes),
           NEW vote \in VoteValues,
           ~Accepted(Append(votes, VoteRecord(key, vote))),
           ~Rejected(Append(votes, VoteRecord(key, vote)))
    PROVE  Append(votes, VoteRecord(key, vote)) \in SoundVotes
<1> DEFINE R == [public_key : Keys, vote : VoteValues]
           v == VoteRecord(key, vote)
           more == Append(votes, v)
<1>1. v \in R /\ v.public_key = key /\ v.vote = vote
  BY DEF VoteRecord
<1>2. votes \in Seq(R)
  BY DEF SoundVotes, Votes
<1> HIDE DEF v, R
<1>3. more \in Seq(R) /\ more # << >>
  BY <1>1, <1>2
<1>4. OneVote(more) /\ Voters(more) \subseteq Electors(settings.auth_list)
  <2>1. OneVote(votes) /\ Voters(votes) \subseteq Electors(settings.auth_list)
    BY DEF SoundVotes
  <2>2. /\ Voters(more) = Voters(votes) \cup {v.public_key}
        /\ OneVote(votes) /\ v.public_key \notin Voters(votes) => OneVote(more)
    BY <1>1, <1>2, OneVoteAppend
  <2> QED
    BY <1>1, <2>1, <2>2
<1>5. /\ Tally(more, ACCEPT) = Tally(votes, ACCEPT) + (IF v.vote = ACCEPT THEN 1 ELSE 0)
      /\ Tally(more, REJECT) = Tally(votes, REJECT) + (IF v.vote = REJECT THEN 1 ELSE 0)
  BY <1>1, <1>2, TallyAppend
<1>6. /\ Tally(votes, ACCEPT) \in Nat /\ Tally(votes, REJECT) \in Nat
      /\ Tally(votes, ACCEPT) + Tally(votes, REJECT) < Len(settings.auth_list)
  BY <1>2, PositionsFinite DEF SoundVotes, Undecided
<1>7. /\ ~(Tally(more, ACCEPT) >= settings.threshold)
      /\ ~(Tally(more, REJECT) >= settings.threshold)
      /\ Tally(more, REJECT) + Tally(more, ACCEPT) # Len(settings.auth_list)
  BY SettingsFacts DEF Accepted, Rejected, v
<1>8. ACCEPT # REJECT
  BY DEF ACCEPT, REJECT
<1> HIDE DEF more
<1>9. settings.threshold \in Int /\ Len(settings.auth_list) \in Nat
  BY SettingsFacts
<1>10. Tally(more, ACCEPT) + Tally(more, REJECT) <= Tally(votes, ACCEPT) + Tally(votes, REJECT) + 1
  BY <1>5, <1>6, <1>8
<1>11. Tally(more, ACCEPT) \in Nat /\ Tally(more, REJECT) \in Nat
  BY <1>5, <1>6
<1>12. Undecided(more)
  BY <1>3, <1>6, <1>7, <1>9, <1>10, <1>11 DEF Undecided
<1> QED
  BY <1>3, <1>4, <1>12 DEF SoundVotes, Votes, more, v, R

(* A withdrawal that leaves a vote keeps the votes sound.                  *)
LEMMA WithdrawnSound ==
    ASSUME SettingsInv, NEW votes \in SoundVotes,
           NEW j \in DOMAIN votes, Len(votes) # 1
    PROVE  RemoveAt(votes, j) \in SoundVotes
<1> DEFINE rest == RemoveAt(votes, j)
<1>1. votes \in Seq([public_key : Keys, vote : VoteValues])
  BY DEF SoundVotes, Votes
<1>2. j \in 1..Len(votes)
  BY <1>1
<1>3. rest \in Seq([public_key : Keys, vote : VoteValues]) /\ Len(rest) = Len(votes) - 1
  BY <1>1, <1>2, RemoveAtProperties
<1>4. OneVote(rest) /\ Voters(rest) \subseteq Electors(settings.auth_list)
  BY <1>1, <1>2, OneVoteRemoveAt DEF SoundVotes
<1>5. /\ Tally(rest, ACCEPT) <= Tally(votes, ACCEPT)
      /\ Tally(rest, REJECT) <= Tally(votes, REJECT)
  BY <1>1, <1>2, TallyRemoveAt
<1> HIDE DEF rest
<1>6. /\ Tally(votes, ACCEPT) \in Nat /\ Tally(votes, REJECT) \in Nat
      /\ Tally(rest, ACCEPT) \in Nat /\ Tally(rest, REJECT) \in Nat
  BY <1>1, <1>3, PositionsFinite
<1>7. Undecided(votes)
  BY DEF SoundVotes
<1>8. rest # << >>
  BY <1>2, <1>3
<1>9. Undecided(rest)
  BY <1>5, <1>6, <1>7, <1>8, SettingsFacts DEF Undecided
<1> QED
  BY <1>3, <1>4, <1>9 DEF SoundVotes, Votes, rest
-------------------------------------------------------------------------------
(* What stands in a container of sound candidates.                         *)
LEMMA SoundCandidate ==
    ASSUME NEW list \in Seq(SoundBallots), NEW i \in DOMAIN list
    PROVE  /\ list[i] \in SoundBallots
           /\ list[i] \in Ballots
           /\ list[i].proposal_id = AddressOf[list[i].proposal]
           /\ list[i].votes \in SoundVotes
<1>1. list[i] \in SoundBallots
  OBVIOUS
<1> QED
  BY <1>1 DEF SoundBallots

(* The three changes of the container keep its candidates sound.           *)
LEMMA ContainerWithProposal ==
    ASSUME IInv, settings.threshold > 1,
           NEW key \in Keys, key \in Electors(settings.auth_list),
           NEW entry \in Entries, ~Proposed(candidates, AddressOf[entry])
    PROVE  /\ WithProposal(candidates, AddressOf[entry], entry, key) \in Seq(SoundBallots)
           /\ DistinctIds(WithProposal(candidates, AddressOf[entry], entry, key))
<1> DEFINE ballot == [proposal_id |-> AddressOf[entry], proposal |-> entry,
                      votes |-> << VoteRecord(key, ACCEPT) >>]
<1>1. << VoteRecord(key, ACCEPT) >> \in SoundVotes
  BY FirstVoteSound DEF IInv
<1>2. ballot \in SoundBallots /\ ballot.proposal_id = AddressOf[entry]
  BY <1>1, EntriesAssumption DEF SoundBallots, Ballots, SoundVotes, Votes
<1>3. WithProposal(candidates, AddressOf[entry], entry, key) = Append(candidates, ballot)
  BY DEF WithProposal
<1> HIDE DEF ballot
<1>4. candidates \in Seq(SoundBallots) /\ DistinctIds(candidates)
  BY DEF IInv
<1>5. Append(candidates, ballot) \in Seq(SoundBallots)
  BY <1>2, <1>4
<1>6. DistinctIds(Append(candidates, ballot))
  BY <1>2, <1>4, DistinctIdsAppend
<1> QED
  BY <1>3, <1>5, <1>6

(* ... other votes, if they are sound.                                     *)
LEMMA ContainerWithVotes ==
    ASSUME IInv, NEW i \in DOMAIN candidates, NEW votes \in SoundVotes
    PROVE  /\ WithVotes(candidates, i, votes) \in Seq(SoundBallots)
           /\ DistinctIds(WithVotes(candidates, i, votes))
<1>1. [candidates[i] EXCEPT !.votes = votes] \in SoundBallots
  <2> DEFINE ballot == [candidates[i] EXCEPT !.votes = votes]
  <2>1. candidates[i] \in Ballots /\ candidates[i].proposal_id = AddressOf[candidates[i].proposal]
    BY SoundCandidate DEF IInv
  <2>2. votes \in Seq([public_key : Keys, vote : VoteValues])
    BY DEF SoundVotes, Votes
  <2>3. /\ ballot \in Ballots
        /\ ballot.proposal_id = candidates[i].proposal_id
        /\ ballot.proposal = candidates[i].proposal
        /\ ballot.votes = votes
    BY <2>1, <2>2 DEF Ballots
  <2> QED
    BY <2>1, <2>3 DEF SoundBallots
<1>2. WithVotes(candidates, i, votes)
        = [candidates EXCEPT ![i] = [candidates[i] EXCEPT !.votes = votes]]
  BY DEF WithVotes
<1>3. WithVotes(candidates, i, votes) \in Seq(SoundBallots)
  BY <1>1, <1>2 DEF IInv
<1>4. DistinctIds(WithVotes(candidates, i, votes))
  <2>1. candidates \in Seq([proposal_id : Addresses, proposal : Entries, votes : Votes])
    BY DEF IInv, TypeOK, Ballots, Votes
  <2>2. votes \in Votes /\ DistinctIds(candidates)
    BY DEF SoundVotes, IInv
  <2> QED
    BY <2>1, <2>2, DistinctIdsWithVotes
<1> QED
  BY <1>3, <1>4

(* ... a candidate less.                                                   *)
LEMMA ContainerWithout ==
    ASSUME IInv, NEW i \in DOMAIN candidates
    PROVE  /\ WithoutCandidate(candidates, i) \in Seq(SoundBallots)
           /\ DistinctIds(WithoutCandidate(candidates, i))
<1>1. candidates \in Seq(SoundBallots) /\ DistinctIds(candidates)
  BY DEF IInv
<1>2. i \in 1..Len(candidates)
  BY <1>1
<1>3. WithoutCandidate(candidates, i) \in Seq(SoundBallots)
  BY <1>1, <1>2, RemoveAtProperties DEF WithoutCandidate
<1>4. DistinctIds(WithoutCandidate(candidates, i))
  BY <1>1, <1>2, DistinctIdsWithout
<1> QED
  BY <1>3, <1>4

(* The invariant holds on a chain after the first CREATE ...               *)
LEMMA IInvInit == Init => IInv
<1> SUFFICES ASSUME Init
             PROVE  IInv
  OBVIOUS
<1>1. SettingsInv
  BY DEF Init, SettingsInv
<1>2. DistinctIds(candidates) /\ candidates \in Seq(SoundBallots)
  BY DEF Init, DistinctIds
<1> QED
  BY <1>1, <1>2, TypeInit DEF IInv

(* ... and after every step: Propose adds a sound candidate, Vote and      *)
(* Rescind leave sound votes or remove the candidate, and no other action  *)
(* touches the container.                                                  *)
LEMMA IInvStep == IInv /\ [Next]_vars => IInv'
<1> SUFFICES ASSUME IInv, [Next]_vars
             PROVE  IInv'
  OBVIOUS
<1>1. TypeOK'
  BY TypeStep DEF IInv
<1>2. SettingsInv'
  BY SettingsStep DEF IInv
<1>3. settings' = settings
  BY DEF Next, Direct, Register, ProposeAtOnce, Propose, Vote, VoteApproves, VoteRejects,
     VoteRecorded, Rescind, Refuse, Restart, LoadSettings, chain, vars
<1>4. SUFFICES candidates' \in Seq(SoundBallots) /\ DistinctIds(candidates')
  <2>1. SoundBallots' = SoundBallots
    BY <1>3 DEF SoundBallots, SoundVotes, Undecided
  <2> QED
    BY <1>1, <1>2, <1>4, <2>1 DEF IInv
<1>5. /\ InForce = settings
      /\ \A key : Authorizes(settings, key) => key \in Electors(settings.auth_list)
  BY SettingsFacts DEF IInv
<1>6. ASSUME NEW key \in Keys, NEW entry \in Entries, Propose(key, entry)
      PROVE  candidates' \in Seq(SoundBallots) /\ DistinctIds(candidates')
  BY <1>5, <1>6, ContainerWithProposal DEF Propose
<1>7. ASSUME NEW key \in Keys, NEW id \in Addresses, NEW vote \in VoteValues, Vote(key, id, vote)
      PROVE  candidates' \in Seq(SoundBallots) /\ DistinctIds(candidates')
  <2>1. CASE VoteApproves(key, id, vote)
    BY <2>1, ContainerWithout DEF VoteApproves
  <2>2. CASE VoteRejects(key, id, vote)
    BY <2>2, ContainerWithout DEF VoteRejects
  <2>3. CASE VoteRecorded(key, id, vote)
    <3>1. PICK i \in DOMAIN candidates :
             /\ MayVote(key, id, i)
             /\ ~Accepted(VotesWith(i, key, vote))
             /\ ~Rejected(VotesWith(i, key, vote))
             /\ candidates' = WithVotes(candidates, i, VotesWith(i, key, vote))
      BY <2>3 DEF VoteRecorded
    <3>2. candidates[i].votes \in SoundVotes
      BY SoundCandidate DEF IInv
    <3>3. key \in Electors(settings.auth_list) /\ key \notin Voters(candidates[i].votes)
      BY <1>5, <3>1 DEF MayVote
    <3>4. VotesWith(i, key, vote) \in SoundVotes
      BY <3>1, <3>2, <3>3, VoteRecordedSound DEF VotesWith, IInv
    <3> QED
      BY <3>1, <3>4, ContainerWithVotes
  <2> QED
    BY <1>7, <2>1, <2>2, <2>3 DEF Vote
<1>8. ASSUME NEW key \in Keys, NEW id \in Addresses, Rescind(key, id)
      PROVE  candidates' \in Seq(SoundBallots) /\ DistinctIds(candidates')
  <2>1. PICK i \in DOMAIN candidates :
           \E j \in DOMAIN candidates[i].votes :
              candidates' = IF Len(candidates[i].votes) = 1
                              THEN WithoutCandidate(candidates, i)
                              ELSE WithVotes(candidates, i, RemoveAt(candidates[i].votes, j))
    BY <1>8 DEF Rescind
  <2>2. candidates[i].votes \in SoundVotes
    BY SoundCandidate DEF IInv
  <2>3. CASE Len(candidates[i].votes) = 1
    BY <2>1, <2>3, ContainerWithout
  <2>4. CASE Len(candidates[i].votes) # 1
    <3>1. ASSUME NEW j \in DOMAIN candidates[i].votes
          PROVE  RemoveAt(candidates[i].votes, j) \in SoundVotes
      BY <2>2, <2>4, WithdrawnSound DEF IInv
    <3> QED
      BY <2>1, <2>4, <3>1, ContainerWithVotes
  <2> QED
    BY <2>3, <2>4
<1>9. ASSUME UNCHANGED candidates
      PROVE  candidates' \in Seq(SoundBallots) /\ DistinctIds(candidates')
  BY <1>9 DEF IInv
<1> QED
  BY <1>6, <1>7, <1>8, <1>9 DEF Next, Direct, Register, ProposeAtOnce, Refuse, Restart, chain, vars

(* The invariant implies the safety properties of VotingTP.                *)
LEMMA IInvImplies == IInv => UniqueProposals /\ OneVoteEach /\ NothingDecidedWaits
<1> SUFFICES ASSUME IInv
             PROVE  UniqueProposals /\ OneVoteEach /\ NothingDecidedWaits
  OBVIOUS
<1>1. ASSUME NEW i \in DOMAIN candidates
      PROVE  /\ candidates[i].proposal_id = AddressOf[candidates[i].proposal]
             /\ candidates[i].votes \in SoundVotes
  BY SoundCandidate DEF IInv
<1>2. UniqueProposals
  BY <1>1 DEF UniqueProposals, IInv, DistinctIds
<1>3. OneVoteEach
  BY <1>1 DEF OneVoteEach, SoundVotes, OneVote
<1>4. NothingDecidedWaits
  BY <1>1 DEF NothingDecidedWaits, SoundVotes, Undecided
<1> QED
  BY <1>2, <1>3, <1>4

(* The invariant is one.                                                   *)
THEOREM Inductive == Spec => []IInv
<1>1. Init => IInv
  BY IInvInit
<1>2. IInv /\ [Next]_vars => IInv'
  BY IInvStep
<1> QED
  BY <1>1, <1>2, PTL DEF Spec

(* ACTION_PROPOSE, ACTION_VOTE and ACTION_UNSET never make two candidates  *)
(* with one id: the candidate that _first finds is the only one.           *)
THEOREM ProposalsUnique == Spec => []UniqueProposals
BY Inductive, IInvImplies, PTL

(* However transactions interleave and processors restart, every key has   *)
(* one vote per proposal at most, and only listed keys have one.           *)
THEOREM VotesSingle == Spec => []OneVoteEach
BY Inductive, IInvImplies, PTL

(* No proposal waits that has the votes to be approved or rejected, or no  *)
(* vote at all: the tally at each ACTION_VOTE settles what is decided, and *)
(* an ACTION_UNSET cannot decide anything.                                 *)
THEOREM DecisionsTaken == Spec => []NothingDecidedWaits
BY Inductive, IInvImplies, PTL
-------------------------------------------------------------------------------
(* What a list has besides what was taken out of it, or besides what was   *)
(* put at its end or in one place, stays as it is, in the same order.      *)
LEMMA RemovalInOrder ==
    ASSUME NEW S, NEW s \in Seq(S), NEW i \in DOMAIN s, NEW P \in SUBSET (DOMAIN s \ {i}),
           NEW Q \in SUBSET DOMAIN RemoveAt(s, i),
           \A j \in DOMAIN RemoveAt(s, i) : j \in Q <=> (IF j < i THEN j ELSE j + 1) \in P
    PROVE  InOrder(s, P, RemoveAt(s, i), Q)
<1> DEFINE rest == RemoveAt(s, i)
           f == [p \in P |-> IF p < i THEN p ELSE p - 1]
<1>1. i \in 1..Len(s) /\ Len(s) \in Nat /\ DOMAIN s = 1..Len(s)
  OBVIOUS
<1>2. /\ DOMAIN rest = 1..(Len(s) - 1)
      /\ \A j \in 1..(Len(s) - 1) : rest[j] = IF j < i THEN s[j] ELSE s[j + 1]
  BY <1>1, RemoveAtProperties
<1> HIDE DEF rest
<1>3. ASSUME NEW p \in P
      PROVE  f[p] \in Q /\ rest[f[p]] = s[p]
  <2>1. p \in 1..Len(s) /\ p # i
    BY <1>1
  <2>2. CASE p < i
    <3>1. f[p] = p /\ p \in 1..(Len(s) - 1)
      BY <1>1, <2>1, <2>2
    <3> QED
      BY <1>2, <2>2, <3>1 DEF rest
  <2>3. CASE ~(p < i)
    <3>1. f[p] = p - 1 /\ p - 1 \in 1..(Len(s) - 1) /\ ~(p - 1 < i) /\ (p - 1) + 1 = p
      BY <1>1, <2>1, <2>3
    <3> QED
      BY <1>2, <3>1 DEF rest
  <2> QED
    BY <2>2, <2>3
<1>4. ASSUME NEW q \in Q
      PROVE  \E p \in P : f[p] = q
  <2>1. q \in 1..(Len(s) - 1)
    BY <1>2 DEF rest
  <2>2. CASE q < i
    <3>1. q \in P /\ f[q] = q
      BY <1>2, <2>1, <2>2 DEF rest
    <3> QED
      BY <3>1
  <2>3. CASE ~(q < i)
    <3>1. q + 1 \in P
      BY <1>2, <2>1, <2>3 DEF rest
    <3>2. f[q + 1] = q
      BY <1>1, <2>1, <2>3, <3>1
    <3> QED
      BY <3>1, <3>2
  <2> QED
    BY <2>2, <2>3
<1>5. ASSUME NEW p \in P, NEW r \in P, p < r
      PROVE  f[p] < f[r]
  <2>1. p \in 1..Len(s) /\ r \in 1..Len(s) /\ p # i /\ r # i
    BY <1>1
  <2> QED
    BY <1>1, <1>5, <2>1
<1>6. f \in [P -> Q]
  BY <1>3
<1> HIDE DEF f
<1> QED
  BY <1>3, <1>4, <1>5, <1>6 DEF InOrder, rest

LEMMA SamePlacesInOrder ==
    ASSUME NEW old, NEW new, NEW P \in SUBSET Nat, \A p \in P : new[p] = old[p]
    PROVE  InOrder(old, P, new, P)
<1> DEFINE f == [p \in P |-> p]
<1>1. f \in [P -> P] /\ \A p \in P : f[p] = p
  OBVIOUS
<1> HIDE DEF f
<1> QED
  BY <1>1 DEF InOrder

(* The votes of the others after the signer has voted, or has taken back   *)
(* the vote.                                                               *)
LEMMA VotesAfterVote ==
    ASSUME NEW votes \in Votes, NEW v, v \in [public_key : Keys, vote : VoteValues]
    PROVE  InOrder(votes, VotesOfOthers(votes, v.public_key),
                   Append(votes, v), VotesOfOthers(Append(votes, v), v.public_key))
<1> DEFINE more == Append(votes, v)
           P == VotesOfOthers(votes, v.public_key)
<1>1. /\ DOMAIN votes = 1..Len(votes) /\ Len(votes) \in Nat
      /\ DOMAIN more = 1..(Len(votes) + 1)
      /\ more[Len(votes) + 1] = v
      /\ \A j \in 1..Len(votes) : more[j] = votes[j]
  BY DEF Votes
<1> HIDE DEF more
<1>2. VotesOfOthers(more, v.public_key) = P
  BY <1>1 DEF VotesOfOthers
<1>3. P \in SUBSET Nat /\ \A p \in P : more[p] = votes[p]
  BY <1>1 DEF VotesOfOthers
<1> HIDE DEF P
<1>4. InOrder(votes, P, more, P)
  BY <1>3, SamePlacesInOrder
<1> QED
  BY <1>2, <1>4 DEF more, P

LEMMA VotesAfterWithdrawal ==
    ASSUME NEW votes \in Votes, NEW j \in DOMAIN votes
    PROVE  InOrder(votes, VotesOfOthers(votes, votes[j].public_key),
                   RemoveAt(votes, j), VotesOfOthers(RemoveAt(votes, j), votes[j].public_key))
<1> DEFINE rest == RemoveAt(votes, j)
           P == VotesOfOthers(votes, votes[j].public_key)
           Q == VotesOfOthers(rest, votes[j].public_key)
<1>1. votes \in Seq([public_key : Keys, vote : VoteValues])
  BY DEF Votes
<1>2. P \in SUBSET (DOMAIN votes \ {j}) /\ Q \in SUBSET DOMAIN rest
  BY DEF VotesOfOthers
<1>3. /\ Len(votes) \in Nat /\ DOMAIN votes = 1..Len(votes) /\ j \in 1..Len(votes)
      /\ DOMAIN rest = 1..(Len(votes) - 1)
      /\ \A l \in 1..(Len(votes) - 1) : rest[l] = IF l < j THEN votes[l] ELSE votes[l + 1]
  BY <1>1, RemoveAtProperties
<1> HIDE DEF rest
<1>4. \A l \in DOMAIN rest : l \in Q <=> (IF l < j THEN l ELSE l + 1) \in P
  BY <1>3 DEF VotesOfOthers
<1> HIDE DEF P, Q
<1>5. InOrder(votes, P, RemoveAt(votes, j), Q)
  BY <1>1, <1>2, <1>4, RemovalInOrder DEF rest
<1> QED
  BY <1>5 DEF P, Q, rest

(* The other candidates after one was decided, or one was voted on.        *)
LEMMA CandidateLeaves ==
    ASSUME IInv, NEW key, NEW i \in DOMAIN candidates,
           candidates' = WithoutCandidate(candidates, i)
    PROVE  OthersStay(key, candidates[i].proposal_id)
<1> DEFINE id == candidates[i].proposal_id
           rest == WithoutCandidate(candidates, i)
           P == OtherCandidates(candidates, id)
           Q == OtherCandidates(rest, id)
<1>1. candidates \in Seq(SoundBallots) /\ DistinctIds(candidates)
  BY DEF IInv
<1>2. /\ Len(candidates) \in Nat /\ DOMAIN candidates = 1..Len(candidates)
      /\ i \in 1..Len(candidates)
      /\ DOMAIN rest = 1..(Len(candidates) - 1)
      /\ \A l \in 1..(Len(candidates) - 1) :
            rest[l] = IF l < i THEN candidates[l] ELSE candidates[l + 1]
  BY <1>1, RemoveAtProperties DEF WithoutCandidate
<1>3. P \in SUBSET (DOMAIN candidates \ {i}) /\ Q \in SUBSET DOMAIN rest
  BY DEF OtherCandidates
<1> HIDE DEF rest
<1>4. \A l \in DOMAIN rest : l \in Q <=> (IF l < i THEN l ELSE l + 1) \in P
  BY <1>2 DEF OtherCandidates
<1>5. \A l \in DOMAIN rest : rest[l].proposal_id # id
  <2> SUFFICES ASSUME NEW l \in DOMAIN rest
               PROVE  rest[l].proposal_id # id
    OBVIOUS
  <2>1. PICK m \in DOMAIN candidates : m # i /\ rest[l] = candidates[m]
    BY <1>2
  <2> QED
    BY <1>1, <2>1 DEF DistinctIds
<1> HIDE DEF P, Q
<1>6. InOrder(candidates, P, rest, Q)
  BY <1>1, <1>3, <1>4, RemovalInOrder DEF rest, WithoutCandidate
<1>7. candidates' = rest
  BY DEF rest
<1> QED
  BY <1>5, <1>6, <1>7 DEF OthersStay, P, Q

LEMMA CandidateVotedOn ==
    ASSUME IInv, NEW key, NEW i \in DOMAIN candidates, NEW votes \in Votes,
           InOrder(candidates[i].votes, VotesOfOthers(candidates[i].votes, key),
                   votes, VotesOfOthers(votes, key)),
           candidates' = WithVotes(candidates, i, votes)
    PROVE  OthersStay(key, candidates[i].proposal_id)
<1> DEFINE id == candidates[i].proposal_id
           ballot == [candidates[i] EXCEPT !.votes = votes]
           changed == WithVotes(candidates, i, votes)
           P == OtherCandidates(candidates, id)
<1>1. candidates \in Seq(SoundBallots) /\ DistinctIds(candidates)
  BY DEF IInv
<1>2. /\ ballot.proposal_id = id /\ ballot.proposal = candidates[i].proposal
      /\ ballot.votes = votes
  <2>1. candidates[i] \in Ballots
    BY <1>1, SoundCandidate
  <2> QED
    BY <2>1 DEF Ballots
<1> HIDE DEF ballot
<1>3. /\ changed[i] = ballot /\ DOMAIN changed = DOMAIN candidates
      /\ \A l \in DOMAIN candidates : l # i => changed[l] = candidates[l]
  BY DEF WithVotes, ballot
<1> HIDE DEF changed
<1>4. OtherCandidates(changed, id) = P
  BY <1>2, <1>3 DEF OtherCandidates
<1>5. P \in SUBSET Nat /\ \A p \in P : changed[p] = candidates[p]
  BY <1>1, <1>3 DEF OtherCandidates
<1> HIDE DEF P
<1>6. InOrder(candidates, P, changed, P)
  BY <1>5, SamePlacesInOrder
<1>7. ASSUME NEW l \in DOMAIN candidates, NEW m \in DOMAIN changed,
             candidates[l].proposal_id = id, changed[m].proposal_id = id
      PROVE  l = i /\ m = i
  <2>1. l = i
    BY <1>1, <1>7 DEF DistinctIds
  <2>2. m = i
    BY <1>1, <1>3, <1>7 DEF DistinctIds
  <2> QED
    BY <2>1, <2>2
<1>8. ASSUME NEW l \in DOMAIN candidates, NEW m \in DOMAIN changed,
             candidates[l].proposal_id = id, changed[m].proposal_id = id
      PROVE  /\ changed[m].proposal = candidates[l].proposal
             /\ InOrder(candidates[l].votes, VotesOfOthers(candidates[l].votes, key),
                        changed[m].votes, VotesOfOthers(changed[m].votes, key))
  <2>1. l = i /\ m = i
    BY <1>7, <1>8
  <2> QED
    BY <1>2, <1>3, <2>1
<1>9. candidates' = changed
  BY DEF changed
<1> QED
  BY <1>4, <1>6, <1>8, <1>9 DEF OthersStay, P

LEMMA VoteKeepsOthers ==
    ASSUME IInv, NEW key \in Keys, NEW id, NEW vote \in VoteValues, Vote(key, id, vote)
    PROVE  OthersStay(key, id)
<1>1. ASSUME NEW i \in DOMAIN candidates, MayVote(key, id, i)
      PROVE  candidates[i].proposal_id = id
  BY <1>1 DEF MayVote, IsFirst
<1>2. CASE VoteApproves(key, id, vote) \/ VoteRejects(key, id, vote)
  <2>1. PICK i \in DOMAIN candidates :
            MayVote(key, id, i) /\ candidates' = WithoutCandidate(candidates, i)
    BY <1>2 DEF VoteApproves, VoteRejects
  <2> QED
    BY <1>1, <2>1, CandidateLeaves
<1>3. CASE VoteRecorded(key, id, vote)
  <2>1. PICK i \in DOMAIN candidates :
            /\ MayVote(key, id, i)
            /\ candidates' = WithVotes(candidates, i, VotesWith(i, key, vote))
    BY <1>3 DEF VoteRecorded
  <2> DEFINE v == VoteRecord(key, vote)
  <2>2. v \in [public_key : Keys, vote : VoteValues] /\ v.public_key = key
    BY DEF VoteRecord
  <2>3. candidates[i].votes \in Votes
    BY SoundCandidate DEF IInv, SoundVotes
  <2>4. VotesWith(i, key, vote) = Append(candidates[i].votes, v)
    BY DEF VotesWith
  <2> HIDE DEF v
  <2>5. Append(candidates[i].votes, v) \in Votes
    BY <2>2, <2>3 DEF Votes
  <2>6. InOrder(candidates[i].votes, VotesOfOthers(candidates[i].votes, key),
                Append(candidates[i].votes, v),
                VotesOfOthers(Append(candidates[i].votes, v), key))
    BY <2>2, <2>3, VotesAfterVote
  <2> QED
    BY <1>1, <2>1, <2>4, <2>5, <2>6, CandidateVotedOn
<1> QED
  BY <1>2, <1>3 DEF Vote

LEMMA WithdrawalKeepsOthers ==
    ASSUME IInv, NEW key \in Keys, NEW id, Rescind(key, id)
    PROVE  OthersStay(key, id)
<1>1. PICK i \in DOMAIN candidates :
          /\ IsFirst(candidates, id, i)
          /\ \E j \in DOMAIN candidates[i].votes :
                /\ IsFirstBy(candidates[i].votes, key, j)
                /\ candidates' = IF Len(candidates[i].votes) = 1
                                   THEN WithoutCandidate(candidates, i)
                                   ELSE WithVotes(candidates, i, RemoveAt(candidates[i].votes, j))
  BY DEF Rescind
<1>2. PICK j \in DOMAIN candidates[i].votes :
          /\ IsFirstBy(candidates[i].votes, key, j)
          /\ candidates' = IF Len(candidates[i].votes) = 1
                             THEN WithoutCandidate(candidates, i)
                             ELSE WithVotes(candidates, i, RemoveAt(candidates[i].votes, j))
  BY <1>1
<1>3. candidates[i].proposal_id = id /\ candidates[i].votes[j].public_key = key
  BY <1>1, <1>2 DEF IsFirst, IsFirstBy
<1>4. candidates[i].votes \in Votes
  BY SoundCandidate DEF IInv, SoundVotes
<1>5. RemoveAt(candidates[i].votes, j) \in Votes
  <2>1. j \in 1..Len(candidates[i].votes)
    BY <1>4 DEF Votes
  <2> QED
    BY <1>4, <2>1, RemoveAtProperties DEF Votes
<1>6. InOrder(candidates[i].votes, VotesOfOthers(candidates[i].votes, key),
              RemoveAt(candidates[i].votes, j),
              VotesOfOthers(RemoveAt(candidates[i].votes, j), key))
  BY <1>3, <1>4, VotesAfterWithdrawal
<1>7. CASE Len(candidates[i].votes) = 1
  BY <1>2, <1>3, <1>7, CandidateLeaves
<1>8. CASE Len(candidates[i].votes) # 1
  BY <1>2, <1>3, <1>5, <1>6, <1>8, CandidateVotedOn
<1> QED
  BY <1>7, <1>8

(* ACTION_VOTE and ACTION_UNSET delete candidates and votes by positions,  *)
(* in lists that shift with every deletion: they always hit the signer's   *)
(* own vote and the candidate it is meant for, and nothing else.           *)
THEOREM OthersKeepTheirVotes == Spec => OnlyOwnVoteChanges
<1>1. IInv => \A key \in Keys, id \in Addresses :
          Rescind(key, id) \/ (\E vote \in VoteValues : Vote(key, id, vote)) => OthersStay(key, id)
  BY VoteKeepsOthers, WithdrawalKeepsOthers
<1> QED
  BY <1>1, Inductive, PTL DEF OnlyOwnVoteChanges
===============================================================================
