--------------------------- MODULE GovernanceProofs ---------------------------
(***************************************************************************)
(* What holds of Governance for any settings, keys, entries and addresses: *)
(* its types, a sound container, and that an UPDATE and the votes take at  *)
(* most one proposal out of it.  VotingTPProofs needs settings that stay   *)
(* what a CREATE made them; here they change at any time, and the handler  *)
(* may judge by settings that the chain never had, so the invariant speaks *)
(* of neither.                                                             *)
(***************************************************************************)
EXTENDS Governance, VotingTPProofs

(* The votes and the candidates that can wait under whatever settings.     *)
LastingVotes == {votes \in Votes : OneVote(votes) /\ votes # << >>}

LastingBallots ==
    {b \in Ballots : b.proposal_id = AddressOf[b.proposal] /\ b.votes \in LastingVotes}

(* The candidates are lasting ones and have different ids: inductive,      *)
(* where ContainerIsSound, which goes by positions, is not.                *)
LastingContainer ==
    /\ candidates \in Seq(LastingBallots)
    /\ DistinctIds(candidates)

GInv == GTypeOK /\ LastingContainer

(* A transaction of the setting family stores settings, and empties the    *)
(* container or leaves it.                                                 *)
LEMMA SettingActions ==
    /\ \A s : CreateSettings(s) =>
          settings' = s /\ candidates' = << >> /\ UNCHANGED << registry, cache, otherSettings >>
    /\ \A s : CreateOther(s) =>
          otherSettings' = s /\ candidates' = << >> /\ UNCHANGED << settings, registry, cache >>
    /\ \A s, key : UpdateSettings(key, s) =>
          settings' = s /\ UNCHANGED << candidates, registry, cache, otherSettings >>
BY DEF CreateSettings, CreateOther, UpdateSettings, Setting!Create, Setting!Update, Other!Create

(* The types hold before the genesis batch ...                             *)
LEMMA GTypeInit == GInit => GTypeOK
BY DEF GInit, GTypeOK, TypeOK

(* ... and every transaction of the two families keeps them.               *)
LEMMA GTypeStep == GTypeOK /\ [GNext]_governed => GTypeOK'
<1> SUFFICES ASSUME GTypeOK, [GNext]_governed
             PROVE  GTypeOK'
  OBVIOUS
<1> USE DEF GTypeOK
<1>1. CASE Next /\ UNCHANGED otherSettings
  BY <1>1, TypeStep
<1>2. CASE LoadDiscarded
  BY <1>2 DEF LoadDiscarded, TypeOK, chain
<1>3. ASSUME NEW s \in Settings, CreateSettings(s)
      PROVE  GTypeOK'
  <2>1. settings' = s /\ candidates' = << >> /\ UNCHANGED << registry, cache, otherSettings >>
    BY <1>3, SettingActions
  <2>2. candidates' \in Seq(Ballots)
    BY <2>1
  <2> QED
    BY <2>1, <2>2 DEF TypeOK
<1>4. ASSUME NEW s \in Settings, CreateOther(s)
      PROVE  GTypeOK'
  <2>1. otherSettings' = s /\ candidates' = << >> /\ UNCHANGED << settings, registry, cache >>
    BY <1>4, SettingActions
  <2>2. candidates' \in Seq(Ballots)
    BY <2>1
  <2> QED
    BY <2>1, <2>2 DEF TypeOK
<1>5. ASSUME NEW s \in Settings, NEW key \in Keys, UpdateSettings(key, s)
      PROVE  GTypeOK'
  BY <1>5, SettingActions DEF TypeOK
<1>6. CASE UNCHANGED governed
  BY <1>6 DEF governed, TypeOK
<1> QED
  BY <1>1, <1>2, <1>3, <1>4, <1>5, <1>6 DEF GNext
-------------------------------------------------------------------------------
(* What stands in a container of lasting candidates.                       *)
LEMMA LastingCandidate ==
    ASSUME LastingContainer, NEW i \in DOMAIN candidates
    PROVE  /\ candidates[i] \in Ballots
           /\ candidates[i].proposal_id = AddressOf[candidates[i].proposal]
           /\ candidates[i].votes \in LastingVotes
<1>1. candidates[i] \in LastingBallots
  BY DEF LastingContainer
<1> QED
  BY <1>1 DEF LastingBallots

(* The proposer's own vote, one more voter's, and what a withdrawal leaves *)
(* are lasting votes.                                                      *)
LEMMA FirstVoteLasts ==
    ASSUME NEW key \in Keys
    PROVE  << VoteRecord(key, ACCEPT) >> \in LastingVotes
<1> DEFINE vote  == VoteRecord(key, ACCEPT)
           votes == << vote >>
<1>1. vote \in [public_key : Keys, vote : VoteValues]
  BY DEF VoteRecord, VoteValues
<1> HIDE DEF vote
<1>2. votes \in Votes /\ DOMAIN votes = {1} /\ votes # << >>
  BY <1>1 DEF Votes
<1> QED
  BY <1>2 DEF LastingVotes, OneVote, votes, vote

LEMMA VoteLasts ==
    ASSUME NEW votes \in LastingVotes, NEW key \in Keys, key \notin Voters(votes),
           NEW vote \in VoteValues
    PROVE  Append(votes, VoteRecord(key, vote)) \in LastingVotes
<1> DEFINE R == [public_key : Keys, vote : VoteValues]
           v == VoteRecord(key, vote)
<1>1. v \in R /\ v.public_key = key
  BY DEF VoteRecord
<1>2. votes \in Seq(R) /\ OneVote(votes)
  BY DEF LastingVotes, Votes
<1> HIDE DEF v, R
<1>3. Append(votes, v) \in Seq(R) /\ Append(votes, v) # << >>
  BY <1>1, <1>2
<1>4. OneVote(Append(votes, v))
  BY <1>1, <1>2, OneVoteAppend
<1> QED
  BY <1>3, <1>4 DEF LastingVotes, Votes, v, R

LEMMA WithdrawalLasts ==
    ASSUME NEW votes \in LastingVotes, NEW j \in DOMAIN votes, Len(votes) # 1
    PROVE  RemoveAt(votes, j) \in LastingVotes
<1>1. votes \in Seq([public_key : Keys, vote : VoteValues]) /\ OneVote(votes)
  BY DEF LastingVotes, Votes
<1>2. j \in 1..Len(votes)
  BY <1>1
<1>3. /\ RemoveAt(votes, j) \in Seq([public_key : Keys, vote : VoteValues])
      /\ Len(RemoveAt(votes, j)) = Len(votes) - 1
  BY <1>1, <1>2, RemoveAtProperties
<1>4. OneVote(RemoveAt(votes, j))
  BY <1>1, <1>2, OneVoteRemoveAt
<1>5. RemoveAt(votes, j) # << >>
  BY <1>2, <1>3
<1> QED
  BY <1>3, <1>4, <1>5 DEF LastingVotes, Votes

(* The three changes that the handler makes to the container.              *)
LEMMA LastsWithProposal ==
    ASSUME LastingContainer, NEW key \in Keys, NEW entry \in Entries,
           ~Proposed(candidates, AddressOf[entry])
    PROVE  /\ WithProposal(candidates, AddressOf[entry], entry, key) \in Seq(LastingBallots)
           /\ DistinctIds(WithProposal(candidates, AddressOf[entry], entry, key))
<1> DEFINE ballot == [proposal_id |-> AddressOf[entry], proposal |-> entry,
                      votes |-> << VoteRecord(key, ACCEPT) >>]
<1>1. << VoteRecord(key, ACCEPT) >> \in LastingVotes
  BY FirstVoteLasts
<1>2. ballot \in LastingBallots /\ ballot.proposal_id = AddressOf[entry]
  BY <1>1, EntriesAssumption DEF LastingBallots, Ballots, LastingVotes, Votes
<1>3. WithProposal(candidates, AddressOf[entry], entry, key) = Append(candidates, ballot)
  BY DEF WithProposal
<1> HIDE DEF ballot
<1>4. candidates \in Seq(LastingBallots) /\ DistinctIds(candidates)
  BY DEF LastingContainer
<1>5. Append(candidates, ballot) \in Seq(LastingBallots)
  BY <1>2, <1>4
<1>6. DistinctIds(Append(candidates, ballot))
  BY <1>2, <1>4, DistinctIdsAppend
<1> QED
  BY <1>3, <1>5, <1>6

LEMMA LastsWithVotes ==
    ASSUME LastingContainer, NEW i \in DOMAIN candidates, NEW votes \in LastingVotes
    PROVE  /\ WithVotes(candidates, i, votes) \in Seq(LastingBallots)
           /\ DistinctIds(WithVotes(candidates, i, votes))
<1> DEFINE ballot == [candidates[i] EXCEPT !.votes = votes]
<1>1. ballot \in LastingBallots
  <2>1. /\ candidates[i] \in Ballots
        /\ candidates[i].proposal_id = AddressOf[candidates[i].proposal]
    BY LastingCandidate
  <2>2. votes \in Seq([public_key : Keys, vote : VoteValues])
    BY DEF LastingVotes, Votes
  <2>3. /\ ballot \in Ballots
        /\ ballot.proposal_id = candidates[i].proposal_id
        /\ ballot.proposal = candidates[i].proposal
        /\ ballot.votes = votes
    BY <2>1, <2>2 DEF Ballots
  <2> QED
    BY <2>1, <2>3 DEF LastingBallots
<1>2. WithVotes(candidates, i, votes) = [candidates EXCEPT ![i] = ballot]
  BY DEF WithVotes
<1> HIDE DEF ballot
<1>3. candidates \in Seq(LastingBallots) /\ DistinctIds(candidates)
  BY DEF LastingContainer
<1>4. WithVotes(candidates, i, votes) \in Seq(LastingBallots)
  BY <1>1, <1>2, <1>3
<1>5. DistinctIds(WithVotes(candidates, i, votes))
  <2>1. LastingBallots \subseteq [proposal_id : Addresses, proposal : Entries, votes : Votes]
    BY DEF LastingBallots, Ballots, Votes
  <2>2. candidates \in Seq([proposal_id : Addresses, proposal : Entries, votes : Votes])
    <3> DEFINE R == [proposal_id : Addresses, proposal : Entries, votes : Votes]
    <3>1. LastingBallots \subseteq R
      BY <2>1
    <3> HIDE DEF R
    <3>2. candidates \in Seq(R)
      BY <1>3, <3>1
    <3> QED
      BY <3>2 DEF R
  <2>3. votes \in Votes
    BY DEF LastingVotes
  <2> QED
    BY <1>3, <2>2, <2>3, DistinctIdsWithVotes
<1> QED
  BY <1>4, <1>5

LEMMA LastsWithout ==
    ASSUME LastingContainer, NEW i \in DOMAIN candidates
    PROVE  /\ WithoutCandidate(candidates, i) \in Seq(LastingBallots)
           /\ DistinctIds(WithoutCandidate(candidates, i))
<1>1. candidates \in Seq(LastingBallots) /\ DistinctIds(candidates)
  BY DEF LastingContainer
<1>2. i \in 1..Len(candidates)
  BY <1>1
<1>3. WithoutCandidate(candidates, i) \in Seq(LastingBallots)
  BY <1>1, <1>2, RemoveAtProperties DEF WithoutCandidate
<1>4. DistinctIds(WithoutCandidate(candidates, i))
  BY <1>1, <1>2, DistinctIdsWithout
<1> QED
  BY <1>3, <1>4
-------------------------------------------------------------------------------
(* What a transaction of the family can do to the container: a proposal    *)
(* more, lasting votes for a candidate, a candidate less, or nothing.      *)
LEMMA ContainerChanges ==
    ASSUME LastingContainer, Next
    PROVE  \/ \E key \in Keys, entry \in Entries :
                 /\ ~Proposed(candidates, AddressOf[entry])
                 /\ candidates' = WithProposal(candidates, AddressOf[entry], entry, key)
           \/ \E i \in DOMAIN candidates, votes \in LastingVotes :
                 candidates' = WithVotes(candidates, i, votes)
           \/ \E i \in DOMAIN candidates : candidates' = WithoutCandidate(candidates, i)
           \/ candidates' = candidates
<1> DEFINE Changed ==
        \/ \E i \in DOMAIN candidates, votes \in LastingVotes :
              candidates' = WithVotes(candidates, i, votes)
        \/ \E i \in DOMAIN candidates : candidates' = WithoutCandidate(candidates, i)
<1>1. ASSUME NEW key \in Keys, NEW entry \in Entries, Propose(key, entry)
      PROVE  /\ ~Proposed(candidates, AddressOf[entry])
             /\ candidates' = WithProposal(candidates, AddressOf[entry], entry, key)
  BY <1>1 DEF Propose
<1>2. ASSUME NEW key \in Keys, NEW id \in Addresses, NEW vote \in VoteValues, Vote(key, id, vote)
      PROVE  Changed
  <2>1. CASE VoteApproves(key, id, vote)
    BY <2>1 DEF VoteApproves
  <2>2. CASE VoteRejects(key, id, vote)
    BY <2>2 DEF VoteRejects
  <2>3. CASE VoteRecorded(key, id, vote)
    <3>1. PICK i \in DOMAIN candidates :
             /\ key \notin Voters(candidates[i].votes)
             /\ candidates' = WithVotes(candidates, i, VotesWith(i, key, vote))
      BY <2>3 DEF VoteRecorded, MayVote
    <3>2. VotesWith(i, key, vote) \in LastingVotes
      BY <3>1, LastingCandidate, VoteLasts DEF VotesWith
    <3> QED
      BY <3>1, <3>2
  <2> QED
    BY <1>2, <2>1, <2>2, <2>3 DEF Vote
<1>3. ASSUME NEW key \in Keys, NEW id \in Addresses, Rescind(key, id)
      PROVE  Changed
  <2>1. PICK i \in DOMAIN candidates :
           \E j \in DOMAIN candidates[i].votes :
              candidates' = IF Len(candidates[i].votes) = 1
                              THEN WithoutCandidate(candidates, i)
                              ELSE WithVotes(candidates, i, RemoveAt(candidates[i].votes, j))
    BY <1>3 DEF Rescind
  <2>2. CASE Len(candidates[i].votes) = 1
    BY <2>1, <2>2
  <2>3. CASE Len(candidates[i].votes) # 1
    <3>1. ASSUME NEW j \in DOMAIN candidates[i].votes
          PROVE  RemoveAt(candidates[i].votes, j) \in LastingVotes
      BY <2>3, LastingCandidate, WithdrawalLasts
    <3> QED
      BY <2>1, <2>3, <3>1
  <2> QED
    BY <2>2, <2>3
<1>4. ASSUME NEW key \in Keys, NEW entry \in Entries, Direct(key, entry)
      PROVE  candidates' = candidates
  BY <1>4 DEF Direct, Register, ProposeAtOnce
<1>5. Refuse \/ Restart => candidates' = candidates
  BY DEF Refuse, Restart, chain
<1> QED
  BY <1>1, <1>2, <1>3, <1>4, <1>5 DEF Next

(* Every transaction of the two families keeps the container lasting.      *)
LEMMA LastingStep ==
    LastingContainer /\ [GNext]_governed => LastingContainer'
<1> SUFFICES ASSUME LastingContainer, [GNext]_governed
             PROVE  candidates' \in Seq(LastingBallots) /\ DistinctIds(candidates')
  BY DEF LastingContainer
<1>1. CASE candidates' = candidates
  BY <1>1 DEF LastingContainer
<1>2. CASE candidates' = << >>
  BY <1>2 DEF DistinctIds
<1>3. CASE Next
  BY <1>1, <1>3, ContainerChanges, LastsWithProposal, LastsWithVotes, LastsWithout
<1>4. Next \/ candidates' = candidates \/ candidates' = << >>
  BY SettingActions DEF GNext, LoadDiscarded, chain, governed
<1> QED
  BY <1>1, <1>2, <1>3, <1>4
-------------------------------------------------------------------------------
(* The invariant implies the soundness of the container.                   *)
LEMMA GInvImplies == GInv => ContainerIsSound
<1> SUFFICES ASSUME LastingContainer
             PROVE  ContainerIsSound
  BY DEF GInv
<1>1. ASSUME NEW i \in DOMAIN candidates
      PROVE  /\ candidates[i].proposal_id = AddressOf[candidates[i].proposal]
             /\ candidates[i].votes # << >>
             /\ OneVote(candidates[i].votes)
  BY LastingCandidate DEF LastingVotes
<1>2. UniqueProposals
  BY <1>1 DEF UniqueProposals, LastingContainer, DistinctIds
<1> QED
  BY <1>1, <1>2 DEF ContainerIsSound, OneVote

(* The invariant is one.                                                   *)
THEOREM GInductive == GSpec => []GInv
<1>1. GInit => GInv
  BY GTypeInit DEF GInit, GInv, LastingContainer, DistinctIds
<1>2. GInv /\ [GNext]_governed => GInv'
  BY GTypeStep, LastingStep DEF GInv
<1> QED
  BY <1>1, <1>2, PTL DEF GSpec

(* The chain and the handler are well typed, whatever the setting family   *)
(* accepts meanwhile and whatever block the handler reads its settings in. *)
THEOREM GTypeCorrect == GSpec => []GTypeOK
BY GInductive, PTL DEF GInv

(* However the settings change under the proposals that wait, a proposal   *)
(* id names one candidate and every key has one vote on it.                *)
THEOREM ContainerSound == GSpec => []ContainerIsSound
BY GInductive, GInvImplies, PTL
-------------------------------------------------------------------------------
(* A list keeps its ids when it gets one more, or other votes; when it     *)
(* gets one less, the ids it loses are those of this one.                  *)
LEMMA IdsWithProposal ==
    ASSUME NEW S, NEW list \in Seq(S), NEW id, NEW entry, NEW key
    PROVE  ProposalIds(list) \subseteq ProposalIds(WithProposal(list, id, entry, key))
<1> DEFINE ballot == [proposal_id |-> id, proposal |-> entry,
                      votes |-> << VoteRecord(key, ACCEPT) >>]
           longer == Append(list, ballot)
<1>1. /\ DOMAIN list \subseteq DOMAIN longer
      /\ \A i \in DOMAIN list : longer[i] = list[i]
  OBVIOUS
<1>2. WithProposal(list, id, entry, key) = longer
  BY DEF WithProposal
<1> HIDE DEF longer
<1> QED
  BY <1>1, <1>2 DEF ProposalIds

LEMMA IdsWithVotes ==
    ASSUME NEW list \in Seq(Ballots), NEW i \in DOMAIN list, NEW votes \in Votes
    PROVE  ProposalIds(list) \subseteq ProposalIds(WithVotes(list, i, votes))
<1>1. DOMAIN WithVotes(list, i, votes) = DOMAIN list
  BY DEF WithVotes
<1>2. ASSUME NEW l \in DOMAIN list
      PROVE  WithVotes(list, i, votes)[l].proposal_id = list[l].proposal_id
  <2>1. list[l] \in Ballots
    OBVIOUS
  <2> QED
    BY <2>1 DEF WithVotes, Ballots
<1> QED
  BY <1>1, <1>2 DEF ProposalIds

LEMMA IdsWithout ==
    ASSUME NEW S, NEW list \in Seq(S), NEW i \in DOMAIN list
    PROVE  ProposalIds(list) \ ProposalIds(WithoutCandidate(list, i))
             \subseteq {list[i].proposal_id}
<1> DEFINE shorter == RemoveAt(list, i)
<1>1. i \in 1..Len(list) /\ DOMAIN list = 1..Len(list)
  OBVIOUS
<1>2. /\ shorter \in Seq(S)
      /\ Len(shorter) = Len(list) - 1
      /\ \A j \in 1..(Len(list) - 1) : shorter[j] = IF j < i THEN list[j] ELSE list[j + 1]
  BY <1>1, RemoveAtProperties
<1>3. WithoutCandidate(list, i) = shorter
  BY DEF WithoutCandidate
<1> HIDE DEF shorter
<1>4. ASSUME NEW l \in DOMAIN list, l # i
      PROVE  list[l].proposal_id \in ProposalIds(shorter)
  <2>1. CASE l < i
    <3>1. l \in DOMAIN shorter /\ shorter[l] = list[l]
      BY <1>1, <1>2, <2>1
    <3> QED
      BY <3>1 DEF ProposalIds
  <2>2. CASE l > i
    <3>1. l - 1 \in DOMAIN shorter /\ shorter[l - 1] = list[l]
      BY <1>1, <1>2, <2>2
    <3> QED
      BY <3>1 DEF ProposalIds
  <2> QED
    BY <1>1, <1>4, <2>1, <2>2
<1> QED
  BY <1>3, <1>4 DEF ProposalIds

(* So a transaction of the family takes one id out of the container at     *)
(* most.                                                                   *)
LEMMA OneIdGoes ==
    ASSUME GInv, Next
    PROVE  \E id : ProposalIds(candidates) \ ProposalIds(candidates') \subseteq {id}
<1>1. candidates \in Seq(Ballots)
  BY DEF GInv, GTypeOK, TypeOK
<1>2. LastingVotes \subseteq Votes
  BY DEF LastingVotes
<1>3. LastingContainer
  BY DEF GInv
<1>4. ASSUME ProposalIds(candidates) \subseteq ProposalIds(candidates')
      PROVE  \E id : ProposalIds(candidates) \ ProposalIds(candidates') \subseteq {id}
  BY <1>4
<1>5. ASSUME NEW i \in DOMAIN candidates, candidates' = WithoutCandidate(candidates, i)
      PROVE  \E id : ProposalIds(candidates) \ ProposalIds(candidates') \subseteq {id}
  BY <1>1, <1>5, IdsWithout
<1>6. ASSUME NEW key \in Keys, NEW entry \in Entries,
             candidates' = WithProposal(candidates, AddressOf[entry], entry, key)
      PROVE  ProposalIds(candidates) \subseteq ProposalIds(candidates')
  BY <1>1, <1>6, IdsWithProposal
<1>7. ASSUME NEW i \in DOMAIN candidates, NEW votes \in LastingVotes,
             candidates' = WithVotes(candidates, i, votes)
      PROVE  ProposalIds(candidates) \subseteq ProposalIds(candidates')
  BY <1>1, <1>2, <1>7, IdsWithVotes
<1> QED
  BY <1>3, <1>4, <1>5, <1>6, <1>7, ContainerChanges

(* ProposalsLeaveAlone, as a step.                                         *)
LeavesAlone ==
    \/ Cardinality(ProposalIds(candidates) \ ProposalIds(candidates')) <= 1
    \/ Setting!AuthList(settings) = << >>
    \/ otherSettings' # otherSettings

LEMMA AtMostOne ==
    ASSUME NEW S, NEW x, S \subseteq {x}
    PROVE  Cardinality(S) <= 1
<1>1. IsFiniteSet({x}) /\ Cardinality({x}) = 1
  BY FS_Singleton
<1>2. Cardinality(S) <= Cardinality({x})
  BY <1>1, FS_Subset
<1> QED
  BY <1>1, <1>2

LEMMA LeavesAloneStep == GInv /\ [GNext]_governed => [LeavesAlone]_governed
<1> SUFFICES ASSUME GInv, GNext
             PROVE  LeavesAlone
  OBVIOUS
<1>1. ASSUME candidates' = candidates
      PROVE  LeavesAlone
  <2>1. ProposalIds(candidates) \ ProposalIds(candidates') \subseteq {0}
    BY <1>1
  <2> QED
    BY <2>1, AtMostOne DEF LeavesAlone
<1>2. CASE Next
  BY <1>2, OneIdGoes, AtMostOne DEF LeavesAlone
<1>3. CASE LoadDiscarded
  BY <1>1, <1>3 DEF LoadDiscarded, chain
<1>4. ASSUME NEW s \in Settings, CreateSettings(s)
      PROVE  LeavesAlone
  BY <1>4 DEF CreateSettings, Setting!Create, LeavesAlone
<1>5. ASSUME NEW s \in Settings, CreateOther(s)
      PROVE  LeavesAlone
  <2>1. Other!AuthList(otherSettings) = << >> /\ Other!Creatable(s) /\ otherSettings' = s
    BY <1>5 DEF CreateOther, Other!Create
  <2>2. s.auth_list # NoAuthList /\ s # NoSettings
    BY <2>1, NoSettingsAssumption DEF Other!Creatable
  <2>3. s.auth_list # << >>
    <3>1. s.threshold \in Int /\ s.threshold > 0 /\ s.threshold <= Len(s.auth_list)
      BY <2>1, SettingsAssumption DEF Other!Creatable, Settings
    <3> QED
      BY <3>1
  <2>4. otherSettings' # otherSettings
    BY <2>1, <2>2, <2>3 DEF Other!AuthList
  <2> QED
    BY <2>4 DEF LeavesAlone
<1>6. ASSUME NEW s \in Settings, NEW key \in Keys, UpdateSettings(key, s)
      PROVE  LeavesAlone
  BY <1>1, <1>6, SettingActions
<1> QED
  BY <1>2, <1>3, <1>4, <1>5, <1>6 DEF GNext

(* An UPDATE keeps the proposals that wait, and a vote, a withdrawal or a  *)
(* registration takes one of them out at most: more than one goes only     *)
(* when a CREATE empties the container.                                    *)
THEOREM ProposalsLeftAlone == GSpec => ProposalsLeaveAlone
<1>1. GInv /\ [GNext]_governed => [LeavesAlone]_governed
  BY LeavesAloneStep
<1> QED
  BY <1>1, GInductive, PTL DEF GSpec, ProposalsLeaveAlone, LeavesAlone
-------------------------------------------------------------------------------
(* Where a container of lasting candidates has an id, it is this candidate.*)
LEMMA TheCandidate ==
    ASSUME LastingContainer, NEW i \in DOMAIN candidates, NEW l \in DOMAIN candidates,
           candidates[i].proposal_id = candidates[l].proposal_id
    PROVE  i = l
BY DEF LastingContainer, DistinctIds

(* What the container holds after a candidate left stood in it before.     *)
LEMMA StoodBefore ==
    ASSUME NEW S, NEW list \in Seq(S), NEW k \in DOMAIN list,
           NEW j \in DOMAIN WithoutCandidate(list, k)
    PROVE  \E l \in DOMAIN list : WithoutCandidate(list, k)[j] = list[l]
<1> DEFINE shorter == RemoveAt(list, k)
<1>1. k \in 1..Len(list) /\ DOMAIN list = 1..Len(list)
  OBVIOUS
<1>2. /\ shorter \in Seq(S)
      /\ Len(shorter) = Len(list) - 1
      /\ \A m \in 1..(Len(list) - 1) : shorter[m] = IF m < k THEN list[m] ELSE list[m + 1]
  BY <1>1, RemoveAtProperties
<1>3. WithoutCandidate(list, k) = shorter
  BY DEF WithoutCandidate
<1> HIDE DEF shorter
<1>4. j \in 1..(Len(list) - 1)
  BY <1>2, <1>3
<1>5. j \in DOMAIN list /\ j + 1 \in DOMAIN list
  BY <1>1, <1>4
<1> QED
  BY <1>2, <1>3, <1>4, <1>5

(* QuorumSettles, as a step.                                               *)
Settles ==
    HasThreshold(cache') =>
        \A i \in DOMAIN candidates, j \in DOMAIN candidates', value \in {ACCEPT, REJECT} :
            /\ candidates[i].proposal_id = candidates'[j].proposal_id
            /\ Tally(candidates'[j].votes, value) >= cache'.threshold
            => Tally(candidates[i].votes, value) >= cache'.threshold

(* Only a vote adds to a tally, and the handler has counted it when it     *)
(* leaves the candidate in the container; a withdrawal takes from one.     *)
LEMMA SettlesStep == GInv /\ [GNext]_governed => [Settles]_governed
<1> SUFFICES ASSUME GInv, GNext, HasThreshold(cache'),
                    NEW i \in DOMAIN candidates, NEW j \in DOMAIN candidates',
                    NEW value \in {ACCEPT, REJECT},
                    candidates[i].proposal_id = candidates'[j].proposal_id,
                    Tally(candidates'[j].votes, value) >= cache'.threshold
             PROVE  Tally(candidates[i].votes, value) >= cache'.threshold
  BY DEF Settles
<1> DEFINE Goal == Tally(candidates[i].votes, value) >= cache'.threshold
<1>1. LastingContainer /\ candidates \in Seq(Ballots)
  BY DEF GInv, GTypeOK, TypeOK
<1>2. ASSUME NEW l \in DOMAIN candidates, candidates'[j] = candidates[l]
      PROVE  Goal
  BY <1>1, <1>2, TheCandidate
<1>3. ASSUME candidates' = candidates
      PROVE  Goal
  BY <1>2, <1>3
<1>4. ASSUME NEW k \in DOMAIN candidates, candidates' = WithoutCandidate(candidates, k)
      PROVE  Goal
  BY <1>1, <1>2, <1>4, StoodBefore
<1>5. ASSUME NEW k \in DOMAIN candidates, NEW votes \in Votes,
             candidates' = WithVotes(candidates, k, votes),
             Tally(votes, value) >= cache'.threshold => Tally(candidates[k].votes, value) >= cache'.threshold
      PROVE  Goal
  <2>1. CASE j # k
    <3>1. j \in DOMAIN candidates /\ candidates'[j] = candidates[j]
      BY <1>5, <2>1 DEF WithVotes
    <3> QED
      BY <1>2, <3>1
  <2>2. CASE j = k
    <3>1. candidates[k] \in Ballots
      BY <1>1
    <3>2. /\ candidates'[j].votes = votes
          /\ candidates'[j].proposal_id = candidates[k].proposal_id
      BY <1>5, <2>2, <3>1 DEF WithVotes, Ballots
    <3>3. i = k
      BY <1>1, <3>2, TheCandidate
    <3> QED
      BY <1>5, <3>2, <3>3
  <2> QED
    BY <2>1, <2>2
<1>6. ASSUME NEW key \in Keys, NEW entry \in Entries, Propose(key, entry)
      PROVE  Goal
  <2> DEFINE ballot == [proposal_id |-> AddressOf[entry], proposal |-> entry,
                        votes |-> << VoteRecord(key, ACCEPT) >>]
  <2>1. ~Proposed(candidates, AddressOf[entry]) /\ candidates' = Append(candidates, ballot)
    BY <1>6 DEF Propose, WithProposal
  <2>2. ballot.proposal_id = AddressOf[entry]
    OBVIOUS
  <2> HIDE DEF ballot
  <2>3. j \in DOMAIN candidates \/ candidates'[j] = ballot
    BY <1>1, <2>1
  <2>4. candidates'[j] # ballot
    BY <2>1, <2>2 DEF Proposed
  <2>5. j \in DOMAIN candidates /\ candidates'[j] = candidates[j]
    BY <1>1, <2>1, <2>3, <2>4
  <2> QED
    BY <1>2, <2>5
<1>7. ASSUME NEW key \in Keys, NEW id \in Addresses, NEW vote \in VoteValues,
             VoteRecorded(key, id, vote)
      PROVE  Goal
  <2>1. PICK k \in DOMAIN candidates :
           /\ ~Accepted(VotesWith(k, key, vote))
           /\ ~Rejected(VotesWith(k, key, vote))
           /\ candidates' = WithVotes(candidates, k, VotesWith(k, key, vote))
           /\ cache' = InForce
    BY <1>7 DEF VoteRecorded, LoadSettings
  <2>2. VotesWith(k, key, vote) \in Votes
    BY VotesWithType DEF GInv, GTypeOK
  <2>3. ~(Tally(VotesWith(k, key, vote), value) >= cache'.threshold)
    BY <2>1 DEF Accepted, Rejected
  <2> QED
    BY <1>5, <2>1, <2>2, <2>3
<1>8. ASSUME NEW key \in Keys, NEW id \in Addresses, Rescind(key, id)
      PROVE  Goal
  <2>1. PICK k \in DOMAIN candidates :
           \E m \in DOMAIN candidates[k].votes :
              candidates' = IF Len(candidates[k].votes) = 1
                              THEN WithoutCandidate(candidates, k)
                              ELSE WithVotes(candidates, k, RemoveAt(candidates[k].votes, m))
    BY <1>8 DEF Rescind
  <2>2. CASE Len(candidates[k].votes) = 1
    BY <1>4, <2>1, <2>2
  <2>3. CASE Len(candidates[k].votes) # 1
    <3>1. PICK m \in DOMAIN candidates[k].votes :
             candidates' = WithVotes(candidates, k, RemoveAt(candidates[k].votes, m))
      BY <2>1, <2>3
    <3> DEFINE old  == candidates[k].votes
               rest == RemoveAt(old, m)
    <3>2. old \in Seq([public_key : Keys, vote : VoteValues])
      BY <1>1, CandidateType DEF Votes
    <3>3. candidates' = WithVotes(candidates, k, rest) /\ m \in 1..Len(old)
      BY <3>1, <3>2
    <3> HIDE DEF old
    <3>4. rest \in Seq([public_key : Keys, vote : VoteValues])
      BY <3>2, <3>3, RemoveAtProperties
    <3>5. Tally(rest, value) <= Tally(old, value)
      BY <3>2, <3>3, TallyRemoveAt
    <3> HIDE DEF rest
    <3>6. Tally(rest, value) \in Int /\ Tally(old, value) \in Int
      BY <3>2, <3>4, PositionsFinite
    <3>7. cache'.threshold \in Int
      BY GTypeStep, SettingsAssumption DEF GInv, GTypeOK, TypeOK, Settings, HasThreshold
    <3>8. Tally(rest, value) >= cache'.threshold => Tally(old, value) >= cache'.threshold
      BY <3>5, <3>6, <3>7
    <3> QED
      BY <1>5, <3>3, <3>4, <3>8 DEF Votes, old
  <2> QED
    BY <2>2, <2>3
<1>9. ASSUME NEW key \in Keys, NEW id \in Addresses, NEW vote \in VoteValues, Vote(key, id, vote)
      PROVE  Goal
  BY <1>4, <1>7, <1>9 DEF Vote, VoteApproves, VoteRejects
<1>10. CASE Next
  BY <1>3, <1>6, <1>8, <1>9, <1>10 DEF Next, Direct, Register, ProposeAtOnce, Refuse, Restart, chain
<1>11. CASE LoadDiscarded
  BY <1>3, <1>11 DEF LoadDiscarded, chain
<1>12. CASE candidates' = << >>
  BY <1>12
<1>13. Next \/ LoadDiscarded \/ candidates' = candidates \/ candidates' = << >>
  BY SettingActions DEF GNext
<1> QED
  BY <1>3, <1>10, <1>11, <1>12, <1>13

(* Whatever settings the handler goes by, the vote that completes their    *)
(* threshold settles the proposal: no transaction leaves a proposal in the *)
(* container with a tally that reached it just now.                        *)
THEOREM QuorumsSettle == GSpec => QuorumSettles
<1>1. GInv /\ [GNext]_governed => [Settles]_governed
  BY SettlesStep
<1> QED
  BY <1>1, GInductive, PTL DEF GSpec, QuorumSettles, Settles
===============================================================================
