----------------------------- MODULE QuorumProofs -----------------------------
(***************************************************************************)
(* VotingTP implements QuorumRegistry, for any keys, lists, thresholds,    *)
(* entries and addresses: what the handler counts are positions in a list  *)
(* of votes, and what it promises is about sets of electors.               *)
(***************************************************************************)
EXTENDS VotingTPProofs

(* As many keys have cast a vote of one value as the tally says, because   *)
(* no key has two.                                                         *)
LEMMA VotersCounted ==
    ASSUME NEW votes \in Votes, OneVote(votes), NEW value
    PROVE  /\ IsFiniteSet(VotersFor(votes, value))
           /\ Cardinality(VotersFor(votes, value)) = Tally(votes, value)
           /\ Tally(votes, value) \in Nat
<1> DEFINE voter == [j \in Positions(votes, value) |-> votes[j].public_key]
<1>1. /\ IsFiniteSet(Positions(votes, value))
      /\ Tally(votes, value) = Cardinality(Positions(votes, value))
      /\ Tally(votes, value) \in Nat
  BY PositionsFinite DEF Votes
<1>2. VotersFor(votes, value) = {votes[j].public_key : j \in Positions(votes, value)}
  BY DEF VotersFor, Positions
<1>3. voter \in Surjection(Positions(votes, value), VotersFor(votes, value))
  BY <1>2 DEF Surjection
<1>4. voter \in Injection(Positions(votes, value), VotersFor(votes, value))
  BY <1>2 DEF Injection, IsInjective, OneVote, Positions
<1> HIDE DEF voter
<1> QED
  BY <1>1, <1>3, <1>4, FS_Surjection

(* The three kinds of voters are all of them, and none is of two kinds.    *)
LEMMA VotersSplit ==
    ASSUME NEW votes \in Votes
    PROVE  /\ Voters(votes) = VotersFor(votes, ACCEPT) \cup VotersFor(votes, REJECT)
                                \cup VotersFor(votes, UNSET)
           /\ OneVote(votes) => VotersFor(votes, ACCEPT) \cap VotersFor(votes, REJECT) = {}
<1>1. ASSUME NEW j \in DOMAIN votes
      PROVE  votes[j].vote \in VoteValues
  <2> DEFINE R == [public_key : Keys, vote : VoteValues]
  <2>1. \A v \in R : v.vote \in VoteValues
    OBVIOUS
  <2>2. votes \in Seq(R)
    BY DEF Votes
  <2> HIDE DEF R
  <2>3. votes[j] \in R
    BY <2>2
  <2> QED
    BY <2>1, <2>3
<1>2. Voters(votes) = VotersFor(votes, ACCEPT) \cup VotersFor(votes, REJECT)
                        \cup VotersFor(votes, UNSET)
  BY <1>1 DEF Voters, VotersFor, VoteValues
<1>3. OneVote(votes) => VotersFor(votes, ACCEPT) \cap VotersFor(votes, REJECT) = {}
  BY DEF OneVote, VotersFor, ACCEPT, REJECT
<1> QED
  BY <1>2, <1>3

(* A new vote adds its voter to the voters of its value.                   *)
LEMMA VotersAppend ==
    ASSUME NEW votes \in Votes, NEW v \in [public_key : Keys, vote : VoteValues], NEW value
    PROVE  VotersFor(Append(votes, v), value)
             = VotersFor(votes, value) \cup (IF v.vote = value THEN {v.public_key} ELSE {})
<1> DEFINE longer == Append(votes, v)
           last   == Len(votes) + 1
<1>1. /\ DOMAIN longer = (1..Len(votes)) \cup {last}
      /\ longer[last] = v
      /\ \A j \in 1..Len(votes) : longer[j] = votes[j]
      /\ DOMAIN votes = 1..Len(votes)
  BY DEF Votes
<1> HIDE DEF longer, last
<1>2. VotersFor(longer, value)
        = VotersFor(votes, value) \cup (IF v.vote = value THEN {v.public_key} ELSE {})
  BY <1>1 DEF VotersFor
<1> QED
  BY <1>2 DEF longer

(* What is left of a list without one position.                            *)
LEMMA RemoveAtElements ==
    ASSUME NEW S, NEW s \in Seq(S), NEW i \in DOMAIN s
    PROVE  /\ \A j \in DOMAIN RemoveAt(s, i) : \E l \in DOMAIN s \ {i} : RemoveAt(s, i)[j] = s[l]
           /\ \A l \in DOMAIN s \ {i} : \E j \in DOMAIN RemoveAt(s, i) : RemoveAt(s, i)[j] = s[l]
<1> DEFINE shorter == RemoveAt(s, i)
<1>1. /\ i \in 1..Len(s)
      /\ Len(s) \in Nat
      /\ DOMAIN s = 1..Len(s)
  OBVIOUS
<1>2. /\ shorter \in Seq(S)
      /\ Len(shorter) = Len(s) - 1
      /\ \A j \in 1..(Len(s) - 1) : shorter[j] = IF j < i THEN s[j] ELSE s[j + 1]
  BY <1>1, RemoveAtProperties
<1> HIDE DEF shorter
<1>3. DOMAIN shorter = 1..(Len(s) - 1)
  BY <1>2
<1>4. ASSUME NEW j \in DOMAIN shorter
      PROVE  \E l \in DOMAIN s \ {i} : shorter[j] = s[l]
  <2>1. CASE j < i
    BY <1>1, <1>2, <1>3, <2>1
  <2>2. CASE ~(j < i)
    <3>1. j + 1 \in DOMAIN s \ {i} /\ shorter[j] = s[j + 1]
      BY <1>1, <1>2, <1>3, <2>2
    <3> QED
      BY <3>1
  <2> QED
    BY <2>1, <2>2
<1>5. ASSUME NEW l \in DOMAIN s \ {i}
      PROVE  \E j \in DOMAIN shorter : shorter[j] = s[l]
  <2>1. CASE l < i
    <3>1. l \in DOMAIN shorter /\ shorter[l] = s[l]
      BY <1>1, <1>2, <1>3, <2>1
    <3> QED
      BY <3>1
  <2>2. CASE l > i
    <3>1. l - 1 \in DOMAIN shorter /\ shorter[l - 1] = s[(l - 1) + 1] /\ (l - 1) + 1 = l
      BY <1>1, <1>2, <1>3, <2>2
    <3> QED
      BY <3>1
  <2> QED
    BY <1>1, <2>1, <2>2
<1> QED
  BY <1>4, <1>5 DEF shorter

(* A withdrawn vote takes its voter from the voters of every value.        *)
LEMMA VotersRemoveAt ==
    ASSUME NEW votes \in Votes, OneVote(votes), NEW i \in DOMAIN votes, NEW value
    PROVE  VotersFor(RemoveAt(votes, i), value) = VotersFor(votes, value) \ {votes[i].public_key}
<1> DEFINE shorter == RemoveAt(votes, i)
<1>1. /\ \A j \in DOMAIN shorter : \E l \in DOMAIN votes \ {i} : shorter[j] = votes[l]
      /\ \A l \in DOMAIN votes \ {i} : \E j \in DOMAIN shorter : shorter[j] = votes[l]
  BY RemoveAtElements DEF Votes
<1> HIDE DEF shorter
<1>2. \A l \in DOMAIN votes : l # i <=> votes[l].public_key # votes[i].public_key
  BY DEF OneVote
<1>3. ASSUME NEW key \in VotersFor(shorter, value)
      PROVE  key \in VotersFor(votes, value) \ {votes[i].public_key}
  BY <1>1, <1>2 DEF VotersFor
<1>4. ASSUME NEW key \in VotersFor(votes, value) \ {votes[i].public_key}
      PROVE  key \in VotersFor(shorter, value)
  <2>1. PICK l \in DOMAIN votes : votes[l].vote = value /\ votes[l].public_key = key
    BY DEF VotersFor
  <2>2. PICK j \in DOMAIN shorter : shorter[j] = votes[l]
    BY <1>1, <2>1
  <2> QED
    BY <2>1, <2>2 DEF VotersFor
<1> QED
  BY <1>3, <1>4 DEF shorter
-------------------------------------------------------------------------------
(* The open proposals of a container.                                      *)
Pending(list) == {OpenProposal(list[i]) : i \in DOMAIN list}

(* The three changes of the container, as changes of a set.                *)
LEMMA PendingAppend ==
    ASSUME NEW S, NEW list \in Seq(S), NEW ballot \in S
    PROVE  Pending(Append(list, ballot)) = Pending(list) \cup {OpenProposal(ballot)}
<1> DEFINE longer == Append(list, ballot)
           last   == Len(list) + 1
<1>1. /\ DOMAIN longer = (1..Len(list)) \cup {last}
      /\ longer[last] = ballot
      /\ \A j \in 1..Len(list) : longer[j] = list[j]
      /\ DOMAIN list = 1..Len(list)
  OBVIOUS
<1> HIDE DEF longer, last
<1>2. Pending(longer) = Pending(list) \cup {OpenProposal(ballot)}
  BY <1>1 DEF Pending
<1> QED
  BY <1>2 DEF longer

(* Proposals with different ids are different.                             *)
LEMMA OpenDistinct ==
    ASSUME NEW list, DistinctIds(list), NEW i \in DOMAIN list, NEW j \in DOMAIN list, i # j
    PROVE  OpenProposal(list[i]) # OpenProposal(list[j])
<1>1. OpenProposal(list[i]).id # OpenProposal(list[j]).id
  BY DEF DistinctIds, OpenProposal
<1> QED
  BY <1>1

(* ... a candidate less.                                                   *)
LEMMA PendingWithout ==
    ASSUME NEW S, NEW list \in Seq(S), DistinctIds(list), NEW i \in DOMAIN list
    PROVE  Pending(WithoutCandidate(list, i)) = Pending(list) \ {OpenProposal(list[i])}
<1> DEFINE shorter == WithoutCandidate(list, i)
<1>1. /\ \A j \in DOMAIN shorter : \E l \in DOMAIN list \ {i} : shorter[j] = list[l]
      /\ \A l \in DOMAIN list \ {i} : \E j \in DOMAIN shorter : shorter[j] = list[l]
  BY RemoveAtElements DEF WithoutCandidate
<1> HIDE DEF shorter
<1>2. Pending(shorter) \subseteq Pending(list) \ {OpenProposal(list[i])}
  BY <1>1, OpenDistinct DEF Pending
<1>3. ASSUME NEW p \in Pending(list) \ {OpenProposal(list[i])}
      PROVE  p \in Pending(shorter)
  <2>1. PICK l \in DOMAIN list : p = OpenProposal(list[l])
    BY DEF Pending
  <2>2. PICK j \in DOMAIN shorter : shorter[j] = list[l]
    BY <1>1, <2>1
  <2> QED
    BY <2>1, <2>2 DEF Pending
<1> QED
  BY <1>2, <1>3 DEF shorter

(* ... other votes for a candidate.                                        *)
LEMMA PendingWithVotes ==
    ASSUME NEW list \in Seq(Ballots), DistinctIds(list), NEW i \in DOMAIN list, NEW votes \in Votes
    PROVE  Pending(WithVotes(list, i, votes))
             = (Pending(list) \ {OpenProposal(list[i])})
                 \cup {OpenProposal([list[i] EXCEPT !.votes = votes])}
<1> DEFINE changed == WithVotes(list, i, votes)
           ballot  == [list[i] EXCEPT !.votes = votes]
<1>1. /\ DOMAIN changed = DOMAIN list
      /\ changed[i] = ballot
      /\ \A j \in DOMAIN list : j # i => changed[j] = list[j]
  BY DEF WithVotes
<1> HIDE DEF changed, ballot
<1>2. Pending(changed) \subseteq (Pending(list) \ {OpenProposal(list[i])}) \cup {OpenProposal(ballot)}
  BY <1>1, OpenDistinct DEF Pending
<1>3. (Pending(list) \ {OpenProposal(list[i])}) \cup {OpenProposal(ballot)} \subseteq Pending(changed)
  BY <1>1 DEF Pending
<1> QED
  BY <1>2, <1>3 DEF changed, ballot
-------------------------------------------------------------------------------
(* A vote that is cast, seen from the registry: it is added to one side of *)
(* the open proposal.                                                      *)
LEMMA CastSeen ==
    ASSUME NEW candidate \in Ballots, NEW key \in Keys, NEW vote \in VoteValues
    PROVE  OpenProposal([candidate EXCEPT !.votes = Append(@, VoteRecord(key, vote))])
             = CASE vote = ACCEPT -> Quorum!Supported(OpenProposal(candidate), key)
                 [] vote = REJECT -> Quorum!Opposed(OpenProposal(candidate), key)
                 [] vote = UNSET  -> Quorum!Abstained(OpenProposal(candidate), key)
<1> DEFINE v    == VoteRecord(key, vote)
           more == Append(candidate.votes, v)
           cast == [candidate EXCEPT !.votes = more]
<1>1. /\ candidate.votes \in Votes
      /\ v \in [public_key : Keys, vote : VoteValues]
      /\ v.public_key = key /\ v.vote = vote
  BY DEF Ballots, Votes, VoteRecord
<1>2. \A value : VotersFor(more, value)
                   = VotersFor(candidate.votes, value) \cup (IF vote = value THEN {key} ELSE {})
  BY <1>1, VotersAppend
<1>3. /\ cast.proposal_id = candidate.proposal_id
      /\ cast.proposal = candidate.proposal
      /\ cast.votes = more
  BY DEF Ballots
<1>4. ACCEPT # REJECT /\ ACCEPT # UNSET /\ REJECT # UNSET
  BY DEF ACCEPT, REJECT, UNSET
<1> HIDE DEF more, cast, v
<1>5. CASE vote = ACCEPT
  BY <1>2, <1>3, <1>4, <1>5 DEF OpenProposal, Quorum!Supported, cast, more, v
<1>6. CASE vote = REJECT
  BY <1>2, <1>3, <1>4, <1>6 DEF OpenProposal, Quorum!Opposed, cast, more, v
<1>7. CASE vote = UNSET
  BY <1>2, <1>3, <1>4, <1>7 DEF OpenProposal, Quorum!Abstained, cast, more, v
<1> QED
  BY <1>5, <1>6, <1>7, <1>4 DEF VoteValues

(* Who has voted on an open proposal.                                      *)
LEMMA VotedSeen ==
    ASSUME NEW candidate \in Ballots
    PROVE  Quorum!Voted(OpenProposal(candidate)) = Voters(candidate.votes)
<1>1. candidate.votes \in Votes
  BY DEF Ballots, Votes
<1> QED
  BY <1>1, VotersSplit DEF Quorum!Voted, OpenProposal
-------------------------------------------------------------------------------
(* A vote that ACTION_VOTE takes, seen from the registry: an elector who   *)
(* has no vote on the open proposal gets one, and the sides of the         *)
(* proposal are as large as the tallies say.                               *)
LEMMA VoteSeen ==
    ASSUME IInv, NEW i \in DOMAIN candidates, NEW key \in Keys, NEW id \in Addresses,
           NEW vote \in VoteValues, MayVote(key, id, i),
           NEW p, p = OpenProposal(candidates[i]),
           NEW more, more = VotesWith(i, key, vote),
           NEW q, q = OpenProposal([candidates[i] EXCEPT !.votes = more])
    PROVE  /\ p \in Pending(candidates)
           /\ p.id = id
           /\ p.entry = candidates[i].proposal
           /\ Quorum!MayVote(key, p)
           /\ q \in Quorum!Ballots(p, key)
           /\ vote = ACCEPT => q = Quorum!Supported(p, key)
           /\ more \in Votes
           /\ OneVote(more)
           /\ Voters(more) \subseteq Electors(settings.auth_list)
           /\ q.yes = VotersFor(more, ACCEPT)
           /\ q.no = VotersFor(more, REJECT)
           /\ IsFiniteSet(q.yes) /\ Cardinality(q.yes) = Tally(more, ACCEPT)
           /\ IsFiniteSet(q.no) /\ Cardinality(q.no) = Tally(more, REJECT)
<1> DEFINE votes == candidates[i].votes
           v     == VoteRecord(key, vote)
           R     == [public_key : Keys, vote : VoteValues]
<1>1. candidates[i] \in Ballots /\ votes \in SoundVotes
  BY SoundCandidate DEF IInv
<1>2. votes \in Seq(R) /\ OneVote(votes) /\ Voters(votes) \subseteq Electors(settings.auth_list)
  BY <1>1 DEF SoundVotes, Votes
<1>3. InForce = settings /\ \A k : Authorizes(settings, k) => k \in Electors(settings.auth_list)
  BY SettingsFacts DEF IInv
<1>4. /\ key \in Electors(settings.auth_list)
      /\ key \notin Voters(votes)
      /\ candidates[i].proposal_id = id
  BY <1>3 DEF MayVote, IsFirst
<1>5. v \in R /\ v.public_key = key
  BY DEF VoteRecord
<1>6. more = Append(votes, v)
  BY DEF VotesWith
<1> HIDE DEF v, R
<1>7. /\ more \in Seq(R)
      /\ OneVote(more)
      /\ Voters(more) \subseteq Electors(settings.auth_list)
  <2>1. more \in Seq(R)
    BY <1>2, <1>5, <1>6
  <2>2. /\ Voters(more) = Voters(votes) \cup {v.public_key}
        /\ OneVote(votes) /\ v.public_key \notin Voters(votes) => OneVote(more)
    BY <1>2, <1>5, <1>6, OneVoteAppend
  <2> QED
    BY <1>2, <1>4, <1>5, <2>1, <2>2
<1>8. more \in Votes
  BY <1>7 DEF Votes, R
<1>9. /\ p.id = id
      /\ p.entry = candidates[i].proposal
      /\ p \in Pending(candidates)
  BY <1>4 DEF OpenProposal, Pending
<1>10. Quorum!MayVote(key, p)
  BY <1>1, <1>4, VotedSeen DEF Quorum!MayVote
<1>11. [candidates[i] EXCEPT !.votes = more]
         = [candidates[i] EXCEPT !.votes = Append(@, VoteRecord(key, vote))]
  BY <1>6 DEF v
<1>12. /\ vote = ACCEPT => q = Quorum!Supported(p, key)
       /\ vote = REJECT => q = Quorum!Opposed(p, key)
       /\ vote = UNSET => q = Quorum!Abstained(p, key)
  BY <1>1, <1>11, CastSeen DEF ACCEPT, REJECT, UNSET
<1>13. q \in Quorum!Ballots(p, key)
  BY <1>12 DEF Quorum!Ballots, VoteValues
<1>14. [candidates[i] EXCEPT !.votes = more].votes = more
  BY <1>1 DEF Ballots
<1>15. q.yes = VotersFor(more, ACCEPT) /\ q.no = VotersFor(more, REJECT)
  BY <1>14 DEF OpenProposal
<1> QED
  BY <1>7, <1>8, <1>9, <1>10, <1>12, <1>13, <1>15, VotersCounted

(* When the votes are as many as the keys of the authorisation list, with  *)
(* its repetitions, everybody has spoken.                                  *)
LEMMA EverybodyCounted ==
    ASSUME NEW auth_list \in Seq(Keys), NEW yes, NEW no,
           IsFiniteSet(yes), IsFiniteSet(no), yes \cap no = {},
           yes \cup no \subseteq Electors(auth_list),
           Cardinality(yes) + Cardinality(no) = Len(auth_list)
    PROVE  yes \cup no = Electors(auth_list)
<1>1. Cardinality(yes \cup no) = Len(auth_list)
  <2>1. /\ Cardinality(yes \cup no)
             = Cardinality(yes) + Cardinality(no) - Cardinality(yes \cap no)
        /\ Cardinality(yes \cap no) = 0
    BY FS_Union, FS_EmptySet
  <2>2. Cardinality(yes) \in Nat /\ Cardinality(no) \in Nat
    BY FS_CardinalityType
  <2> QED
    BY <2>1, <2>2
<1>2. /\ IsFiniteSet(Electors(auth_list))
      /\ Cardinality(Electors(auth_list)) <= Len(auth_list)
  <2>1. IsFiniteSet(1..Len(auth_list)) /\ Cardinality(1..Len(auth_list)) = Len(auth_list)
    <3> DEFINE n == Len(auth_list)
    <3>1. n \in Nat
      OBVIOUS
    <3> HIDE DEF n
    <3>2. 1 \in Int /\ n \in Int
      BY <3>1
    <3>3. /\ IsFiniteSet(1..n)
          /\ Cardinality(1..n) = IF 1 > n THEN 0 ELSE n - 1 + 1
      BY <3>2, FS_Interval, Zenon
    <3>4. Cardinality(1..n) = n
      BY <3>1, <3>3
    <3> QED
      BY <3>3, <3>4 DEF n
  <2>2. [i \in 1..Len(auth_list) |-> auth_list[i]]
          \in Surjection(1..Len(auth_list), Electors(auth_list))
    BY DEF Surjection, Electors
  <2> QED
    BY <2>1, <2>2, FS_Surjection
<1>3. /\ Cardinality(Electors(auth_list)) \in Nat
      /\ Cardinality(yes \cup no) <= Cardinality(Electors(auth_list))
      /\ Cardinality(Electors(auth_list)) = Cardinality(yes \cup no)
            => Electors(auth_list) = yes \cup no
  BY <1>2, FS_Subset, FS_CardinalityType
<1> QED
  BY <1>1, <1>2, <1>3
-------------------------------------------------------------------------------
(* The registry counts sets as the proofs do.                              *)
LEMMA QuorumCounted == \A S : Quorum!Cardinality(S) = Cardinality(S)
BY DEF Quorum!Cardinality, Cardinality

(* A chain after the first CREATE is a registry without open proposals.    *)
LEMMA QuorumInit == Init => Quorum!Init
<1> SUFFICES ASSUME Init
             PROVE  Quorum!Init
  OBVIOUS
<1>1. settings.auth_list \in Seq(Keys) /\ settings.threshold \in Int
  BY IInvInit, SettingsFacts DEF IInv
<1>2. Electors(settings.auth_list) \in SUBSET Keys
  BY <1>1 DEF Electors
<1>3. {OpenProposal(candidates[i]) : i \in DOMAIN candidates} = {}
  BY DEF Init
<1> QED
  BY <1>1, <1>2, <1>3 DEF Init, Quorum!Init

(* An entry that is registered without a vote is registered by an elector. *)
LEMMA QuorumRegisters ==
    ASSUME IInv, NEW key \in Keys, NEW entry \in Entries, Direct(key, entry)
    PROVE  Quorum!Register(entry)
<1>1. /\ InForce = settings
      /\ \A k : Authorizes(settings, k) => k \in Electors(settings.auth_list)
  BY SettingsFacts DEF IInv
<1>2. /\ Authorizes(InForce, key)
      /\ registry' = [registry EXCEPT ![AddressOf[entry]] = entry]
      /\ settings' = settings
      /\ candidates' = candidates
  BY DEF Direct, Register, ProposeAtOnce, LoadSettings
<1> QED
  BY <1>1, <1>2 DEF Quorum!Register

(* A proposal is opened by an elector, who supports it.                    *)
LEMMA QuorumOpens ==
    ASSUME IInv, NEW key \in Keys, NEW entry \in Entries, Propose(key, entry)
    PROVE  Quorum!Open(key, entry)
<1> DEFINE first  == VoteRecord(key, ACCEPT)
           ballot == [proposal_id |-> AddressOf[entry], proposal |-> entry, votes |-> << first >>]
           opened == [id |-> AddressOf[entry], entry |-> entry,
                      yes |-> {key}, no |-> {}, blank |-> {}]
           R      == [public_key : Keys, vote : VoteValues]
<1>1. /\ key \in Electors(settings.auth_list)
      /\ settings.threshold > 1
      /\ ~Proposed(candidates, AddressOf[entry])
      /\ candidates' = Append(candidates, ballot)
      /\ settings' = settings
      /\ registry' = registry
  BY SettingsFacts DEF IInv, Propose, LoadSettings, WithProposal
<1>2. first \in R /\ first.public_key = key /\ first.vote = ACCEPT
  BY DEF VoteRecord, VoteValues
<1> HIDE DEF first
<1>3. /\ ballot.proposal_id = AddressOf[entry]
      /\ ballot.proposal = entry
      /\ ballot.votes = << first >>
      /\ ballot \in Ballots
  BY <1>2, EntriesAssumption DEF Ballots
<1> HIDE DEF ballot
<1>4. /\ VotersFor(<< first >>, ACCEPT) = {key}
      /\ VotersFor(<< first >>, REJECT) = {}
      /\ VotersFor(<< first >>, UNSET) = {}
  BY <1>2 DEF VotersFor, ACCEPT, REJECT, UNSET
<1>5. OpenProposal(ballot) = opened
  BY <1>3, <1>4 DEF OpenProposal
<1>6. Pending(candidates') = Pending(candidates) \cup {opened}
  <2>1. candidates \in Seq(Ballots)
    BY DEF IInv, TypeOK
  <2>2. Pending(Append(candidates, ballot)) = Pending(candidates) \cup {OpenProposal(ballot)}
    BY <1>3, <2>1, PendingAppend
  <2> QED
    BY <1>1, <1>5, <2>2
<1>7. \A p \in Pending(candidates) : p.id # AddressOf[entry]
  BY <1>1 DEF Pending, OpenProposal, Proposed
<1> QED
  BY <1>1, <1>6, <1>7 DEF Quorum!Open, Pending

(* A vote that approves has a quorum of electors behind the proposal.      *)
LEMMA QuorumApproves ==
    ASSUME IInv, NEW key \in Keys, NEW id \in Addresses, NEW vote \in VoteValues,
           VoteApproves(key, id, vote)
    PROVE  \E p \in Pending(candidates) : Quorum!Approve(key, p)
<1>1. PICK i \in DOMAIN candidates :
         /\ MayVote(key, id, i)
         /\ Accepted(VotesWith(i, key, vote))
         /\ registry' = [registry EXCEPT ![id] = candidates[i].proposal]
         /\ candidates' = WithoutCandidate(candidates, i)
         /\ settings' = settings
  BY DEF VoteApproves, LoadSettings
<1> DEFINE p    == OpenProposal(candidates[i])
           more == VotesWith(i, key, vote)
           q    == OpenProposal([candidates[i] EXCEPT !.votes = more])
<1>2. /\ p \in Pending(candidates)
      /\ p.id = id
      /\ p.entry = candidates[i].proposal
      /\ Quorum!MayVote(key, p)
      /\ q \in Quorum!Ballots(p, key)
      /\ vote = ACCEPT => q = Quorum!Supported(p, key)
      /\ Cardinality(q.yes) = Tally(more, ACCEPT)
  BY <1>1, VoteSeen
<1>3. settings.threshold <= Cardinality(q.yes)
  <2>1. InForce = settings /\ settings.threshold \in Int
    BY SettingsFacts DEF IInv
  <2>2. Tally(more, ACCEPT) >= settings.threshold
    BY <1>1, <2>1 DEF Accepted
  <2> QED
    BY <1>2, <2>1, <2>2
<1>4. vote = ACCEPT
  <2>1. candidates[i].votes \in SoundVotes
    BY SoundCandidate DEF IInv
  <2> DEFINE votes == candidates[i].votes
             v     == VoteRecord(key, vote)
             R     == [public_key : Keys, vote : VoteValues]
  <2>2. votes \in Seq(R) /\ Tally(votes, ACCEPT) < settings.threshold
    BY <2>1 DEF SoundVotes, Votes, Undecided
  <2>3. v \in R /\ v.vote = vote
    BY DEF VoteRecord
  <2>4. more = Append(votes, v)
    BY DEF VotesWith
  <2> HIDE DEF votes, v, R, more
  <2>5. Tally(more, ACCEPT) = Tally(votes, ACCEPT) + (IF v.vote = ACCEPT THEN 1 ELSE 0)
    BY <2>2, <2>3, <2>4, TallyAppend
  <2>6. Tally(votes, ACCEPT) \in Nat /\ settings.threshold \in Int
    BY <2>2, PositionsFinite, SettingsFacts DEF IInv
  <2> HIDE DEF q
  <2> QED
    BY <1>2, <1>3, <2>2, <2>3, <2>5, <2>6
<1>5. Pending(candidates') = Pending(candidates) \ {p}
  BY <1>1, PendingWithout DEF IInv, TypeOK
<1> HIDE DEF p, q, more
<1>6. Quorum!Approve(key, p)
  BY <1>1, <1>2, <1>3, <1>4, <1>5, SettingsFacts, QuorumCounted DEF Quorum!Approve, Quorum!HasQuorum, Pending, IInv
<1> QED
  BY <1>2, <1>6

(* A vote that rejects has a quorum of electors against the proposal, or   *)
(* is the last that could be cast.                                         *)
LEMMA QuorumDismisses ==
    ASSUME IInv, NEW key \in Keys, NEW id \in Addresses, NEW vote \in VoteValues,
           VoteRejects(key, id, vote)
    PROVE  \E p \in Pending(candidates) : Quorum!Dismiss(key, p)
<1>1. PICK i \in DOMAIN candidates :
         /\ MayVote(key, id, i)
         /\ ~Accepted(VotesWith(i, key, vote))
         /\ Rejected(VotesWith(i, key, vote))
         /\ candidates' = WithoutCandidate(candidates, i)
         /\ settings' = settings
         /\ registry' = registry
  BY DEF VoteRejects, LoadSettings
<1> DEFINE p    == OpenProposal(candidates[i])
           more == VotesWith(i, key, vote)
           q    == OpenProposal([candidates[i] EXCEPT !.votes = more])
<1>2. /\ p \in Pending(candidates)
      /\ Quorum!MayVote(key, p)
      /\ q \in Quorum!Ballots(p, key)
      /\ more \in Votes
      /\ Voters(more) \subseteq Electors(settings.auth_list)
      /\ q.yes = VotersFor(more, ACCEPT)
      /\ q.no = VotersFor(more, REJECT)
      /\ IsFiniteSet(q.yes) /\ Cardinality(q.yes) = Tally(more, ACCEPT)
      /\ IsFiniteSet(q.no) /\ Cardinality(q.no) = Tally(more, REJECT)
      /\ OneVote(more)
  BY <1>1, VoteSeen
<1>3. Pending(candidates') = Pending(candidates) \ {p}
  BY <1>1, PendingWithout DEF IInv, TypeOK
<1>4. /\ InForce = settings
      /\ settings.threshold \in Int
      /\ settings.auth_list \in Seq(Keys)
  BY SettingsFacts DEF IInv
<1>5. /\ ~(Tally(more, ACCEPT) >= settings.threshold)
      /\ \/ Tally(more, REJECT) >= settings.threshold
         \/ Tally(more, REJECT) + Tally(more, ACCEPT) = Len(settings.auth_list)
  BY <1>1, <1>4 DEF Accepted, Rejected
<1> HIDE DEF p, q, more
<1>6. ~Quorum!HasQuorum(q.yes)
  BY <1>2, <1>5, QuorumCounted DEF Quorum!HasQuorum
<1>7. Quorum!HasQuorum(q.no) \/ Quorum!EverybodySpoke(q)
  <2>1. CASE Tally(more, REJECT) >= settings.threshold
    BY <1>2, <2>1, QuorumCounted DEF Quorum!HasQuorum
  <2>2. CASE Tally(more, REJECT) + Tally(more, ACCEPT) = Len(settings.auth_list)
    <3>1. q.yes \cap q.no = {} /\ q.yes \cup q.no \subseteq Electors(settings.auth_list)
      BY <1>2, VotersSplit
    <3>2. Cardinality(q.yes) \in Nat /\ Cardinality(q.no) \in Nat
      BY <1>2, FS_CardinalityType
    <3>3. Cardinality(q.yes) + Cardinality(q.no) = Len(settings.auth_list)
      BY <1>2, <2>2, <3>2
    <3>4. q.yes \cup q.no = Electors(settings.auth_list)
      BY <1>2, <1>4, <3>1, <3>3, EverybodyCounted
    <3> QED
      BY <3>4 DEF Quorum!EverybodySpoke
  <2> QED
    BY <1>5, <2>1, <2>2
<1>8. Quorum!Dismiss(key, p)
  BY <1>1, <1>2, <1>3, <1>6, <1>7 DEF Quorum!Dismiss, Pending
<1> QED
  BY <1>2, <1>8

(* A vote that decides nothing is counted on its side.                     *)
LEMMA QuorumCounts ==
    ASSUME IInv, NEW key \in Keys, NEW id \in Addresses, NEW vote \in VoteValues,
           VoteRecorded(key, id, vote)
    PROVE  \E p \in Pending(candidates) : Quorum!Count(key, p)
<1>1. PICK i \in DOMAIN candidates :
         /\ MayVote(key, id, i)
         /\ ~Accepted(VotesWith(i, key, vote))
         /\ ~Rejected(VotesWith(i, key, vote))
         /\ candidates' = WithVotes(candidates, i, VotesWith(i, key, vote))
         /\ settings' = settings
         /\ registry' = registry
  BY DEF VoteRecorded, LoadSettings
<1> DEFINE p    == OpenProposal(candidates[i])
           more == VotesWith(i, key, vote)
           q    == OpenProposal([candidates[i] EXCEPT !.votes = more])
<1>2. /\ p \in Pending(candidates)
      /\ Quorum!MayVote(key, p)
      /\ q \in Quorum!Ballots(p, key)
      /\ more \in Votes
      /\ Cardinality(q.yes) = Tally(more, ACCEPT)
      /\ Cardinality(q.no) = Tally(more, REJECT)
  BY <1>1, VoteSeen
<1>3. Pending(candidates') = (Pending(candidates) \ {p}) \cup {q}
  BY <1>1, <1>2, PendingWithVotes DEF IInv, TypeOK
<1>4. /\ ~(Tally(more, ACCEPT) >= settings.threshold)
      /\ ~(Tally(more, REJECT) >= settings.threshold)
  BY <1>1, SettingsFacts DEF Accepted, Rejected, IInv
<1> HIDE DEF p, q, more
<1>5. ~Quorum!HasQuorum(q.yes) /\ ~Quorum!HasQuorum(q.no)
  BY <1>2, <1>4, QuorumCounted DEF Quorum!HasQuorum
<1>6. Quorum!Count(key, p)
  BY <1>1, <1>2, <1>3, <1>5 DEF Quorum!Count, Pending
<1> QED
  BY <1>2, <1>6

(* A withdrawal takes the elector's vote from whichever side it is on, and *)
(* the proposal goes with its last vote.                                   *)
LEMMA QuorumWithdraws ==
    ASSUME IInv, NEW key \in Keys, NEW id \in Addresses, Rescind(key, id)
    PROVE  \E p \in Pending(candidates) : Quorum!Withdraw(key, p)
<1>1. PICK i \in DOMAIN candidates :
         /\ \E j \in DOMAIN candidates[i].votes :
               /\ IsFirstBy(candidates[i].votes, key, j)
               /\ candidates' = IF Len(candidates[i].votes) = 1
                                  THEN WithoutCandidate(candidates, i)
                                  ELSE WithVotes(candidates, i, RemoveAt(candidates[i].votes, j))
         /\ Authorizes(InForce, key)
         /\ settings' = settings
         /\ registry' = registry
  BY DEF Rescind, LoadSettings
<1>2. PICK j \in DOMAIN candidates[i].votes :
         /\ candidates[i].votes[j].public_key = key
         /\ candidates' = IF Len(candidates[i].votes) = 1
                            THEN WithoutCandidate(candidates, i)
                            ELSE WithVotes(candidates, i, RemoveAt(candidates[i].votes, j))
  BY <1>1 DEF IsFirstBy
<1> DEFINE votes == candidates[i].votes
           rest  == RemoveAt(votes, j)
           R     == [public_key : Keys, vote : VoteValues]
           p     == OpenProposal(candidates[i])
           q     == OpenProposal([candidates[i] EXCEPT !.votes = rest])
           less  == [p EXCEPT !.yes = @ \ {key}, !.no = @ \ {key}, !.blank = @ \ {key}]
<1>3. candidates[i] \in Ballots /\ votes \in SoundVotes
  BY SoundCandidate DEF IInv
<1>4. votes \in Seq(R) /\ votes \in Votes /\ OneVote(votes)
  BY <1>3 DEF SoundVotes, Votes
<1>5. key \in Electors(settings.auth_list)
  BY <1>1, SettingsFacts DEF IInv
<1>6. p \in Pending(candidates)
  BY DEF Pending
<1>7. Quorum!Voted(p) = Voters(votes)
  BY <1>3, VotedSeen
<1>8. key \in Voters(votes)
  BY <1>2 DEF Voters
<1>9. q = less
  <2>1. \A value : VotersFor(rest, value) = VotersFor(votes, value) \ {key}
    BY <1>2, <1>4, VotersRemoveAt
  <2>2. /\ [candidates[i] EXCEPT !.votes = rest].votes = rest
        /\ [candidates[i] EXCEPT !.votes = rest].proposal_id = candidates[i].proposal_id
        /\ [candidates[i] EXCEPT !.votes = rest].proposal = candidates[i].proposal
    BY <1>3 DEF Ballots
  <2>3. q = [id    |-> candidates[i].proposal_id,
             entry |-> candidates[i].proposal,
             yes   |-> VotersFor(rest, ACCEPT),
             no    |-> VotersFor(rest, REJECT),
             blank |-> VotersFor(rest, UNSET)]
    BY <2>2 DEF OpenProposal
  <2>4. p = [id    |-> candidates[i].proposal_id,
             entry |-> candidates[i].proposal,
             yes   |-> VotersFor(votes, ACCEPT),
             no    |-> VotersFor(votes, REJECT),
             blank |-> VotersFor(votes, UNSET)]
    BY DEF OpenProposal
  <2> HIDE DEF rest, votes, q, p
  <2>5. /\ less.id = candidates[i].proposal_id
        /\ less.entry = candidates[i].proposal
        /\ less.yes = VotersFor(votes, ACCEPT) \ {key}
        /\ less.no = VotersFor(votes, REJECT) \ {key}
        /\ less.blank = VotersFor(votes, UNSET) \ {key}
    BY <2>4
  <2>6. less = [f \in {"id", "entry", "yes", "no", "blank"} |-> less[f]]
    BY <2>4
  <2> HIDE DEF less
  <2> QED
    BY <2>1, <2>3, <2>5, <2>6
<1>10. Quorum!Voted(less) = Voters(votes) \ {key}
  BY <1>7 DEF Quorum!Voted, OpenProposal
<1>11. Quorum!Voted(less) = {} <=> Len(votes) = 1
  <2>1. Len(votes) \in Nat /\ DOMAIN votes = 1..Len(votes)
    BY <1>4
  <2>2. ASSUME Len(votes) = 1
        PROVE  Voters(votes) \ {key} = {}
    BY <1>2, <2>1, <2>2 DEF Voters
  <2>3. ASSUME Len(votes) # 1
        PROVE  Voters(votes) \ {key} # {}
    <3>1. PICK l \in DOMAIN votes : l # j
      <4> DEFINE n == Len(votes)
      <4>1. n \in Nat /\ j \in 1..n /\ n # 1
        BY <2>1, <2>3
      <4> HIDE DEF n
      <4>2. 1 \in 1..n /\ 2 \in 1..n
        BY <4>1
      <4> QED
        BY <2>1, <4>2 DEF n
    <3>2. votes[l].public_key # key
      BY <1>2, <1>4, <3>1 DEF OneVote
    <3> QED
      BY <3>2 DEF Voters
  <2> QED
    BY <1>10, <2>2, <2>3
<1>12. Pending(candidates') = IF Quorum!Voted(less) = {}
                                THEN Pending(candidates) \ {p}
                                ELSE (Pending(candidates) \ {p}) \cup {less}
  <2>1. CASE Len(votes) = 1
    <3>1. Pending(WithoutCandidate(candidates, i)) = Pending(candidates) \ {p}
      BY PendingWithout DEF IInv, TypeOK
    <3> QED
      BY <1>2, <1>11, <2>1, <3>1
  <2>2. CASE Len(votes) # 1
    <3>1. rest \in Votes
      BY <1>3, <2>2, WithdrawnSound DEF IInv, SoundVotes
    <3>2. Pending(WithVotes(candidates, i, rest)) = (Pending(candidates) \ {p}) \cup {q}
      BY <3>1, PendingWithVotes DEF IInv, TypeOK
    <3> QED
      BY <1>2, <1>9, <1>11, <2>2, <3>2
  <2> QED
    BY <2>1, <2>2
<1> HIDE DEF p
<1>13. Quorum!Withdraw(key, p)
  BY <1>1, <1>5, <1>7, <1>8, <1>12 DEF Quorum!Withdraw, Pending
<1> QED
  BY <1>6, <1>13

(* Every step of the handler is a step of the registry, or changes nothing *)
(* that the registry sees.                                                 *)
LEMMA QuorumStep == IInv /\ [Next]_vars => [Quorum!Next]_(Quorum!vars)
<1> SUFFICES ASSUME IInv, [Next]_vars
             PROVE  [Quorum!Next]_(Quorum!vars)
  OBVIOUS
<1>1. ASSUME NEW key \in Keys, NEW entry \in Entries, Direct(key, entry)
      PROVE  Quorum!Next
  BY <1>1, QuorumRegisters DEF Quorum!Next
<1>2. ASSUME NEW key \in Keys, NEW entry \in Entries, Propose(key, entry)
      PROVE  Quorum!Next
  BY <1>2, QuorumOpens DEF Quorum!Next
<1>3. ASSUME NEW key \in Keys, NEW id \in Addresses, NEW vote \in VoteValues, Vote(key, id, vote)
      PROVE  Quorum!Next
  BY <1>3, QuorumApproves, QuorumDismisses, QuorumCounts DEF Vote, Quorum!Next, Pending
<1>4. ASSUME NEW key \in Keys, NEW id \in Addresses, Rescind(key, id)
      PROVE  Quorum!Next
  BY <1>4, QuorumWithdraws DEF Quorum!Next, Pending
<1>5. CASE UNCHANGED chain
  BY <1>5 DEF chain, Quorum!vars
<1>6. CASE Refuse
  BY <1>5, <1>6 DEF Refuse, LoadSettings, chain
<1>7. CASE Restart
  BY <1>5, <1>7 DEF Restart
<1>8. CASE UNCHANGED vars
  BY <1>5, <1>8 DEF vars, chain
<1> QED
  BY <1>1, <1>2, <1>3, <1>4, <1>6, <1>7, <1>8 DEF Next

(* The handler implements the registry: however transactions interleave    *)
(* and processors restart, an entry gets into the registry only by an      *)
(* elector's own registration or by the votes of a quorum of distinct      *)
(* electors, and a proposal leaves only for a reason that the registry     *)
(* names, repeated keys in the authorisation list or not.                  *)
THEOREM QuorumImplemented == Spec => ImplementsQuorum
<1>1. Init => Quorum!Init
  BY QuorumInit
<1>2. IInv /\ [Next]_vars => [Quorum!Next]_(Quorum!vars)
  BY QuorumStep
<1> QED
  BY <1>1, <1>2, Inductive, PTL DEF Spec, ImplementsQuorum, Quorum!Spec
-------------------------------------------------------------------------------
(* The authorisation list names every key once.                            *)
WithoutRepeats(auth_list) ==
    \A i, j \in DOMAIN auth_list : auth_list[i] = auth_list[j] => i = j

(* Such a list has as many keys as positions.                              *)
LEMMA ElectorsCounted ==
    ASSUME NEW auth_list \in Seq(Keys), WithoutRepeats(auth_list)
    PROVE  Cardinality(Electors(auth_list)) = Len(auth_list)
<1> DEFINE n       == Len(auth_list)
           elector == [i \in 1..n |-> auth_list[i]]
<1>1. n \in Nat /\ DOMAIN auth_list = 1..n
  OBVIOUS
<1>2. elector \in Surjection(1..n, Electors(auth_list))
  BY DEF Surjection, Electors
<1>3. elector \in Injection(1..n, Electors(auth_list))
  BY DEF Injection, IsInjective, Electors, WithoutRepeats
<1> HIDE DEF n, elector
<1>4. 1 \in Int /\ n \in Int
  BY <1>1
<1>5. /\ IsFiniteSet(1..n)
      /\ Cardinality(1..n) = IF 1 > n THEN 0 ELSE n - 1 + 1
  BY <1>4, FS_Interval, Zenon
<1>6. Cardinality(1..n) = n
  BY <1>1, <1>5
<1>7. Cardinality(Electors(auth_list)) = Cardinality(1..n)
  BY <1>2, <1>3, <1>5, FS_Surjection
<1> QED
  BY <1>6, <1>7 DEF n

(* While a proposal waits, its accepting and rejecting votes are fewer     *)
(* than the positions of the list, so some listed key has neither.         *)
LEMMA UndecidedOpen ==
    ASSUME IInv, WithoutRepeats(settings.auth_list)
    PROVE  CanStillBeDecided
<1> SUFFICES ASSUME NEW i \in DOMAIN candidates
             PROVE  \E key \in Electors(settings.auth_list) :
                       \A j \in DOMAIN candidates[i].votes :
                          candidates[i].votes[j].public_key = key
                            => candidates[i].votes[j].vote = UNSET
  BY DEF CanStillBeDecided
<1> DEFINE votes == candidates[i].votes
           spoke == VotersFor(votes, ACCEPT) \cup VotersFor(votes, REJECT)
<1>1. /\ votes \in Votes
      /\ OneVote(votes)
      /\ Tally(votes, ACCEPT) + Tally(votes, REJECT) < Len(settings.auth_list)
  BY SoundCandidate DEF IInv, SoundVotes, Undecided
<1>2. \A j \in DOMAIN votes : votes[j].vote # UNSET => votes[j].public_key \in spoke
  <2> DEFINE R == [public_key : Keys, vote : VoteValues]
  <2>1. \A v \in R : v.vote \in {ACCEPT, REJECT, UNSET}
    BY DEF VoteValues
  <2>2. votes \in Seq(R)
    BY <1>1 DEF Votes
  <2> HIDE DEF R
  <2>3. \A j \in DOMAIN votes : votes[j] \in R
    BY <2>2
  <2> QED
    BY <2>1, <2>3 DEF VotersFor
<1>3. IsFiniteSet(spoke) /\ Cardinality(spoke) < Len(settings.auth_list)
  <2> DEFINE yes == VotersFor(votes, ACCEPT)
             no  == VotersFor(votes, REJECT)
  <2>1. /\ IsFiniteSet(yes) /\ IsFiniteSet(no)
        /\ Cardinality(yes) + Cardinality(no) < Len(settings.auth_list)
    BY <1>1, VotersCounted
  <2>2. settings.auth_list \in Seq(Keys)
    BY SettingsFacts DEF IInv
  <2> HIDE DEF yes, no
  <2>3. yes \cap no \subseteq yes
    OBVIOUS
  <2>4. /\ IsFiniteSet(yes \cup no)
        /\ Cardinality(yes \cup no)
             = Cardinality(yes) + Cardinality(no) - Cardinality(yes \cap no)
        /\ IsFiniteSet(yes \cap no)
    BY <2>1, <2>3, FS_Union, FS_Subset
  <2>5. /\ Cardinality(yes) \in Nat /\ Cardinality(no) \in Nat
        /\ Cardinality(yes \cap no) \in Nat
        /\ Len(settings.auth_list) \in Nat
    BY <2>1, <2>2, <2>4, FS_CardinalityType
  <2>6. IsFiniteSet(yes \cup no) /\ Cardinality(yes \cup no) < Len(settings.auth_list)
    BY <2>1, <2>4, <2>5
  <2> QED
    BY <2>6 DEF yes, no
<1> HIDE DEF spoke
<1>4. PICK key \in Electors(settings.auth_list) : key \notin spoke
  <2>1. Cardinality(Electors(settings.auth_list)) = Len(settings.auth_list)
    BY SettingsFacts, ElectorsCounted DEF IInv
  <2>2. /\ IsFiniteSet(spoke)
        /\ Cardinality(spoke) < Cardinality(Electors(settings.auth_list))
    BY <1>3, <2>1
  <2>3. CASE Electors(settings.auth_list) \subseteq spoke
    <3>1. /\ Cardinality(Electors(settings.auth_list)) <= Cardinality(spoke)
          /\ IsFiniteSet(Electors(settings.auth_list))
      BY <2>2, <2>3, FS_Subset
    <3>2. /\ Cardinality(Electors(settings.auth_list)) \in Nat
          /\ Cardinality(spoke) \in Nat
      BY <2>2, <3>1, FS_CardinalityType
    <3> QED
      BY <2>2, <3>1, <3>2
  <2> QED
    BY <2>3
<1> QED
  BY <1>2, <1>4

(* If the authorisation list repeats no key, a waiting proposal can always *)
(* be decided: some listed key has cast neither of the votes that count.   *)
(* With repeated keys this is false: a proposal waits on which all voted.  *)
THEOREM ProposalsDecidable == Spec => [](WithoutRepeats(settings.auth_list) => CanStillBeDecided)
<1>1. IInv => (WithoutRepeats(settings.auth_list) => CanStillBeDecided)
  BY UndecidedOpen
<1> QED
  BY <1>1, Inductive, PTL
===============================================================================
