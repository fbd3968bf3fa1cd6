--------------------------- MODULE CandidatesProofs ---------------------------
(***************************************************************************)
(* Facts about the operators of Candidates: what is left of a list when    *)
(* one element goes, and what a tally counts.                              *)
(***************************************************************************)
EXTENDS Candidates, FiniteSetTheorems, SequenceTheorems, TLAPS

(* RemoveAt keeps the elements before the position and moves up the others.*)
LEMMA RemoveAtProperties ==
    ASSUME NEW S, NEW s \in Seq(S), NEW i \in 1..Len(s)
    PROVE  /\ RemoveAt(s, i) \in Seq(S)
           /\ Len(RemoveAt(s, i)) = Len(s) - 1
           /\ \A j \in 1..(Len(s) - 1) :
                 RemoveAt(s, i)[j] = IF j < i THEN s[j] ELSE s[j + 1]
<1> DEFINE front == SubSeq(s, 1, i - 1)
           back  == SubSeq(s, i + 1, Len(s))
<1>1. /\ front \in Seq(S)
      /\ Len(front) = i - 1
      /\ \A j \in 1..(i - 1) : front[j] = s[j]
  OBVIOUS
<1>2. /\ back \in Seq(S)
      /\ Len(back) = Len(s) - i
      /\ \A j \in 1..(Len(s) - i) : back[j] = s[i + j]
  OBVIOUS
<1>3. RemoveAt(s, i) = front \o back
  BY DEF RemoveAt
<1> HIDE DEF front, back
<1>4. front \o back \in Seq(S) /\ Len(front \o back) = Len(s) - 1
  BY <1>1, <1>2
<1>5. ASSUME NEW j \in 1..(Len(s) - 1)
      PROVE  (front \o back)[j] = IF j < i THEN s[j] ELSE s[j + 1]
  <2>1. CASE j < i
    BY <1>1, <1>2, <2>1
  <2>2. CASE j >= i
    <3>1. (front \o back)[j] = back[j - (i - 1)]
      BY <1>1, <1>2, <2>2
    <3>2. j - (i - 1) \in 1..(Len(s) - i) /\ i + (j - (i - 1)) = j + 1
      BY <2>2
    <3> QED
      BY <1>2, <2>2, <3>1, <3>2
  <2> QED
    BY <1>1, <1>2, <2>1, <2>2
<1> QED
  BY <1>3, <1>4, <1>5

(* The positions a tally counts are finitely many.                         *)
Positions(votes, value) == {j \in DOMAIN votes : votes[j].vote = value}

LEMMA PositionsFinite ==
    ASSUME NEW S, NEW votes \in Seq(S), NEW value
    PROVE  /\ IsFiniteSet(Positions(votes, value))
           /\ Tally(votes, value) = Cardinality(Positions(votes, value))
           /\ Tally(votes, value) \in Nat
<1>1. Positions(votes, value) \in SUBSET (1..Len(votes))
  BY DEF Positions
<1>2. IsFiniteSet(1..Len(votes))
  BY FS_Interval
<1>3. IsFiniteSet(Positions(votes, value))
  BY <1>1, <1>2, FS_Subset
<1>4. Tally(votes, value) = Cardinality(Positions(votes, value))
  BY DEF Tally, Positions
<1> QED
  BY <1>3, <1>4, FS_CardinalityType

(* A new vote adds one to the tally of its own value.                      *)
LEMMA TallyAppend ==
    ASSUME NEW S, NEW votes \in Seq(S), NEW v \in S, NEW value
    PROVE  Tally(Append(votes, v), value)
             = Tally(votes, value) + (IF v.vote = value THEN 1 ELSE 0)
<1> DEFINE longer == Append(votes, v)
           last   == Len(votes) + 1
<1>1. /\ longer \in Seq(S)
      /\ DOMAIN longer = (1..Len(votes)) \cup {last}
      /\ last \notin 1..Len(votes)
      /\ longer[last] = v
      /\ \A j \in 1..Len(votes) : longer[j] = votes[j]
  OBVIOUS
<1>2. DOMAIN votes = 1..Len(votes)
  OBVIOUS
<1> HIDE DEF longer, last
<1>3. Positions(longer, value)
        = Positions(votes, value) \cup (IF v.vote = value THEN {last} ELSE {})
  BY <1>1, <1>2 DEF Positions
<1>4. last \notin Positions(votes, value)
  BY <1>1, <1>2 DEF Positions
<1>5. /\ IsFiniteSet(Positions(votes, value))
      /\ Tally(votes, value) = Cardinality(Positions(votes, value))
      /\ Tally(votes, value) \in Nat
  BY PositionsFinite
<1>6. Tally(longer, value) = Cardinality(Positions(longer, value))
  BY DEF Tally, Positions
<1>7. CASE v.vote = value
  BY <1>3, <1>4, <1>5, <1>6, <1>7, FS_AddElement DEF longer
<1>8. CASE v.vote # value
  BY <1>3, <1>5, <1>6, <1>8 DEF longer
<1> QED
  BY <1>7, <1>8

(* A withdrawn vote adds to no tally.                                      *)
LEMMA TallyRemoveAt ==
    ASSUME NEW S, NEW votes \in Seq(S), NEW i \in 1..Len(votes), NEW value
    PROVE  Tally(RemoveAt(votes, i), value) <= Tally(votes, value)
<1> DEFINE shorter == RemoveAt(votes, i)
           old(j)  == IF j < i THEN j ELSE j + 1
           move    == [j \in Positions(shorter, value) |-> old(j)]
<1>1. /\ shorter \in Seq(S)
      /\ Len(shorter) = Len(votes) - 1
      /\ \A j \in 1..(Len(votes) - 1) : shorter[j] = votes[old(j)]
  BY RemoveAtProperties
<1> HIDE DEF shorter
<1>2. DOMAIN shorter = 1..(Len(votes) - 1) /\ DOMAIN votes = 1..Len(votes)
  BY <1>1
<1>3. \A j \in Positions(shorter, value) : old(j) \in Positions(votes, value)
  BY <1>1, <1>2 DEF Positions
<1>4. \A j, l \in Positions(shorter, value) : old(j) = old(l) => j = l
  BY <1>1, <1>2 DEF Positions
<1>5. move \in Injection(Positions(shorter, value), Positions(votes, value))
  BY <1>3, <1>4 DEF Injection, IsInjective
<1>6. IsFiniteSet(Positions(votes, value))
  BY PositionsFinite
<1>7. Cardinality(Positions(shorter, value)) <= Cardinality(Positions(votes, value))
  BY <1>5, <1>6, FS_Injection
<1>8. /\ Tally(shorter, value) = Cardinality(Positions(shorter, value))
      /\ Tally(votes, value) = Cardinality(Positions(votes, value))
  BY DEF Tally, Positions
<1> QED
  BY <1>7, <1>8 DEF shorter
-------------------------------------------------------------------------------
(* Every key has one vote in the list.                                     *)
OneVote(votes) ==
    \A j, l \in DOMAIN votes : votes[j].public_key = votes[l].public_key => j = l

(* The vote of a new voter makes the voter one of the voters, and keeps    *)
(* one vote each.                                                          *)
LEMMA OneVoteAppend ==
    ASSUME NEW S, NEW votes \in Seq(S), NEW v \in S
    PROVE  /\ Voters(Append(votes, v)) = Voters(votes) \cup {v.public_key}
           /\ OneVote(votes) /\ v.public_key \notin Voters(votes) => OneVote(Append(votes, v))
<1> DEFINE longer == Append(votes, v)
           last   == Len(votes) + 1
<1>1. /\ DOMAIN longer = (1..Len(votes)) \cup {last}
      /\ longer[last] = v
      /\ \A j \in 1..Len(votes) : longer[j] = votes[j]
      /\ DOMAIN votes = 1..Len(votes)
  OBVIOUS
<1> HIDE DEF longer, last
<1>2. Voters(longer) = Voters(votes) \cup {v.public_key}
  BY <1>1 DEF Voters
<1>3. OneVote(votes) /\ v.public_key \notin Voters(votes) => OneVote(longer)
  BY <1>1 DEF OneVote, Voters
<1> QED
  BY <1>2, <1>3 DEF longer

(* A withdrawn vote makes nobody a voter, and keeps one vote each.         *)
LEMMA OneVoteRemoveAt ==
    ASSUME NEW S, NEW votes \in Seq(S), NEW i \in 1..Len(votes)
    PROVE  /\ Voters(RemoveAt(votes, i)) \subseteq Voters(votes)
           /\ OneVote(votes) => OneVote(RemoveAt(votes, i))
<1> DEFINE shorter == RemoveAt(votes, i)
           old(j)  == IF j < i THEN j ELSE j + 1
<1>1. /\ shorter \in Seq(S)
      /\ Len(shorter) = Len(votes) - 1
      /\ \A j \in 1..(Len(votes) - 1) : shorter[j] = votes[old(j)]
  BY RemoveAtProperties
<1> HIDE DEF shorter
<1>2. /\ DOMAIN shorter = 1..(Len(votes) - 1)
      /\ DOMAIN votes = 1..Len(votes)
      /\ \A j \in DOMAIN shorter : old(j) \in DOMAIN votes
      /\ \A j, l \in DOMAIN shorter : old(j) = old(l) => j = l
  BY <1>1
<1> HIDE DEF old
<1>3. Voters(shorter) \subseteq Voters(votes)
  BY <1>1, <1>2 DEF Voters
<1>4. OneVote(votes) => OneVote(shorter)
  BY <1>1, <1>2 DEF OneVote
<1> QED
  BY <1>3, <1>4 DEF shorter

(* No two candidates of the container have the same id.                    *)
DistinctIds(candidates) ==
    \A i, j \in DOMAIN candidates : candidates[i].proposal_id = candidates[j].proposal_id => i = j

(* The three changes of the container keep the ids distinct.               *)
LEMMA DistinctIdsAppend ==
    ASSUME NEW S, NEW list \in Seq(S), NEW ballot \in S,
           DistinctIds(list), ~Proposed(list, ballot.proposal_id)
    PROVE  DistinctIds(Append(list, ballot))
<1> DEFINE longer == Append(list, ballot)
           last   == Len(list) + 1
<1>1. /\ DOMAIN longer = (1..Len(list)) \cup {last}
      /\ longer[last] = ballot
      /\ \A j \in 1..Len(list) : longer[j] = list[j]
      /\ DOMAIN list = 1..Len(list)
  OBVIOUS
<1> HIDE DEF longer, last
<1>2. DistinctIds(longer)
  BY <1>1 DEF DistinctIds, Proposed
<1> QED
  BY <1>2 DEF longer

LEMMA DistinctIdsWithout ==
    ASSUME NEW S, NEW list \in Seq(S), NEW i \in 1..Len(list), DistinctIds(list)
    PROVE  DistinctIds(WithoutCandidate(list, i))
<1> DEFINE shorter == RemoveAt(list, i)
           old(j)  == IF j < i THEN j ELSE j + 1
<1>1. /\ shorter \in Seq(S)
      /\ Len(shorter) = Len(list) - 1
      /\ \A j \in 1..(Len(list) - 1) : shorter[j] = list[old(j)]
  BY RemoveAtProperties
<1> HIDE DEF shorter
<1>2. /\ DOMAIN shorter = 1..(Len(list) - 1)
      /\ \A j \in DOMAIN shorter : old(j) \in DOMAIN list
      /\ \A j, l \in DOMAIN shorter : old(j) = old(l) => j = l
  BY <1>1
<1> HIDE DEF old
<1>3. DistinctIds(shorter)
  BY <1>1, <1>2 DEF DistinctIds
<1> QED
  BY <1>3 DEF shorter, WithoutCandidate

LEMMA DistinctIdsWithVotes ==
    ASSUME NEW P, NEW E, NEW V,
           NEW list \in Seq([proposal_id : P, proposal : E, votes : V]),
           NEW i \in DOMAIN list, NEW votes \in V, DistinctIds(list)
    PROVE  DistinctIds(WithVotes(list, i, votes))
<1>1. /\ DOMAIN WithVotes(list, i, votes) = DOMAIN list
      /\ \A j \in DOMAIN list :
            WithVotes(list, i, votes)[j].proposal_id = list[j].proposal_id
  BY DEF WithVotes
<1> QED
  BY <1>1 DEF DistinctIds
===============================================================================
