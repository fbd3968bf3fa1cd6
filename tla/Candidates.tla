------------------------------ MODULE Candidates ------------------------------
(***************************************************************************)
(* The AssetCandidates / UnitCandidates container: the list of the         *)
(* proposals that are being voted on, each with the list of its votes.     *)
(* The handlers read the whole container, change it and write it back;     *)
(* these are the changes they make and the tally they take.                *)
(***************************************************************************)
EXTENDS Integers, Sequences, FiniteSets, SequencesExt

ACCEPT == "VOTE_ACCEPT"
REJECT == "VOTE_REJECT"
UNSET  == "VOTE_UNSET"

(* The values of the vote field: VOTE_UNSET can be sent as a vote too.     *)
VoteValues == {ACCEPT, REJECT, UNSET}

(* Faulty: the fields of a vote record are swapped.                        *)
SwappedVoteRecord(key, vote) == [public_key |-> vote, vote |-> key]

VoteRecord(key, vote) == [public_key |-> key, vote |-> vote]

(* The position of the record `_first` returns for a proposal id.          *)
IsFirst(candidates, id, i) ==
    /\ i \in DOMAIN candidates
    /\ candidates[i].proposal_id = id
    /\ \A j \in 1..(i - 1) : candidates[j].proposal_id # id

Proposed(candidates, id) == \E i \in DOMAIN candidates : candidates[i].proposal_id = id

(* Faulty: the position -1 of an _index_of that finds nothing, which       *)
(* Python's del takes for the last element.                                *)
LastVote(votes, key, j) ==
    /\ \E l \in DOMAIN votes : votes[l].public_key = key
    /\ j = Len(votes)

(* The position of the record `_first` returns for a voter.                *)
IsFirstBy(votes, key, j) ==
    /\ j \in DOMAIN votes
    /\ votes[j].public_key = key
    /\ \A l \in 1..(j - 1) : votes[l].public_key # key

Voters(votes) == {votes[j].public_key : j \in DOMAIN votes}

(* The number of the votes of one value.                                   *)
Tally(votes, value) == Cardinality({j \in DOMAIN votes : votes[j].vote = value})

(* The container with a new candidate, which its proposer accepts.         *)
WithProposal(candidates, id, content, key) ==
    Append(candidates, [proposal_id |-> id,
                        proposal    |-> content,
                        votes       |-> << VoteRecord(key, ACCEPT) >>])

WithVotes(candidates, i, votes) == [candidates EXCEPT ![i].votes = votes]

(* Faulty: the last candidate goes, whichever was decided.                 *)
WithoutLast(candidates, i) == RemoveAt(candidates, Len(candidates))

WithoutCandidate(candidates, i) == RemoveAt(candidates, i)
===============================================================================
