------------------------------- MODULE VotingTP -------------------------------
(***************************************************************************)
(* The transaction handler of the asset family, and of the unit family,    *)
(* which is the same program over units.  An authorised key registers an   *)
(* entry directly, or proposes it; proposals that need more than one       *)
(* accepting vote wait in the candidates container until the votes decide  *)
(* them.  The validator applies transactions to a handler one at a time,   *)
(* so each transaction is one step.                                        *)
(*                                                                         *)
(* An entry stands at the address its system, key and value fields hash    *)
(* to (AddressOf); entries that differ only in their properties share it.  *)
(* The address is the id of the proposal too.                              *)
(*                                                                         *)
(* The handler reads its settings from the chain when it has none and      *)
(* keeps them in self.settings (variable cache) until its process stops.   *)
(***************************************************************************)
EXTENDS VotingSettings, Candidates

CONSTANTS
    Entries,        \* the assets (or units) that are registered or proposed
    Addresses,      \* their addresses
    AddressOf,      \* the address of an entry
    NotRegistered   \* no entry at an address

ASSUME EntriesAssumption ==
    /\ AddressOf \in [Entries -> Addresses]
    /\ NotRegistered \notin Entries

VARIABLES
    settings,     \* chain: the settings entry of the dimension
    candidates,   \* chain: the candidates container
    registry,     \* chain: the entry at each address
    cache         \* handler: self.settings

chain == << settings, candidates, registry >>
vars == << settings, candidates, registry, cache >>

Ballots == [proposal_id : Addresses,
            proposal    : Entries,
            votes       : Seq([public_key : Keys, vote : VoteValues])]

TypeOK ==
    /\ settings \in Settings \cup {NoSettings}
    /\ candidates \in Seq(Ballots)
    /\ registry \in [Addresses -> Entries \cup {NotRegistered}]
    /\ cache \in Settings \cup {NoSettings}

(* The settings a transaction is judged by.                                *)
InForce == IF cache = NoSettings THEN settings ELSE cache

(* _get_auth_keys leaves what it found in the handler, whatever becomes of *)
(* the transaction.                                                        *)
LoadSettings == cache' = InForce /\ UNCHANGED settings
-------------------------------------------------------------------------------
(* ACTION_GENESIS and ACTION_DIRECT: the entry is written at its address,  *)
(* over the entry that may be there.                                       *)
Register(key, entry) ==
    /\ Authorizes(InForce, key)
    /\ registry' = [registry EXCEPT ![AddressOf[entry]] = entry]
    /\ LoadSettings
    /\ UNCHANGED candidates

(* ACTION_PROPOSE when one vote is enough: the entry is written at once,   *)
(* and a candidate that waits under the same id stays.                     *)
ProposeAtOnce(key, entry) ==
    /\ Authorizes(InForce, key)
    /\ HasThreshold(InForce)
    /\ InForce.threshold <= 1
    /\ registry' = [registry EXCEPT ![AddressOf[entry]] = entry]
    /\ LoadSettings
    /\ UNCHANGED candidates

(* Faulty: the same entry can be proposed twice.                           *)
ProposeTwice(key, entry) ==
    /\ Authorizes(InForce, key)
    /\ HasThreshold(InForce)
    /\ InForce.threshold > 1
    /\ candidates' = WithProposal(candidates, AddressOf[entry], entry, key)
    /\ LoadSettings
    /\ UNCHANGED registry

(* ACTION_PROPOSE when more than one vote is needed.                       *)
Propose(key, entry) ==
    /\ Authorizes(InForce, key)
    /\ HasThreshold(InForce)
    /\ InForce.threshold > 1
    /\ ~Proposed(candidates, AddressOf[entry])
    /\ candidates' = WithProposal(candidates, AddressOf[entry], entry, key)
    /\ LoadSettings
    /\ UNCHANGED registry
-------------------------------------------------------------------------------
(* Faulty: a second vote of the same key is taken.                         *)
MayVoteAgain(key, id, i) ==
    /\ Authorizes(InForce, key)
    /\ IsFirst(candidates, id, i)
    /\ HasThreshold(InForce)

(* ACTION_VOTE up to the tally: i is the candidate's position, and votes   *)
(* are its votes with the new one.                                         *)
MayVote(key, id, i) ==
    /\ Authorizes(InForce, key)
    /\ IsFirst(candidates, id, i)
    /\ HasThreshold(InForce)
    /\ key \notin Voters(candidates[i].votes)

VotesWith(i, key, vote) == Append(candidates[i].votes, VoteRecord(key, vote))

(* Faulty: one vote short of the threshold approves.                       *)
AcceptedEarly(votes) == Tally(votes, ACCEPT) + 1 >= InForce.threshold

(* Faulty: the threshold has to be exceeded.                               *)
AcceptedLate(votes) == Tally(votes, ACCEPT) > InForce.threshold

Accepted(votes) == Tally(votes, ACCEPT) >= InForce.threshold

(* Faulty: nobody counts whether everyone has voted.                       *)
RejectedByVotes(votes) == Tally(votes, REJECT) >= InForce.threshold

(* Too many votes against, or everyone has voted: duplicate keys count in  *)
(* the length of the list.                                                 *)
Rejected(votes) ==
    \/ Tally(votes, REJECT) >= InForce.threshold
    \/ Tally(votes, REJECT) + Tally(votes, ACCEPT) = Len(InForce.auth_list)

VoteApproves(key, id, vote) ==
    \E i \in DOMAIN candidates :
        /\ MayVote(key, id, i)
        /\ Accepted(VotesWith(i, key, vote))
        /\ registry' = [registry EXCEPT ![id] = candidates[i].proposal]
        /\ candidates' = WithoutCandidate(candidates, i)
        /\ LoadSettings

VoteRejects(key, id, vote) ==
    \E i \in DOMAIN candidates :
        /\ MayVote(key, id, i)
        /\ ~Accepted(VotesWith(i, key, vote))
        /\ Rejected(VotesWith(i, key, vote))
        /\ candidates' = WithoutCandidate(candidates, i)
        /\ LoadSettings
        /\ UNCHANGED registry

VoteRecorded(key, id, vote) ==
    \E i \in DOMAIN candidates :
        /\ MayVote(key, id, i)
        /\ ~Accepted(VotesWith(i, key, vote))
        /\ ~Rejected(VotesWith(i, key, vote))
        /\ candidates' = WithVotes(candidates, i, VotesWith(i, key, vote))
        /\ LoadSettings
        /\ UNCHANGED registry

(* ACTION_UNSET: the signer's vote is taken back, and a candidate without  *)
(* votes goes.                                                             *)
Rescind(key, id) ==
    \E i \in DOMAIN candidates :
        /\ Authorizes(InForce, key)
        /\ IsFirst(candidates, id, i)
        /\ \E j \in DOMAIN candidates[i].votes :
              /\ IsFirstBy(candidates[i].votes, key, j)
              /\ candidates' = IF Len(candidates[i].votes) = 1
                                 THEN WithoutCandidate(candidates, i)
                                 ELSE WithVotes(candidates, i, RemoveAt(candidates[i].votes, j))
        /\ LoadSettings
        /\ UNCHANGED registry

(* A transaction that fails: it is refused, its payload has an unknown     *)
(* action, or the handler raises.  The validator drops its writes; the     *)
(* handler keeps the settings it read.                                     *)
Refuse ==
    /\ LoadSettings
    /\ UNCHANGED << candidates, registry >>

(* The processor stops and a new one takes its place.                      *)
Restart ==
    /\ cache' = NoSettings
    /\ UNCHANGED chain
-------------------------------------------------------------------------------
(* Transactions that change the registry without a vote.                   *)
Direct(key, entry) == Register(key, entry) \/ ProposeAtOnce(key, entry)

Vote(key, id, vote) ==
    VoteApproves(key, id, vote) \/ VoteRejects(key, id, vote) \/ VoteRecorded(key, id, vote)

Next ==
    \/ \E key \in Keys, entry \in Entries : Direct(key, entry) \/ Propose(key, entry)
    \/ \E key \in Keys, id \in Addresses, vote \in VoteValues : Vote(key, id, vote)
    \/ \E key \in Keys, id \in Addresses : Rescind(key, id)
    \/ Refuse
    \/ Restart

(* A chain on which the setting family has just accepted a CREATE, the     *)
(* transaction that also makes the empty candidates container.             *)
Init ==
    /\ settings \in {s \in Settings : Creatable(s)}
    /\ candidates = << >>
    /\ registry = [a \in Addresses |-> NotRegistered]
    /\ cache = NoSettings

Spec == Init /\ [][Next]_vars
-------------------------------------------------------------------------------
(* A proposal id names one candidate, the proposal of an entry with that   *)
(* address: _first always finds the candidate that was meant.              *)
UniqueProposals ==
    /\ \A i, j \in DOMAIN candidates :
          candidates[i].proposal_id = candidates[j].proposal_id => i = j
    /\ \A i \in DOMAIN candidates :
          candidates[i].proposal_id = AddressOf[candidates[i].proposal]

(* Nobody counts twice: in the votes of a candidate every key stands once, *)
(* and every key is on the authorisation list.                             *)
OneVoteEach ==
    \A i \in DOMAIN candidates :
        LET votes == candidates[i].votes
        IN  /\ \A j, l \in DOMAIN votes :
                  votes[j].public_key = votes[l].public_key => j = l
            /\ Voters(votes) \subseteq Electors(settings.auth_list)

(* A proposal that has the votes to be approved or rejected, or that has   *)
(* lost its last vote, is not left in the container: every transaction     *)
(* settles what it decides, a withdrawal included.                         *)
NothingDecidedWaits ==
    \A i \in DOMAIN candidates :
        LET votes == candidates[i].votes
        IN  /\ votes # << >>
            /\ Tally(votes, ACCEPT) < settings.threshold
            /\ Tally(votes, REJECT) < settings.threshold
            /\ Tally(votes, ACCEPT) + Tally(votes, REJECT) < Len(settings.auth_list)

(* A proposal never waits for nobody: as long as it waits, some listed key *)
(* has no vote on it or a blank one that it can take back, so that the     *)
(* voters can decide it without changing their minds.                      *)
CanStillBeDecided ==
    \A i \in DOMAIN candidates :
        \E key \in Electors(settings.auth_list) :
            \A j \in DOMAIN candidates[i].votes :
                candidates[i].votes[j].public_key = key => candidates[i].votes[j].vote = UNSET

(* A vote or a withdrawal touches nothing but the signer's own vote and    *)
(* the candidate it is meant for: all other candidates stay what they      *)
(* were, in the same order, and if the candidate itself stays, so do its   *)
(* proposal and the votes of all other keys.  InOrder: at the positions P  *)
(* of one list and Q of the other stands the same, in the same order.      *)
InOrder(old, P, new, Q) ==
    \E f \in [P -> Q] :
        /\ \A q \in Q : \E p \in P : f[p] = q
        /\ \A p, r \in P : p < r => f[p] < f[r]
        /\ \A p \in P : new[f[p]] = old[p]

VotesOfOthers(votes, key) == {j \in DOMAIN votes : votes[j].public_key # key}

OtherCandidates(list, id) == {i \in DOMAIN list : list[i].proposal_id # id}

OthersStay(key, id) ==
    /\ InOrder(candidates, OtherCandidates(candidates, id),
               candidates', OtherCandidates(candidates', id))
    /\ \A i \in DOMAIN candidates, j \in DOMAIN candidates' :
          candidates[i].proposal_id = id /\ candidates'[j].proposal_id = id =>
              /\ candidates'[j].proposal = candidates[i].proposal
              /\ InOrder(candidates[i].votes, VotesOfOthers(candidates[i].votes, key),
                         candidates'[j].votes, VotesOfOthers(candidates'[j].votes, key))

OnlyOwnVoteChanges ==
    [][ \A key \in Keys, id \in Addresses :
          Rescind(key, id) \/ (\E vote \in VoteValues : Vote(key, id, vote)) => OthersStay(key, id)
      ]_vars

(* The refinement mapping: a candidate as an open proposal, the container  *)
(* as the set of them, and the settings of the chain as electors and       *)
(* quorum.                                                                 *)
VotersFor(votes, value) ==
    {votes[j].public_key : j \in {l \in DOMAIN votes : votes[l].vote = value}}

OpenProposal(candidate) ==
    [id    |-> candidate.proposal_id,
     entry |-> candidate.proposal,
     yes   |-> VotersFor(candidate.votes, ACCEPT),
     no    |-> VotersFor(candidate.votes, REJECT),
     blank |-> VotersFor(candidate.votes, UNSET)]

Quorum == INSTANCE QuorumRegistry WITH
    electors <- Electors(settings.auth_list),
    quorum   <- settings.threshold,
    pending  <- {OpenProposal(candidates[i]) : i \in DOMAIN candidates}

(* The handler keeps the promise of QuorumRegistry: an entry gets into the *)
(* registry by an elector's own registration or by the votes of as many    *)
(* distinct electors as the threshold asks for.                            *)
ImplementsQuorum == Quorum!Spec
===============================================================================
