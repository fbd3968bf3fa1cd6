------------------------------ MODULE Governance ------------------------------
(***************************************************************************)
(* One dimension under governance: the asset (or unit) family of VotingTP  *)
(* and the setting family of SettingTP over the same chain state.  The     *)
(* settings are created, updated and created again while proposals wait    *)
(* and while the voting handler holds the settings it once read.           *)
(*                                                                         *)
(* The setting family takes any dimension name.  A CREATE for a name that  *)
(* is neither "unit" nor "asset" makes settings of its own, but empties    *)
(* the asset container: SharesContainer tells the asset dimension, where   *)
(* this happens, from the unit dimension, where it does not.               *)
(***************************************************************************)
EXTENDS VotingTP

CONSTANTS
    SharesContainer,
    DiscardsBlocks    \* blocks are executed that do not get into the chain

ASSUME GovernanceAssumption == SharesContainer \in BOOLEAN /\ DiscardsBlocks \in BOOLEAN

VARIABLE otherSettings   \* chain: the settings of a dimension without a family

governed == << settings, candidates, registry, cache, otherSettings >>

Setting == INSTANCE SettingTP
Other   == INSTANCE SettingTP WITH settings <- otherSettings

GTypeOK ==
    /\ TypeOK
    /\ otherSettings \in Settings \cup {NoSettings}

(* Before the genesis batch: nothing on the chain.  A container that is    *)
(* not there reads as an empty one.                                        *)
GInit ==
    /\ settings = NoSettings
    /\ candidates = << >>
    /\ registry = [a \in Addresses |-> NotRegistered]
    /\ cache = NoSettings
    /\ otherSettings = NoSettings

CreateSettings(s) ==
    /\ Setting!Create(s)
    /\ UNCHANGED << registry, cache, otherSettings >>

UpdateSettings(key, s) ==
    /\ Setting!Update(key, s)
    /\ UNCHANGED << registry, cache, otherSettings >>

(* The other dimension is updated without an effect on this one.           *)
CreateOther(s) ==
    /\ SharesContainer
    /\ Other!Create(s)
    /\ UNCHANGED << settings, registry, cache >>

(* The handler reads its settings in the context of a block, and the block *)
(* is discarded afterwards: the settings that the handler keeps are those  *)
(* of an UPDATE, or a CREATE, that this chain never sees.                  *)
LoadDiscarded ==
    /\ DiscardsBlocks
    /\ cache = NoSettings
    /\ cache' \in Settings
    /\ UNCHANGED << chain, otherSettings >>

GNext ==
    \/ Next /\ UNCHANGED otherSettings
    \/ LoadDiscarded
    \/ \E s \in Settings :
          CreateSettings(s) \/ CreateOther(s) \/ \E key \in Keys : UpdateSettings(key, s)

GSpec == GInit /\ [][GNext]_governed
-------------------------------------------------------------------------------
(* However the settings change under the proposals, and whatever settings  *)
(* the handler goes by, those of a discarded block included, a proposal id *)
(* names one candidate and a key has one vote on it.                       *)
ContainerIsSound ==
    /\ UniqueProposals
    /\ \A i \in DOMAIN candidates :
          LET votes == candidates[i].votes
          IN  /\ votes # << >>
              /\ \A j, l \in DOMAIN votes :
                    votes[j].public_key = votes[l].public_key => j = l

(* An UPDATE keeps the proposals that wait: they leave the container one   *)
(* by one, except when a CREATE empties it, for this dimension, which had  *)
(* no authorisation list then, or for another one.                         *)
ProposalIds(list) == {list[i].proposal_id : i \in DOMAIN list}

ProposalsLeaveAlone ==
    [][ \/ Cardinality(ProposalIds(candidates) \ ProposalIds(candidates')) <= 1
        \/ Setting!AuthList(settings) = << >>
        \/ otherSettings' # otherSettings
      ]_governed

(* The vote that completes a quorum settles the proposal: whatever         *)
(* settings the handler goes by, no transaction of it leaves a proposal    *)
(* in the container that reached their threshold just now.                 *)
QuorumSettles ==
    [][ HasThreshold(cache') =>
          \A i \in DOMAIN candidates, j \in DOMAIN candidates', value \in {ACCEPT, REJECT} :
              /\ candidates[i].proposal_id = candidates'[j].proposal_id
              /\ Tally(candidates'[j].votes, value) >= cache'.threshold
              => Tally(candidates[i].votes, value) >= cache'.threshold
      ]_governed

(* The README: the setting family sets and updates the authorisation       *)
(* constraints of the asset and unit families.  So a key that registers an *)
(* entry is authorised by the settings on the chain.                       *)
JudgedByTheChain ==
    [][ \A key \in Keys, entry \in Entries :
          Register(key, entry) => Authorizes(settings, key) ]_governed

(* modules/address.py: a setting belongs to the unit or to the asset       *)
(* dimension.  So the settings of any other dimension leave the proposals  *)
(* of the families alone.                                                  *)
OthersLeaveAlone ==
    [][ otherSettings' # otherSettings => UNCHANGED candidates ]_governed
===============================================================================
