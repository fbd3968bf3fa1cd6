# A verification project for hashblock-exchange

hashblock-exchange is a set of Hyperledger Sawtooth transaction families with a
REST service in front of them. Traders record exchanges of value on a
blockchain: an *initiating* event (UTXQ, "I ask for 5 bags of peanuts") and a
*reciprocating* one (MTXQ, "I pay $10, at $2 a bag"), with a zero-knowledge
proof that the two balance. The assets and units that exchanges refer to are
registered on the chain by vote, and the settings say who votes and how many
votes it takes.

This directory holds TLA+ models of that program, TLC configurations that check
them on small instances, and proofs of theorems about them for TLAPS.
`PROJECT.json` maps every definition to the lines of the source that it models.
Paths below are relative to the repository; `handler.py` is the handler of the
family that is spoken of.

    tlc -workers 2 -config Voting.cfg MCVotingTP
    tlapm QuorumProofs.tla

## The system

| Component | State | Operations |
|---|---|---|
| **Setting family** `families/setting` | chain: one `Settings` entry (authorisation list, threshold) per dimension | CREATE, UPDATE; a CREATE also empties the dimension's candidates |
| **Asset family** `families/asset` | chain: the registered assets, one container of candidates; process: `self.settings` | GENESIS, DIRECT, PROPOSE, VOTE, UNSET |
| **Unit family** `families/unit` | the same, over units | the same |
| **Exchange family** `families/exchange` | chain: leaves (UTXQ, matched UTXQ, MTXQ) | UTXQ, MTXQ |
| **Track family** `families/track` | chain: tracks | one transaction, which always fails |
| **Asset, unit, setting requests** `apps/shared/asset.py`, `setting.py`, `transactions.py` | how far a call is | create, propose, vote; the load of a file of proposals and votes |
| **Exchange requests** `apps/shared/exchange.py` | what a request read and has not submitted yet | `create_utxq`, `create_mtxq` |
| **Ledger queries** `modules/decode.py`, `apps/shared/rest_client.py` | the pages read so far | lists of assets, units, UTXQs and MTXQs; single leaves |
| **REST service** `apps/hashblock_rest` | none | the end points of the three above, and their answers |
| **Addressing** `modules/address.py` | none | addresses of settings, candidates, entries, tracks, leaves; prefixes |
| **Configuration** `modules/config.py`, `modules/dualities.py` | the contents of two files | who has keys, who shares a secret, which verb depends on which |
| **Balance circuit** `zkSNARK`, `modules/hashblock_zksnark.py` | none | prove, verify |
| **Command line** `apps/hashblock_cli` | files | the genesis batch; the load of a file; keys and tables |
| **Processors' start-up** `families/*/processor/main.py` | none | start, stop |
| zkPROOF, containers and network | files | out of scope, see below |

How they interact:

- The validator (not in this repository) hands a transaction to a processor and
  applies the writes if the handler returns, or drops them if it raises. It runs
  one transaction at a time in a processor, so a handler is one atomic step; the
  interleaving is that of transactions. A processor keeps its handler object
  from one transaction to the next: `self.settings` of the asset and unit
  handlers survives, and is the only state that is not on the chain.
- The setting family writes what the asset and unit families read, and empties
  their candidates container.
- REST requests run in parallel: one service answers one call at a time, but
  every node has a service. Each call reads the chain over HTTP, decides, and
  submits a batch; the transactions are applied later, on a chain that may have
  changed, or never. A call may be cut off after it submitted.
- A batch is applied as a whole or not at all. A transaction may name another
  one that it depends on; apart from that, batches are taken in any order.
- The genesis batch, made by the command line, is what the chain begins with:
  the settings of both dimensions, and the units and assets of two tables.
- Lists are read from the chain page by page. The links from page to page name
  the block of the first one.
- Proofs are made by the request (`hbzksnark -p`) and verified by the exchange
  processor (`hbzksnark -v`), both as a child process whose exit code counts.

What is hard here: votes and candidates live in lists and are edited by
position; the settings a handler goes by may be old, and may change under the
proposals that wait; requests act on what they read, and a file is loaded in two
batches that one refused vote, one lost answer or one stopped processor may part;
lists are put together from pages, and kinds of leaves told apart by slices of
addresses; a proof travels through a number conversion, a constraint system, and
an exit code. `PROJECT.json` lists
each of these hazards at its line, with the properties that are about it.

## The modules

| Module | Models |
|---|---|
| `VotingSettings` | a `Settings` entry: who is authorised, which threshold counts, what CREATE accepts |
| `Candidates` | the candidates container and the changes and tallies the handlers make on it |
| `VotingTP` | the asset handler, and the unit handler, which is the same program |
| `QuorumRegistry` | what both promise: a registry that grows by an elector's own registration or by a quorum of distinct electors (abstract specification) |
| `SettingTP` | the setting handler for one dimension |
| `Governance` | `VotingTP` and `SettingTP` over the same chain state, with a dimension beside them |
| `ExchangeTP` | the exchange handler over leaves |
| `AssetRequests` | the calls that create, propose, vote and load files, the genesis command, the validator with its batches, and `VotingTP` and `SettingTP` as its handlers |
| `RequestsDelivery` | `AssetRequests` with the fairness of the validator's scheduler and a record of the calls that lost a batch |
| `Exchange` | the REST requests, the submitted transactions, and `ExchangeTP` |
| `ExchangeDelivery` | `Exchange` with the fairness of the validator's scheduler and a record of what it lost |
| `ExchangeLedger` | what they promise: every event initiated once, matched once, its terms kept (abstract specification) |
| `Configuration` | partnerships, verbs and what they depend on, from the contents of the configuration files |
| `Addressing` | the fields of the addresses, and the prefixes |
| `LedgerQueries` | the lists and their pages, over a chain that all families write: `ExchangeTP`, the entries and the tracks |
| `BalanceEq` | the balancing equation, from decimal numbers to the constraint system |
| `MCVotingTP`, `MCGovernance`, `MCAssetRequests`, `MCExchange`, `MCExchangeTP`, `MCLedgerQueries` | the values of the constants for TLC |
| `CandidatesProofs` | lemmas about `Candidates` |
| `VotingTPProofs` | theorems about `VotingTP`: types, invariants, and what a vote may touch |
| `QuorumProofs` | theorems about `VotingTP`: it implements `QuorumRegistry`; a proposal can be decided |
| `GovernanceProofs` | theorems about `Governance`: the container under settings that change |
| `BalanceProofs` | theorems about `BalanceEq`: what a proof is worth, for base units and for fresh primes |
| `ExchangeProofs` | theorems about `Exchange`: invariants, and that it implements `ExchangeLedger` |
| `LedgerProofs` | theorems about `LedgerQueries`: the lists are whole, their links open, and they agree |
| `RequestsProofs` | theorems about `AssetRequests`: every effect goes back to a call, and to one that was found right |

Definitions whose comment begins with *Faulty* are not part of any model. They
are plausible slips in the definition that follows them; each property of a
passing run is violated when one of them takes the definition's place.

### VotingTP

State: `settings`, `candidates` and `registry` are the chain entries at the
setting address, the candidate address and the asset (unit) addresses; `cache`
is `self.settings` of the handler. A transaction is judged by `InForce`: the
cache, or the chain when the cache is empty, and whatever becomes of the
transaction the handler keeps what it judged by (`LoadSettings`).

| Action | Code (asset `handler.py`) |
|---|---|
| `Register` | `apply`, ACTION_GENESIS and ACTION_DIRECT |
| `ProposeAtOnce`, `Propose` | `_apply_proposal`, threshold up to 1 and above |
| `VoteApproves`, `VoteRejects`, `VoteRecorded` | `_apply_vote`, the three branches after the tally |
| `Rescind` | `_apply_unset_vote` |
| `Refuse` | every `raise`: the writes are dropped, the settings read are kept |
| `Restart` | the process stops, and `__init__` runs again |

Abstractions. An entry is a member of `Entries`, and its address `AddressOf` of
it: entries that differ in their properties only share an address, and the
address is the proposal's id. An authorisation list is the list
`_string_tolist` makes of the string; the empty string, which the handlers test
before they split it, is `NoAuthList`. A threshold is the integer `int()` makes
of it or `NoThreshold`. VOTE_UNSET can be sent as a vote: it counts for neither
side, and its sender has voted. Refusals that end in another exception than
`InvalidTransaction` (the refusal of a duplicate formats a field that proposals
do not have, line 132) are not told apart: in both cases nothing is written.

`Init` is the chain just after a CREATE: the settings pass its validation, and
the container is empty. `Governance` starts from an empty chain.

Properties (`VotingTP`):

- `UniqueProposals`: an id names one candidate, so the first that is found is
  the one that is meant.
- `OneVoteEach`: one vote per key and proposal, listed keys only.
- `NothingDecidedWaits`: whatever the votes decide has been carried out.
- `CanStillBeDecided`: no proposal waits although everybody has voted on it.
- `OnlyOwnVoteChanges`: a vote or a withdrawal touches only the signer's own vote
  and the candidate it is meant for, whatever positions it computed.
- `ImplementsQuorum`: the handler implements `QuorumRegistry`, under the mapping
  that takes a candidate to the sets of its supporters, opponents and
  abstainers.

### Governance

Adds `Create` and `Update` of `SettingTP`. A CREATE needs the dimension to have
no authorisation list and a valid entry, and empties the container; an UPDATE
needs a listed signer and takes any entry. The setting handler keeps nothing
(it overwrites its fields each time), so its refusals change nothing and are not
modelled. A dimension that is neither "unit" nor "asset" gets settings of its
own, and its CREATE empties the *asset* container: `SharesContainer` is TRUE for
the asset dimension. `VotingTP`'s invariants about thresholds and lists do not
survive a change of settings, nor does the code promise it (old votes count
under new settings). `LoadDiscarded` is the handler that executes a transaction
in a block that does not get into the chain, after an UPDATE or a CREATE in the
same block: it keeps settings that this chain never has. They may be any that
an UPDATE takes, and what the transaction writes is gone. `DiscardsBlocks`
switches it off in the two runs that are to show the effect of a single cause.
What does survive all this:

- `ContainerIsSound`: unique ids, one vote per key, no candidate without votes.
- `ProposalsLeaveAlone`: apart from CREATE, proposals leave one at a time.
- `QuorumSettles`: no transaction leaves a proposal behind that it brought to
  the threshold it goes by.

### AssetRequests

The variables of `VotingTP` are here the context that the validator executes
batches in; `head` is the state at the chain head, and `pending` the submitted
batches. `Begin` takes a batch whose dependencies are met, `ExecuteNext` gives its
next transaction to the handler (`Execute`: `VotingTP`'s actions, and
`Setting!Create` for the settings), `Commit` makes the context the head,
`RefuseBatch` drops it when a handler refuses, `Discard` drops it and keeps the
batch, `LoseBatch` drops a submitted batch that nobody refused (the genesis batch
is read from a file and not submitted). `StopProcessor` strikes at any time, `StartProcessor` brings a handler
without settings. Discards and stops together are bounded by `MaxDisturbances`.

A call goes through the stages of the code: the proposals are checked
(`Receive`), and posted (`PostProposals`, for `create` as a direct
registration); then the votes are checked one by one against the head
(`CheckVote`), and posted in one batch (`PostVotes`). What a call may be asked
covers every answer: 400 (`DataException`: a repeated id, an unnamed signer, an
unknown word, no such proposal), 405 (`AuthException`, which the load of a file
does not catch: 500), and 500 for everything else. A post may fail before or
after the batch arrived, and a call may break off (`Break`). Either ends in one
of the answers of `Unanswered`: 500, or 400 when the validator's REST interface
answered with a body that `result.json()` cannot decode, since the end points
take its `ValueError` for wrong data (`rest_client.py:201`, `app.py:195`). Details that decide
something:

- the votes of a file are let pass when there are no candidates at all, and
  otherwise their proposals must be among the candidates already (`Found`);
- a transaction names its own signer as the batch's: a batch of several signers
  is not valid (`OneSigner`), and a file whose proposals have one signer and its
  votes two leaves its proposals behind;
- the votes of a file depend on its proposals (`Dependencies`);
- a vote for an id that is not in the file is a `KeyError`, after the proposals
  were posted.

Abstractions. An entry is named by its call and its position: the prime that
identifies it is fresh with each call, so the search for duplicates
(`__fail_if_exists`) never finds one. One dimension stands for both, which do
not share anything but the batch.

- `RegisteredByConsent`: whatever the calls were answered, an entry is registered
  only by the genesis batch, by an elector's own create, or because as many
  electors as the threshold asks for called for it. The relation is between what
  was asked of the service and what is on the chain, over all steps in between.
- `EffectsWereChecked`: a call of which anything is queued or on the chain had
  right proposals and known signers, whatever it was answered; and if a vote of
  it was sent, all its votes are words there are, by known signers, on proposals
  of the file or proposals that stood on the chain. It is about a call as a
  whole: a file with one wrong vote sends none. That an answer of 400 means that
  nothing was done does *not* hold, because of the body that does not decode.

`RequestsDelivery` adds the variable `lost`, which remembers whose batches
`LoseBatch` dropped and which nothing in the code reads, and fairness: weak, on `Validate`
(the validator goes on with batches it can take) and on `StartProcessor` (the
compose files say `restart: always`). None on calls, losses, stops or discards.

- `GenesisSettles`: the genesis batch is committed, if its signer is listed.
- `SeedDelivers`: a file that was loaded (200) gets registered, if one elector
  proposes and another one accepts each entry, that is enough for the threshold,
  none of its batches gets lost, and nobody else votes on it. It needs the
  dependencies, and that a batch which is interrupted is executed again. That
  one refused vote takes all votes of its batch with it is what the code does,
  and no part of the repository promises otherwise: it is excused here.

### Exchange

`leaves` is the chain; `queue` the submitted transactions; `stage` and `request`
are the progress of each REST request. An MTXQ request takes three steps, in the
order of the code: the arguments and the partnership secret (`StartMtxq`), the
read of the matched address, which must fail (`SeeUnmatched`, or `ReadFails`,
since every `RestException` is taken for "not there"), and the read of the UTXQ,
its checks, the proof and the submission (`SubmitMtxq`). In between, everything
else may happen. `Fail` ends a request at any step. `ApplyTxn` applies any
queued transaction through `TP!Apply`, `LoseTxn` drops one.

Abstractions. A request's uuid is the request itself. The encryption of
`modules/state.py` is commented out, and leaves hold what was put into them.
Quantities are opaque, and an MTXQ is described by the initiating quantity it
balances with; the arithmetic is in `BalanceEq`. The proofs that `Exchange`
submits are valid, since the prover makes no other; `MCExchangeTP` gives the
handler every kind.

- `MatchedOnce`: the matched leaf of a UTXQ is there exactly if one MTXQ names
  it, however requests race.
- `MatchIsSound`: the matched leaf is the UTXQ as it stands, and its MTXQ
  reciprocates and balances it.
- `ImplementsLedger`: the chain is an `ExchangeLedger`.
- `SubmittedGetsMatched`: a submitted MTXQ settles its UTXQ, unless it gets lost.
  It is stated in `ExchangeDelivery`, whose variable `lost` remembers what
  `LoseTxn` dropped; nothing in the code reads it. Fairness: weak, on `ApplyTxn`
  only, the validator's scheduler, which goes on applying what is queued. A
  dropped batch is not sent again. No fairness is assumed of requests or clients.

The trader, partnership and verbs of the run are those that `Configuration`
makes of a small file with one verb and its reciprocal. What it makes of the
shipped files (`localconfig/`) is an assumption that TLC evaluates
(`ShippedAssumption`): its two traders are partners, and every reciprocating verb
depends on an initiating one. A UTXQ needs no partnership: `__validate_partners`
constructs its exception (`exchange.py:56`) and does not raise it.

### LedgerQueries and Addressing

An address is the row of fields of `modules/address.py`, each written as what is
hashed: hashes of the names in use are taken to differ. The widths of the fields
matter to the code through its slices (`address[0:18]`, `address[24]`), which
are here prefixes and a position of the row.

`leaves` is the chain: settings, candidates, entries, UTXQs, MTXQs, tracks; all
families' transactions go on while lists are read. `Ask` is the first page's
request, which fixes the block, `ReadPage` appends a page, `PageFails` ends the list
with an exception: on the first page it is a `RestException`, on a later one an
`AttributeError`, since the error's text is taken for a dictionary. No list is
answered in part. An unknown agreement raises before anything is read. Sawtooth's
own promise, that links between pages name the first page's block, is external.
`height` is the number of leaves of the block that the list was made of, and
orders blocks: leaves are never deleted.

The track family writes a track and then compares `self.action`, which does not
exist, with `TrackPayload.CREATE`, which does not exist either: no track is ever
on the chain.

- `ListIsWhole`: an answered list is the whole list of one block, has leaves of
  its kind only and none twice; a failed one is not answered in part.
- `LinksOpen`: what a list links to is there, and is read as what it is.
- `MatchesAreWitnessed`: the lists of UTXQs and MTXQs, read from different blocks,
  agree: what the older one shows as matched the newer one has the MTXQ of, and
  the other way round.

### BalanceEq

Each of the four numbers per dimension (value, unit, asset) becomes an `int` by
`atoi`, and the system accepts if the product of the three slacks
`i*n - d*r + 1` is 1. The model computes with integers: the factors are smaller
than 2^63 + 1 in magnitude and the field's order exceeds 2^253, so the product
is 1 in the field exactly if it is 1. `IntMax` and `LongMax` are INT_MAX and
LONG_MAX.

What numbers there are: the table of the genesis command names the unity by 1 and
the base units of UCUM by the first primes (`ucum_to_assets.py:63-79`), which an
`int` holds (`IsBase`). All other units and all assets get a fresh prime of 172
bits, which a `long` does not hold (`IsFresh`): `strtol` stops at LONG_MAX, and
the `int` is -1. So every asset has the slack 1, and so do four fresh units. A
value is any number that the caller writes.

- `BalancedIsProved`: whoever balances in values and units gets a proof, if an
  `int` holds the values. Without that condition it is wrong: 3e9 * 2 = 3 * 2e9
  balances, and is refused after `atoi`.
- `ProvedIsNearBalance`: what a proof is worth if an `int` holds the values. They
  balance, and base units balance too; or both are short by exactly two. Of fresh
  units it says nothing, except that four of them leave the values to balance
  alone, and of assets it says nothing at all.
- `ProvedUnitsBalance`, `ProvedIsBalanced`: what README and the comment at
  `match_r1cs.tcc:14` say a proof means. Neither holds, each for a reason of its
  own: fresh primes, and a product in the place of a conjunction. See the runs.

## The runs

Bounds are the sets in the configurations and three that are named:
`WithinBound` (`MCVotingTP`), `ListedApart` (`MCLedgerQueries`) and
`MaxDisturbances` (`AssetRequests`). Votes are limited by the keys, candidates by
the addresses and transactions by the requests.

| Run | Shows | Bounds |
|---|---|---|
| `voting` | all properties of `VotingTP` | two, three or four listed keys, in the first two cases with strangers; thresholds 1 to 3; three entries, two of which contend for one of two addresses. `WithinBound`: three electors vote at the address of the contenders only, four on one entry only |
| `governance_changes` | settings created, updated and re-created under waiting proposals and stale caches, discarded blocks included | two keys, lists of both or one, thresholds 0 and 2, two proposals, a dimension beside. Symmetric in the two entries with their addresses |
| `requests` | the way from a call to the registry | two electors and a stranger, thresholds 1 to 3 of which the command takes 1 and 2; ten files of up to two proposals and two votes; one other call, that creates, proposes, or votes on an entry of the file; one disturbance, any number of lost batches |
| `ledger` | lists over a chain that moves | two assets, a unit, two UTXQs, three MTXQs of which two race, one track; pages of one leaf. `ListedApart`: the list of assets is not read while an exchange list is |
| `exchange_race` | two MTXQ requests race for two UTXQs; stale and failed reads; losses; liveness | two UTXQs, two MTXQs, one trader, one verb, two quantities |
| `balance_small` | the equation, exhaustively | an `int` of 4 bits and a `long` of 6; values 0, 1, 2 and 18, which no `int` holds and which becomes 2; units 1, 3 and a fresh one; two fresh assets; in each of twelve places |

Why the bounds are enough. Three electors are the least with which a proposal
can gather a majority and still have somebody left; four allow a tie. Two
candidates are the least with which a deletion moves another. Positions, not
identities, are what the code confuses, and they occur with two. In the race the
second MTXQ is the interesting one; a third meets the same guard. Thresholds 0
and 2 are one that CREATE refuses and UPDATE takes, and one that needs a vote.
Two proposals in a file are the least of which one can be decided and the other
not; the other call can come before, between and after the file's two batches.
A second disturbance would again find a fresh handler and the head. With pages
of one leaf, two leaves of a kind are a list of two pages, and the racing MTXQs
make one that is never there.

The widths in `balance_small` are scaled down so that a value wraps and a prime
is beyond both; the proofs are for any widths.

Six runs are expected to end in a violation. Each checks what a document, a
comment or a message of the repository says and the code does not do:

| Run | Violated | Because |
|---|---|---|
| `voting_repeated_keys` | `CanStillBeDecided` | a key that is listed twice counts twice in "everybody has voted": a proposal waits that all have voted on, until one of them withdraws and votes again |
| `governance_stale` | `JudgedByTheChain` | the handler never reads its settings again |
| `governance_other_dimension` | `OthersLeaveAlone` | a CREATE for any dimension but "unit" empties the asset proposals |
| `exchange_unbalanced` | `MatchesBalance` | the verifier exits with 0 whatever it finds |
| `balance_large` | `ProvedUnitsBalance` | 172-bit primes become one and the same `int` |
| `balance_cancelled` | `ProvedIsBalanced` | values and units that are both short by two cancel out in the product |

`CanStillBeDecided` passes in the run `voting`, whose lists name every key once.
Deadlock is checked for the voting, governance, ledger and exchange-handler
models, where `Refuse`, `Restart` or another transaction is always possible.
`AssetRequests`, `Exchange` and `BalanceEq` stop when all requests have been dealt
with and when the answer is there.

## The proofs

### Voting

The theorems are about `Spec` of `VotingTP`, for any keys, lists, thresholds,
entries and addresses; the only assumptions are the named ones of
`VotingSettings` and `VotingTP` (lists are sequences of keys, thresholds are
integers, entries have addresses, and the null values are not values).

- `TypeCorrect`: `Spec => []TypeOK`.
- `ProposalsUnique`, `VotesSingle`, `DecisionsTaken`: `UniqueProposals`,
  `OneVoteEach` and `NothingDecidedWaits` are invariants. They are not inductive.
  Two things are missing. First, that the cache is empty or equal to the
  settings of the chain, and these are valid for a CREATE: otherwise a vote
  would be counted against one list and judged by another (`SettingsInv`).
  Second, a form that does not depend on positions, because every deletion
  moves the candidates behind it: `candidates \in Seq(SoundBallots)`, all
  candidates are of the sound kind, with `DistinctIds`. `IInv` is their
  conjunction (theorem `Inductive`).
- `QuorumImplemented`: `Spec => ImplementsQuorum`. Under `IInv` a tally is the
  number of *keys* that voted so, since no key votes twice (`VotersCounted`);
  what an action does to a position of the list it does to the corresponding
  open proposal of the set (`PendingAppend`, `PendingWithout`,
  `PendingWithVotes`); and as many votes as the list is long can only be the
  votes of all electors, even if the list repeats keys (`EverybodyCounted`).
  Each action then is one action of the registry, and `Refuse` and `Restart` are
  stutters.
- `ProposalsDecidable`: `CanStillBeDecided` at all times, on the condition that
  the authorisation list repeats no key (`WithoutRepeats`). The run
  `voting_repeated_keys` shows that the condition is needed.
- `OthersKeepTheirVotes`: `Spec => OnlyOwnVoteChanges`. A list without one
  position is mapped to the list before by an order-preserving bijection
  (`RemovalInOrder`), for candidates and votes alike; `DistinctIds` tells that
  the candidate that was changed is the only one with its id.
- `CandidatesProofs` has what this rests on: the elements and the length of a
  list without one element, and what appending or removing a vote does to a
  tally, by an injection between the positions that are counted.

### Governance

The theorems are about `GSpec` of `Governance`, from an empty chain on, with any
settings created and updated while proposals wait, and with a handler that may
go by settings of a block that was discarded; the assumptions are those of
`Voting`. `SettingsInv` and thresholds are of no use here: a proposal may wait
with votes of keys that are no longer listed.

- `GTypeCorrect`, `ContainerSound`: `GTypeOK` and `ContainerIsSound` are
  invariants. The inductive invariant `GInv` (theorem `GInductive`) is the part
  of `IInv` that does not speak of the settings: ids differ, and the votes of a
  candidate are one per key and at least one (`LastingContainer`).
- `ProposalsLeftAlone`, `QuorumsSettle`: `ProposalsLeaveAlone` and
  `QuorumSettles` hold of every step. A transaction makes one of three changes to
  the container (`ContainerChanges`). Only the removal of a candidate takes ids,
  and those of one candidate (`OneIdGoes`). Only a vote that is counted adds to
  a tally; candidates move when one before them goes, and that ids differ tells
  which of them is meant (`TheCandidate`, `StoodBefore`).

### Exchange

The theorems are about `Spec` of `Exchange`, for any number of requests, any
terms and any partnerships; they assume `ExchangeAssumption` and
`AbsentAssumption` (what the constants are, and that an absent leaf is not a
leaf).

- `ExchangeTyped`, `NoDoubleMatch`, `MatchesSound`: `ETypeOK`, `MatchedOnce` and
  `MatchIsSound` are invariants. What holds of the chain depends on what is in
  the queue, and what is in the queue on what a request could read, so the
  inductive invariant `EInv` (theorem `ExchangeInductive`) goes back along this
  path: `RequestInv` (a request that checks has its terms, and a UTXQ on the
  chain is one whose request has been sent), `QueueInv` (what is queued is a
  UTXQ that is not on the chain yet, or an MTXQ that is not, and that answers
  the UTXQ it carries), `SubmittedOnce` (a UTXQ is queued once), `MatchInv` (an
  MTXQ on the chain is `Settled`: it stands next to the matched leaf it answers;
  a matched leaf has exactly one). That the request has seen no matched leaf is not part
  of it: it may be out of date, and only the handler's own check counts.
- `LedgerImplemented`: `Spec => ImplementsLedger`. Only `ApplyTxn` changes
  leaves; a UTXQ that is applied is `Initiate`, an MTXQ is `Match` or is refused.

### The equation

The theorems are about `Spec` of `BalanceEq`, for any values, any units that are
base units or fresh, and any fresh assets. They assume `WidthAssumption` (an `int`
is narrower than a `long`, and the low bits of LONG_MAX are all set) and
`NumbersAssumption` (the numbers are as above, and equal products of two units
have equal factors, since they are primes or 1).

- `OutcomeDecided`: the equation does not change, and the outcome is what the
  constraint system makes of it.
- `BalancedProved`: a fresh number is -1 as an `int` (`FreshIsMinusOne`), so the
  assets do not count (`AssetsDoNotCount`). Units that balance are pairwise the
  same, and still are when they are `int`s (`SlackOfSameUnits`): the conversion
  cannot part them, whichever they are.
- `ProvedNearBalance`: two integers with the product one are both 1 or both -1
  (`FactorsOfOne`), so a proof says that values and units balance or are short by
  two together, as `int`s; and `SlackOfFitting` and `SlackOfFresh` say what that
  means for the numbers themselves.

### Requests

The theorems are about `RSpec` of `AssetRequests`: for any calls and requests,
any files with any votes in any order, any genesis command, any number of
discarded blocks, lost batches and stopped processors. The assumptions are those of `Voting`,
`RequestsAssumption` (no two entries share an address, names without a key are no
keys, the call of the genesis command is not one of the service's) and
`RequestsTyped` (a request has lists of proposals and votes, one proposal if it
creates or proposes).

The properties relate the chain to what calls have asked for, with a
queue, a context and a handler's memory in between. So the inductive invariant
`RInvariant` (theorem `RequestsInvariant`) follows a request on its way:

- `CallsInv`: what a stage says about a request. Behind the check of the
  proposals there are no faults, and the votes up to `checked` are by known
  signers, with known words, for proposals of the file.
- `BatchesInv`: every transaction that is queued or committed is the genesis
  batch's or `FromCall` of some call, whose stage may then only be one of those
  after a post.
- `ChainsInv`: of the context and of the chain head, the accepting votes of each
  candidate are by electors who called for it, one each, and each entry of the
  registry is `Consented`. That the votes are counted by lists and consent by
  sets of keys is bridged by `VotersCounted`, from `Voting`.
- `Lawful`, `Beginning`: there are only ever the settings of the genesis command,
  on the chain, in the context, and in what a handler keeps from a block that
  was given up; before they are committed there are no calls, and the first
  transaction is the one that brings them. Without this an entry could be
  registered on the word of a handler that remembers settings which the chain
  does not have.

`Supporters` and `Consented` depend on `request`, which grows, so every step needs
that they only grow too (`SupportKept`, `ConsentKept`), and that a call never
falls behind what its transactions rest on (`Progress`). `TxnExecuted` then
takes each handler action once. `RefuseBatch` has an `ENABLED`, which the prover
does not look into: that a batch may be refused at any time is enough for
safety.

- `RequestsTypeCorrect`, `ConsentKeeps`: `RTypeOK` and `RegisteredByConsent` are
  invariants.
- `EffectsChecked`: `EffectsWereChecked` is one. That a vote was for a proposal
  on the chain does not follow from `RInvariant`, because the proposal may be
  gone when the vote is sent. A second layer, `SentInvariant` (theorem
  `SentKeeps`), has it: the ids in the container, at the head and in the context,
  are ids of proposals that were committed or executed (`ListsPlaced`), and what
  a call has checked, or sent, was found among them (`VotesPlaced`); `done` only
  grows.

### Ledger

The theorems are about `LSpec` of `LedgerQueries`, for any leaves, page size and
lists; they assume `LedgerAssumption` and `AbsentAssumption` (idents are unique,
the sets are finite, an absent leaf is not a leaf).

- `LedgerTyped`, `ListsAreWhole`, `LinksAlwaysOpen`, `ListsTellOneStory`: `LTypeOK`,
  `ListIsWhole`, `LinksOpen` and `MatchesAreWitnessed` are invariants. The
  inductive invariant `LInv` (theorem `LedgerInvariant`) has three parts.
  `ChainInv`: which leaf stands at which address, and that a matched UTXQ stands
  exactly if one of its MTXQs does. `ListsInv`: what a list has read is the
  first pages of its block, and its block is part of the chain, since
  transactions only add (`TxnsAdd`). `OneStory`: the lists of
  UTXQs and MTXQs agree as they were asked for, whether they have been read
  already or not; the height of a block tells which list shows less.
- That a prefix of an address selects exactly the leaves of one kind
  (`PrefixSelects`) is computed from the rows of fields that the functions of
  `Addressing` put together, family by family (`ElementForm` to `MtxqForm`).

### What stays with TLC

Liveness under fairness is out of the prover's reach: `SubmittedGetsMatched`,
`GenesisSettles` and `SeedDelivers`. So is `ENABLED`: that `RefuseBatch` refuses
exactly what no handler executes matters to the last two and to no invariant. All
other properties of the passing runs are proved. The properties of the violation
runs do not hold, so there is nothing to prove of them, but
`CanStillBeDecided` is proved on the condition that its run lacks.

## What is not modelled, and what comes next

Not modelled, for good: argument parsing, logging, the reading of key and
configuration files (their contents are constants), key generation and the
conversion of the two tables by the command line tools, the displays of settings
and proposals, methods of the REST client that nothing calls (blocks, batches,
peers), the cached look-ups of `modules/decode.py` that belong to a function nothing
calls, the `zkPROOF` demonstration, containers and deployment, and the cryptography
itself (libsnark, ECDH, signatures), which is taken to do what it says.

Noticed on the way and without a property, since nothing depends on it:
`SimpleAddress.is_family` compares twelve digits with six and has no caller;
`modules/config.py:245` puts the submitters where the zkSNARK keys belong, which
nothing reads; the lists of UTXQs and MTXQs are those of all agreements, since
encryption is switched off; a matched UTXQ stays on the list a second time, as
not matched.

Planned: the part of `IInv` that `AssetRequests` does not repeat, as theorems of
its chain head.
