---------------------------- MODULE MCAssetRequests ----------------------------
(***************************************************************************)
(* RequestsDelivery for TLC: the keys of the default genesis command and   *)
(* one that is not listed; a call that loads a file, and another call that *)
(* creates or proposes an entry or votes on those of the file.             *)
(***************************************************************************)
EXTENDS RequestsDelivery, TLC

CONSTANTS turing, church, carol, load, other, usd

MCCalls == {load, other}
MCGenesisEntries == << usd >>
MCEntries == (MCCalls \X {1, 2}) \cup {usd}
MCAddressOf == [e \in MCEntries |-> e]
MCAuthLists == {<< turing, church >>}

MCGenesisCommands ==
    [signer : {turing, carol}, auth_list : MCAuthLists, threshold : 1..2]
        \cup {[signer |-> turing, auth_list |-> << turing, church >>, threshold |-> 3]}

P(id, signer) == [id |-> id, signer |-> signer]
V(of, signer, word) == [of |-> of, signer |-> signer, word |-> word]
Seed(proposals, votes) == [kind |-> "seed", proposals |-> proposals, votes |-> votes]

Two == << P(1, turing), P(2, turing) >>

MCFiles ==
    {Seed(Two, << V(1, church, "accept"), V(2, church, "accept") >>),
     Seed(Two, << V(1, church, "reject"), V(2, church, "accept") >>),
     Seed(<< P(1, turing) >>, << V(1, church, "accept"), V(1, turing, "accept") >>),
     Seed(<< P(1, turing), P(2, church) >>, << V(1, church, "accept") >>),
     Seed(<< P(1, carol) >>, << V(1, church, "accept") >>),
     Seed(<< P(1, turing) >>, << V(1, church, "accept"), V(3, church, "accept") >>),
     Seed(<< P(1, turing) >>, << V(1, church, "accept"), V(1, Unknown, "accept") >>),
     Seed(<< P(1, turing), P(1, Unknown) >>, << >>),
     Seed(<< P(1, turing) >>, << >>),
     Seed(<< >>, << >>)}

Brought ==
    {[kind |-> kind, proposals |-> << P(1, signer) >>, votes |-> << >>] :
        << kind, signer >> \in {<< "create", church >>, << "create", Unknown >>,
                               << "propose", church >>, << "propose", Unnamed >>}}

Votes ==
    {[kind |-> "vote", proposals |-> << >>, votes |-> << V(<< load, 1 >>, signer, word) >>] :
        << signer, word >> \in {<< church, "accept" >>, << church, "reject" >>,
                               << church, "maybe" >>, << turing, "rescind" >>,
                               << carol, "accept" >>}}

MCRequests == (load :> MCFiles) @@ (other :> Brought \cup Votes)
================================================================================
