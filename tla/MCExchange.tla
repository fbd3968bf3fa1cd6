------------------------------ MODULE MCExchange ------------------------------
(***************************************************************************)
(* ExchangeDelivery for TLC, with a configuration of one verb, its         *)
(* reciprocal and a trader who has an agreement with herself; and what the *)
(* configuration files that the repository ships make of Configuration.    *)
(***************************************************************************)
EXTENDS ExchangeDelivery, TLC

Templates == [initiates |-> {}, reciprocates |-> << >>]

MCDemo ==
    [hashblock |-> Templates,
     demo |-> [initiates    |-> {"ask", "offer", "commit", "give"},
               reciprocates |-> [tell       |-> << "demo", "ask" >>,
                                 accept     |-> << "demo", "offer" >>,
                                 obligation |-> << "demo", "commit" >>,
                                 take       |-> << "demo", "give" >>]]]

MCAskOnly ==
    [hashblock |-> Templates,
     demo |-> [initiates |-> {"ask"}, reciprocates |-> [tell |-> << "demo", "ask" >>]]]

Shipped == INSTANCE Configuration WITH
    Signers    <- {"church", "turing"},
    Agreements <- [standard |-> << "church", "turing" >>],
    Namespaces <- MCDemo

Small == INSTANCE Configuration WITH
    Signers    <- {"alice"},
    Agreements <- [own |-> << "alice", "alice" >>],
    Namespaces <- MCAskOnly

(* The shipped files load, their two traders have an arrangement, and each *)
(* reciprocating verb depends on an initiating one.                        *)
ASSUME ShippedAssumption ==
    /\ Shipped!Partners = {{"church", "turing"}}
    /\ DOMAIN Shipped!ReciprocateDependsOn = Shipped!Reciprocates
    /\ \A v \in Shipped!Reciprocates : Shipped!ReciprocateDependsOn[v] \in Shipped!Initiates

MCAlone         == Small!Partners
MCAsk           == Small!Initiates
MCTell          == Small!Reciprocates
MCTellDependsOn == Small!ReciprocateDependsOn
===============================================================================
