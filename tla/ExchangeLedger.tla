---------------------------- MODULE ExchangeLedger ----------------------------
(***************************************************************************)
(* What the exchange promises of the exchanges it records: an event is     *)
(* initiated once, its terms never change, and it is matched at most once, *)
(* after it was initiated, by one reciprocating event that keeps the terms *)
(* and matches nothing else.                                               *)
(***************************************************************************)
CONSTANTS
    Initiators,
    Reciprocators,
    Terms,               \* what an initiating event says
    Answers,             \* the reciprocating terms that match it
    None

VARIABLES
    initiated,           \* the terms of each initiating event
    reciprocated,        \* the terms of each reciprocating event
    matchedBy            \* the reciprocating event of each initiating one

vars == << initiated, reciprocated, matchedBy >>

Init ==
    /\ initiated = [u \in Initiators |-> None]
    /\ reciprocated = [r \in Reciprocators |-> None]
    /\ matchedBy = [u \in Initiators |-> None]

Initiate(u, terms) ==
    /\ initiated[u] = None
    /\ initiated' = [initiated EXCEPT ![u] = terms]
    /\ UNCHANGED << reciprocated, matchedBy >>

Match(u, r) ==
    /\ initiated[u] # None
    /\ matchedBy[u] = None
    /\ reciprocated[r] = None
    /\ \E answer \in Answers[initiated[u]] :
          reciprocated' = [reciprocated EXCEPT ![r] = answer]
    /\ matchedBy' = [matchedBy EXCEPT ![u] = r]
    /\ UNCHANGED initiated

Next ==
    \E u \in Initiators :
        (\E terms \in Terms : Initiate(u, terms)) \/ (\E r \in Reciprocators : Match(u, r))

Spec == Init /\ [][Next]_vars
===============================================================================
