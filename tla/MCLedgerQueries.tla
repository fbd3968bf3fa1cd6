---------------------------- MODULE MCLedgerQueries ----------------------------
(***************************************************************************)
(* LedgerQueries for TLC: two assets and a unit, two UTXQs and three       *)
(* MTXQs, two of which race for one, and pages of one leaf, so that each   *)
(* list may have several.                                                  *)
(***************************************************************************)
EXTENDS LedgerQueries

Gold(ident) == [family |-> "asset", system |-> "metal", key |-> "gold", ident |-> ident]

MCElements ==
    {Gold("p2"), Gold("p3"),
     [family |-> "unit", system |-> "metal", key |-> "gold", ident |-> "p2"]}

U(ident) == [verb |-> << "demo", "ask" >>, ident |-> ident]
M(ident, of) == [verb |-> << "demo", "tell" >>, ident |-> ident, of |-> of]

MCUtxqs == {U("u1"), U("u2")}
MCMtxqs == {M("m1", U("u1")), M("m2", U("u1")), M("m3", U("u2"))}
MCTracks == {[ident |-> "p2", property |-> "custody"]}

(* Bound: the assets are listed alone, or the exchanges are.               *)
ListedApart ==
    lists["asset"].state = "idle" \/ \A l \in {"utxq", "mtxq"} : lists[l].state = "idle"

MCSpec == LInit /\ [][LNext /\ ListedApart']_<< leaves, lists >>
===============================================================================
