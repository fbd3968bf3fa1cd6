----------------------------- MODULE MCExchangeTP -----------------------------
(***************************************************************************)
(* ExchangeTP for TLC, with payloads from any submitter: one UTXQ and two  *)
(* MTXQs for it, with every kind of proof.                                 *)
(***************************************************************************)
EXTENDS ExchangeTP

MCPayloads ==
    [type : {"UTXQ"}, ukey : {"utxq"}, udata : {"initiate"}]
    \cup
    [type : {"MTXQ"}, ukey : {"matched"}, udata : {"initiate"},
     mkey : {"mtxq1", "mtxq2"}, mdata : {"reciprocate"},
     proof : {"valid", "invalid", "malformed"}]
===============================================================================
