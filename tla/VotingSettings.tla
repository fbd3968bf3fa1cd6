---------------------------- MODULE VotingSettings ----------------------------
(***************************************************************************)
(* The Settings entry of one dimension ("asset" or "unit"): who may        *)
(* propose, vote and register, and how many accepting votes register a     *)
(* proposal.  It is chain state at addresser.setting_address, written by   *)
(* the setting family and read by the asset and unit families.             *)
(*                                                                         *)
(* Both fields are strings in the protobuf message.  An auth_list is       *)
(* modelled by the list _string_tolist makes of it, and the empty string,  *)
(* which the handlers test before they split it, by NoAuthList.  The list  *)
(* << >> is a string of separators only.  A threshold is modelled by the   *)
(* integer int() makes of it, and a string int() does not accept, the      *)
(* empty one included, by NoThreshold: both make the transaction fail.     *)
(***************************************************************************)
EXTENDS Integers, Sequences

CONSTANTS
    Keys,         \* public keys that sign transactions
    AuthLists,    \* the authorisation lists that are considered
    Thresholds,   \* the integer thresholds that are considered
    NoSettings,   \* nothing at the setting address
    NoAuthList,   \* the empty auth_list string
    NoThreshold   \* a threshold string without an integer value

ASSUME SettingsAssumption ==
    /\ AuthLists \subseteq Seq(Keys)
    /\ NoAuthList \notin AuthLists
    /\ Thresholds \subseteq Int
    /\ NoThreshold \notin Thresholds

(* What a Settings message can hold.                                       *)
Settings ==
    [auth_list : AuthLists \cup {NoAuthList},
     threshold : Thresholds \cup {NoThreshold}]

ASSUME NoSettingsAssumption == NoSettings \notin Settings

(* The distinct keys of an authorisation list.                             *)
Electors(auth_list) == {auth_list[i] : i \in DOMAIN auth_list}

(* _get_auth_keys finds a non-empty auth_list string.                      *)
HasAuthKeys(s) == s # NoSettings /\ s.auth_list # NoAuthList

(* `auth_keys and public_key not in auth_keys` does not refuse the signer: *)
(* an empty list authorises everybody.                                     *)
Authorizes(s, key) ==
    HasAuthKeys(s) /\ (s.auth_list = << >> \/ key \in Electors(s.auth_list))

(* _get_approval_threshold returns an integer.                             *)
HasThreshold(s) == s # NoSettings /\ s.threshold # NoThreshold

(* The setting family accepts the entry in a CREATE.                       *)
Creatable(s) ==
    /\ s.auth_list # NoAuthList
    /\ s.threshold # NoThreshold
    /\ s.threshold > 0
    /\ s.threshold <= Len(s.auth_list)
===============================================================================
