------------------------------ MODULE SettingTP ------------------------------
(***************************************************************************)
(* The transaction handler of the setting family, for one dimension: the   *)
(* settings entry of the dimension and the candidates container a CREATE   *)
(* for that dimension empties.  The handler keeps nothing from one         *)
(* transaction to the next (it reads the authorisation list anew each      *)
(* time), so a transaction it refuses changes nothing at all.              *)
(***************************************************************************)
EXTENDS VotingSettings

VARIABLES
    settings,     \* chain: the settings entry of the dimension
    candidates    \* chain: the container that belongs to it

(* self.auth_list after _get_auth_list: no entry, an empty string and a    *)
(* list of separators are all falsy.                                       *)
AuthList(s) ==
    IF s = NoSettings \/ s.auth_list = NoAuthList THEN << >> ELSE s.auth_list

(* CREATE: whoever signs, the dimension has no authorisation list, and the *)
(* new entry is valid.  The container of the dimension is emptied.         *)
Create(s) ==
    /\ AuthList(settings) = << >>
    /\ Creatable(s)
    /\ settings' = s
    /\ candidates' = << >>

(* Faulty: an UPDATE empties the container too.                            *)
UpdateAndReset(key, s) ==
    /\ key \in Electors(AuthList(settings))
    /\ settings' = s
    /\ candidates' = << >>

(* UPDATE: a listed key replaces the entry; _validate_update accepts any.  *)
Update(key, s) ==
    /\ key \in Electors(AuthList(settings))
    /\ settings' = s
    /\ UNCHANGED candidates

Next ==
    \E s \in Settings :
        Create(s) \/ \E key \in Keys : Update(key, s)
===============================================================================
