---------------------------- MODULE MCProfileDrafts ----------------------------
(* An instance of ProfileDrafts for TLC: two keys, one strategy besides the     *)
(* default one, and two settings that exclude each other.                       *)
EXTENDS ProfileDrafts

CONSTANTS auto, switchyard

OnOff == {{auto, switchyard}}

=============================================================================
