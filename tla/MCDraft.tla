------------------------------ MODULE MCDraft ------------------------------
(* Instances of Draft for TLC: two fields of two values, so that an edit   *)
(* can be undone, and a conflict can be about one field or about both.     *)
EXTENDS Draft

MCValues == {0, 1}
=============================================================================
