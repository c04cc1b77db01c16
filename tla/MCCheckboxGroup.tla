--------------------------- MODULE MCCheckboxGroup ---------------------------
(* Three boxes in a row.  The cursor can be off the group, inside one box,  *)
(* or on the border two neighbours share.                                   *)
EXTENDS CheckboxGroup

MCHits        == {{}, {1}, {2}, {3}, {1, 2}, {2, 3}}
MCHoverRules  == {2}
MCActiveRules == {1, 2}
=============================================================================
