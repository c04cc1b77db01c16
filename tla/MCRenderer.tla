------------------------------ MODULE MCRenderer ------------------------------
(* A terminal of one column, in which halves round up to the whole, and one *)
(* whose elements have room for borders and for a character of text.        *)
EXTENDS Renderer, TLC

MCSizes    == {[w |-> 1, h |-> 3], [w |-> 5, h |-> 5]}
LooksAlike == Permutations(Looks)   \* no action tells one look from another
=============================================================================
