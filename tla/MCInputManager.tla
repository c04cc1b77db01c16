--------------------------- MODULE MCInputManager ---------------------------
(* Keys 'a' and 'q'; the arrow up and alt-a; coordinates that look like   *)
(* 'M' and 'q'.                                                             *)
EXTENDS InputManager

MCOtherKeys == {<<27, 91, 65>>, <<27, 97>>}
MCPositions == {<<113, 77>>, <<34, 113>>}
=============================================================================
