---------------------------- MODULE MCTallyServer ----------------------------
(* Two checkboxes, as main() sets them up: the first expects "cam1", the    *)
(* second has no clientName.  The light d1 is called cam1, d2 is new.       *)
EXTENDS TallyServer

MCNames       == {"", "?", "cam1", "alex"}
MCEepromName  == [d \in Devices |-> IF d = "d1" THEN "cam1" ELSE "alex"]
MCInitLabel   == <<"cam 1", "cam 2">>
MCInitBoxName == <<"cam1", "">>
=============================================================================
