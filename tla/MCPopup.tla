------------------------------- MODULE MCPopup -------------------------------
(* Two checkboxes, at "p" with the name "ppp" and at "pp" without a name;   *)
(* lights call themselves "p", like a place but unknown, or "ppp".          *)
EXTENDS Popup

MCInitLabel  == << <<112>>, <<112, 112>> >>
MCInitName   == << <<112, 112, 112>>, <<>> >>
MCLightNames == {<<112>>, <<112, 112, 112>>}
=============================================================================
