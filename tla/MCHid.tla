------------------------------- MODULE MCHid --------------------------------
(* Representative keys and movements for TLC. *)
EXTENDS Hid

\* A letter, the numpad, both kinds of Alt, both prefixes, modifiers and locks.
MCKeys == {30, 71, LSHIFT, CAPSLOCK, NUMLOCK, RALT, RCTRL, PRINTSCREEN, PAUSEBREAK}

\* The extreme displacements and a button.
MCMoves == {[left |-> TRUE, dx |-> -256, dy |-> 255], [left |-> FALSE, dx |-> 1, dy |-> -1]}
=============================================================================
