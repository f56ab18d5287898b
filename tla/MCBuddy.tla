------------------------------- MODULE MCBuddy -------------------------------
(***************************************************************************)
(* A small instance of Buddy: the layout of `Units' units, computed as     *)
(* buddy_info_calc_metadata does.                                          *)
(***************************************************************************)
EXTENDS Buddy

MCBlockLen == [l \in 0..Levels |-> 2^l]
MCBlockCount == [l \in 0..(Levels - 1) |-> Units \div 2^l]
=============================================================================
