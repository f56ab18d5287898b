------------------------------ MODULE MCWindow ------------------------------
(* Two windows on a screen of two by four pixels.  The pointer moves along *)
(* its diagonal, which crosses both title bars, the client area of window 1 *)
(* and, at both ends, the edges of the screen.                             *)
EXTENDS Window

MCStart == <<R(-1, -1, 6, 7), R(0, 1, 3, 4)>>
MCMoves == {<<0, 0>>, <<1, 2>>, <<-1, -2>>}
=============================================================================
