------------------------------- MODULE MCMmio -------------------------------
(* Areas of one to three pages, their ends inside pages or not.            *)
EXTENDS Mmio

MCRequests == {<<0, 2>>, <<33, 36>>, <<64, 69>>}
=============================================================================
