----------------------------- MODULE MCViorng -----------------------------
(***************************************************************************)
(* Instances of Viorng for TLC.                                            *)
(***************************************************************************)
EXTENDS Viorng

CONSTANTS h1, h2, h3

MCHeads == {h1, h2, h3}

=============================================================================
