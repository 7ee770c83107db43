----------------------------- MODULE MCVioser -----------------------------
(***************************************************************************)
(* Instances of Vioser for TLC.                                            *)
(***************************************************************************)
EXTENDS Vioser

CONSTANTS h1, h2, i1, i2, i3, m1, m2

MCHeads == {h1, h2}
MCIrps2 == {i1, i2}
MCIrps == {i1, i2, i3}
MCMessage == {m1}
MCMessages == {m1, m2}

\* Descriptors, IRPs and messages are each interchangeable in Vioser.
Symmetry == Permutations(Heads) \cup Permutations(Irps) \cup Permutations(Messages)

=============================================================================
