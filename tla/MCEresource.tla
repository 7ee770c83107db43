---------------------------- MODULE MCEresource ----------------------------
(***************************************************************************)
(* Instances of Eresource for TLC.                                         *)
(***************************************************************************)
EXTENDS Eresource, TLC

CONSTANTS t1, t2, t3, t4

MCThreads2 == {t1, t2}
MCThreads3 == {t1, t2, t3}
MCThreads4 == {t1, t2, t3, t4}

\* Threads are interchangeable in every definition of Eresource.
Symmetry == Permutations(Threads)

=============================================================================
