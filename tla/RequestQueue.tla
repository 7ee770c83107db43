---------------------------- MODULE RequestQueue ----------------------------
(***************************************************************************)
(* What a virtqueue promises the driver that uses it: a request it submits *)
(* is completed by the device at most once, in any order, and its cookie   *)
(* comes back exactly once, in the order of the completions.               *)
(***************************************************************************)
EXTENDS Sequences, SequencesExt

CONSTANT Cookies

VARIABLES owed,    \* submitted, not completed by the device
          done     \* completed, not yet handed back to the driver

TypeOK ==
    /\ owed \subseteq Cookies
    /\ done \in Seq(Cookies)

Init == owed = {} /\ done = <<>>

Submit(c) ==
    /\ c \notin owed \cup ToSet(done)
    /\ owed' = owed \cup {c}
    /\ UNCHANGED done

Complete(c) ==
    /\ c \in owed
    /\ owed' = owed \ {c}
    /\ done' = Append(done, c)

Return ==
    /\ done # <<>>
    /\ done' = Tail(done)
    /\ UNCHANGED owed

Next == Return \/ \E c \in Cookies : Submit(c) \/ Complete(c)

Spec == Init /\ [][Next]_<<owed, done>>

=============================================================================
