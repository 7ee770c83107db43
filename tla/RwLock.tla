------------------------------- MODULE RwLock -------------------------------
(***************************************************************************)
(* What an executive resource promises its callers: many threads may have  *)
(* shared access, or one thread exclusive access, and a thread that has    *)
(* access may acquire again.  Nothing is said about how threads wait.      *)
(***************************************************************************)
EXTENDS Integers

CONSTANT Threads

VARIABLES mode,    \* the access each thread has
          depth    \* how many acquisitions it has not yet released

TypeOK ==
    /\ mode \in [Threads -> {"none", "shared", "exclusive"}]
    /\ depth \in [Threads -> Nat]

Init ==
    /\ mode = [t \in Threads |-> "none"]
    /\ depth = [t \in Threads |-> 0]

\* Threads that waited for shared access may be admitted together.
AcquireShared(S) ==
    /\ S # {}
    /\ \A t \in S : mode[t] = "none"
    /\ \A u \in Threads : mode[u] # "exclusive"
    /\ mode' = [t \in Threads |-> IF t \in S THEN "shared" ELSE mode[t]]
    /\ depth' = [t \in Threads |-> IF t \in S THEN depth[t] + 1 ELSE depth[t]]

AcquireExclusive(t) ==
    /\ \A u \in Threads : mode[u] = "none"
    /\ mode' = [mode EXCEPT ![t] = "exclusive"]
    /\ depth' = [depth EXCEPT ![t] = @ + 1]

AcquireAgain(t) ==
    /\ mode[t] # "none"
    /\ depth' = [depth EXCEPT ![t] = @ + 1]
    /\ UNCHANGED mode

Release(t) ==
    /\ depth[t] > 0
    /\ depth' = [depth EXCEPT ![t] = @ - 1]
    /\ mode' = [mode EXCEPT ![t] = IF depth[t] = 1 THEN "none" ELSE @]

Downgrade(t) ==
    /\ mode[t] = "exclusive"
    /\ mode' = [mode EXCEPT ![t] = "shared"]
    /\ UNCHANGED depth

Next ==
    \/ \E S \in SUBSET Threads : AcquireShared(S)
    \/ \E t \in Threads :
           AcquireExclusive(t) \/ AcquireAgain(t) \/ Release(t) \/ Downgrade(t)

Spec == Init /\ [][Next]_<<mode, depth>>

=============================================================================
