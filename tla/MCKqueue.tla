------------------------------ MODULE MCKqueue ------------------------------
(***************************************************************************)
(* Kqueue with two threads of a process that share two completion ports    *)
(* and one hyper critical worker thread; see README.md for the bounds.     *)
(***************************************************************************)
EXTENDS Kqueue

CONSTANTS u1, u2, w, p1, p2, work

\* The target of the first port is one thread, that of the others two.
MCMaximumCount == [q \in Queues |-> IF q = p1 THEN 1 ELSE 2]

\* u1 moves between the ports.
MCUses == [t \in Threads |-> IF t = u1 THEN {p1, p2} ELSE IF t = w THEN {work} ELSE {p1}]

\* u1 drains the ports with a zero timeout (NtRemoveIoCompletionEx) or waits with
\* one; the worker and u2 wait without.
MCTimeouts == [t \in Threads |-> IF t = u1 THEN {"some", "zero"} ELSE {"none"}]
=============================================================================
