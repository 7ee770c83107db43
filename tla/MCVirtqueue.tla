---------------------------- MODULE MCVirtqueue ----------------------------
(***************************************************************************)
(* Instances of Virtqueue for TLC.                                         *)
(***************************************************************************)
EXTENDS Virtqueue

CONSTANTS c1, c2

MCCookies == {c1, c2}

\* A buffer to fill, a request with an answer, and one with a longer answer.
MCOne == {<<0, 1>>}
MCShort == {<<0, 1>>, <<1, 1>>}
MCLong == {<<0, 1>>, <<1, 2>>}

\* Cookies are interchangeable in every definition of Virtqueue.
Symmetry == Permutations(Cookies)

(***************************************************************************)
(* Two views of the state, sound for the safety properties.                *)
(*                                                                         *)
(* LiveView leaves out dead memory: the buffer that a free descriptor held *)
(* last, which VirtqEnqueue overwrites, and the ring slots outside the     *)
(* windows that the indices delimit.                                       *)
(*                                                                         *)
(* PhaseView also forgets how far the rings have advanced: the definitions *)
(* compare two indices of one ring, or take an index modulo Num, so states *)
(* that differ by a rotation of both rings behave alike.                   *)
(***************************************************************************)
Window(ring, from, to) ==
    [k \in 1..(to - from) % Wrap |-> ring[(from + k - 1) % Num]]

PhaseView ==
    LET free == ToSet(FreeList)
        filled == IF completing = "filled" THEN 1 ELSE 0
        stored == IF storeBuf # <<>> /\ Head(storeBuf).to = "idx" THEN 1 ELSE 0
    IN  << [d \in Descs |-> IF d \in free THEN desc[d].next ELSE desc[d]],
           info, descAvail, headFree,
           [i \in DOMAIN storeBuf |->
               IF storeBuf[i].to = "idx" THEN "idx" ELSE storeBuf[i].val],
           Window(availRing, lastAvail, availIdx + stored),
           (availIdx - lastAvail) % Wrap, noInterrupt,
           Window(usedRing, lastUsed, usedIdx + filled), noNotify,
           pc, signals, device, fetched, completing, asked >>

LiveView == << PhaseView, lastUsed >>

=============================================================================
