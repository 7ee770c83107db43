------------------------------- MODULE Vioblk -------------------------------
(***************************************************************************)
(* The VIOBLK miniport (DD/VIOBLK/vioblk.c, scsi.c): the three callbacks   *)
(* through which SCSIPORT drives a virtio disk, and the notifications      *)
(* (SCSIPORT/PORT.C) by which they answer.                                 *)
(*                                                                         *)
(* The callbacks run with interrupts of the adapter excluded, so each is a *)
(* function from the state of the port and the adapter to the next one.    *)
(* That state is a record d with, of the fields used here,                 *)
(*   io    the port's InterruptData: what was notified and not yet taken   *)
(*         by the completion DPC                                           *)
(*   ring  the requests the virtqueue holds and the device has not         *)
(*         answered (owed, in module RequestQueue, which Virtqueue         *)
(*         implements)                                                     *)
(*   used  the answered ones not yet dequeued (done)                       *)
(*   ext   the status byte in the extension of each request                *)
(*   srb   the request blocks                                              *)
(***************************************************************************)
EXTENDS SequencesExt, Integers

CONSTANTS
    Srbs,       \* the SCSI request blocks
    UnitOf,     \* the logical unit each is addressed to
    Disk,       \* the one unit that exists: path 0, target 0, lun 0
    Inline,     \* the requests answered from memory: INQUIRY, READ CAPACITY...
    Segments,   \* the physical segments of each request's data buffer
    MaxSg,      \* VIOBLK_MAX_SG
    RingSize    \* the descriptors of the virtqueue

\* Where a request's status comes from: the device wrote 0, 2 or another
\* value over the 0xFF that VioBlkSubmitIo left in the status byte.
Answers == {"OK", "UNSUPP", "IOERR"}

Statuses == {"PENDING", "SUCCESS", "INVALID_REQUEST", "ERROR", "NO_DEVICE"}

ASSUME RequestsAssumption ==
    /\ Inline \subseteq Srbs
    /\ Segments \in [Srbs -> Nat]
    /\ MaxSg \in Nat
    /\ RingSize \in Nat

-----------------------------------------------------------------------------

\* ScsiPortNotification(NextRequest)
NextRequest(d) == [d EXCEPT !.io.ready = TRUE, !.io.notification = TRUE]

\* srb->SrbStatus = status, then ScsiPortNotification(RequestComplete): a
\* request that is not active is not linked a second time.
RequestComplete(d, s, status) ==
    LET e == [d EXCEPT !.srb[s].status = status]
    IN  IF d.srb[s].active
        THEN [e EXCEPT !.srb[s].active = FALSE,
                       !.io.completed = <<s>> \o @,
                       !.io.notification = TRUE]
        ELSE e

-----------------------------------------------------------------------------

\* The descriptors of a request: header, data, status byte.
Descriptors(s) == Segments[s] + 2

InUse(d) ==
    LET held == d.ring \cup {d.used[i] : i \in DOMAIN d.used}
    IN  MapThenSumSet(Descriptors, held)

VioBlkSubmitIo(d, s) ==
    LET e == [d EXCEPT !.ext[s] = "none"]
    IN  IF Segments[s] > MaxSg
        THEN NextRequest(RequestComplete(e, s, "INVALID_REQUEST"))
        ELSE IF InUse(d) + Descriptors(s) > RingSize
             THEN NextRequest(e)
             ELSE [e EXCEPT !.ring = @ \cup {s}]

VioBlkStartIo(d, s) ==
    IF UnitOf[s] # Disk
    THEN NextRequest(RequestComplete(d, s, "NO_DEVICE"))
    ELSE IF s \in Inline
         THEN NextRequest(RequestComplete(d, s, "SUCCESS"))
         ELSE VioBlkSubmitIo(d, s)

-----------------------------------------------------------------------------

\* The status a request completes with, from the byte the device wrote.
StatusOf(answer) ==
    CASE answer = "OK"     -> "SUCCESS"
      [] answer = "UNSUPP" -> "INVALID_REQUEST"
      [] OTHER             -> "ERROR"

\* The interrupt drains the used ring, and asks for the next request when it
\* found anything there.
VioBlkInterrupt(d) ==
    LET Completes(e, s) == RequestComplete(e, s, StatusOf(e.ext[s]))
        e == [FoldLeft(Completes, d, d.used) EXCEPT !.used = <<>>]
    IN  IF d.used = <<>> THEN d ELSE NextRequest(e)

\* Mutant: the reset completes the requests the device still holds.
VioBlkResetBus_Completes(d) ==
    LET Completes(e, s) == RequestComplete(e, s, "ERROR")
    IN  FoldLeft(Completes, d, SetToSeq(d.ring))

\* A virtio disk cannot take a request back: a reset of its bus does nothing.
VioBlkResetBus(d) == d

=============================================================================
