------------------------------ MODULE Viorng ------------------------------
(***************************************************************************)
(* The virtio entropy driver: NTOS/DD/VIORNG/VIORNG.C.  One thread at a    *)
(* time (DriverEntry, then the pump thread) asks the device to fill        *)
(* ScratchBuf, waits a bounded time for the completion DPC and adds the    *)
(* bytes to the random pool.  The virtqueue is taken at what RequestQueue  *)
(* promises; a request is named by the head descriptor it occupies.        *)
(***************************************************************************)
EXTENDS Integers, FiniteSets, Sequences, SequencesExt

CONSTANTS
    Heads,      \* the descriptors of the virtqueue
    Lens        \* how many bytes the device may write

ASSUME ViorngAssumption ==
    /\ IsFiniteSet(Heads) /\ Heads # {}
    /\ Lens \subseteq Nat

VARIABLES
    pump,         \* where VioRngReseedOnce is; "delay" between the rounds
    doneEvent,    \* DoneEvent, a synchronization event
    lastLen,      \* LastLen
    owed, done,   \* the virtqueue
    written,      \* used_len of each completed request
    scratch,      \* how many bytes the device has last put in ScratchBuf
    isr,          \* the device's interrupt is pending
    dpcQueued,    \* CompletionDpc is queued
    dpcSignals,   \* VioRngDpc has dropped IsrLock and will set DoneEvent
    clean         \* history: nothing was outstanding when the round began

queue == <<owed, done>>
dpc == <<dpcQueued, dpcSignals>>
vars == <<pump, doneEvent, lastLen, queue, written, scratch, isr, dpc, clean>>

Queue == INSTANCE RequestQueue WITH Cookies <- Heads

Free == Heads \ (owed \cup ToSet(done))

Init ==
    /\ pump = "clear"
    /\ doneEvent = FALSE
    /\ lastLen = 0
    /\ owed = {} /\ done = <<>>
    /\ written = [h \in Heads |-> 0]
    /\ scratch = 0
    /\ isr = FALSE
    /\ dpcQueued = FALSE /\ dpcSignals = FALSE
    /\ clean = TRUE

-----------------------------------------------------------------------------
(* VioRngReseedOnce and the loop around it.                                *)

KeDelayExecutionThread ==
    /\ pump = "delay"
    /\ pump' = "clear"
    /\ UNCHANGED <<doneEvent, lastLen, queue, written, scratch, isr, dpc, clean>>

ClearDoneEvent ==
    /\ pump = "clear"
    /\ doneEvent' = FALSE
    /\ clean' = (owed = {} /\ done = <<>> /\ ~dpcSignals)
    /\ pump' = "zero"
    /\ UNCHANGED <<lastLen, queue, written, scratch, isr, dpc>>

\* Mutant: the length of the previous round is kept.
ZeroLastLen_Skipped ==
    /\ pump = "zero"
    /\ pump' = "submit"
    /\ UNCHANGED <<doneEvent, lastLen, queue, written, scratch, isr, dpc, clean>>

ZeroLastLen ==
    /\ pump = "zero"
    /\ lastLen' = 0
    /\ pump' = "submit"
    /\ UNCHANGED <<doneEvent, queue, written, scratch, isr, dpc, clean>>

\* With the queue full, VirtqEnqueue fails and the round is given up.
SubmitFill ==
    /\ pump = "submit"
    /\ \/ /\ \E h \in Free : Queue!Submit(h)
          /\ pump' = "wait"
       \/ /\ Free = {}
          /\ pump' = "delay"
          /\ UNCHANGED queue
    /\ UNCHANGED <<doneEvent, lastLen, written, scratch, isr, dpc, clean>>

WaitForFill ==
    /\ pump = "wait" /\ doneEvent
    /\ doneEvent' = FALSE
    /\ pump' = "absorb"
    /\ UNCHANGED <<lastLen, queue, written, scratch, isr, dpc, clean>>

\* Mutant: the wait has no timeout.
FillTimesOut_Never ==
    /\ FALSE
    /\ UNCHANGED vars

\* The round is skipped; the request stays with the device.
FillTimesOut ==
    /\ pump = "wait" /\ ~doneEvent
    /\ pump' = "delay"
    /\ UNCHANGED <<doneEvent, lastLen, queue, written, scratch, isr, dpc, clean>>

\* RngAddEntropy reads lastLen bytes of ScratchBuf, if there are any.
Absorb ==
    /\ pump = "absorb"
    /\ pump' = "delay"
    /\ UNCHANGED <<doneEvent, lastLen, queue, written, scratch, isr, dpc, clean>>

-----------------------------------------------------------------------------
(* The interrupt, the DPC and the device.                                  *)

VioRngIsr ==
    /\ isr
    /\ isr' = FALSE
    /\ dpcQueued' = TRUE
    /\ UNCHANGED <<pump, doneEvent, lastLen, queue, written, scratch, dpcSignals, clean>>

\* Mutant: the length is not recorded.
VioRngDpc_NoLength ==
    /\ dpcQueued /\ ~dpcSignals
    /\ dpcQueued' = FALSE
    /\ done' = <<>>
    /\ dpcSignals' = (done # <<>>)
    /\ UNCHANGED <<pump, doneEvent, lastLen, owed, written, scratch, isr, clean>>

\* The used ring is emptied under IsrLock; the last length wins.
VioRngDpc ==
    /\ dpcQueued /\ ~dpcSignals
    /\ dpcQueued' = FALSE
    /\ done' = <<>>
    /\ lastLen' = IF done = <<>> THEN lastLen ELSE written[Last(done)]
    /\ dpcSignals' = (done # <<>>)
    /\ UNCHANGED <<pump, doneEvent, owed, written, scratch, isr, clean>>

SetDoneEvent ==
    /\ dpcSignals
    /\ doneEvent' = TRUE
    /\ dpcSignals' = FALSE
    /\ UNCHANGED <<pump, lastLen, queue, written, scratch, isr, dpcQueued, clean>>

DeviceFills(h) ==
    /\ Queue!Complete(h)
    /\ \E n \in Lens :
           /\ written' = [written EXCEPT ![h] = n]
           /\ scratch' = n
    /\ isr' = TRUE
    /\ UNCHANGED <<pump, doneEvent, lastLen, dpc, clean>>

-----------------------------------------------------------------------------

VioRngReseedOnce ==
    \/ ClearDoneEvent \/ ZeroLastLen \/ SubmitFill
    \/ WaitForFill \/ FillTimesOut \/ Absorb

VioRngPumpThread == KeDelayExecutionThread \/ VioRngReseedOnce

Next ==
    \/ VioRngPumpThread
    \/ VioRngIsr \/ VioRngDpc \/ SetDoneEvent
    \/ \E h \in Heads : DeviceFills(h)

Spec == Init /\ [][Next]_vars

\* The thread is scheduled, a wait ends by the event or by the timeout, and a
\* pending interrupt and its DPC are served.  The device need not answer.
FairSpec ==
    /\ Spec
    /\ WF_vars(VioRngPumpThread)
    /\ WF_vars(VioRngIsr) /\ WF_vars(VioRngDpc) /\ WF_vars(SetDoneEvent)

-----------------------------------------------------------------------------
(* Properties.                                                             *)

\* The values the round, the event, the queue and the DPC range over; LastLen
\* is a length the device reported, or 0.
TypeOK ==
    /\ pump \in {"delay", "clear", "zero", "submit", "wait", "absorb"}
    /\ {doneEvent, isr, dpcQueued, dpcSignals, clean} \subseteq BOOLEAN
    /\ lastLen \in Lens \cup {0} /\ scratch \in Lens \cup {0}
    /\ owed \subseteq Heads /\ done \in Seq(Heads)
    /\ written \in [Heads -> Lens \cup {0}]

\* The device does not hold ScratchBuf twice.
OneRequestInFlight == Cardinality(owed) + Len(done) <= 1

\* The driver recovers from a late answer.  In a round that begins with
\* nothing outstanding, however many rounds timed out before it, the device
\* has ScratchBuf once, and RngAddEntropy is given the answer to this round's
\* request: the buffer holds that many bytes and the device may not write to
\* it.
AbsorbsTheAnswer ==
    clean =>
        /\ pump \in {"wait", "absorb"} => OneRequestInFlight
        /\ pump = "absorb" => owed = {} /\ lastLen = scratch

\* A device that does not answer never stops the pump: every round ends.
RoundsEnd == []<>(pump = "delay")

\* The variables keep their types, and a late answer never spoils the
\* accounting: while a round waits, a length is there only if the DPC has drained a completion since LastLen was zeroed
\* and has woken the wait for it, or is about to.
NoStaleLength ==
    /\ TypeOK
    /\ pump \in {"submit", "wait"} /\ lastLen # 0 => doneEvent \/ dpcSignals

=============================================================================
