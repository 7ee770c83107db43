------------------------------ MODULE Vioser ------------------------------
(***************************************************************************)
(* The virtio console driver: NTOS/DD/VIOSER/VIOSER.C.  One receive buffer *)
(* and one transmit buffer are shared with the device through two          *)
(* virtqueues, each taken here at what RequestQueue promises (Virtqueue    *)
(* implements it).  A queued request is a pair: the head descriptor it     *)
(* occupies and its cookie.                                                *)
(*                                                                         *)
(* Grain of atomicity.  What runs under dev->Lock is one action.  The DPC  *)
(* drops the lock around IoCompleteRequest; reads and writes, also those   *)
(* that a completion routine issues, run in that window.                   *)
(***************************************************************************)
EXTENDS Integers, FiniteSets, Sequences, SequencesExt

CONSTANTS
    Heads,      \* the descriptors of each virtqueue
    Irps,       \* the requests that callers issue
    NoIrp,      \* ReadIrp = NULL, WriteIrp = NULL
    Messages,   \* what the host sends; NoData is a completion of length 0
    NoData

ASSUME VioserAssumption ==
    /\ IsFiniteSet(Heads) /\ Heads # {}
    /\ NoIrp \notin Irps /\ NoData \notin Messages

VARIABLES
    readIrp, writeIrp,   \* ReadIrp, WriteIrp
    rxArmed,             \* RxArmed
    rxBuf, txBuf,        \* what RxBuf and TxBuf hold
    rxOwed, rxDone,      \* RxQ
    txOwed, txDone,      \* TxQ
    sent,                \* used_len and data of each completed receive request
    dpcQueued,           \* the ISR has queued CompletionDpc
    dpcPc,               \* where VioserDpc is
    dpcIrp,              \* its local irp
    got,                 \* SystemBuffer of a read it is about to complete
    status               \* of each IRP: "idle", "read", "write" (pending)

irps == <<readIrp, writeIrp, status>>
rxq == <<rxOwed, rxDone>>
txq == <<txOwed, txDone>>
dpcs == <<dpcPc, dpcIrp, got>>
vars == <<irps, rxArmed, rxBuf, txBuf, rxq, txq, sent, dpcQueued, dpcs>>

RxRequests == Heads \X {"RxBuf"}
TxRequests == Heads \X Irps

RxQ == INSTANCE RequestQueue
           WITH Cookies <- RxRequests, owed <- rxOwed, done <- rxDone
TxQ == INSTANCE RequestQueue
           WITH Cookies <- TxRequests, owed <- txOwed, done <- txDone

\* The descriptors a queue has free; VirtqEnqueue fails when there is none.
Free(owed, done) == Heads \ {r[1] : r \in owed \cup ToSet(done)}

LockFree == dpcPc \in {"off", "completeRead", "completeWrite"}

Init ==
    /\ readIrp = NoIrp /\ writeIrp = NoIrp
    /\ rxArmed = TRUE
    /\ rxBuf = NoData /\ txBuf = NoIrp
    /\ \E h \in Heads : rxOwed = {<<h, "RxBuf">>}
    /\ rxDone = <<>> /\ txOwed = {} /\ txDone = <<>>
    /\ sent = [h \in Heads |-> NoData]
    /\ dpcQueued = FALSE
    /\ dpcPc = "off" /\ dpcIrp = NoIrp /\ got = NoData
    /\ status = [i \in Irps |-> "idle"]

-----------------------------------------------------------------------------

\* Mutant: the flag is not tested.
VioserArmRx_Always ==
    IF Free(rxOwed, rxDone) = {}
    THEN UNCHANGED <<rxArmed, rxq>>
    ELSE /\ \E h \in Free(rxOwed, rxDone) : RxQ!Submit(<<h, "RxBuf">>)
         /\ rxArmed' = TRUE

\* An armed buffer stays as it is; a failing VirtqEnqueue leaves it unarmed.
VioserArmRx ==
    IF rxArmed \/ Free(rxOwed, rxDone) = {}
    THEN UNCHANGED <<rxArmed, rxq>>
    ELSE /\ \E h \in Free(rxOwed, rxDone) : RxQ!Submit(<<h, "RxBuf">>)
         /\ rxArmed' = TRUE

\* A second reader is refused with STATUS_DEVICE_BUSY and changes nothing.
VioserRead(i) ==
    /\ LockFree /\ status[i] = "idle"
    /\ readIrp = NoIrp
    /\ readIrp' = i
    /\ status' = [status EXCEPT ![i] = "read"]
    /\ VioserArmRx
    /\ UNCHANGED <<writeIrp, rxBuf, txBuf, txq, sent, dpcQueued, dpcs>>

\* Mutant: a second writer is not refused.
VioserWrite_NoBusy(i) ==
    /\ LockFree /\ status[i] = "idle"
    /\ txBuf' = i
    /\ IF Free(txOwed, txDone) = {}
       THEN UNCHANGED <<txq, writeIrp, status>>
       ELSE /\ \E h \in Free(txOwed, txDone) : TxQ!Submit(<<h, i>>)
            /\ writeIrp' = i
            /\ status' = [status EXCEPT ![i] = "write"]
    /\ UNCHANGED <<readIrp, rxArmed, rxBuf, rxq, sent, dpcQueued, dpcs>>

\* Mutant: the writer is not recorded.
VioserWrite_Unrecorded(i) ==
    /\ LockFree /\ status[i] = "idle"
    /\ writeIrp = NoIrp
    /\ txBuf' = i
    /\ \E h \in Free(txOwed, txDone) : TxQ!Submit(<<h, i>>)
    /\ status' = [status EXCEPT ![i] = "write"]
    /\ UNCHANGED <<readIrp, writeIrp, rxArmed, rxBuf, rxq, sent, dpcQueued,
                   dpcs>>

\* A second writer is refused, and so is one the queue has no room for, though
\* not before its data has been copied to TxBuf.
VioserWrite(i) ==
    /\ LockFree /\ status[i] = "idle"
    /\ writeIrp = NoIrp
    /\ txBuf' = i
    /\ IF Free(txOwed, txDone) = {}
       THEN UNCHANGED <<txq, writeIrp, status>>
       ELSE /\ \E h \in Free(txOwed, txDone) : TxQ!Submit(<<h, i>>)
            /\ writeIrp' = i
            /\ status' = [status EXCEPT ![i] = "write"]
    /\ UNCHANGED <<readIrp, rxArmed, rxBuf, rxq, sent, dpcQueued, dpcs>>

-----------------------------------------------------------------------------
(* VioserDpc.                                                              *)

\* Mutant: the DPC looks at the transmit queue only.
DpcStarts_TxOnly ==
    /\ dpcQueued /\ dpcPc = "off"
    /\ dpcQueued' = FALSE
    /\ dpcPc' = "tx"
    /\ UNCHANGED <<irps, rxArmed, rxBuf, txBuf, rxq, txq, sent, dpcIrp, got>>

DpcStarts ==
    /\ dpcQueued /\ dpcPc = "off"
    /\ dpcQueued' = FALSE
    /\ dpcPc' = "rx"
    /\ UNCHANGED <<irps, rxArmed, rxBuf, txBuf, rxq, txq, sent, dpcIrp, got>>

\* Mutant: ReadIrp is not cleared.
DpcDeliver_KeepsIrp ==
    /\ dpcPc = "rx" /\ readIrp # NoIrp
    /\ RxQ!Return
    /\ sent[Head(rxDone)[1]] # NoData
    /\ sent' = [sent EXCEPT ![Head(rxDone)[1]] = NoData]
    /\ rxArmed' = FALSE
    /\ got' = rxBuf
    /\ dpcIrp' = readIrp
    /\ dpcPc' = "completeRead"
    /\ UNCHANGED <<readIrp, writeIrp, status, rxBuf, txBuf, txq, dpcQueued>>

\* Data for a reader is copied and the lock dropped to complete the IRP.
DpcDeliver ==
    /\ dpcPc = "rx" /\ readIrp # NoIrp
    /\ RxQ!Return
    /\ sent[Head(rxDone)[1]] # NoData
    /\ sent' = [sent EXCEPT ![Head(rxDone)[1]] = NoData]
    /\ rxArmed' = FALSE
    /\ got' = rxBuf
    /\ dpcIrp' = readIrp
    /\ readIrp' = NoIrp
    /\ dpcPc' = "completeRead"
    /\ UNCHANGED <<writeIrp, status, rxBuf, txBuf, txq, dpcQueued>>

\* Mutant: a buffer without a reader is not armed again.
DpcDrop_NoRearm ==
    /\ dpcPc = "rx"
    /\ RxQ!Return
    /\ readIrp = NoIrp \/ sent[Head(rxDone)[1]] = NoData
    /\ sent' = [sent EXCEPT ![Head(rxDone)[1]] = NoData]
    /\ rxArmed' = FALSE
    /\ UNCHANGED <<irps, rxBuf, txBuf, txq, dpcQueued, dpcs>>

\* Without a reader, or without data, what arrived is dropped.
DpcDrop ==
    /\ dpcPc = "rx"
    /\ RxQ!Return
    /\ readIrp = NoIrp \/ sent[Head(rxDone)[1]] = NoData
    /\ sent' = [sent EXCEPT ![Head(rxDone)[1]] = NoData]
    /\ rxArmed' = FALSE
    /\ dpcPc' = "rearm"
    /\ UNCHANGED <<irps, rxBuf, txBuf, txq, dpcQueued, dpcIrp, got>>

\* IoCompleteRequest runs without the lock; then the buffer is armed again.
DpcCompleteRead ==
    /\ dpcPc = "completeRead"
    /\ status' = [status EXCEPT ![dpcIrp] = "idle"]
    /\ dpcIrp' = NoIrp /\ got' = NoData
    /\ dpcPc' = "rearm"
    /\ UNCHANGED <<readIrp, writeIrp, rxArmed, rxBuf, txBuf, rxq, txq,
                   sent, dpcQueued>>

DpcRearm ==
    /\ dpcPc = "rearm"
    /\ VioserArmRx
    /\ dpcPc' = "rx"
    /\ UNCHANGED <<irps, rxBuf, txBuf, txq, sent, dpcQueued, dpcIrp, got>>

\* Mutant: the DPC returns without looking at the transmit queue.
DpcRxEmpty_Returns ==
    /\ dpcPc = "rx" /\ rxDone = <<>>
    /\ dpcPc' = "off"
    /\ UNCHANGED <<irps, rxArmed, rxBuf, txBuf, rxq, txq, sent, dpcQueued,
                   dpcIrp, got>>

DpcRxEmpty ==
    /\ dpcPc = "rx" /\ rxDone = <<>>
    /\ dpcPc' = "tx"
    /\ UNCHANGED <<irps, rxArmed, rxBuf, txBuf, rxq, txq, sent, dpcQueued,
                   dpcIrp, got>>

\* A cookie that is not WriteIrp is reported and otherwise ignored.
DpcWritten ==
    /\ dpcPc = "tx"
    /\ TxQ!Return
    /\ LET i == Head(txDone)[2]
       IN  IF i = writeIrp
           THEN /\ writeIrp' = NoIrp
                /\ dpcIrp' = i
                /\ dpcPc' = "completeWrite"
           ELSE UNCHANGED <<writeIrp, dpcPc, dpcIrp>>
    /\ UNCHANGED <<readIrp, status, got, rxArmed, rxBuf, txBuf, rxq, sent,
                   dpcQueued>>

DpcCompleteWrite ==
    /\ dpcPc = "completeWrite"
    /\ status' = [status EXCEPT ![dpcIrp] = "idle"]
    /\ dpcIrp' = NoIrp
    /\ dpcPc' = "tx"
    /\ UNCHANGED <<readIrp, writeIrp, rxArmed, rxBuf, txBuf, rxq, txq,
                   sent, dpcQueued, got>>

DpcTxEmpty ==
    /\ dpcPc = "tx" /\ txDone = <<>>
    /\ dpcPc' = "off"
    /\ UNCHANGED <<irps, rxArmed, rxBuf, txBuf, rxq, txq, sent, dpcQueued,
                   dpcIrp, got>>

-----------------------------------------------------------------------------
(* The device completes a request and interrupts; VioserIsr queues the DPC. *)

HostSends(r) ==
    /\ RxQ!Complete(r)
    /\ \E m \in Messages \cup {NoData} :
           /\ sent' = [sent EXCEPT ![r[1]] = m]
           /\ rxBuf' = IF m = NoData THEN rxBuf ELSE m
    /\ dpcQueued' = TRUE
    /\ UNCHANGED <<irps, rxArmed, txBuf, txq, dpcs>>

HostReceives(r) ==
    /\ TxQ!Complete(r)
    /\ dpcQueued' = TRUE
    /\ UNCHANGED <<irps, rxArmed, rxBuf, txBuf, rxq, sent, dpcs>>

-----------------------------------------------------------------------------

VioserDpc ==
    \/ DpcStarts
    \/ DpcDeliver \/ DpcDrop \/ DpcCompleteRead \/ DpcRearm \/ DpcRxEmpty
    \/ DpcWritten \/ DpcCompleteWrite \/ DpcTxEmpty

Next ==
    \/ \E i \in Irps : VioserRead(i) \/ VioserWrite(i)
    \/ VioserDpc
    \/ \E r \in RxRequests : HostSends(r)
    \/ \E r \in TxRequests : HostReceives(r)

Spec == Init /\ [][Next]_vars

(***************************************************************************)
(* Fairness.  A queued DPC runs and does not block, and the device takes   *)
(* every buffer it is given to send.  Nobody has to read or write, and the *)
(* host need never send anything.                                          *)
(***************************************************************************)
FairSpec ==
    /\ Spec
    /\ WF_vars(VioserDpc)
    /\ WF_vars(\E r \in TxRequests : HostReceives(r))

-----------------------------------------------------------------------------
(* Properties.                                                             *)

\* The values the fields of the device extension, the queues and the DPC's
\* locals range over; a queued cookie is RxBuf, or an IRP.
TypeOK ==
    /\ {readIrp, writeIrp, txBuf, dpcIrp} \subseteq Irps \cup {NoIrp}
    /\ {rxArmed, dpcQueued} \subseteq BOOLEAN
    /\ rxBuf \in Messages \cup {NoData}
    /\ rxOwed \subseteq RxRequests /\ rxDone \in Seq(RxRequests)
    /\ txOwed \subseteq TxRequests /\ txDone \in Seq(TxRequests)
    /\ sent \in [Heads -> Messages \cup {NoData}]
    /\ dpcPc \in {"off", "rx", "completeRead", "rearm", "tx", "completeWrite"}
    /\ status \in [Irps -> {"idle", "read", "write"}]
    /\ got \in Messages \cup {NoData}

\* The comment on RxArmed, "TRUE iff a buf is sitting on rx ring": the flag
\* is set exactly when the buffer is with the device or completed and not yet
\* dequeued, and it is there only once.  And the driver never goes deaf:
\* outside the receive loop of the DPC the buffer is armed.
RxArmedTruthful ==
    /\ Cardinality(rxOwed) + Len(rxDone) = IF rxArmed THEN 1 ELSE 0
    /\ dpcPc \in {"off", "tx", "completeWrite"} => rxArmed

\* RxBuf still holds what a completed receive request put there when the DPC
\* copies it: the device is not given the buffer again before that.
RxBufIntact ==
    rxDone # <<>> /\ sent[Head(rxDone)[1]] # NoData =>
        rxBuf = sent[Head(rxDone)[1]]

\* TxBuf holds the data of the write the device is working on: VioserWrite
\* does not copy the next one over it.
TxBufIntact == \A r \in txOwed : txBuf = r[2]

\* The "tx cookie mismatch" branch of the DPC is dead: a completed transmit
\* request always carries WriteIrp.
TxCookieMatches ==
    \A r \in txOwed \cup ToSet(txDone) : r[2] = writeIrp

\* The variables keep their types, and no IRP is lost or completed twice: a
\* pending IRP is held either by the device extension or by the DPC about to complete it, never by both,
\* and both hold pending IRPs only.
IrpsAccounted ==
    /\ TypeOK
    /\ {i \in Irps : status[i] = "read"} =
           {readIrp, IF dpcPc = "completeRead" THEN dpcIrp ELSE NoIrp} \ {NoIrp}
    /\ {i \in Irps : status[i] = "write"} =
           {writeIrp, IF dpcPc = "completeWrite" THEN dpcIrp ELSE NoIrp} \ {NoIrp}
    /\ dpcIrp # NoIrp => dpcIrp \notin {readIrp, writeIrp}

\* A write, once accepted, is completed, unless the host keeps the receive
\* loop of the DPC busy for ever.
WritesComplete ==
    <>[][\A r \in RxRequests : ~HostSends(r)]_vars =>
        \A i \in Irps : status[i] = "write" ~> status[i] = "idle"

\* A read is not left behind with data: when data has arrived while a reader
\* waits, that reader is served, unless writers keep the transmit loop of the
\* DPC busy for ever.
ReadsComplete ==
    <>[][\A i \in Irps : ~VioserWrite(i)]_vars =>
        \A i \in Irps :
            readIrp = i /\ rxDone # <<>> /\ sent[Head(rxDone)[1]] # NoData
                ~> readIrp # i

=============================================================================
