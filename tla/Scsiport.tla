------------------------------ MODULE Scsiport ------------------------------
(***************************************************************************)
(* The SCSI port driver (DD/SCSIPORT/INTERNAL.C) over the VIOBLK miniport, *)
(* with the completion paths of the class drivers that call it             *)
(* (DD/CLASS/CLASS.C, IssueInquiry).                                       *)
(*                                                                         *)
(* A request waits in the queue of its logical unit, then in the device    *)
(* queue of the adapter, is handed to the miniport, and comes back by an   *)
(* interrupt and the completion DPC.  A one-second tick runs two timers:   *)
(* the port's, while the adapter has not asked for the next request or a   *)
(* bus reset holds the requests back, and each unit's, while it has a      *)
(* request outstanding.                                                    *)
(*                                                                         *)
(* One processor: the DPC is interrupted by the adapter only, and new      *)
(* requests come from threads when it is idle or from the completion       *)
(* routines it calls.                                                      *)
(***************************************************************************)
EXTENDS Vioblk, FiniteSets

CONSTANTS
    Units,          \* the logical units: the disk and those a bus scan tries
    NoSrb,
    Synchronous,    \* sent by a thread that waits for them.  The others are
                    \* the disk's reads and writes
    SortKey,        \* srb->QueueSortKey: the first sector
    MaxRetries,     \* the class driver's MAXIMUM_RETRIES
    UntaggedErrors,     \* after so many errors of the device, 4, its reads and
                        \* writes are not tagged any more,
    DisconnectErrors    \* and after so many, 8, they may not be disconnected

ASSUME UnitsAssumption ==
    /\ Disk \in Units
    /\ UnitOf \in [Srbs -> Units]
    /\ NoSrb \notin Srbs
    /\ Synchronous \subseteq Srbs
    /\ SortKey \in [Srbs -> Nat]
    /\ MaxRetries \in Nat
    /\ UntaggedErrors \in Nat
    /\ DisconnectErrors \in Nat

VARIABLES
    io,      \* InterruptData
    ring,    \* in the virtqueue, unanswered
    used,    \* answered, not dequeued
    ext,     \* the status byte of each request's extension
    srb,     \* the request blocks
    unit,    \* the logical unit extensions
    port,    \* the device extension and the device object's queue
    errors,  \* the class driver's ErrorCount for the disk, up to the last
             \* threshold
    dpc      \* ScsiPortCompletionDpc: queued, where it is, what it took

vars == <<io, ring, used, ext, srb, unit, port, errors, dpc>>

TypeOK ==
    /\ io \in [ready : BOOLEAN, hold : BOOLEAN, held : BOOLEAN,
               notification : BOOLEAN, completed : Seq(Srbs)]
    /\ ring \subseteq Srbs
    /\ used \in Seq(Srbs)
    /\ ext \in [Srbs -> Answers \cup {"none"}]
    /\ srb \in [Srbs -> [at : {"class", "port", "thread", "done"},
                         status : Statuses, active : BOOLEAN,
                         frozen : BOOLEAN, freezes : BOOLEAN,
                         noDisconnect : BOOLEAN, retries : 0..MaxRetries]]
    /\ unit \in [Units -> [busy : BOOLEAN, queue : Seq(Srbs), key : Nat,
                           active : BOOLEAN, frozen : BOOLEAN,
                           list : Seq(Srbs), current : Srbs \cup {NoSrb},
                           timer : {"stopped", "running", "zero"}]]
    /\ port \in [busy : BOOLEAN, queue : Seq(Srbs),
                 current : Srbs \cup {NoSrb}, deviceBusy : BOOLEAN,
                 disconnect : BOOLEAN, timer : {"stopped", "running"}]
    /\ errors \in 0..DisconnectErrors
    /\ dpc \in [queued : BOOLEAN, pc : {"idle", "next", "complete"},
                completed : Seq(Srbs)]

\* The state as one record, and the step that leaves the state d.
Current == [io |-> io, ring |-> ring, used |-> used, ext |-> ext, srb |-> srb,
            unit |-> unit, port |-> port, errors |-> errors, dpc |-> dpc]

Leaves(state) ==
    \E d \in {state} :
        /\ io' = d.io
        /\ ring' = d.ring
        /\ used' = d.used
        /\ ext' = d.ext
        /\ srb' = d.srb
        /\ unit' = d.unit
        /\ port' = d.port
        /\ errors' = d.errors
        /\ dpc' = d.dpc

\* F(d), for a state d that is long to write and used often in F.
With(d, F(_)) == CHOOSE e \in {F(c) : c \in {d}} : TRUE

-----------------------------------------------------------------------------
(* Starting a request *)

\* if (InterruptFlags & PD_NOTIFICATION_REQUIRED) IoRequestDpc(...)
RequestDpc(d) == [d EXCEPT !.dpc.queued = @ \/ d.io.notification]

\* SpAllocateRequestStructures gives a queue tag to a request that may
\* disconnect and either names a queue action or does not freeze the queue.
Tagged(d, s) == ~d.srb[s].freezes /\ ~d.srb[s].noDisconnect

SpStartIoSynchronized(d) ==
    LET s == d.port.current
        u == UnitOf[s]
        e == [d EXCEPT
                !.port.timer = "running",
                !.port.deviceBusy = TRUE,
                !.port.disconnect = @ /\ ~d.srb[s].noDisconnect,
                !.unit[u].timer = IF @ = "stopped" THEN "running" ELSE @,
                !.unit[u].active = TRUE,
                !.unit[u].list = IF Tagged(d, s) THEN Append(@, s) ELSE @,
                !.srb[s].active = TRUE]
    IN  IF d.io.hold
        THEN [d EXCEPT !.io.held = TRUE]
        ELSE With(e, LAMBDA c : RequestDpc(VioBlkStartIo(c, s)))

\* A unit has one request outstanding at a time and the adapter more than
\* two extensions, so the structures are there when a request asks for them.
ScsiPortStartIo(d) ==
    LET s == d.port.current
    IN  With(IF Tagged(d, s) THEN d
             ELSE [d EXCEPT !.unit[UnitOf[s]].current = s],
             SpStartIoSynchronized)

IoStartPacket(d, s) ==
    IF d.port.busy
    THEN [d EXCEPT !.port.queue = Append(@, s)]
    ELSE With([d EXCEPT !.port.busy = TRUE, !.port.current = s],
              ScsiPortStartIo)

IoStartNextPacket(d) ==
    IF d.port.queue = <<>>
    THEN [d EXCEPT !.port.busy = FALSE, !.port.current = NoSrb]
    ELSE With([d EXCEPT !.port.current = Head(d.port.queue),
                        !.port.queue = Tail(@)],
              ScsiPortStartIo)

-----------------------------------------------------------------------------
(* The queue of a logical unit, sorted by key *)

\* Behind the entries whose keys are not greater.
KeInsertByKeyDeviceQueue(queue, s) ==
    LET Before(r) == SortKey[r] <= SortKey[s]
    IN  InsertAt(queue, Len(SelectSeq(queue, Before)) + 1, s)

\* The first entry at or above the key, or else the first of all.
ByKey(queue, key) ==
    LET above == {i \in DOMAIN queue : SortKey[queue[i]] >= key}
    IN  IF above = {} THEN 1 ELSE Min(above)

\* A unit whose last request has not been started is left alone, so is a
\* frozen one; otherwise its next request goes to the device queue.
GetNextLuRequest(d, u) ==
    LET e == [d EXCEPT !.unit[u].active = FALSE]
        queue == d.unit[u].queue
        i == ByKey(queue, d.unit[u].key)
    IN  IF ~d.unit[u].active \/ d.unit[u].frozen THEN d
        ELSE IF queue = <<>> THEN [e EXCEPT !.unit[u].busy = FALSE]
        ELSE IoStartPacket([e EXCEPT !.unit[u].queue = RemoveAt(@, i),
                                     !.unit[u].key = SortKey[queue[i]]],
                           queue[i])

-----------------------------------------------------------------------------
(* ScsiPortDispatch *)

\* SRB_FUNCTION_EXECUTE_SCSI
ScsiPortDispatch(d, s) ==
    LET u == UnitOf[s]
        e == [d EXCEPT !.srb[s].at = "port", !.srb[s].status = "PENDING"]
    IN  IF d.unit[u].busy
        THEN [e EXCEPT !.unit[u].queue = KeInsertByKeyDeviceQueue(@, s)]
        ELSE IoStartPacket([e EXCEPT !.unit[u].busy = TRUE], s)

\* Mutant: the queue is unfrozen and its next request not started.
ReleaseQueue_NoStart(d, u) == [d EXCEPT !.unit[u].frozen = FALSE]

\* SRB_FUNCTION_RELEASE_QUEUE
ReleaseQueue(d, u) ==
    LET e == [d EXCEPT !.unit[u].frozen = FALSE]
    IN  IF ~d.unit[u].frozen THEN d
        ELSE IF d.unit[u].current = NoSrb THEN GetNextLuRequest(e, u)
        ELSE e

SpResetBusSynchronized(d) ==
    RequestDpc([VioBlkResetBus(d) EXCEPT !.io.hold = TRUE,
                                         !.port.timer = "running"])

-----------------------------------------------------------------------------
(* Completing a request *)

Retryable(d, s) == d.srb[s].status = "ERROR" /\ d.srb[s].retries > 0

\* ScsiClassInterpretSenseInfo counts the errors.
Counted(d, s) ==
    IF d.srb[s].status = "ERROR" /\ d.errors < DisconnectErrors
    THEN [d EXCEPT !.errors = @ + 1]
    ELSE d

\* ScsiClassReleaseQueue, when s froze its unit's queue.
Released(d, s) ==
    IF d.srb[s].frozen
    THEN ReleaseQueue([d EXCEPT !.srb[s].frozen = FALSE], UnitOf[s])
    ELSE d

\* The completion routine of a read or write: the queue is released, and an
\* error of the device is retried, without disconnecting and so without a tag.
ScsiClassIoComplete(d, s) ==
    LET Continue(e) ==
            IF Retryable(e, s)
            THEN ScsiPortDispatch([e EXCEPT !.srb[s].retries = @ - 1,
                                            !.srb[s].noDisconnect = TRUE], s)
            ELSE [e EXCEPT !.srb[s].at = "done"]
    IN  With(Counted(Released(d, s), s), Continue)

IoCompleteRequest(d, s) ==
    IF s \in Synchronous
    THEN [d EXCEPT !.srb[s].at = "thread"]
    ELSE ScsiClassIoComplete(d, s)

\* Mutant: the device queue is not looked at.
Reconnected_NoStart(d) ==
    [d EXCEPT !.port.disconnect = TRUE,
              !.port.timer = IF d.io.hold THEN @ ELSE "stopped"]

\* The adapter asked for the next request while one ran that may not be
\* disconnected: the device queue moves only when that one completes.
Reconnected(d) ==
    LET e == [d EXCEPT !.port.disconnect = TRUE,
                       !.port.timer = IF d.io.hold THEN @ ELSE "stopped"]
    IN  IF d.port.deviceBusy THEN e ELSE IoStartNextPacket(e)

\* A failed request freezes its unit's queue unless it asked not to.
Freezes(d, s) == d.srb[s].status # "SUCCESS" /\ d.srb[s].freezes

SpProcessCompletedRequest(d, s) ==
    LET u == UnitOf[s]
        c == IF Tagged(d, s) THEN d ELSE [d EXCEPT !.unit[u].current = NoSrb]
        e == IF d.srb[s].noDisconnect THEN Reconnected(c) ELSE c
        f == IF Freezes(d, s)
             THEN [e EXCEPT !.unit[u].frozen = TRUE, !.srb[s].frozen = TRUE]
             ELSE IF e.unit[u].timer = "stopped" THEN GetNextLuRequest(e, u)
             ELSE e
    IN  With(f, LAMBDA g : IoCompleteRequest(g, s))

-----------------------------------------------------------------------------
(* The completion DPC, interrupted between its steps *)

\* A completed request leaves its unit's list, and the unit's timer stops or
\* starts over for the request that is then the oldest.
Untimed(d, s) ==
    LET u == UnitOf[s]
        list == d.unit[u].list
        rest == SelectSeq(list, LAMBDA r : r # s)
        timed == Tagged(d, s) => list[1] = s
    IN  [d EXCEPT !.unit[u].list = rest,
                  !.unit[u].timer = IF ~timed THEN @
                                    ELSE IF rest = <<>> THEN "stopped"
                                    ELSE "running"]

\* SpGetInterruptState: take what was notified.
SpGetInterruptState(d) ==
    FoldLeft(Untimed,
             [d EXCEPT !.io.ready = FALSE, !.io.notification = FALSE,
                       !.io.completed = <<>>,
                       !.dpc.completed = d.io.completed],
             d.io.completed)

\* Mutant: the port's timer is stopped during a reset hold too.
DpcReady_StopsHold(d) ==
    LET moves == d.port.deviceBusy /\ d.port.disconnect
    IN  [d EXCEPT !.port.deviceBusy = FALSE,
                  !.port.timer = IF moves THEN "stopped" ELSE @,
                  !.dpc.pc = IF moves THEN "next" ELSE "complete"]

\* The adapter is ready for the next request; the device queue moves now
\* unless the request that runs may not be disconnected.
DpcReady(d) ==
    LET moves == d.port.deviceBusy /\ d.port.disconnect
    IN  [d EXCEPT !.port.deviceBusy = FALSE,
                  !.port.timer = IF moves /\ ~d.io.hold THEN "stopped" ELSE @,
                  !.dpc.pc = IF moves THEN "next" ELSE "complete"]

\* The DPC is over when it has no request left to complete.
Settled(d) ==
    IF d.dpc.pc = "complete" /\ d.dpc.completed = <<>>
    THEN [d EXCEPT !.dpc.pc = "idle"]
    ELSE d

ScsiPortCompletionDpc ==
    /\ dpc.queued
    /\ dpc.pc = "idle"
    /\ LET d == [Current EXCEPT !.dpc.queued = FALSE]
           e == SpGetInterruptState(d)
       IN  Leaves(IF ~io.notification THEN d
                  ELSE IF io.ready THEN Settled(DpcReady(e))
                  ELSE Settled([e EXCEPT !.dpc.pc = "complete"]))

DpcStartNextPacket ==
    /\ dpc.pc = "next"
    /\ Leaves(Settled([IoStartNextPacket(Current) EXCEPT !.dpc.pc = "complete"]))

DpcCompleteRequest ==
    /\ dpc.pc = "complete"
    /\ LET d == SpProcessCompletedRequest(Current, Head(dpc.completed))
       IN  Leaves(Settled([d EXCEPT !.dpc.completed = Tail(@)]))

-----------------------------------------------------------------------------
(* The adapter *)

\* The device answers a request it holds.
DeviceAnswers(s) ==
    /\ s \in ring
    /\ ring' = ring \ {s}
    /\ used' = Append(used, s)
    /\ \E a \in Answers : ext' = [ext EXCEPT ![s] = a]
    /\ UNCHANGED <<io, srb, unit, port, errors, dpc>>

ScsiPortInterrupt ==
    /\ used # <<>>
    /\ Leaves(RequestDpc(VioBlkInterrupt(Current)))

-----------------------------------------------------------------------------
(* The tick.  Counting down to zero takes any number of ticks. *)

\* Mutant: the request that was held back is not started.
SpTimeoutSynchronized_DropsHeld(d) ==
    IF ~d.io.hold THEN SpResetBusSynchronized(d)
    ELSE [d EXCEPT !.port.timer = "stopped", !.io.hold = FALSE, !.io.held = FALSE]

SpTimeoutSynchronized(d) ==
    LET e == [d EXCEPT !.port.timer = "stopped", !.io.hold = FALSE,
                       !.io.held = FALSE]
    IN  IF ~d.io.hold THEN SpResetBusSynchronized(d)
        ELSE IF d.io.held THEN SpStartIoSynchronized(e)
        ELSE e

\* PortTimeoutCounter > 0: it reaches zero at this tick.
PortTimeout ==
    /\ dpc.pc = "idle"
    /\ port.timer = "running"
    /\ Leaves(SpTimeoutSynchronized(Current))

\* The port's timer is stopped: the units' are looked at, and one that was at
\* zero resets the bus.
UnitTimeout ==
    /\ dpc.pc = "idle"
    /\ port.timer = "stopped"
    /\ \E zero \in SUBSET {u \in Units : unit[u].timer = "running"} :
         LET d == [Current EXCEPT
                     !.unit = [u \in Units |->
                         IF u \in zero THEN [unit[u] EXCEPT !.timer = "zero"]
                         ELSE unit[u]]]
         IN  Leaves(IF \E u \in Units : unit[u].timer = "zero"
                    THEN SpResetBusSynchronized(d)
                    ELSE d)

-----------------------------------------------------------------------------
(* The class drivers *)

\* The flags of a new request: a read or write takes them from the device
\* extension, where ScsiClassInterpretSenseInfo changes them.
ScsiClassBuildRequest(d, s) ==
    [d EXCEPT
        !.srb[s].freezes = s \in Synchronous \/ errors >= UntaggedErrors,
        !.srb[s].noDisconnect = s \notin Synchronous /\ errors >= DisconnectErrors]

\* A request enters: a thread's, or, from a completion routine too, a read or
\* write.
Submit(s) ==
    /\ srb[s].at = "class"
    /\ dpc.pc = "idle" \/ (dpc.pc = "complete" /\ s \notin Synchronous)
    /\ Leaves(ScsiPortDispatch(ScsiClassBuildRequest(Current, s), s))

\* ScsiClassSendSrbSynchronous and IssueInquiry wake: the queue the request
\* froze is released first,
ThreadReleases(s) ==
    /\ srb[s].at = "thread"
    /\ srb[s].frozen
    /\ dpc.pc = "idle"
    /\ Leaves(Released(Current, s))

\* then the request is sent again or given back.
ThreadContinues(s) ==
    /\ srb[s].at = "thread"
    /\ ~srb[s].frozen
    /\ dpc.pc = "idle"
    /\ LET d == Counted(Current, s)
       IN  Leaves(IF Retryable(d, s)
                  THEN ScsiPortDispatch([d EXCEPT !.srb[s].retries = @ - 1], s)
                  ELSE [d EXCEPT !.srb[s].at = "done"])

-----------------------------------------------------------------------------

Init ==
    /\ io = [ready |-> FALSE, hold |-> FALSE, held |-> FALSE,
             notification |-> FALSE, completed |-> <<>>]
    /\ ring = {}
    /\ used = <<>>
    /\ ext = [s \in Srbs |-> "none"]
    /\ srb = [s \in Srbs |-> [at |-> "class", status |-> "PENDING",
                              active |-> FALSE, frozen |-> FALSE,
                              freezes |-> FALSE, noDisconnect |-> FALSE,
                              retries |-> MaxRetries]]
    /\ unit = [u \in Units |-> [busy |-> FALSE, queue |-> <<>>, key |-> 0,
                                active |-> FALSE, frozen |-> FALSE,
                                list |-> <<>>, current |-> NoSrb,
                                timer |-> "stopped"]]
    /\ port = [busy |-> FALSE, queue |-> <<>>, current |-> NoSrb,
               deviceBusy |-> FALSE, disconnect |-> TRUE, timer |-> "stopped"]
    /\ errors = 0
    /\ dpc = [queued |-> FALSE, pc |-> "idle", completed |-> <<>>]

Next ==
    \/ ScsiPortInterrupt
    \/ ScsiPortCompletionDpc
    \/ DpcStartNextPacket
    \/ DpcCompleteRequest
    \/ PortTimeout
    \/ UnitTimeout
    \/ \E s \in Srbs : \/ Submit(s)
                       \/ DeviceAnswers(s)
                       \/ ThreadReleases(s)
                       \/ ThreadContinues(s)

Spec == Init /\ [][Next]_vars

-----------------------------------------------------------------------------
(* Safety *)

\* Given to the miniport and not processed by the DPC.
InMiniport == ring \cup ToSet(used) \cup ToSet(io.completed)

\* The request the port holds back during a reset hold.
Held == IF io.held THEN {port.current} ELSE {}

\* The variables have their types, and every request the port has accepted
\* and not completed is in exactly one place: its unit's queue, the device
\* queue, held back by a reset hold, in the virtqueue, or on one completed
\* list.  Nothing else is in any of them, and of one unit at most one is past
\* the unit's queue.  (Every transfer of
\* ScsiPortStartIo, the interrupt, the DPC, the timeouts and the retries.)
RequestsConserved ==
    LET places == <<port.queue, SetToSeq(Held), SetToSeq(ring), used,
                    io.completed, dpc.completed>>
        started == FlattenSeq(places)
    IN  /\ TypeOK
        /\ \A u \in Units :
             LET mine == SelectSeq(started, LAMBDA s : UnitOf[s] = u)
                 all == unit[u].queue \o mine
             IN  /\ IsInjective(all)
                 /\ ToSet(all) = {s \in Srbs : UnitOf[s] = u /\ srb[s].at = "port"}
                 /\ Len(mine) <= 1

\* The miniport and the device hold only active requests: no timeout, reset
\* or early completion gives back a request whose extension the device may
\* still write, and what a read or write finally reports is what the device
\* answered.  (SRB_FLAGS_IS_ACTIVE in ScsiPortNotification, SpTimeout-
\* Synchronized and SpResetBusSynchronized over a reset that does nothing.)
StatusTruthful ==
    /\ \A s \in ring \cup ToSet(used) : srb[s].active /\ srb[s].at = "port"
    /\ \A s \in Srbs :
         (/\ srb[s].at \in {"thread", "done"}
          /\ UnitOf[s] = Disk
          /\ s \notin Inline
          /\ Segments[s] <= MaxSg)
         => /\ ext[s] # "none"
            /\ srb[s].status = StatusOf(ext[s])

\* A request that waits in its unit's queue is not forgotten: the unit has a
\* request under way whose completion looks at the queue, or the queue is
\* frozen and a thread is about to release it.  (GetNextLuRequest, reached
\* from SpProcessCompletedRequest or SRB_FUNCTION_RELEASE_QUEUE only.)
NoUnitStall ==
    \A u \in Units : unit[u].busy =>
        \E s \in Srbs :
            /\ UnitOf[s] = u
            /\ \/ srb[s].at = "port" /\ s \notin ToSet(unit[u].queue)
               \/ unit[u].frozen /\ srb[s].at = "thread" /\ srb[s].frozen

\* Whatever waits for the adapter has a timer running over it: the unit's for
\* a request the device holds, the port's for a reset hold, which nothing
\* else ends; and a held request is held by a hold.  (The tick looks at the
\* units' timers only while the port's is stopped.)
TimersCover ==
    /\ \A s \in InMiniport : unit[UnitOf[s]].timer # "stopped"
    /\ io.hold => port.timer = "running"
    /\ io.held => io.hold

-----------------------------------------------------------------------------
(* Liveness *)

\* The device answers what it holds, the interrupt and the DPC run, the
\* seconds pass, and a thread that was woken goes on.
Fairness ==
    /\ WF_vars(\E s \in Srbs : DeviceAnswers(s))
    /\ WF_vars(ScsiPortInterrupt)
    /\ WF_vars(ScsiPortCompletionDpc \/ DpcStartNextPacket \/ DpcCompleteRequest)
    /\ WF_vars(PortTimeout)
    /\ WF_vars(\E s \in Srbs : ThreadReleases(s) \/ ThreadContinues(s))

FairSpec == Spec /\ Fairness

\* Every request the port accepts is completed, whatever timeouts, resets,
\* frozen queues and retries it meets on the way: again and again the port
\* and the threads that wait on it have none left.  (A request enters once.
\* The ring has room for the largest request: one that VioBlkSubmitIo finds no
\* room for is not started again.)
EveryRequestCompletes ==
    []<>(\A s \in Srbs : srb[s].at \in {"class", "done"})

=============================================================================
