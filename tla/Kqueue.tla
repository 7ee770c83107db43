------------------------------- MODULE Kqueue -------------------------------
(***************************************************************************)
(* Kernel queue objects: NTOS/KE/QUEUEOBJ.C, with the parts of the         *)
(* dispatcher that keep a queue's count of active threads (KiUnwaitThread, *)
(* the waits of WAIT.C, KeTerminateThread) and the users of queues:        *)
(* executive worker threads (EX/WORKER.C), I/O completion ports            *)
(* (IO/COMPLETE.C) and the thread reaper (PS/PSDELETE.C).                  *)
(*                                                                         *)
(* A queue hands each of its entries to one thread and tries to keep at    *)
(* most MaximumCount of its threads active.  A thread that has removed an  *)
(* entry belongs to the queue from then on: when it blocks anywhere in the *)
(* kernel it stops counting as active, and when it is readied it counts    *)
(* again.                                                                  *)
(*                                                                         *)
(* Grain of atomicity.  Everything between KiLockDispatcherDatabase and    *)
(* KiUnlockDispatcherDatabase or KiSwapContext is one step.  The routines  *)
(* that run with the lock held are functions from one state of the         *)
(* dispatcher database to the next, composed in the order of the calls.    *)
(***************************************************************************)
EXTENDS SequencesExt, Integers

CONSTANTS
    Threads,        \* the threads that remove entries from queues
    NoThread,       \* a current thread that belongs to no queue: any other
                    \* thread, and the DPCs that interrupt it
    Queues,         \* the queue objects
    NoQueue,        \* SuspendApc.NormalContext = NULL
    HyperCritical,  \* ExWorkerQueue[HyperCriticalWorkQueue]
    Ports,          \* the queues that are I/O completion ports, with handles
                    \* that can be closed
    Entries,        \* work items and completion packets
    NoEntry,
    ReaperItem,     \* PsReaperWorkItem
    MaximumCount,   \* [Queues -> Nat]: MaximumCount
    Uses,           \* [Threads -> SUBSET Queues]: whose entries a thread removes
    UserThreads,    \* the threads that wait in user mode and can be terminated
    Timeouts        \* [Threads -> the timeouts a thread passes to KeRemoveQueue]

ASSUME NamesAssumption ==
    /\ IsFiniteSet(Threads) /\ NoThread \notin Threads
    /\ HyperCritical \in Queues /\ NoQueue \notin Queues
    /\ Ports \subseteq Queues \ {HyperCritical}
    /\ ReaperItem \in Entries /\ NoEntry \notin Entries

ASSUME UseAssumption ==
    /\ MaximumCount \in [Queues -> Nat \ {0}]
    /\ Uses \in [Threads -> SUBSET Queues]
    /\ UserThreads \subseteq Threads
    /\ \A t \in UserThreads : HyperCritical \notin Uses[t]
    /\ Timeouts \in [Threads -> SUBSET {"none", "zero", "some"}]

VARIABLES
    live,          \* the queues that have not been run down
    signalState,   \* Header.SignalState
    entryList,     \* EntryListHead
    waitList,      \* Header.WaitListHead: the threads whose wait blocks are on it
    threadList,    \* ThreadListHead
    currentCount,  \* CurrentCount
    queue,         \* thread: SuspendApc.NormalContext, the queue it belongs to
    pc,            \* thread: "run" outside KeRemoveQueue, "queue" waiting in it,
                   \* "woken" unwaited but not yet past KiSwapContext there,
                   \* "retry" about to lock the database again, "block" waiting
                   \* for something else, "dead" terminated
    back,          \* thread that blocks: where it goes on when it is readied
    waitReason,    \* thread: WaitReason, every reason but WrQueue taken as one
    waitStatus,    \* thread: WaitStatus, an entry or a status, until
                   \* KeRemoveQueue has returned it
    timeout,       \* thread: the timeout of its call to KeRemoveQueue
    held,          \* thread: the entry it has removed and is processing
    reaperList,    \* PsReaperListHead
    reaperActive   \* PsReaperActive

queueVars == <<live, signalState, entryList, waitList, threadList, currentCount>>
threadVars == <<queue, pc, back, waitReason, waitStatus, timeout, held>>
vars == <<queueVars, threadVars, reaperList, reaperActive>>

Statuses == {"none", "timeout", "kernelApc"}
Places == {"run", "queue", "woken", "retry", "block", "dead"}

\* One type invariant for the queues, their threads and the reaper.
TypeOK ==
    /\ live \subseteq Queues
    /\ signalState \in [Queues -> Nat]
    /\ entryList \in [Queues -> Seq(Entries)]
    /\ waitList \in [Queues -> Seq(Threads)]
    /\ threadList \in [Queues -> SUBSET Threads]
    /\ currentCount \in [Queues -> Nat]
    /\ queue \in [Threads -> Queues \cup {NoQueue}]
    /\ pc \in [Threads -> Places]
    /\ back \in [Threads -> {"run", "woken", "retry"}]
    /\ waitReason \in [Threads -> {"Executive", "WrQueue"}]
    /\ waitStatus \in [Threads -> Entries \cup Statuses]
    /\ timeout \in [Threads -> {"none", "zero", "some"}]
    /\ held \in [Threads -> Entries \cup {NoEntry}]
    /\ reaperList \in Seq(Threads) /\ reaperActive \in BOOLEAN

-----------------------------------------------------------------------------
(* The dispatcher database: the state the lock protects, as one record.    *)

Database ==
    [signalState |-> signalState, entryList |-> entryList, waitList |-> waitList,
     threadList |-> threadList, currentCount |-> currentCount, queue |-> queue, pc |-> pc,
     waitReason |-> waitReason, waitStatus |-> waitStatus, held |-> held]

\* The routine that held the lock leaves the database as d.
Leaves(state) ==
    \E d \in {state} :
        /\ signalState' = d.signalState /\ entryList' = d.entryList /\ waitList' = d.waitList
        /\ threadList' = d.threadList /\ currentCount' = d.currentCount
        /\ queue' = d.queue /\ pc' = d.pc
        /\ waitReason' = d.waitReason /\ waitStatus' = d.waitStatus /\ held' = d.held

\* CurrentCount += n, when q is a queue.
Count(d, q, n) ==
    IF q = NoQueue THEN d ELSE [d EXCEPT !.currentCount[q] = @ + n]

\* Mutant: the readied thread is not counted.
KiUnwaitThread_Uncounted(d, t, s) ==
    [d EXCEPT !.waitStatus[t] = s, !.pc[t] = "woken",
              !.waitList[d.queue[t]] = RemoveFirst(@, t)]

\* A thread that waits on its queue is readied with status s.  Its wait block
\* leaves the wait list and the thread counts as active again; WaitReason keeps
\* its value until the thread runs.
KiUnwaitThread(d, t, s) ==
    Count([d EXCEPT !.waitStatus[t] = s, !.pc[t] = "woken",
                    !.waitList[d.queue[t]] = RemoveFirst(@, t)],
          d.queue[t], 1)

\* Mutant: no other thread is readied in its place.
KiActivateWaiterQueue_CountOnly(d, q) == Count(d, q, -1)

\* The current thread stops counting as active; when that leaves room, the last
\* thread on the wait list is readied with the first entry.
KiActivateWaiterQueue(d, q) ==
    LET e == Count(d, q, -1) IN
    IF q # NoQueue /\ e.currentCount[q] < MaximumCount[q]
         /\ e.entryList[q] # <<>> /\ e.waitList[q] # <<>>
    THEN KiUnwaitThread([e EXCEPT !.entryList[q] = Tail(@), !.signalState[q] = @ - 1],
                        Last(e.waitList[q]), Head(e.entryList[q]))
    ELSE e


\* Thread c inserts entry e: it goes to the last thread on the wait list when
\* the queue has room for another active thread, unless c belongs to the queue
\* and has not yet returned from its own wait on it.
KiInsertQueue(d, c, q, e) ==
    IF d.waitList[q] # <<>> /\ d.currentCount[q] < MaximumCount[q]
         /\ ~(c # NoThread /\ d.queue[c] = q /\ d.waitReason[c] = "WrQueue")
    THEN LET t == Last(d.waitList[q])
         IN  [Count(d, q, 1) EXCEPT !.waitList[q] = Front(@), !.waitStatus[t] = e,
                                    !.waitReason[t] = "Executive", !.pc[t] = "woken"]
    ELSE [d EXCEPT !.signalState[q] = @ + 1, !.entryList[q] = Append(@, e)]

-----------------------------------------------------------------------------
(* Inserting and removing entries.                                         *)

\* The threads that can be the current thread of a call, of an APC delivered to
\* them, or of a DPC that interrupts them.
Current == {NoThread} \cup {t \in Threads : pc[t] \in {"run", "woken", "retry"}}

\* Nobody has entry e: it is not queued, not on its way to a woken thread and
\* not being processed.
Free(e) ==
    /\ \A q \in live : ~Contains(entryList[q], e)
    /\ \A t \in Threads : held[t] # e /\ waitStatus[t] # e

\* ExQueueWorkItem, NtSetIoCompletion, and IopCompleteRequest for a file that is
\* bound to a port.
KeInsertQueue(c, q, e) ==
    /\ c \in Current /\ q \in live
    /\ e # ReaperItem /\ Free(e)
    /\ Leaves(KiInsertQueue(Database, c, q, e))
    /\ UNCHANGED <<live, back, timeout, reaperList, reaperActive>>

\* One pass of the loop of KeRemoveQueue by thread t, which does not count as
\* active in database d: take an entry; or go round again for a kernel APC; or
\* return for a user APC, a zero timeout or a timer already due; or wait.
RemoveLoop(d, t, q, interval) ==
    IF d.entryList[q] # <<>> /\ d.currentCount[q] < MaximumCount[q]
    THEN Leaves([Count(d, q, 1) EXCEPT !.signalState[q] = @ - 1, !.entryList[q] = Tail(@),
                                       !.pc[t] = "run", !.held[t] = Head(d.entryList[q])])
    ELSE \/ Leaves([Count(d, q, 1) EXCEPT !.pc[t] = "retry"])
         \/ /\ t \in UserThreads \/ interval \in {"zero", "some"}
            /\ Leaves([Count(d, q, 1) EXCEPT !.pc[t] = "run"])
         \/ /\ interval # "zero"
            /\ Leaves([d EXCEPT !.waitList[q] = Append(@, t), !.waitStatus[t] = "none",
                                !.waitReason[t] = "WrQueue", !.pc[t] = "queue"])

\* The thread leaves its old queue, where another thread may now become active,
\* or stops counting as active in this one; then the first pass of the loop.
Associate(d, t, q) ==
    LET old == d.queue[t]
        e   == [d EXCEPT !.queue[t] = q]
    IN  IF old = q THEN Count(e, q, -1)
        ELSE [KiActivateWaiterQueue(
                  IF old = NoQueue THEN e ELSE [e EXCEPT !.threadList[old] = @ \ {t}], old)
              EXCEPT !.threadList[q] = @ \cup {t}]

KeRemoveQueue(t, q, interval) ==
    /\ pc[t] = "run" /\ held[t] = NoEntry
    /\ q \in live \cap Uses[t] /\ interval \in Timeouts[t]
    /\ timeout' = [timeout EXCEPT ![t] = interval]
    /\ RemoveLoop(Associate(Database, t, q), t, q, interval)
    /\ UNCHANGED <<live, back, reaperList, reaperActive>>

\* The thread goes on after KiSwapContext, with the entry or the timeout it was
\* readied with, or to another pass because of a kernel APC.
SwapReturn(t) ==
    /\ pc[t] = "woken"
    /\ waitReason' = [waitReason EXCEPT ![t] = "Executive"]
    /\ waitStatus' = [waitStatus EXCEPT ![t] = "none"]
    /\ pc' = [pc EXCEPT ![t] = IF waitStatus[t] = "kernelApc" THEN "retry" ELSE "run"]
    /\ held' = [held EXCEPT ![t] = IF waitStatus[t] \in Entries THEN waitStatus[t] ELSE @]
    /\ UNCHANGED <<queueVars, queue, back, timeout, reaperList, reaperActive>>

\* The database is locked again and the thread stops counting as active.
Retry(t) ==
    /\ pc[t] = "retry"
    /\ RemoveLoop(Count(Database, queue[t], -1), t, queue[t], timeout[t])
    /\ UNCHANGED <<live, back, timeout, reaperList, reaperActive>>

\* A kernel APC is queued to a thread that waits on its queue.
KeInsertQueueApc(t) ==
    /\ pc[t] = "queue"
    /\ Leaves(KiUnwaitThread(Database, t, "kernelApc"))
    /\ UNCHANGED <<live, back, timeout, reaperList, reaperActive>>

\* The timer of a thread that waits on its queue expires.
TimerExpires(t) ==
    /\ pc[t] = "queue" /\ timeout[t] = "some"
    /\ Leaves(KiUnwaitThread(Database, t, "timeout"))
    /\ UNCHANGED <<live, back, timeout, reaperList, reaperActive>>

-----------------------------------------------------------------------------
(* What a thread does while it belongs to a queue.                         *)

\* t stops to wait for something that is not a queue.
Blocked(d, t) ==
    [KiActivateWaiterQueue(d, d.queue[t]) EXCEPT !.waitReason[t] = "Executive",
                                                 !.pc[t] = "block"]

\* The threads of W are readied: each counts as active in its queue and goes on
\* where it was.
Readied(d, W) ==
    [d EXCEPT !.pc = [t \in Threads |-> IF t \in W THEN back[t] ELSE @[t]],
              !.currentCount = [q \in Queues |->
                                  @[q] + Cardinality({t \in W : d.queue[t] = q})]]

\* Any wait of WAIT.C, made by the thread or by an APC that runs in it.
Block(t) ==
    /\ t \in Current
    /\ back' = [back EXCEPT ![t] = pc[t]]
    /\ Leaves(Blocked(Database, t))
    /\ UNCHANGED <<live, timeout, reaperList, reaperActive>>

\* That wait ends.
Unblock(t) ==
    /\ pc[t] = "block"
    /\ Leaves(Readied(Database, {t}))
    /\ back' = [back EXCEPT ![t] = "run"]
    /\ UNCHANGED <<live, timeout, reaperList, reaperActive>>

\* t readies thread u and waits itself, switching to u directly: u counts as
\* active before t ceases to.
KeReleaseWaitForSemaphore(t, u) ==
    /\ pc[t] = "run" /\ pc[u] = "block"
    /\ back' = [back EXCEPT ![t] = "run", ![u] = "run"]
    /\ Leaves(Blocked(Readied(Database, {u}), t))
    /\ UNCHANGED <<live, timeout, reaperList, reaperActive>>

\* The thread is done with the entry it removed: the work routine has returned,
\* the packet has been copied out and freed, or NtRemoveIoCompletionEx faulted on
\* the caller's array and dropped it.
Finish(t) ==
    /\ pc[t] = "run" /\ held[t] \notin {NoEntry, ReaperItem}
    /\ held' = [held EXCEPT ![t] = NoEntry]
    /\ UNCHANGED <<queueVars, queue, pc, back, waitReason, waitStatus, timeout, reaperList,
                   reaperActive>>

\* The caller's buffer faults while the packet is copied out: the packet goes
\* back to the queue.
Requeue(t) ==
    /\ pc[t] = "run" /\ held[t] \notin {NoEntry, ReaperItem} /\ queue[t] \in Ports
    /\ Leaves([KiInsertQueue(Database, t, queue[t], held[t]) EXCEPT !.held[t] = NoEntry])
    /\ UNCHANGED <<live, back, timeout, reaperList, reaperActive>>

-----------------------------------------------------------------------------
(* Threads and ports come and go.                                          *)

\* Mutant: the reaper is queued whether or not it is active.
KeTerminateThread_Unchecked(t, W) ==
    /\ t \in UserThreads /\ pc[t] = "run" /\ held[t] = NoEntry
    /\ W \subseteq {u \in Threads : pc[u] = "block"}
    /\ reaperList' = Append(reaperList, t) /\ reaperActive' = TRUE
    /\ LET q  == queue[t]
           d  == KiInsertQueue(Database, t, HyperCritical, ReaperItem)
           e  == IF q = NoQueue THEN d
                 ELSE KiActivateWaiterQueue([d EXCEPT !.threadList[q] = @ \ {t}], q)
       IN  Leaves([Readied(e, W) EXCEPT !.pc[t] = "dead"])
    /\ back' = [u \in Threads |-> IF u \in W THEN "run" ELSE back[u]]
    /\ UNCHANGED <<live, timeout>>

\* The current thread t ends.  The reaper's work item is queued unless the reaper
\* is active; t leaves its queue, where another thread may become active; and the
\* threads W that wait for t to end are readied.
KeTerminateThread(t, W) ==
    /\ t \in UserThreads /\ pc[t] = "run" /\ held[t] = NoEntry
    /\ W \subseteq {u \in Threads : pc[u] = "block"}
    /\ reaperList' = Append(reaperList, t) /\ reaperActive' = TRUE
    /\ LET q  == queue[t]
           d  == IF reaperActive THEN Database
                 ELSE KiInsertQueue(Database, t, HyperCritical, ReaperItem)
           e  == IF q = NoQueue THEN d
                 ELSE KiActivateWaiterQueue([d EXCEPT !.threadList[q] = @ \ {t}], q)
       IN  Leaves([Readied(e, W) EXCEPT !.pc[t] = "dead"])
    /\ back' = [u \in Threads |-> IF u \in W THEN "run" ELSE back[u]]
    /\ UNCHANGED <<live, timeout>>

\* Mutant: the reaper stops without looking at the list again.
PspReaper_OneTurn(t) ==
    /\ pc[t] = "run" /\ held[t] = ReaperItem
    /\ reaperList' = Tail(reaperList)
    /\ reaperActive' = FALSE /\ held' = [held EXCEPT ![t] = NoEntry]
    /\ UNCHANGED <<queueVars, queue, pc, back, waitReason, waitStatus, timeout>>


\* One turn of the reaper's loop, which ends with the reaper inactive when the
\* list is empty.
PspReaper(t) ==
    /\ pc[t] = "run" /\ held[t] = ReaperItem
    /\ \/ /\ reaperList # <<>> /\ reaperList' = Tail(reaperList)
          /\ UNCHANGED <<held, reaperActive>>
       \/ /\ reaperList = <<>>
          /\ reaperActive' = FALSE /\ held' = [held EXCEPT ![t] = NoEntry]
          /\ UNCHANGED reaperList
    /\ UNCHANGED <<queueVars, queue, pc, back, waitReason, waitStatus, timeout>>

\* The object of a thread that has been reaped becomes another thread.
KeInitializeThread(t) ==
    /\ pc[t] = "dead" /\ ~Contains(reaperList, t)
    /\ pc' = [pc EXCEPT ![t] = "run"]
    /\ queue' = [queue EXCEPT ![t] = NoQueue]
    /\ UNCHANGED <<queueVars, back, waitReason, waitStatus, timeout, held, reaperList,
                   reaperActive>>

\* t has a reference to q: it is in NtRemoveIoCompletion.
References(t, q) ==
    /\ queue[t] = q
    /\ \/ pc[t] \in {"queue", "woken", "retry"}
       \/ pc[t] = "block" /\ back[t] # "run"
       \/ held[t] # NoEntry

\* Mutant: the threads keep their pointers to the queue.
KeRundownQueue_KeepsThreads(q) ==
    /\ q \in live \cap Ports
    /\ \A t \in Threads : ~References(t, q)
    /\ live' = live \ {q}
    /\ entryList' = [entryList EXCEPT ![q] = <<>>]
    /\ UNCHANGED <<signalState, waitList, threadList, currentCount, threadVars, reaperList,
                   reaperActive>>

\* The last reference to a port is gone: its entries are freed, and its threads
\* no longer belong to it (IopDeleteIoCompletion).
KeRundownQueue(q) ==
    /\ q \in live \cap Ports
    /\ \A t \in Threads : ~References(t, q)
    /\ live' = live \ {q}
    /\ entryList' = [entryList EXCEPT ![q] = <<>>]
    /\ queue' = [t \in Threads |-> IF t \in threadList[q] THEN NoQueue ELSE queue[t]]
    /\ threadList' = [threadList EXCEPT ![q] = {}]
    /\ UNCHANGED <<signalState, waitList, currentCount, pc, back, waitReason, waitStatus,
                   timeout, held, reaperList, reaperActive>>

\* A port is created in the memory of one that is gone (NtCreateIoCompletion).
KeInitializeQueue(q) ==
    /\ q \notin live
    /\ live' = live \cup {q}
    /\ signalState' = [signalState EXCEPT ![q] = 0]
    /\ entryList' = [entryList EXCEPT ![q] = <<>>]
    /\ waitList' = [waitList EXCEPT ![q] = <<>>]
    /\ threadList' = [threadList EXCEPT ![q] = {}]
    /\ currentCount' = [currentCount EXCEPT ![q] = 0]
    /\ UNCHANGED <<threadVars, reaperList, reaperActive>>

-----------------------------------------------------------------------------
Init ==
    /\ live = Queues
    /\ signalState = [q \in Queues |-> 0] /\ entryList = [q \in Queues |-> <<>>]
    /\ waitList = [q \in Queues |-> <<>>] /\ threadList = [q \in Queues |-> {}]
    /\ currentCount = [q \in Queues |-> 0]
    /\ queue = [t \in Threads |-> NoQueue] /\ pc = [t \in Threads |-> "run"]
    /\ back = [t \in Threads |-> "run"] /\ waitReason = [t \in Threads |-> "Executive"]
    /\ waitStatus = [t \in Threads |-> "none"] /\ timeout = [t \in Threads |-> "none"]
    /\ held = [t \in Threads |-> NoEntry]
    /\ reaperList = <<>> /\ reaperActive = FALSE

ThreadStep(t) ==
    \/ \E q \in Queues, i \in Timeouts[t] : KeRemoveQueue(t, q, i)
    \/ SwapReturn(t) \/ Retry(t) \/ Finish(t) \/ PspReaper(t)

Next ==
    \/ \E c \in Threads \cup {NoThread}, q \in Queues, e \in Entries : KeInsertQueue(c, q, e)
    \/ \E t \in Threads :
          \/ ThreadStep(t) \/ KeInsertQueueApc(t) \/ TimerExpires(t)
          \/ Block(t) \/ Unblock(t) \/ Requeue(t) \/ KeInitializeThread(t)
          \/ \E u \in Threads : KeReleaseWaitForSemaphore(t, u)
          \/ \E W \in SUBSET Threads : KeTerminateThread(t, W)
    \/ \E q \in Queues : KeRundownQueue(q) \/ KeInitializeQueue(q)

Spec == Init /\ [][Next]_vars

-----------------------------------------------------------------------------
(* Properties.                                                             *)

\* The threads that belong to q and are not waiting.
Active(q) == {t \in Threads : queue[t] = q /\ pc[t] \in {"run", "woken", "retry"}}

\* CurrentCount is the number of threads of the queue that are not waiting, however
\* their waits, APCs, timeouts, changes of queue and terminations interleave: no
\* path through the dispatcher counts a thread twice or forgets one
\* (KeRemoveQueue, KiActivateWaiterQueue, KiUnwaitThread, KiInsertQueue,
\* KeReleaseWaitForSemaphore, KeTerminateThread).
CountsActive == \A q \in live : currentCount[q] = Cardinality(Active(q))

\* Entries are not left behind: when a queue has entries and a thread that waits
\* for one, some thread of the queue is active, and will come back for an entry or
\* hand one over when it blocks, leaves or ends.
NoIdleStranding ==
    \A q \in live : entryList[q] # <<>> /\ waitList[q] # <<>> => Active(q) # {}

\* The places that have entry e: positions in the live queues, threads that were
\* readied with it and have not returned, threads that process it.
Havers(e) ==
    {<<q, i>> \in live \X (1 .. Cardinality(Entries)) :
        i <= Len(entryList[q]) /\ entryList[q][i] = e}
    \cup {<<t, 1>> : t \in {u \in Threads : waitStatus[u] = e}}
    \cup {<<t, 2>> : t \in {u \in Threads : held[u] = e}}

\* The variables have their types; no entry is ever in two places, a queue's
\* signal state is the number of its entries, and the reaper's work item, which
\* threads queue again as they end, is queued or being processed exactly while
\* PsReaperActive says so (KeInsertQueue, KeRemoveQueue, KiActivateWaiterQueue,
\* the requeue of NtRemoveIoCompletion, KeTerminateThread, PspReaper).
EntriesConserved ==
    /\ TypeOK
    /\ \A e \in Entries : Cardinality(Havers(e)) <= 1
    /\ \A q \in live : signalState[q] = Len(entryList[q])
    /\ reaperActive = (Havers(ReaperItem) # {})

\* A thread that is not dead belongs to a queue that exists, and is on that
\* queue's thread list and on no other; no dead thread is on a list; and a wait
\* list holds, once each, the threads of the queue that wait on it.  So the
\* rundown of a port, the end of a thread and a change of queue leave nothing
\* pointing at them.
NoDangling ==
    /\ \A t \in Threads : pc[t] # "dead" => queue[t] \in live \cup {NoQueue}
    /\ \A q \in live :
          /\ threadList[q] = {t \in Threads : pc[t] # "dead" /\ queue[t] = q}
          /\ ToSet(waitList[q]) = {t \in Threads : pc[t] = "queue" /\ queue[t] = q}
          /\ IsInjective(waitList[q])
    /\ ToSet(reaperList) \subseteq {t \in Threads : pc[t] = "dead"}


-----------------------------------------------------------------------------
(* Progress.                                                               *)

\* The system's own worker threads.
Workers == Threads \ UserThreads

\* A worker is never suspended for ever: its waits end, and its routine, however
\* often it waits and is interrupted, returns to the loop of ExpWorkerThread.
Fairness == \A t \in Workers : SF_vars(ThreadStep(t)) /\ WF_vars(Unblock(t))

FairSpec == Spec /\ Fairness


\* Every thread that ends is reaped: a thread that ends while the reaper is about
\* to stop is either seen by it or queues it again.
AllReaped == \A t \in UserThreads : Contains(reaperList, t) ~> ~Contains(reaperList, t)
=============================================================================
