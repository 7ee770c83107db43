----------------------------- MODULE Eresource -----------------------------
(***************************************************************************)
(* The executive resource (ERESOURCE), the reader/writer lock of the NT    *)
(* executive: NTOS/EX/RESOURCE.C, built for one processor without debug    *)
(* code (NT_UP=1, DBG=0).                                                  *)
(*                                                                         *)
(* Grain of atomicity.  A critical section under the resource's spin lock  *)
(* is one action, and so is a critical section of the dispatcher           *)
(* (KeWaitForSingleObject, KeSetEventBoostPriority, KeReleaseSemaphore).   *)
(* What the code does after it drops the spin lock -- signalling the       *)
(* waiters it has granted, waiting, storing the owner without a lock -- is *)
(* an action of its own, so every thread can run in between.               *)
(*                                                                         *)
(* On one processor the shared routines first try a fast path and, when it *)
(* grants nothing, drop the lock and run the long routine, which tests the *)
(* same two cases again before any other.  The fast path is therefore the  *)
(* first two disjuncts of the action for the long routine.                 *)
(***************************************************************************)
EXTENDS Integers, FiniteSets

CONSTANTS
    Threads,     \* the threads that use the resource
    NoThread,    \* OwnerThread = 0: a free owner entry
    Granted,     \* OwnerThread = 1: exclusive access granted to a waiter
                 \* that has not yet stored its own identity
    MaxDepth,    \* bound on how often a thread acquires recursively; stands
                 \* for the range of the SHORT OwnerCount
    WfeWaits,    \* values of Wait with which callers call
                 \* ExAcquireSharedWaitForExclusive; every caller in the
                 \* repository passes FALSE
    Uses         \* what else callers do: "starve" (they call
                 \* ExAcquireSharedStarveExclusive), "upgrade" (a shared
                 \* owner waits for exclusive access)

ASSUME ThreadsAssumption ==
    /\ IsFiniteSet(Threads)
    /\ NoThread \notin Threads /\ Granted \notin Threads
    /\ NoThread # Granted

ASSUME BoundsAssumption ==
    /\ MaxDepth \in Nat \ {0}
    /\ WfeWaits \subseteq BOOLEAN

VARIABLES
    live,              \* between ExInitializeResourceLite and ExDeleteResourceLite
    activeCount,       \* ActiveCount
    ownedExclusive,    \* Flag & ResourceOwnedExclusive
    owners,            \* 0, 1: OwnerThreads[0..1];  2.. : OwnerTable
    tableSize,         \* OwnerThreads[0].TableSize
    sharedWaiters,     \* NumberOfSharedWaiters
    exclusiveWaiters,  \* NumberOfExclusiveWaiters
    eventExists,       \* ExclusiveWaiters # NULL
    event,             \* ExclusiveWaiters->Header.SignalState, 0 or 1
    eventList,         \* threads on the event's wait list
    semaphore,         \* SharedWaiters->Header.SignalState
    semaphoreList,     \* threads on the semaphore's wait list
    pc,                \* where each thread is in the routines
    number,            \* the local Number of a thread that releases waiters
    mode, depth        \* what each thread was told: the access it has and how
                       \* many acquisitions it has not yet released

resource == <<live, activeCount, ownedExclusive, owners, tableSize,
              sharedWaiters, exclusiveWaiters, eventExists>>
dispatcher == <<event, eventList, semaphore, semaphoreList>>
caller == <<mode, depth>>
vars == <<resource, dispatcher, caller, pc, number>>

(***************************************************************************)
(* Owner entries.  Whom the entry names and how often it acquired.         *)
(***************************************************************************)
Owner(t, n) == [thread |-> t, count |-> n]
FreeEntry == Owner(NoThread, 0)

Slots == 0 .. (tableSize + 1)
SlotsOf(t) == {i \in Slots : owners[i].thread = t}

First(S) == CHOOSE i \in S : \A j \in S : i <= j
Last(S) == CHOOSE i \in S : \A j \in S : j <= i

\* The entry that names t; else the last free entry the scan passes (it does
\* not consider OwnerThreads[0]); else the first one of an expanded table.
ExpFindCurrentThread(t) ==
    LET free == SlotsOf(NoThread) \ {0}
    IN IF SlotsOf(t) # {} THEN First(SlotsOf(t))
       ELSE IF free # {} THEN Last(free)
       ELSE tableSize + 2

\* Store e in entry i, which ExpFindCurrentThread returned; i may be new.
SetEntry(i, e) ==
    LET size == IF i \in Slots THEN tableSize
                ELSE IF tableSize = 0 THEN 3 ELSE tableSize + 4
    IN /\ tableSize' = size
       /\ owners' = [j \in 0 .. (size + 1) |->
                        IF j = i THEN e
                        ELSE IF j \in Slots THEN owners[j] ELSE FreeEntry]

(***************************************************************************)
(* Initialisation.                                                         *)
(***************************************************************************)
Init ==
    /\ live = TRUE
    /\ activeCount = 0
    /\ ownedExclusive = FALSE
    /\ owners = [i \in 0..1 |-> FreeEntry]
    /\ tableSize = 0
    /\ sharedWaiters = 0 /\ exclusiveWaiters = 0
    /\ eventExists = FALSE
    /\ event = 0 /\ eventList = {}
    /\ semaphore = 0 /\ semaphoreList = {}
    /\ pc = [t \in Threads |-> "run"]
    /\ number = [t \in Threads |-> 0]
    /\ mode = [t \in Threads |-> "none"]
    /\ depth = [t \in Threads |-> 0]

(***************************************************************************)
(* What a caller learns when a routine returns.                            *)
(***************************************************************************)
Acquired(t, m) ==
    /\ mode' = [mode EXCEPT ![t] = m]
    /\ depth' = [depth EXCEPT ![t] = @ + 1]
    /\ pc' = [pc EXCEPT ![t] = "run"]

Released(u) ==
    /\ depth' = [depth EXCEPT ![u] = @ - 1]
    /\ mode' = [mode EXCEPT ![u] = IF depth[u] = 1 THEN "none" ELSE @]

MayCall(t) == live /\ pc[t] = "run" /\ depth[t] < MaxDepth

(***************************************************************************)
(* The cases the acquire routines share.                                   *)
(***************************************************************************)
OwnsExclusive(t) == ownedExclusive /\ owners[0].thread = t

\* The exclusive owner acquires again, in either mode.
AcquireAgain(t) ==
    /\ activeCount # 0
    /\ OwnsExclusive(t)
    /\ SetEntry(0, Owner(t, owners[0].count + 1))
    /\ Acquired(t, mode[t])
    /\ UNCHANGED <<live, activeCount, ownedExclusive, sharedWaiters,
                   exclusiveWaiters, eventExists, dispatcher, number>>

\* Mutant: the exclusive flag is not set.
AcquireFreeExclusive_NoFlag(t) ==
    /\ activeCount = 0
    /\ activeCount' = 1
    /\ SetEntry(0, Owner(t, 1))
    /\ Acquired(t, "exclusive")
    /\ UNCHANGED <<live, ownedExclusive, sharedWaiters, exclusiveWaiters, eventExists,
                   dispatcher, number>>

\* Nobody owns the resource: exclusive access, recorded in OwnerThreads[0].
AcquireFreeExclusive(t) ==
    /\ activeCount = 0
    /\ activeCount' = 1
    /\ ownedExclusive' = TRUE
    /\ SetEntry(0, Owner(t, 1))
    /\ Acquired(t, "exclusive")
    /\ UNCHANGED <<live, sharedWaiters, exclusiveWaiters, eventExists,
                   dispatcher, number>>

\* Nobody owns the resource: shared access, recorded in OwnerThreads[1].
AcquireFreeShared(t) ==
    /\ activeCount = 0
    /\ activeCount' = 1
    /\ SetEntry(1, Owner(t, 1))
    /\ Acquired(t, "shared")
    /\ UNCHANGED <<live, ownedExclusive, sharedWaiters, exclusiveWaiters,
                   eventExists, dispatcher, number>>

\* Mutant: the test of the exclusive flag is missing.
OwnedShared_NoFlag == activeCount # 0

OwnedShared == activeCount # 0 /\ ~ownedExclusive

\* The resource is owned shared and t is one of the owners.
AcquireSharedAgain(t) ==
    LET i == ExpFindCurrentThread(t)
    IN /\ OwnedShared
       /\ SlotsOf(t) # {}
       /\ SetEntry(i, Owner(t, owners[i].count + 1))
       /\ Acquired(t, mode[t])
       /\ UNCHANGED <<live, activeCount, ownedExclusive, sharedWaiters,
                      exclusiveWaiters, eventExists, dispatcher, number>>

\* The resource is owned shared and t becomes another owner.
JoinShared(t) ==
    /\ OwnedShared
    /\ SlotsOf(t) = {}
    /\ SetEntry(ExpFindCurrentThread(t), Owner(t, 1))
    /\ activeCount' = activeCount + 1
    /\ Acquired(t, "shared")
    /\ UNCHANGED <<live, ownedExclusive, sharedWaiters, exclusiveWaiters,
                   eventExists, dispatcher, number>>

\* Mutant: the entry is stored before Wait is tested.
WaitShared_EarlyStore(t, i, wait) ==
    /\ SetEntry(i, Owner(t, 1))
    /\ IF wait
       THEN /\ sharedWaiters' = sharedWaiters + 1
            /\ pc' = [pc EXCEPT ![t] = "shWait"]
       ELSE UNCHANGED <<sharedWaiters, pc>>
    /\ UNCHANGED <<live, activeCount, ownedExclusive, exclusiveWaiters,
                   eventExists, dispatcher, caller, number>>

\* t cannot have shared access now.  It records itself in the entry i before
\* it is granted anything and goes to wait; or, when it may not wait, it
\* returns FALSE, leaving behind the table that finding i may have expanded.
WaitShared(t, i, wait) ==
    /\ IF wait
       THEN /\ SetEntry(i, Owner(t, 1))
            /\ sharedWaiters' = sharedWaiters + 1
            /\ pc' = [pc EXCEPT ![t] = "shWait"]
       ELSE /\ SetEntry(i, FreeEntry)
            /\ UNCHANGED <<sharedWaiters, pc>>
    /\ UNCHANGED <<live, activeCount, ownedExclusive, exclusiveWaiters,
                   eventExists, dispatcher, caller, number>>

\* Another thread owns the resource exclusively.
WaitBehindExclusive(t, wait) ==
    /\ activeCount # 0
    /\ ownedExclusive /\ owners[0].thread # t
    /\ WaitShared(t, ExpFindCurrentThread(NoThread), wait)

(***************************************************************************)
(* Acquire for exclusive access.  A call that waits and finds no event     *)
(* drops the lock, allocates the event under the lock and starts again.    *)
(***************************************************************************)
ExAcquireResourceExclusiveLite(t) ==
    /\ MayCall(t) \/ (live /\ pc[t] = "exRetry")
    /\ \/ AcquireFreeExclusive(t)
       \/ AcquireAgain(t)
       \/ /\ activeCount # 0 /\ ~OwnsExclusive(t)
          /\ mode[t] = "shared" => "upgrade" \in Uses
          /\ IF eventExists
             THEN /\ exclusiveWaiters' = exclusiveWaiters + 1
                  /\ pc' = [pc EXCEPT ![t] = "exWait"]
             ELSE /\ pc' = [pc EXCEPT ![t] = "exAllocate"]
                  /\ UNCHANGED exclusiveWaiters
          /\ UNCHANGED <<live, activeCount, ownedExclusive, owners, tableSize,
                         sharedWaiters, eventExists, dispatcher, caller, number>>

AllocateExclusiveEvent(t) ==
    /\ pc[t] = "exAllocate"
    /\ eventExists' = TRUE
    /\ pc' = [pc EXCEPT ![t] = "exRetry"]
    /\ UNCHANGED <<live, activeCount, ownedExclusive, owners, tableSize,
                   sharedWaiters, exclusiveWaiters, dispatcher, caller, number>>

\* Also ExAcquireResourceExclusiveLite with Wait = FALSE.
ExTryToAcquireResourceExclusiveLite(t) ==
    /\ MayCall(t)
    /\ AcquireFreeExclusive(t) \/ AcquireAgain(t)

\* The last statement of the acquisition, executed without the lock.
StoreOwnerThread(t) ==
    /\ pc[t] = "exGranted"
    /\ owners' = [owners EXCEPT ![0].thread = t]
    /\ Acquired(t, "exclusive")
    /\ UNCHANGED <<live, activeCount, ownedExclusive, tableSize, sharedWaiters,
                   exclusiveWaiters, eventExists, dispatcher, number>>

(***************************************************************************)
(* Acquire for shared access.                                              *)
(***************************************************************************)
ExAcquireResourceSharedLite(t, wait) ==
    /\ MayCall(t) \/ (live /\ pc[t] = "wfeRetry" /\ wait)
    /\ \/ AcquireFreeShared(t)
       \/ AcquireAgain(t)
       \/ WaitBehindExclusive(t, wait)
       \/ AcquireSharedAgain(t)
       \/ exclusiveWaiters = 0 /\ JoinShared(t)
       \/ /\ exclusiveWaiters # 0
          /\ OwnedShared /\ SlotsOf(t) = {}
          /\ WaitShared(t, ExpFindCurrentThread(t), wait)

\* Does not give way to threads that wait for exclusive access.
ExAcquireSharedStarveExclusive(t, wait) ==
    /\ "starve" \in Uses
    /\ MayCall(t)
    /\ \/ AcquireFreeShared(t)
       \/ AcquireAgain(t)
       \/ WaitBehindExclusive(t, wait)
       \/ AcquireSharedAgain(t)
       \/ JoinShared(t)

\* Gives way to threads that wait for exclusive access even if t is an owner.
\* A call that may wait then waits without an owner entry and, once granted,
\* calls ExAcquireResourceSharedLite.
ExAcquireSharedWaitForExclusive(t, wait) ==
    /\ MayCall(t)
    /\ \/ AcquireFreeShared(t)
       \/ AcquireAgain(t)
       \/ WaitBehindExclusive(t, wait)
       \/ exclusiveWaiters = 0 /\ (AcquireSharedAgain(t) \/ JoinShared(t))
       \/ /\ exclusiveWaiters # 0 /\ OwnedShared /\ wait
          /\ sharedWaiters' = sharedWaiters + 1
          /\ pc' = [pc EXCEPT ![t] = "wfeWait"]
          /\ UNCHANGED <<live, activeCount, ownedExclusive, owners, tableSize,
                         exclusiveWaiters, eventExists, dispatcher, caller, number>>

(***************************************************************************)
(* ExpWaitForResource: wait on the event (exclusive) or the semaphore      *)
(* (shared), for at most ExpTimeout at a time.  The order of a wait list   *)
(* is left open: a timeout puts a thread back at the tail at any time.     *)
(***************************************************************************)
WaitForEvent(t) ==
    /\ pc[t] = "exWait" /\ t \notin eventList
    /\ IF event = 1
       THEN /\ event' = 0
            /\ pc' = [pc EXCEPT ![t] = "exGranted"]
            /\ UNCHANGED eventList
       ELSE /\ eventList' = eventList \cup {t}
            /\ UNCHANGED <<event, pc>>
    /\ UNCHANGED <<resource, semaphore, semaphoreList, caller, number>>

\* The threads in S have been let through by the semaphore: those that called
\* ExAcquireSharedWaitForExclusive go on, the others return with shared access.
\* The other threads are where at says.
PassSemaphore(S, at) ==
    LET done == {t \in S : pc[t] = "shWait"}
    IN /\ pc' = [t \in Threads |-> IF t \in done THEN "run"
                                   ELSE IF t \in S THEN "wfeRetry" ELSE at[t]]
       /\ mode' = [t \in Threads |-> IF t \in done THEN "shared" ELSE mode[t]]
       /\ depth' = [t \in Threads |-> IF t \in done THEN depth[t] + 1 ELSE depth[t]]

WaitForSemaphore(t) ==
    /\ pc[t] \in {"shWait", "wfeWait"} /\ t \notin semaphoreList
    /\ IF semaphore > 0
       THEN /\ semaphore' = semaphore - 1
            /\ PassSemaphore({t}, pc)
            /\ UNCHANGED semaphoreList
       ELSE /\ semaphoreList' = semaphoreList \cup {t}
            /\ UNCHANGED <<semaphore, pc, caller>>
    /\ UNCHANGED <<resource, event, eventList, number>>

\* The wait times out: t leaves the wait list, boosts the owners' priority and
\* waits again.
WaitTimeout(t) ==
    /\ t \in eventList \cup semaphoreList
    /\ eventList' = eventList \ {t}
    /\ semaphoreList' = semaphoreList \ {t}
    /\ UNCHANGED <<resource, event, semaphore, caller, pc, number>>

\* Mutant: an owner that has not stored its identity yet is boosted too.
BoostTargets_Granted ==
    IF ownedExclusive
    THEN {owners[0].thread}
    ELSE {owners[i].thread : i \in Slots} \ {NoThread}

\* The threads whose priority a waiter boosts after a timeout.
BoostTargets ==
    IF ownedExclusive
    THEN {owners[0].thread} \ {Granted}
    ELSE {owners[i].thread : i \in Slots} \ {NoThread}

(***************************************************************************)
(* Release, on behalf of the thread u that acquired.                       *)
(***************************************************************************)
\* The last owner is gone and exclusive access passes to a waiter.
GrantExclusive(t, i) ==
    /\ ownedExclusive' = TRUE
    /\ owners' = [owners EXCEPT ![i] = FreeEntry, ![0] = Owner(Granted, 1)]
    /\ activeCount' = 1
    /\ exclusiveWaiters' = exclusiveWaiters - 1
    /\ pc' = [pc EXCEPT ![t] = "setEvent"]
    /\ UNCHANGED <<sharedWaiters, number>>

\* Mutant: the waiters that are granted access are not counted as owners.
GrantShared_Uncounted(t, n) ==
    /\ ownedExclusive' = FALSE
    /\ activeCount' = n
    /\ sharedWaiters' = 0
    /\ number' = [number EXCEPT ![t] = sharedWaiters]
    /\ pc' = [pc EXCEPT ![t] = "releaseSemaphore"]
    /\ UNCHANGED exclusiveWaiters

\* Shared access passes to all shared waiters, besides the n remaining owners.
GrantShared(t, n) ==
    /\ ownedExclusive' = FALSE
    /\ activeCount' = n + sharedWaiters
    /\ sharedWaiters' = 0
    /\ number' = [number EXCEPT ![t] = sharedWaiters]
    /\ pc' = [pc EXCEPT ![t] = "releaseSemaphore"]
    /\ UNCHANGED exclusiveWaiters

\* The last owner is gone and nobody waits.
FreeResource(i) ==
    /\ ownedExclusive' = FALSE
    /\ activeCount' = 0
    /\ owners' = [owners EXCEPT ![i] = FreeEntry]
    /\ UNCHANGED <<sharedWaiters, exclusiveWaiters, pc, number>>

\* Mutant: an exclusive owner looks for shared waiters only.
ReleaseLast_SharedOnly(t, i) ==
    \/ /\ ~ownedExclusive /\ exclusiveWaiters # 0
       /\ GrantExclusive(t, i)
    \/ /\ ownedExclusive \/ exclusiveWaiters = 0
       /\ sharedWaiters # 0
       /\ GrantShared(t, 0)
       /\ owners' = [owners EXCEPT ![i] = FreeEntry]
    \/ /\ sharedWaiters = 0 /\ (ownedExclusive \/ exclusiveWaiters = 0)
       /\ FreeResource(i)

\* Mutant: the semaphore is released even if there is no shared waiter.
ReleaseLast_AlwaysSignal(t, i) ==
    \/ /\ ~ownedExclusive \/ sharedWaiters = 0
       /\ exclusiveWaiters # 0
       /\ GrantExclusive(t, i)
    \/ /\ (ownedExclusive /\ sharedWaiters # 0) \/ exclusiveWaiters = 0
       /\ GrantShared(t, 0)
       /\ owners' = [owners EXCEPT ![i] = FreeEntry]

\* Mutant: exclusive waiters always come first.
ReleaseLast_ExclusiveFirst(t, i) ==
    \/ exclusiveWaiters # 0 /\ GrantExclusive(t, i)
    \/ /\ exclusiveWaiters = 0 /\ sharedWaiters # 0
       /\ GrantShared(t, 0)
       /\ owners' = [owners EXCEPT ![i] = FreeEntry]
    \/ /\ sharedWaiters = 0 /\ exclusiveWaiters = 0
       /\ FreeResource(i)

ReleaseLast(t, i) ==
    \/ /\ ~ownedExclusive \/ sharedWaiters = 0
       /\ exclusiveWaiters # 0
       /\ GrantExclusive(t, i)
    \/ /\ ownedExclusive \/ exclusiveWaiters = 0
       /\ sharedWaiters # 0
       /\ GrantShared(t, 0)
       /\ owners' = [owners EXCEPT ![i] = FreeEntry]
    \/ /\ sharedWaiters = 0 /\ exclusiveWaiters = 0
       /\ FreeResource(i)

ExReleaseResourceForThreadLite(t, u) ==
    LET i == First(SlotsOf(u))
    IN /\ live /\ pc[t] = "run" /\ depth[u] > 0
       /\ Released(u)
       /\ \/ /\ owners[i].count # 1
             /\ owners' = [owners EXCEPT ![i].count = @ - 1]
             /\ UNCHANGED <<activeCount, ownedExclusive, sharedWaiters,
                            exclusiveWaiters, pc, number>>
          \/ /\ owners[i].count = 1 /\ activeCount # 1
             /\ owners' = [owners EXCEPT ![i] = FreeEntry]
             /\ activeCount' = activeCount - 1
             /\ UNCHANGED <<ownedExclusive, sharedWaiters, exclusiveWaiters,
                            pc, number>>
          \/ /\ owners[i].count = 1 /\ activeCount = 1
             /\ ReleaseLast(t, i)
       /\ UNCHANGED <<live, tableSize, eventExists, dispatcher>>

\* Mutant: the exclusive flag is left set when nobody waits.
ExConvertExclusiveToSharedLite_KeepsFlag(t) ==
    /\ live /\ pc[t] = "run" /\ mode[t] = "exclusive"
    /\ mode' = [mode EXCEPT ![t] = "shared"]
    /\ IF sharedWaiters # 0
       THEN GrantShared(t, activeCount)
       ELSE UNCHANGED <<ownedExclusive, activeCount, sharedWaiters, exclusiveWaiters, pc, number>>
    /\ UNCHANGED <<live, owners, tableSize, eventExists, dispatcher, depth>>

\* The exclusive owner keeps OwnerThreads[0] and becomes a shared owner.
ExConvertExclusiveToSharedLite(t) ==
    /\ live /\ pc[t] = "run" /\ mode[t] = "exclusive"
    /\ mode' = [mode EXCEPT ![t] = "shared"]
    /\ IF sharedWaiters # 0
       THEN GrantShared(t, activeCount)
       ELSE /\ ownedExclusive' = FALSE
            /\ UNCHANGED <<activeCount, sharedWaiters, exclusiveWaiters, pc, number>>
    /\ UNCHANGED <<live, owners, tableSize, eventExists, dispatcher, depth>>

(***************************************************************************)
(* The dispatcher calls a releasing thread makes after it dropped the lock.*)
(***************************************************************************)
\* Mutant: with no thread on the wait list the event is lost.
KeSetEventBoostPriority_Pulse(t) ==
    /\ pc[t] = "setEvent"
    /\ \/ /\ eventList = {}
          /\ pc' = [pc EXCEPT ![t] = "run"]
          /\ UNCHANGED <<owners, event, eventList>>
       \/ \E w \in eventList :
             /\ owners' = [owners EXCEPT ![0].thread = w]
             /\ eventList' = eventList \ {w}
             /\ event' = 0
             /\ pc' = [pc EXCEPT ![t] = "run", ![w] = "exGranted"]
    /\ UNCHANGED <<live, activeCount, ownedExclusive, tableSize, sharedWaiters,
                   exclusiveWaiters, eventExists, semaphore, semaphoreList,
                   caller, number>>

\* Hand the event to a thread on its wait list and store that thread's
\* identity as the owner; with no thread on the list leave the event set.
KeSetEventBoostPriority(t) ==
    /\ pc[t] = "setEvent"
    /\ \/ /\ eventList = {}
          /\ event' = 1
          /\ pc' = [pc EXCEPT ![t] = "run"]
          /\ UNCHANGED <<owners, eventList>>
       \/ \E w \in eventList :
             /\ owners' = [owners EXCEPT ![0].thread = w]
             /\ eventList' = eventList \ {w}
             /\ event' = 0
             /\ pc' = [pc EXCEPT ![t] = "run", ![w] = "exGranted"]
    /\ UNCHANGED <<live, activeCount, ownedExclusive, tableSize, sharedWaiters,
                   exclusiveWaiters, eventExists, semaphore, semaphoreList,
                   caller, number>>


\* Add Number to the semaphore and let through as many threads of its wait
\* list as it then has units for.
KeReleaseSemaphore(t) ==
    /\ pc[t] = "releaseSemaphore"
    /\ LET units == semaphore + number[t]
           passing == IF semaphore # 0 THEN 0
                      ELSE IF units <= Cardinality(semaphoreList) THEN units
                      ELSE Cardinality(semaphoreList)
       IN \E S \in SUBSET semaphoreList :
             /\ Cardinality(S) = passing
             /\ semaphore' = units - passing
             /\ semaphoreList' = semaphoreList \ S
             /\ PassSemaphore(S, [pc EXCEPT ![t] = "run"])
    /\ number' = [number EXCEPT ![t] = 0]
    /\ UNCHANGED <<resource, event, eventList>>

(***************************************************************************)
(* The life of a resource.  Callers delete it when, as far as they know,   *)
(* nobody uses it: no thread has access and none is in an acquire routine. *)
(* The memory may then be initialised again.                               *)
(***************************************************************************)
Acquiring == {"exAllocate", "exRetry", "exWait", "exGranted",
              "shWait", "wfeWait", "wfeRetry"}

ExDeleteResourceLite(t) ==
    /\ live /\ pc[t] = "run"
    /\ \A u \in Threads : depth[u] = 0 /\ pc[u] \notin Acquiring
    /\ live' = FALSE
    /\ UNCHANGED <<activeCount, ownedExclusive, owners, tableSize, sharedWaiters,
                   exclusiveWaiters, eventExists, dispatcher, caller, pc, number>>

ExInitializeResourceLite(t) ==
    /\ ~live /\ pc[t] = "run"
    /\ live' = TRUE
    /\ activeCount' = 0
    /\ ownedExclusive' = FALSE
    /\ owners' = [i \in 0..1 |-> FreeEntry]
    /\ tableSize' = 0
    /\ sharedWaiters' = 0 /\ exclusiveWaiters' = 0
    /\ eventExists' = FALSE
    /\ event' = 0 /\ eventList' = {}
    /\ semaphore' = 0 /\ semaphoreList' = {}
    /\ UNCHANGED <<caller, pc, number>>

Acquire(t) ==
    \/ ExAcquireResourceExclusiveLite(t)
    \/ ExTryToAcquireResourceExclusiveLite(t)
    \/ \E wait \in BOOLEAN : ExAcquireResourceSharedLite(t, wait)
    \/ \E wait \in BOOLEAN : ExAcquireSharedStarveExclusive(t, wait)
    \/ \E wait \in WfeWaits : ExAcquireSharedWaitForExclusive(t, wait)

\* The rest of a routine after its first critical section.
Proceed(t) ==
    \/ AllocateExclusiveEvent(t)
    \/ WaitForEvent(t)
    \/ StoreOwnerThread(t)
    \/ WaitForSemaphore(t)
    \/ KeSetEventBoostPriority(t)
    \/ KeReleaseSemaphore(t)

Next ==
    \E t \in Threads :
        \/ Acquire(t)
        \/ Proceed(t)
        \/ WaitTimeout(t)
        \/ \E u \in Threads : ExReleaseResourceForThreadLite(t, u)
        \/ ExConvertExclusiveToSharedLite(t)
        \/ ExDeleteResourceLite(t)
        \/ ExInitializeResourceLite(t)

Spec == Init /\ [][Next]_vars

(***************************************************************************)
(* Properties.                                                             *)
(***************************************************************************)
Places == Acquiring \cup {"run", "setEvent", "releaseSemaphore"}

\* The values the fields of the resource, the dispatcher objects and the
\* callers' view range over.
TypeOK ==
    /\ live \in BOOLEAN
    /\ activeCount \in Nat
    /\ ownedExclusive \in BOOLEAN
    /\ tableSize \in Nat
    /\ owners \in [Slots -> [thread : Threads \cup {NoThread, Granted}, count : Nat]]
    /\ sharedWaiters \in Nat /\ exclusiveWaiters \in Nat
    /\ eventExists \in BOOLEAN
    /\ event \in {0, 1}
    /\ eventList \subseteq Threads
    /\ semaphore \in Nat
    /\ semaphoreList \subseteq Threads
    /\ pc \in [Threads -> Places]
    /\ number \in [Threads -> Nat]
    /\ mode \in [Threads -> {"none", "shared", "exclusive"}]
    /\ depth \in [Threads -> Nat]

\* A thread the routines told it has exclusive access is the only thread that
\* has access, whatever the other threads are doing in the routines.
MutualExclusion ==
    \A t, u \in Threads :
        t # u /\ mode[t] = "exclusive" => mode[u] = "none"

SharedOwners == {t \in Threads : mode[t] = "shared"}
SharedWaiting == {t \in Threads : pc[t] = "shWait"}
ExclusiveWaiting == {t \in Threads : pc[t] = "exWait"}
Setting == {t \in Threads : pc[t] = "setEvent"}
Releasing == {t \in Threads : pc[t] = "releaseSemaphore"}

\* Units of the semaphore granted by a thread that dropped the lock and has
\* not yet called KeReleaseSemaphore.
PendingUnits ==
    IF Releasing = {} THEN 0 ELSE number[CHOOSE t \in Releasing : TRUE]

\* The reconciliation ExpAssertResource makes: the owner entries in use are
\* those of the owners and those of the shared waiters.  Threads that wait in
\* ExAcquireSharedWaitForExclusive have no entry (a checked build counts them
\* in OwnerThreads[1].TableSize and resets it when they are granted access);
\* the statement is about the states in which there is none.
CountsAgree ==
    (\A t \in Threads : pc[t] \notin {"wfeWait", "wfeRetry"})
        => Cardinality(Slots \ SlotsOf(NoThread)) - sharedWaiters = activeCount

\* No wakeup is lost.  A thread that waits is still counted as a waiter, or a
\* unit of the semaphore (or the event) it can take is there or about to be;
\* and nobody waits for a resource without owners.
NoLostWakeup ==
    /\ Cardinality(SharedWaiting) = sharedWaiters + semaphore + PendingUnits
    /\ Cardinality(ExclusiveWaiting) =
           exclusiveWaiters + event + Cardinality(Setting)
    /\ activeCount = 0 => SharedWaiting = {} /\ ExclusiveWaiting = {}

\* ExIsResourceAcquiredExclusiveLite, called by t.
ExIsResourceAcquiredExclusiveLite(t) == OwnsExclusive(t)

\* ExIsResourceAcquiredSharedLite, called by t.
ExIsResourceAcquiredSharedLite(t) ==
    IF SlotsOf(t) = {} THEN 0 ELSE owners[First(SlotsOf(t))].count

\* Asked between two calls, the query routines answer what the history of the
\* thread's calls implies, whoever else has come and gone in the owner table.
QueriesTruthful ==
    \A t \in Threads : live /\ pc[t] \in {"run", "setEvent", "releaseSemaphore"} =>
        /\ ExIsResourceAcquiredExclusiveLite(t) <=> mode[t] = "exclusive"
        /\ ExIsResourceAcquiredSharedLite(t) = depth[t]

\* A waiter whose wait times out passes only threads to KeBoostPriorityThread,
\* never the values 0 and 1 that OwnerThread also takes.
BoostsThreads ==
    eventList \cup semaphoreList # {} => BoostTargets \subseteq Threads

\* A thread that dropped the lock and is still to signal the threads it
\* granted does not find the resource deleted.
SignalsLiveResource ==
    Setting \cup Releasing # {} => live

\* The resource is never handed to an exclusive waiter while a thread that was
\* granted shared access has still to be woken, nor the other way round.
OneGrantAtATime ==
    Cardinality(Setting) + Cardinality(Releasing) + event <= 1

(***************************************************************************)
(* The inductive invariant, in parts.                                      *)
(***************************************************************************)
\* A caller has access exactly while it has something to release; a thread
\* that waits, other than a shared owner that waits for exclusive access, has
\* none.
CallerInv ==
    \A t \in Threads :
        /\ mode[t] = "none" <=> depth[t] = 0
        /\ pc[t] \in {"shWait", "exGranted"} => mode[t] = "none"
        /\ pc[t] \in Acquiring => mode[t] # "exclusive"
        /\ pc[t] \notin {"wfeWait", "wfeRetry"}

\* Only waiting threads are on the wait lists.
ListInv ==
    /\ eventList \subseteq ExclusiveWaiting
    /\ semaphoreList \subseteq SharedWaiting

\* The owner entries name the owners and the shared waiters, each once, with
\* the number of acquisitions; only OwnerThreads[0] names an exclusive owner.
OwnerInv ==
    /\ \A t \in Threads :
          /\ mode[t] # "none" => \E i \in Slots : owners[i] = Owner(t, depth[t])
          /\ pc[t] = "shWait" => \E i \in Slots : owners[i] = Owner(t, 1)
          /\ mode[t] = "exclusive" => owners[0].thread = t
          /\ pc[t] = "exGranted" =>
                owners[0].thread \in {t, Granted} /\ owners[0].count = 1
          /\ pc[t] = "setEvent" => owners[0] = Owner(Granted, 1)
    /\ event = 1 => owners[0] = Owner(Granted, 1)
    /\ \A i, j \in Slots :
          owners[i].thread = owners[j].thread /\ owners[i].thread \in Threads => i = j
    /\ \A i \in Slots :
          /\ owners[i].thread = Granted => i = 0 /\ ownedExclusive
          /\ owners[i].thread \in Threads =>
                \/ mode[owners[i].thread] # "none"
                \/ pc[owners[i].thread] = "shWait" /\ i # 0
                \/ pc[owners[i].thread] = "exGranted" /\ i = 0
    /\ ownedExclusive => owners[0].thread # NoThread

\* The one thread that holds, is being handed or is handing on exclusive access.
Holding == {t \in Threads : mode[t] = "exclusive" \/ pc[t] \in {"exGranted", "setEvent"}}

\* What ActiveCount counts: one exclusive access, wherever it is in transit; or
\* the shared owners and the shared accesses still in transit.
CountInv ==
    /\ ownedExclusive =>
          /\ activeCount = 1
          /\ SharedOwners = {} /\ semaphore = 0 /\ Releasing = {}
          /\ \/ event = 1 /\ Holding = {}
             \/ event = 0 /\ \E t \in Threads : Holding = {t}
    /\ ~ownedExclusive =>
          /\ activeCount = Cardinality(SharedOwners) + semaphore + PendingUnits
          /\ Holding = {} /\ event = 0
    /\ \A t \in Releasing : number[t] > 0 /\ Releasing = {t}

\* Waiters are counted, or what they wait for is in transit to them.
WaiterInv ==
    /\ Cardinality(SharedWaiting) = sharedWaiters + semaphore + PendingUnits
    /\ Cardinality(ExclusiveWaiting) = exclusiveWaiters + event + Cardinality(Setting)
    /\ activeCount = 0 => sharedWaiters = 0 /\ exclusiveWaiters = 0

\* A deleted resource is idle.
LifeInv ==
    ~live => activeCount = 0 /\ \A t \in Threads : pc[t] = "run" /\ depth[t] = 0

\* The state invariant that every step of the routines preserves.
ResourceInv ==
    TypeOK /\ CallerInv /\ ListInv /\ OwnerInv /\ CountInv /\ WaiterInv /\ LifeInv

\* Seen through what callers are told, the routines are a reader/writer lock.
Lock == INSTANCE RwLock
ImplementsRwLock == Lock!Spec

(***************************************************************************)
(* Liveness.  A thread inside a routine goes on (the scheduler does not    *)
(* starve it) and callers release what they acquired.                      *)
(***************************************************************************)
Fairness ==
    /\ \A t \in Threads :
          /\ WF_vars(Proceed(t))
          /\ WF_vars(pc[t] = "exRetry" /\ ExAcquireResourceExclusiveLite(t))
          /\ WF_vars(pc[t] = "wfeRetry" /\ ExAcquireResourceSharedLite(t, TRUE))
    /\ \A u \in Threads :
          WF_vars(\E t \in Threads : ExReleaseResourceForThreadLite(t, u))

FairSpec == Spec /\ Fairness

\* The wait lists are first-in first-out, so a thread that stays on one is
\* eventually taken off it by the threads that signal; and the waits of a
\* thread time out only finitely often.
Served(t) ==
    /\ \E r \in Threads : KeSetEventBoostPriority(r) \/ KeReleaseSemaphore(r)
    /\ t \in eventList \cup semaphoreList
    /\ t \notin eventList' \cup semaphoreList'

Prompt ==
    \A t \in Threads : SF_vars(Served(t)) /\ <>[][~WaitTimeout(t)]_vars

\* While threads wait for exclusive access, one of them is eventually granted
\* it, however many threads come for shared access and however often waits
\* time out: new shared owners are not admitted past an exclusive waiter.
SomeExclusiveServed ==
    exclusiveWaiters # 0 ~> \E t \in Threads : mode[t] = "exclusive"


\* With such lists and timeouts, each single thread that waits is eventually
\* granted the access it waits for.
EachServed ==
    Prompt =>
        \A t \in Threads :
            /\ pc[t] = "shWait" ~> mode[t] = "shared"
            /\ pc[t] = "exWait" ~> mode[t] = "exclusive"

=============================================================================
