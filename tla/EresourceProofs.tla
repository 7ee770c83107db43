------------------------------ MODULE EresourceProofs ------------------------------
(***************************************************************************)
(* Proofs about Eresource, last part: deletion and initialisation, the     *)
(* inductive invariant and the theorems that follow from it.               *)
(***************************************************************************)
EXTENDS EresourceAcquire, EresourceSignal, EresourceHandover

\* A resource that is deleted is idle: nobody is still handing it on.
LEMMA DeleteInv ==
    ASSUME ResourceInv, NEW t \in Threads, ExDeleteResourceLite(t)
    PROVE  ResourceInv'
<1> USE DEF ResourceInv
<1>1. /\ UNCHANGED <<activeCount, ownedExclusive, owners, tableSize, sharedWaiters,
                     exclusiveWaiters, eventExists, event, eventList, semaphore,
                     semaphoreList, mode, depth, pc, number>>
      /\ live' = FALSE /\ Slots' = Slots
      /\ \A u \in Threads : depth[u] = 0 /\ pc[u] \notin Acquiring
    BY DEF ExDeleteResourceLite, dispatcher, caller, Slots
<1>2. /\ SharedWaiting = {} /\ ExclusiveWaiting = {} /\ SharedOwners = {}
      /\ \A u \in Threads : mode[u] = "none" /\ pc[u] # "exGranted"
    BY <1>1 DEF SharedWaiting, ExclusiveWaiting, SharedOwners, CallerInv, Acquiring
<1>3. /\ 0 = sharedWaiters + semaphore + PendingUnits
      /\ 0 = exclusiveWaiters + event + Cardinality(Setting)
    BY <1>2, NoThreads DEF WaiterInv
<1>4. semaphore = 0 /\ PendingUnits = 0 /\ event = 0 /\ Cardinality(Setting) = 0
    <2>1. PendingUnits \in Nat /\ Cardinality(Setting) \in Nat
        BY Counts
    <2>2. /\ semaphore \in Nat /\ sharedWaiters \in Nat /\ exclusiveWaiters \in Nat
          /\ event \in Nat
        BY DEF TypeOK
    <2>3. \A a, b, c \in Nat : 0 = a + b + c => b = 0 /\ c = 0
        OBVIOUS
    <2> HIDE DEF ResourceInv
    <2>4. semaphore = 0 /\ PendingUnits = 0
        BY <1>3, <2>1, <2>2, <2>3
    <2>5. event = 0 /\ Cardinality(Setting) = 0
        BY <1>3, <2>1, <2>2, <2>3
    <2>6. QED BY <2>4, <2>5
<1>5. Setting = {} /\ Releasing = {}
    <2>1. Setting \in SUBSET Threads
        BY DEF Setting
    <2>2. Releasing # {} => PendingUnits > 0
        BY Counts
    <2>3. QED BY <1>4, <2>1, <2>2, NoThreads
<1>6. Holding = {}
    BY <1>2, <1>5 DEF Holding, Setting
<1>7. ~ownedExclusive
    BY <1>4, <1>6 DEF CountInv
<1>8. activeCount = 0
    BY <1>2, <1>4, <1>7, NoThreads DEF CountInv
<1>9. \A u \in Threads : pc[u] = "run"
    BY <1>1, <1>5 DEF Setting, Releasing, TypeOK, Places
<1>10. LifeInv'
    BY <1>1, <1>8, <1>9 DEF LifeInv
<1>11. TypeOK'
    BY <1>1 DEF TypeOK
<1>12. CallerInv' /\ ListInv' /\ OwnerInv' /\ CountInv' /\ WaiterInv'
    <2>1. CallerInv'
        BY <1>1 DEF CallerInv
    <2>2. OwnerInv'
        BY <1>1, SameOwners
    <2>3. ListInv'
        BY <1>1, SameSets DEF ListInv
    <2>4. QED BY <1>1, <2>1, <2>2, <2>3, SameCounts
<1>13. QED BY <1>10, <1>11, <1>12

\* A resource as ExInitializeResourceLite leaves it, with no thread using it.
Fresh ==
    /\ live = TRUE /\ activeCount = 0 /\ ownedExclusive = FALSE
    /\ owners = [i \in 0..1 |-> FreeEntry] /\ tableSize = 0
    /\ sharedWaiters = 0 /\ exclusiveWaiters = 0 /\ eventExists = FALSE
    /\ event = 0 /\ eventList = {} /\ semaphore = 0 /\ semaphoreList = {}
    /\ pc \in [Threads -> {"run"}] /\ mode \in [Threads -> {"none"}]
    /\ depth \in [Threads -> {0}] /\ number \in [Threads -> Nat]

\* A fresh resource satisfies the invariant.
LEMMA FreshInv ==
    ASSUME Fresh
    PROVE  ResourceInv
<1>1. Slots = 0..1 /\ \A i \in Slots : owners[i] = FreeEntry
    BY DEF Fresh, Slots
<1>2. TypeOK
    <2>1. FreeEntry \in [thread : Threads \cup {NoThread, Granted}, count : Nat]
        BY DEF FreeEntry, Owner
    <2>2. owners \in [Slots -> [thread : Threads \cup {NoThread, Granted}, count : Nat]]
        BY <1>1, <2>1 DEF Fresh
    <2>3. pc \in [Threads -> Places] /\ mode \in [Threads -> {"none", "shared", "exclusive"}]
          /\ depth \in [Threads -> Nat]
        BY DEF Fresh, Places
    <2>4. QED BY <2>2, <2>3 DEF Fresh, TypeOK
<1>3. \A t \in Threads : pc[t] = "run" /\ mode[t] = "none" /\ depth[t] = 0
    BY DEF Fresh
<1>4. /\ SharedOwners = {} /\ SharedWaiting = {} /\ ExclusiveWaiting = {}
      /\ Setting = {} /\ Releasing = {} /\ Holding = {}
    BY <1>3 DEF SharedOwners, SharedWaiting, ExclusiveWaiting, Setting, Releasing, Holding
<1>5. PendingUnits = 0
    BY <1>4 DEF PendingUnits
<1>6. CallerInv /\ ListInv
    BY <1>3 DEF CallerInv, ListInv, Fresh, Acquiring
<1>7. OwnerInv
    <2>1. \A i \in Slots : owners[i].thread = NoThread
        BY <1>1 DEF FreeEntry, Owner
    <2>2. QED BY <1>3, <2>1, ThreadsAssumption DEF OwnerInv, Fresh
<1>8. CountInv /\ WaiterInv /\ LifeInv
    BY <1>4, <1>5, NoThreads DEF CountInv, WaiterInv, LifeInv, Fresh
<1>9. QED BY <1>2, <1>6, <1>7, <1>8 DEF ResourceInv

\* The initial state satisfies the invariant.
LEMMA InitInv ==
    Init => ResourceInv
<1>1. ASSUME Init PROVE Fresh
    BY <1>1 DEF Init, Fresh
<1>2. QED BY <1>1, FreshInv

\* ExInitializeResourceLite, of memory whose resource was deleted.
LEMMA InitializeInv ==
    ASSUME ResourceInv, NEW t \in Threads, ExInitializeResourceLite(t)
    PROVE  ResourceInv'
<1>1. \A u \in Threads : pc[u] = "run" /\ depth[u] = 0 /\ mode[u] = "none"
    BY DEF ExInitializeResourceLite, ResourceInv, LifeInv, CallerInv
<1>2. /\ pc \in [Threads -> {"run"}] /\ mode \in [Threads -> {"none"}]
      /\ depth \in [Threads -> {0}] /\ number \in [Threads -> Nat]
    BY <1>1 DEF ResourceInv, TypeOK
<1>3. UNCHANGED <<mode, depth, pc, number>>
    BY DEF ExInitializeResourceLite, caller
<1>4. Fresh'
    BY <1>2, <1>3 DEF ExInitializeResourceLite, Fresh
<1>5. Fresh' => ResourceInv'
    BY FreshInv, PTL
<1>6. QED BY <1>4, <1>5

(***************************************************************************)
(* The theorems.                                                           *)
(***************************************************************************)
\* Every step of the routines preserves the invariant, if every caller of
\* ExAcquireSharedWaitForExclusive passes Wait = FALSE.
LEMMA NextInv ==
    ASSUME WfeWaits \subseteq {FALSE}, ResourceInv, [Next]_vars
    PROVE  ResourceInv'
<1>1. CASE UNCHANGED vars
    <2>1. /\ UNCHANGED <<live, activeCount, ownedExclusive, owners, tableSize, sharedWaiters,
                         exclusiveWaiters, eventExists, event, eventList, semaphore,
                         semaphoreList, mode, depth, pc, number>>
          /\ Slots' = Slots
        BY <1>1 DEF vars, resource, dispatcher, caller, Slots
    <2>2. TypeOK' /\ CallerInv' /\ LifeInv'
        BY <2>1 DEF ResourceInv, TypeOK, CallerInv, LifeInv
    <2>3. OwnerInv'
        BY <2>1, SameOwners DEF ResourceInv
    <2>4. ListInv'
        BY <2>1, SameSets DEF ResourceInv, ListInv
    <2>5. CountInv' /\ WaiterInv'
        BY <2>1, SameCounts DEF ResourceInv
    <2>6. QED BY <2>2, <2>3, <2>4, <2>5 DEF ResourceInv
<1>2. ASSUME NEW t \in Threads, Acquire(t)
      PROVE  ResourceInv'
    <2>1. CASE ExAcquireResourceExclusiveLite(t)
        BY <2>1, ExclusiveInv
    <2>2. CASE ExTryToAcquireResourceExclusiveLite(t)
        BY <2>2, TryExclusiveInv
    <2>3. CASE \E wait \in BOOLEAN : ExAcquireResourceSharedLite(t, wait)
        BY <2>3, SharedInv
    <2>4. CASE \E wait \in BOOLEAN : ExAcquireSharedStarveExclusive(t, wait)
        BY <2>4, StarveExclusiveInv
    <2>5. CASE \E wait \in WfeWaits : ExAcquireSharedWaitForExclusive(t, wait)
        <3>1. ExAcquireSharedWaitForExclusive(t, FALSE)
            BY <2>5
        <3>2. QED BY <3>1, WaitForExclusiveInv
    <2>6. QED BY <1>2, <2>1, <2>2, <2>3, <2>4, <2>5 DEF Acquire
<1>3. ASSUME NEW t \in Threads, Proceed(t)
      PROVE  ResourceInv'
    BY <1>3, AllocateInv, WaitForEventInv, StoreOwnerThreadInv, WaitForSemaphoreInv,
       KeSetEventBoostPriorityInv, KeReleaseSemaphoreInv DEF Proceed
<1>4. QED
    BY <1>1, <1>2, <1>3, WaitTimeoutInv, ReleaseInv, ConvertInv, DeleteInv, InitializeInv
    DEF Next

\* ResourceInv holds in every state, for any number of threads.
THEOREM Invariance ==
    ASSUME WfeWaits \subseteq {FALSE}
    PROVE  Spec => []ResourceInv
<1>1. Init => ResourceInv
    BY InitInv
<1>2. ResourceInv /\ [Next]_vars => ResourceInv'
    BY NextInv
<1>3. QED BY <1>1, <1>2, PTL DEF Spec

\* The acquire and release routines never leave a thread with exclusive access
\* while another thread has access.
THEOREM Exclusion ==
    ASSUME WfeWaits \subseteq {FALSE}
    PROVE  Spec => []MutualExclusion
<1>1. ResourceInv => MutualExclusion
    <2>1. SUFFICES ASSUME ResourceInv, NEW t \in Threads, NEW u \in Threads, t # u,
                          mode[t] = "exclusive"
                   PROVE  mode[u] = "none"
        BY DEF MutualExclusion
    <2>2. t \in Holding
        BY <2>1 DEF Holding
    <2>3. Holding = {t} /\ SharedOwners = {}
        <3>1. ownedExclusive \in BOOLEAN /\ CountInv
            BY <2>1 DEF ResourceInv, TypeOK
        <3>2. ownedExclusive
            BY <2>2, <3>1 DEF CountInv
        <3>3. QED BY <2>2, <3>1, <3>2 DEF CountInv
    <2>4. QED BY <2>1, <2>3 DEF Holding, SharedOwners, ResourceInv, TypeOK
<1>2. QED BY <1>1, Invariance, PTL

\* No interleaving of release, the signal after the lock is dropped, and the
\* waits and timeouts of ExpWaitForResource loses a wakeup.
THEOREM NoWakeupLost ==
    ASSUME WfeWaits \subseteq {FALSE}
    PROVE  Spec => []NoLostWakeup
<1>1. ResourceInv => NoLostWakeup
    <2>1. SUFFICES ASSUME ResourceInv PROVE NoLostWakeup
        OBVIOUS
    <2>2. activeCount = 0 => SharedWaiting = {} /\ ExclusiveWaiting = {}
        BY <2>1, Idle
    <2>3. QED BY <2>1, <2>2 DEF NoLostWakeup, ResourceInv, WaiterInv
<1>2. QED BY <1>1, Invariance, PTL

\* ExIsResourceAcquiredExclusiveLite and ExIsResourceAcquiredSharedLite tell a
\* thread what the history of its calls implies.
THEOREM QueriesTell ==
    ASSUME WfeWaits \subseteq {FALSE}
    PROVE  Spec => []QueriesTruthful
<1>1. ResourceInv => QueriesTruthful
    <2>1. SUFFICES ASSUME ResourceInv, NEW t \in Threads,
                          pc[t] \in {"run", "setEvent", "releaseSemaphore"}
                   PROVE  /\ OwnsExclusive(t) <=> mode[t] = "exclusive"
                          /\ ExIsResourceAcquiredSharedLite(t) = depth[t]
        BY DEF QueriesTruthful, ExIsResourceAcquiredExclusiveLite
    <2>2. OwnsExclusive(t) => mode[t] = "exclusive"
        BY <2>1, ExclusiveOwner
    <2>3. ASSUME mode[t] = "exclusive" PROVE OwnsExclusive(t)
        BY <2>1, <2>3 DEF OwnsExclusive, ResourceInv, OwnerInv, CountInv, Holding
    <2>4. CASE mode[t] = "none"
        <3>1. \A i \in Slots : owners[i].thread # t
            BY <2>1, <2>4 DEF ResourceInv, OwnerInv
        <3>2. depth[t] = 0
            BY <2>1, <2>4 DEF ResourceInv, CallerInv
        <3>3. QED BY <2>2, <2>3, <3>1, <3>2 DEF ExIsResourceAcquiredSharedLite, SlotsOf
    <2>5. CASE mode[t] # "none"
        <3>1. PICK i \in Slots : /\ owners[i].count = depth[t]
                                 /\ SlotsOf(t) = {i} /\ First(SlotsOf(t)) = i
            BY <2>1, <2>5, Named
        <3>2. QED BY <2>2, <2>3, <3>1 DEF ExIsResourceAcquiredSharedLite
    <2>6. QED BY <2>4, <2>5
<1>2. QED BY <1>1, Invariance, PTL

\* After a timeout ExpWaitForResource boosts threads, and nothing else.
THEOREM BoostsOnlyThreads ==
    ASSUME WfeWaits \subseteq {FALSE}
    PROVE  Spec => []BoostsThreads
<1>1. ResourceInv => BoostsThreads
    <2>1. SUFFICES ASSUME ResourceInv PROVE BoostTargets \subseteq Threads
        BY DEF BoostsThreads
    <2>2. 0 \in Slots /\ \A i \in Slots : owners[i].thread \in Threads \cup {NoThread, Granted}
        BY <2>1 DEF ResourceInv, TypeOK, Slots
    <2>3. CASE ownedExclusive
        BY <2>1, <2>2, <2>3 DEF BoostTargets, ResourceInv, OwnerInv
    <2>4. CASE ~ownedExclusive
        BY <2>1, <2>2, <2>4 DEF BoostTargets, ResourceInv, OwnerInv
    <2>5. QED BY <2>3, <2>4
<1>2. QED BY <1>1, Invariance, PTL

\* The event or semaphore a releasing thread signals after it dropped the lock
\* belongs to a resource that has not been deleted meanwhile.
THEOREM SignalsBeforeDelete ==
    ASSUME WfeWaits \subseteq {FALSE}
    PROVE  Spec => []SignalsLiveResource
<1>1. ResourceInv => SignalsLiveResource
    BY DEF ResourceInv, LifeInv, TypeOK, SignalsLiveResource, Setting, Releasing
<1>2. QED BY <1>1, Invariance, PTL

\* Releases hand the resource on one at a time: while one of them is between
\* dropping the lock and its signal, or its event is not taken, there is no other.
THEOREM GrantsOneByOne ==
    ASSUME WfeWaits \subseteq {FALSE}
    PROVE  Spec => []OneGrantAtATime
<1>1. ResourceInv => OneGrantAtATime
    <2>1. SUFFICES ASSUME ResourceInv
                   PROVE  Cardinality(Setting) + Cardinality(Releasing) + event <= 1
        BY DEF OneGrantAtATime
    <2>2. CountInv /\ Setting \subseteq Holding
        BY <2>1 DEF ResourceInv, Setting, Holding
    <2>3. Cardinality({}) = 0 /\ \A t : Cardinality({t}) = 1
        BY NoThreads, OneThread
    <2>4. CASE ownedExclusive
        <3>1. Releasing = {}
            BY <2>2, <2>4 DEF CountInv
        <3>2. CASE event = 1 /\ Holding = {}
            BY <2>2, <2>3, <3>1, <3>2
        <3>3. ASSUME event = 0, NEW t \in Threads, Holding = {t}
              PROVE  Cardinality(Setting) + Cardinality(Releasing) + event <= 1
            <4>1. Setting = {} \/ Setting = {t}
                BY <2>2, <3>3
            <4>2. Cardinality(Releasing) = 0
                BY <2>3, <3>1
            <4>3. Cardinality(Setting) = 0 \/ Cardinality(Setting) = 1
                BY <2>3, <4>1
            <4>4. QED BY <3>3, <4>2, <4>3
        <3>4. QED BY <2>2, <2>4, <3>2, <3>3 DEF CountInv
    <2>5. CASE ~ownedExclusive
        <3>1. Setting = {} /\ event = 0
            BY <2>2, <2>5 DEF CountInv
        <3>2. Releasing = {} \/ \E t \in Threads : Releasing = {t}
            BY <2>2 DEF CountInv, Releasing
        <3>3. Cardinality(Releasing) = 0 \/ Cardinality(Releasing) = 1
            BY <2>3, <3>2
        <3>4. QED BY <2>3, <3>1, <3>3
    <2>6. QED BY <2>4, <2>5
<1>2. QED BY <1>1, Invariance, PTL
=============================================================================
