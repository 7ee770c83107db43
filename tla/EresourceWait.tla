------------------------------- MODULE EresourceWait -------------------------------
(***************************************************************************)
(* Proofs about Eresource, third part: the threads that wait and the       *)
(* dispatcher calls that wake them.                                        *)
(***************************************************************************)
EXTENDS EresourceFacts

\* The allocation of the exclusive event.
LEMMA AllocateInv ==
    ASSUME ResourceInv, NEW t \in Threads, AllocateExclusiveEvent(t)
    PROVE  ResourceInv'
<1> USE DEF ResourceInv
<1>1. /\ pc[t] = "exAllocate" /\ pc' = [pc EXCEPT ![t] = "exRetry"] /\ eventExists' = TRUE
      /\ UNCHANGED <<live, activeCount, ownedExclusive, owners, tableSize, sharedWaiters,
                     exclusiveWaiters, event, eventList, semaphore, semaphoreList,
                     mode, depth, number>>
      /\ Slots' = Slots
    BY DEF AllocateExclusiveEvent, dispatcher, caller, Slots
<1>2. TypeOK'
    BY <1>1 DEF TypeOK, Places, Acquiring
<1>3. CallerInv'
    BY <1>1 DEF CallerInv, TypeOK, Acquiring
<1>4. /\ SharedWaiting' = SharedWaiting /\ ExclusiveWaiting' = ExclusiveWaiting
      /\ Setting' = Setting /\ Releasing' = Releasing /\ Holding' = Holding
      /\ SharedOwners' = SharedOwners
    BY <1>1
    DEF TypeOK, SharedWaiting, ExclusiveWaiting, Setting, Releasing, SharedOwners, Holding
<1>5. PendingUnits' = PendingUnits
    BY <1>1, <1>4 DEF PendingUnits
<1>6. OwnerInv'
    BY <1>1 DEF TypeOK, OwnerInv
<1>7. ListInv' /\ CountInv' /\ WaiterInv'
    BY <1>1, <1>4, <1>5 DEF ListInv, CountInv, WaiterInv
<1>8. LifeInv'
    BY <1>1 DEF LifeInv
<1>9. QED BY <1>2, <1>3, <1>6, <1>7, <1>8

\* A thread takes the event or joins its wait list.
LEMMA WaitForEventInv ==
    ASSUME ResourceInv, NEW t \in Threads, WaitForEvent(t)
    PROVE  ResourceInv'
<1> USE DEF ResourceInv
<1>1. /\ pc[t] = "exWait" /\ t \notin eventList
      /\ UNCHANGED <<live, activeCount, ownedExclusive, owners, tableSize, sharedWaiters,
                     exclusiveWaiters, eventExists, semaphore, semaphoreList,
                     mode, depth, number>>
      /\ Slots' = Slots
    BY DEF WaitForEvent, resource, caller, Slots
<1>2. CASE event = 1
    <2>1. event' = 0 /\ pc' = [pc EXCEPT ![t] = "exGranted"] /\ eventList' = eventList
        BY <1>2 DEF WaitForEvent
    <2>2. /\ ownedExclusive /\ Holding = {} /\ owners[0] = Owner(Granted, 1)
          /\ mode[t] = "none"
        BY <1>1, <1>2 DEF CountInv, OwnerInv, CallerInv, TypeOK, Acquiring, SharedOwners
    <2>3. TypeOK'
        BY <1>1, <2>1 DEF TypeOK, Places, Acquiring
    <2>4. CallerInv'
        BY <1>1, <2>1, <2>2 DEF CallerInv, TypeOK, Acquiring
    <2>5. /\ SharedWaiting' = SharedWaiting
          /\ ExclusiveWaiting' = ExclusiveWaiting \ {t} /\ t \in ExclusiveWaiting
          /\ Setting' = Setting /\ Releasing' = Releasing /\ Holding' = {t}
          /\ SharedOwners' = SharedOwners
        BY <1>1, <2>1, <2>2
        DEF TypeOK, SharedWaiting, ExclusiveWaiting, Setting, Releasing, SharedOwners, Holding
    <2>6. PendingUnits' = PendingUnits
        BY <1>1, <2>5 DEF PendingUnits
    <2>7. ListInv'
        BY <1>1, <2>1, <2>5 DEF ListInv
    <2>8. OwnerInv'
        <3>1. owners[0].thread = Granted /\ owners[0].count = 1
            BY <2>2 DEF Owner
        <3>2. QED BY <1>1, <2>1, <3>1 DEF TypeOK, OwnerInv
    <2>9. CountInv'
        BY <1>1, <2>1, <2>2, <2>5, <2>6 DEF CountInv
    <2>10. WaiterInv'
        <3>1. Cardinality(ExclusiveWaiting') = Cardinality(ExclusiveWaiting) - 1
            BY <2>5, RemoveThread DEF ExclusiveWaiting
        <3>2. QED BY <1>1, <1>2, <2>1, <2>5, <2>6, <3>1, Counts DEF WaiterInv, TypeOK
    <2>11. LifeInv'
        BY <1>1 DEF LifeInv
    <2>12. QED BY <2>3, <2>4, <2>7, <2>8, <2>9, <2>10, <2>11
<1>3. CASE event # 1
    <2>1. event' = event /\ pc' = pc /\ eventList' = eventList \cup {t}
        BY <1>3 DEF WaitForEvent
    <2>2. TypeOK'
        BY <1>1, <2>1 DEF TypeOK
    <2>3. ListInv'
        BY <1>1, <2>1 DEF ListInv, ExclusiveWaiting, SharedWaiting
    <2>4. CallerInv' /\ LifeInv'
        BY <1>1, <2>1 DEF CallerInv, LifeInv
    <2>5. OwnerInv'
        BY <1>1, <2>1, SameOwners
    <2>6. CountInv' /\ WaiterInv'
        BY <1>1, <2>1, SameCounts
    <2>7. QED BY <2>2, <2>3, <2>4, <2>5, <2>6
<1>4. QED BY <1>2, <1>3

\* The granted thread stores its identity without the lock.
LEMMA StoreOwnerThreadInv ==
    ASSUME ResourceInv, NEW t \in Threads, StoreOwnerThread(t)
    PROVE  ResourceInv'
<1> USE DEF ResourceInv
<1>1. /\ pc[t] = "exGranted" /\ owners' = [owners EXCEPT ![0].thread = t]
      /\ UNCHANGED <<live, activeCount, ownedExclusive, tableSize, sharedWaiters,
                     exclusiveWaiters, eventExists, event, eventList, semaphore,
                     semaphoreList, number>>
      /\ Slots' = Slots /\ 0 \in Slots
    BY DEF StoreOwnerThread, dispatcher, Slots, TypeOK
<1>2. /\ mode[t] = "none" /\ depth[t] = 0
      /\ ownedExclusive /\ event = 0 /\ Holding = {t} /\ SharedOwners = {}
    BY <1>1 DEF CallerInv, CountInv, Holding
<1>3. /\ mode' = [mode EXCEPT ![t] = "exclusive"]
      /\ depth' = [depth EXCEPT ![t] = 1]
      /\ pc' = [pc EXCEPT ![t] = "run"]
    BY <1>2 DEF StoreOwnerThread, Acquired
<1>4. owners[0].thread \in {t, Granted} /\ owners[0].count = 1
    BY <1>1 DEF OwnerInv
<1>5. TypeOK'
    BY <1>1, <1>3 DEF TypeOK, Places
<1>6. CallerInv'
    BY <1>3 DEF CallerInv, TypeOK, Acquiring
<1>7. /\ SharedWaiting' = SharedWaiting /\ ExclusiveWaiting' = ExclusiveWaiting
      /\ Setting' = Setting /\ Releasing' = Releasing
      /\ SharedOwners' = {} /\ Holding' = {t}
    BY <1>1, <1>2, <1>3
    DEF TypeOK, SharedWaiting, ExclusiveWaiting, Setting, Releasing, SharedOwners, Holding
<1>8. PendingUnits' = PendingUnits
    BY <1>1, <1>7 DEF PendingUnits
<1>9. ListInv'
    BY <1>1, <1>7 DEF ListInv
<1>10. OwnerInv'
    <2>1. owners'[0] = Owner(t, 1) /\ \A i \in Slots : i # 0 => owners'[i] = owners[i]
        BY <1>1, <1>4 DEF Owner, TypeOK
    <2>2. \A i \in Slots : i # 0 => owners[i].thread # t
        BY <1>1, <1>2 DEF OwnerInv
    <2>3. \A u \in Threads : u # t =>
             /\ mode'[u] = mode[u] /\ depth'[u] = depth[u] /\ pc'[u] = pc[u]
             /\ mode[u] # "exclusive" /\ pc[u] \notin {"exGranted", "setEvent"}
        BY <1>2, <1>3 DEF TypeOK, Holding
    <2>4. ASSUME NEW u \in Threads, NEW n, NEW i \in Slots, u # t, owners[i] = Owner(u, n)
          PROVE  owners'[i] = Owner(u, n)
        BY <1>4, <2>1, <2>4, ThreadsAssumption DEF Owner
    <2>5. ASSUME NEW u \in Threads
          PROVE  /\ mode'[u] # "none" => \E i \in Slots : owners'[i] = Owner(u, depth'[u])
                 /\ pc'[u] = "shWait" => \E i \in Slots : owners'[i] = Owner(u, 1)
                 /\ mode'[u] = "exclusive" => owners'[0].thread = u
                 /\ pc'[u] \notin {"exGranted", "setEvent"}
        <3>1. CASE u = t
            BY <1>1, <1>3, <2>1, <3>1 DEF TypeOK, Owner
        <3>2. CASE u # t
            BY <2>3, <2>4, <3>2 DEF OwnerInv
        <3>3. QED BY <3>1, <3>2
    <2>6. \A i \in Slots :
             /\ owners'[i].thread = Granted => i = 0 /\ ownedExclusive'
             /\ owners'[i].thread \in Threads =>
                   \/ mode'[owners'[i].thread] # "none"
                   \/ pc'[owners'[i].thread] = "shWait" /\ i # 0
                   \/ pc'[owners'[i].thread] = "exGranted" /\ i = 0
        BY <1>1, <1>3, <2>1, <2>2, <2>3, ThreadsAssumption DEF OwnerInv, Owner, TypeOK
    <2>7. \A i, j \in Slots :
             owners'[i].thread = owners'[j].thread /\ owners'[i].thread \in Threads => i = j
        BY <2>1, <2>2 DEF OwnerInv, Owner
    <2>8. owners'[0].thread # NoThread
        BY <2>1, ThreadsAssumption DEF Owner
    <2>9. QED BY <1>1, <1>2, <2>5, <2>6, <2>7, <2>8, SMTT(30) DEF OwnerInv
<1>11. CountInv'
    BY <1>1, <1>2, <1>7 DEF CountInv
<1>12. WaiterInv'
    BY <1>1, <1>7, <1>8 DEF WaiterInv
<1>13. LifeInv'
    BY <1>1 DEF LifeInv
<1>14. QED BY <1>5, <1>6, <1>9, <1>10, <1>11, <1>12, <1>13

\* The shared waiters in S have access and the threads in R have released.
Passed(S, R) ==
    \A u \in Threads :
        /\ pc'[u] = IF u \in S \cup R THEN "run" ELSE pc[u]
        /\ mode'[u] = IF u \in S THEN "shared" ELSE mode[u]
        /\ depth'[u] = IF u \in S THEN depth[u] + 1 ELSE depth[u]

\* The threads in S become shared owners; the entries already name them.
LEMMA PassSemaphoreInv ==
    ASSUME ResourceInv, ~ownedExclusive,
           NEW S \in SUBSET SharedWaiting, NEW R \in SUBSET Releasing,
           Passed(S, R),
           UNCHANGED <<owners, ownedExclusive, event, tableSize>>
    PROVE  /\ \A u \in Threads : /\ mode'[u] \in {"none", "shared", "exclusive"}
                                 /\ depth'[u] \in Nat /\ pc'[u] \in Places
           /\ CallerInv' /\ OwnerInv'
           /\ SharedWaiting' = SharedWaiting \ S /\ ExclusiveWaiting' = ExclusiveWaiting
           /\ SharedOwners' = SharedOwners \cup S /\ SharedOwners \cap S = {}
           /\ Setting' = Setting /\ Holding' = Holding
           /\ Releasing' = Releasing \ R
<1> USE DEF ResourceInv
<1>1. \A u \in S : u \in Threads /\ pc[u] = "shWait" /\ mode[u] = "none" /\ depth[u] = 0
    BY DEF SharedWaiting, CallerInv
<1>2. \A u \in Threads :
         /\ pc'[u] = IF u \in S \cup R THEN "run" ELSE pc[u]
         /\ mode'[u] = IF u \in S THEN "shared" ELSE mode[u]
         /\ depth'[u] = IF u \in S THEN 1 ELSE depth[u]
    <2>1. \A u \in S : depth[u] + 1 = 1
        BY <1>1
    <2>2. QED BY <2>1 DEF Passed
<1>3. \A u \in Threads : /\ mode'[u] \in {"none", "shared", "exclusive"}
                         /\ depth'[u] \in Nat /\ pc'[u] \in Places
    BY <1>2 DEF TypeOK, Places
<1>4. CallerInv'
    BY <1>1, <1>2 DEF CallerInv, TypeOK, Acquiring
<1>5. /\ SharedWaiting' = SharedWaiting \ S /\ ExclusiveWaiting' = ExclusiveWaiting
      /\ SharedOwners' = SharedOwners \cup S /\ SharedOwners \cap S = {}
      /\ Setting' = Setting /\ Holding' = Holding
      /\ Releasing' = Releasing \ R
    BY <1>1, <1>2
    DEF TypeOK, SharedWaiting, ExclusiveWaiting, Setting, Releasing, SharedOwners, Holding
<1>6. OwnerInv'
    <2>1. Slots' = Slots
        BY DEF Slots
    <2>2. ASSUME NEW u \in Threads
          PROVE  /\ mode'[u] # "none" => \E i \in Slots : owners[i] = Owner(u, depth'[u])
                 /\ pc'[u] = "shWait" => \E i \in Slots : owners[i] = Owner(u, 1)
                 /\ mode'[u] = "exclusive" => owners[0].thread = u
                 /\ pc'[u] = "exGranted" =>
                       owners[0].thread \in {u, Granted} /\ owners[0].count = 1
                 /\ pc'[u] = "setEvent" => owners[0] = Owner(Granted, 1)
        BY <1>1, <1>2 DEF OwnerInv
    <2>3. ASSUME NEW i \in Slots, owners[i].thread \in Threads
          PROVE  \/ mode'[owners[i].thread] # "none"
                 \/ pc'[owners[i].thread] = "shWait" /\ i # 0
                 \/ pc'[owners[i].thread] = "exGranted" /\ i = 0
        <3>1. \/ mode[owners[i].thread] # "none"
              \/ pc[owners[i].thread] = "shWait" /\ i # 0
              \/ pc[owners[i].thread] = "exGranted" /\ i = 0
            BY <2>3 DEF OwnerInv
        <3>2. PICK u \in Threads : u = owners[i].thread
            BY <2>3
        <3>3. \/ mode[u] # "none"
              \/ pc[u] = "shWait" /\ i # 0
              \/ pc[u] = "exGranted" /\ i = 0
            BY <3>1, <3>2
        <3>4. \/ mode'[u] # "none"
              \/ pc'[u] = "shWait" /\ i # 0
              \/ pc'[u] = "exGranted" /\ i = 0
            BY <1>1, <1>2, <3>3 DEF Releasing
        <3>5. QED BY <3>2, <3>4
    <2>4. QED BY <2>1, <2>2, <2>3, SMTT(30) DEF OwnerInv
<1>7. QED BY <1>3, <1>4, <1>5, <1>6

\* A thread takes a unit of the semaphore or joins its wait list.
LEMMA WaitForSemaphoreInv ==
    ASSUME ResourceInv, NEW t \in Threads, WaitForSemaphore(t)
    PROVE  ResourceInv'
<1> USE DEF ResourceInv
<1>1. /\ t \in SharedWaiting /\ t \notin semaphoreList
      /\ UNCHANGED <<resource, event, eventList, number>>
      /\ UNCHANGED <<live, activeCount, ownedExclusive, owners, tableSize, sharedWaiters,
                     exclusiveWaiters, eventExists>>
      /\ Slots' = Slots
    BY DEF WaitForSemaphore, SharedWaiting, CallerInv, resource, Slots
<1>2. CASE semaphore > 0
    <2>1. semaphore' = semaphore - 1 /\ PassSemaphore({t}, pc) /\ semaphoreList' = semaphoreList
        BY <1>2 DEF WaitForSemaphore
    <2>2. ~ownedExclusive
        BY <1>2 DEF CountInv
    <2>3. pc \in [Threads -> Places] /\ {t} \in SUBSET SharedWaiting
        BY <1>1 DEF TypeOK
    <2>4. /\ CallerInv' /\ OwnerInv'
          /\ SharedWaiting' = SharedWaiting \ {t} /\ ExclusiveWaiting' = ExclusiveWaiting
          /\ SharedOwners' = SharedOwners \cup {t} /\ SharedOwners \cap {t} = {}
          /\ Setting' = Setting /\ Holding' = Holding
          /\ Releasing' = Releasing \ {}
        <3>1. Passed({t}, {})
            <4>1. {u \in {t} : pc[u] = "shWait"} = {t}
                BY <1>1 DEF SharedWaiting
            <4>2. QED BY <2>1, <4>1 DEF PassSemaphore, Passed
        <3>2. {} \in SUBSET Releasing
            OBVIOUS
        <3>3. QED BY <1>1, <2>2, <2>3, <3>1, <3>2, PassSemaphoreInv
    <2>5. Releasing' = Releasing
        BY <2>4
    <2>13. /\ mode' \in [Threads -> {"none", "shared", "exclusive"}]
           /\ depth' \in [Threads -> Nat] /\ pc' \in [Threads -> Places]
        <3>1. {u \in {t} : pc[u] = "shWait"} = {t}
            BY <1>1 DEF SharedWaiting
        <3>2. depth[t] + 1 \in Nat /\ "run" \in Places
            BY DEF TypeOK, Places
        <3>3. QED BY <2>1, <3>1, <3>2 DEF PassSemaphore, TypeOK
    <2>6. PendingUnits' = PendingUnits
        BY <1>1, <2>5 DEF PendingUnits
    <2>7. TypeOK'
        BY <1>1, <1>2, <2>1, <2>13 DEF TypeOK
    <2>8. ListInv'
        BY <1>1, <2>1, <2>4 DEF ListInv
    <2>9. CountInv'
        <3>1. Cardinality(SharedOwners') = Cardinality(SharedOwners) + 1
            BY <2>4, AddThread DEF SharedOwners
        <3>2. QED BY <1>1, <1>2, <2>1, <2>2, <2>4, <2>5, <2>6, <3>1, Counts DEF CountInv, TypeOK
    <2>10. WaiterInv'
        <3>1. Cardinality(SharedWaiting') = Cardinality(SharedWaiting) - 1
            BY <1>1, <2>4, RemoveThread DEF SharedWaiting
        <3>2. QED BY <1>1, <1>2, <2>1, <2>4, <2>6, <3>1, Counts DEF WaiterInv, TypeOK
    <2>11. LifeInv'
        BY <1>1 DEF LifeInv, SharedWaiting
    <2>12. QED BY <2>4, <2>7, <2>8, <2>9, <2>10, <2>11
<1>3. CASE ~(semaphore > 0)
    <2>1. UNCHANGED <<semaphore, pc, mode, depth>> /\ semaphoreList' = semaphoreList \cup {t}
        BY <1>3 DEF WaitForSemaphore, caller
    <2>2. TypeOK'
        BY <1>1, <2>1 DEF TypeOK
    <2>3. ListInv'
        BY <1>1, <2>1 DEF ListInv, ExclusiveWaiting, SharedWaiting
    <2>4. CallerInv' /\ LifeInv'
        BY <1>1, <2>1 DEF CallerInv, LifeInv
    <2>5. OwnerInv'
        BY <1>1, <2>1, SameOwners
    <2>6. CountInv' /\ WaiterInv'
        BY <1>1, <2>1, SameCounts
    <2>7. QED BY <2>2, <2>3, <2>4, <2>5, <2>6
<1>4. QED BY <1>2, <1>3

\* A wait times out.
LEMMA WaitTimeoutInv ==
    ASSUME ResourceInv, NEW t \in Threads, WaitTimeout(t)
    PROVE  ResourceInv'
<1> USE DEF ResourceInv
<1>1. /\ eventList' \subseteq eventList /\ semaphoreList' \subseteq semaphoreList
      /\ UNCHANGED <<live, activeCount, ownedExclusive, owners, tableSize, sharedWaiters,
                     exclusiveWaiters, eventExists, event, semaphore, mode, depth, pc, number>>
      /\ Slots' = Slots
    BY DEF WaitTimeout, resource, caller, Slots
<1>2. TypeOK'
    BY <1>1 DEF TypeOK
<1>3. ListInv'
    BY <1>1 DEF ListInv, ExclusiveWaiting, SharedWaiting
<1>4. CallerInv' /\ OwnerInv' /\ CountInv' /\ WaiterInv' /\ LifeInv'
    <2>1. CallerInv' /\ LifeInv'
        BY <1>1 DEF CallerInv, LifeInv
    <2>2. OwnerInv'
        BY <1>1, SameOwners
    <2>3. CountInv' /\ WaiterInv'
        BY <1>1, SameCounts
    <2>4. QED BY <2>1, <2>2, <2>3
<1>5. QED BY <1>2, <1>3, <1>4
=============================================================================
