------------------------------ MODULE EresourceSignal ------------------------------
(***************************************************************************)
(* Proofs about Eresource, after the waits: KeReleaseSemaphore and         *)
(* KeSetEventBoostPriority.                                                *)
(***************************************************************************)
EXTENDS EresourceWait

\* A set of waiting threads becomes a set of owners: both counts move with it.
LEMMA MoveThreads ==
    ASSUME NEW A \in SUBSET Threads, NEW B \in SUBSET Threads, NEW S \in SUBSET Threads,
           S \subseteq A, B \cap S = {}
    PROVE  /\ Cardinality(A \ S) = Cardinality(A) - Cardinality(S)
           /\ Cardinality(B \cup S) = Cardinality(B) + Cardinality(S)
           /\ Cardinality(A) \in Nat /\ Cardinality(B) \in Nat /\ Cardinality(S) \in Nat
<1>1. IsFiniteSet(A) /\ IsFiniteSet(B) /\ IsFiniteSet(S)
    BY FS_Subset, ThreadsAssumption
<1>2. A \cap S = S /\ Cardinality(B \cap S) = 0
    BY FS_EmptySet
<1>3. Cardinality(A \ S) = Cardinality(A) - Cardinality(S)
    BY <1>1, <1>2, FS_Difference
<1>4. Cardinality(A) \in Nat /\ Cardinality(B) \in Nat /\ Cardinality(S) \in Nat
    BY <1>1, FS_CardinalityType
<1>5. Cardinality(B \cup S) = Cardinality(B) + Cardinality(S) - Cardinality(B \cap S)
    BY <1>1, FS_Union
<1>6. QED BY <1>2, <1>3, <1>4, <1>5

\* The thread that calls KeReleaseSemaphore is the only one about to.
LEMMA Pending ==
    ASSUME ResourceInv, NEW t \in Threads, pc[t] = "releaseSemaphore"
    PROVE  Releasing = {t} /\ PendingUnits = number[t] /\ number[t] \in Nat /\ ~ownedExclusive
<1>1. t \in Releasing /\ number[t] \in Nat
    BY DEF Releasing, ResourceInv, TypeOK
<1>2. Releasing = {t} /\ ~ownedExclusive
    BY <1>1 DEF ResourceInv, CountInv
<1>3. (CHOOSE u \in Releasing : TRUE) = t
    BY <1>2
<1>4. QED BY <1>1, <1>2, <1>3 DEF PendingUnits

\* KeReleaseSemaphore turns units in transit into owners or units to take.
LEMMA KeReleaseSemaphoreInv ==
    ASSUME ResourceInv, NEW t \in Threads, KeReleaseSemaphore(t)
    PROVE  ResourceInv'
<1> USE DEF ResourceInv
<1>1. /\ Releasing = {t} /\ PendingUnits = number[t] /\ number[t] \in Nat /\ ~ownedExclusive
    BY Pending DEF KeReleaseSemaphore
<1>2. /\ UNCHANGED <<live, activeCount, ownedExclusive, owners, tableSize, sharedWaiters,
                     exclusiveWaiters, eventExists, event, eventList>>
      /\ Slots' = Slots /\ number' = [number EXCEPT ![t] = 0] /\ pc[t] = "releaseSemaphore"
    BY DEF KeReleaseSemaphore, resource, Slots
<1>3. PICK S \in SUBSET semaphoreList :
         /\ semaphore' = semaphore + number[t] - Cardinality(S)
         /\ Cardinality(S) <= semaphore + number[t]
         /\ semaphoreList' = semaphoreList \ S
         /\ PassSemaphore(S, [pc EXCEPT ![t] = "run"])
    <2>1. semaphore \in Nat /\ number[t] \in Nat
        BY <1>1 DEF TypeOK
    <2>2. Cardinality(semaphoreList) \in Nat
        BY ThreadSets DEF TypeOK
    <2>3. QED BY <2>1, <2>2 DEF KeReleaseSemaphore
<1>4. /\ S \in SUBSET SharedWaiting /\ {t} \in SUBSET Releasing /\ S \in SUBSET Threads
    BY <1>1 DEF ListInv, TypeOK
<1>5. {u \in S : pc[u] = "shWait"} = S
    BY <1>4 DEF SharedWaiting
<1>6. /\ pc' = [u \in Threads |-> IF u \in S THEN "run" ELSE [pc EXCEPT ![t] = "run"][u]]
      /\ mode' = [u \in Threads |-> IF u \in S THEN "shared" ELSE mode[u]]
      /\ depth' = [u \in Threads |-> IF u \in S THEN depth[u] + 1 ELSE depth[u]]
    BY <1>3, <1>5 DEF PassSemaphore
<1>7. Passed(S, {t})
    BY <1>6 DEF TypeOK, Passed
<1>8. /\ CallerInv' /\ OwnerInv'
      /\ SharedWaiting' = SharedWaiting \ S /\ ExclusiveWaiting' = ExclusiveWaiting
      /\ SharedOwners' = SharedOwners \cup S /\ SharedOwners \cap S = {}
      /\ Setting' = Setting /\ Holding' = Holding
      /\ Releasing' = Releasing \ {t}
    <2> HIDE DEF ResourceInv
    <2>1. UNCHANGED <<owners, ownedExclusive, event, tableSize>> /\ ~ownedExclusive
        BY <1>1, <1>2
    <2>2. QED BY <1>4, <1>7, <2>1, PassSemaphoreInv
<1>9. Releasing' = {} /\ PendingUnits' = 0
    BY <1>1, <1>8 DEF PendingUnits
<1>10. /\ Cardinality(SharedWaiting') = Cardinality(SharedWaiting) - Cardinality(S)
       /\ Cardinality(SharedOwners') = Cardinality(SharedOwners) + Cardinality(S)
       /\ Cardinality(SharedWaiting) \in Nat /\ Cardinality(SharedOwners) \in Nat
       /\ Cardinality(S) \in Nat
    <2>1. SharedWaiting \in SUBSET Threads /\ SharedOwners \in SUBSET Threads
        BY DEF SharedWaiting, SharedOwners
    <2> HIDE DEF ResourceInv
    <2>2. S \in SUBSET Threads /\ S \subseteq SharedWaiting /\ SharedOwners \cap S = {}
        BY <1>4, <1>8, <2>1
    <2>3. /\ Cardinality(SharedWaiting \ S) = Cardinality(SharedWaiting) - Cardinality(S)
          /\ Cardinality(SharedOwners \cup S) = Cardinality(SharedOwners) + Cardinality(S)
          /\ Cardinality(SharedWaiting) \in Nat /\ Cardinality(SharedOwners) \in Nat
          /\ Cardinality(S) \in Nat
        BY <2>1, <2>2, MoveThreads
    <2>4. QED BY <1>8, <2>3
<1>11. TypeOK'
    <2>1. /\ mode' \in [Threads -> {"none", "shared", "exclusive"}]
          /\ depth' \in [Threads -> Nat]
        BY <1>6 DEF TypeOK
    <2>2. pc' \in [Threads -> Places]
        <3>1. "run" \in Places
            BY DEF Places
        <3>2. QED BY <1>6, <3>1 DEF TypeOK
    <2>3. semaphore' \in Nat /\ semaphoreList' \subseteq Threads
        BY <1>1, <1>3, <1>10 DEF TypeOK
    <2>4. QED BY <1>2, <2>1, <2>2, <2>3 DEF TypeOK
<1>12. ListInv'
    BY <1>2, <1>3, <1>8 DEF ListInv
<1>13. CountInv'
    BY <1>1, <1>2, <1>3, <1>8, <1>9, <1>10 DEF CountInv, TypeOK
<1>14. WaiterInv'
    BY <1>1, <1>2, <1>3, <1>8, <1>9, <1>10 DEF WaiterInv, TypeOK
<1>15. LifeInv'
    BY <1>2 DEF LifeInv
<1>16. QED BY <1>8, <1>11, <1>12, <1>13, <1>14, <1>15

\* KeSetEventBoostPriority hands exclusive access to one thread or the event.
LEMMA KeSetEventBoostPriorityInv ==
    ASSUME ResourceInv, NEW t \in Threads, KeSetEventBoostPriority(t)
    PROVE  ResourceInv'
<1> USE DEF ResourceInv
<1>1. /\ pc[t] = "setEvent"
      /\ UNCHANGED <<live, activeCount, ownedExclusive, tableSize, sharedWaiters,
                     exclusiveWaiters, eventExists, semaphore, semaphoreList, mode, depth,
                     number>>
      /\ Slots' = Slots
    BY DEF KeSetEventBoostPriority, caller, Slots
<1>2. /\ ownedExclusive /\ event = 0 /\ Holding = {t} /\ Setting = {t}
      /\ Releasing = {} /\ owners[0] = Owner(Granted, 1)
      /\ \A u \in Threads : mode[u] = "none" /\ pc[u] # "exGranted"
    BY <1>1, Handing
<1>3. 0 \in Slots
    BY DEF TypeOK, Slots
<1>4. LifeInv' /\ SharedOwners' = SharedOwners
    BY <1>1 DEF LifeInv, SharedOwners
<1>5. Cardinality(Setting) = 1 /\ Cardinality({}) = 0
    BY <1>2, NoThreads, OneThread
<1>6. CASE eventList = {} /\ event' = 1 /\ pc' = [pc EXCEPT ![t] = "run"]
           /\ UNCHANGED <<owners, eventList>>
    <2>1. TypeOK'
        BY <1>1, <1>6 DEF TypeOK, Places
    <2>2. CallerInv'
        BY <1>1, <1>6 DEF CallerInv, TypeOK, Acquiring
    <2>3. /\ SharedWaiting' = SharedWaiting /\ ExclusiveWaiting' = ExclusiveWaiting
          /\ Setting' = {} /\ Releasing' = {} /\ Holding' = {}
        BY <1>1, <1>2, <1>6
        DEF TypeOK, SharedWaiting, ExclusiveWaiting, Setting, Releasing, Holding
    <2>4. PendingUnits' = PendingUnits
        BY <1>1, <1>2, <2>3 DEF PendingUnits
    <2>5. ListInv'
        BY <1>1, <1>6, <2>3 DEF ListInv
    <2>6. OwnerInv'
        BY <1>1, <1>2, <1>6 DEF OwnerInv, TypeOK
    <2>7. CountInv'
        BY <1>1, <1>2, <1>4, <1>6, <2>3, <2>4 DEF CountInv
    <2>8. WaiterInv'
        BY <1>1, <1>2, <1>6, <1>5, <2>3, <2>4, Counts DEF WaiterInv, TypeOK
    <2>9. QED BY <1>4, <2>1, <2>2, <2>5, <2>6, <2>7, <2>8
<1>7. ASSUME NEW w \in eventList,
             owners' = [owners EXCEPT ![0].thread = w], eventList' = eventList \ {w},
             event' = 0, pc' = [pc EXCEPT ![t] = "run", ![w] = "exGranted"]
      PROVE  ResourceInv'
    <2>1. w \in Threads /\ pc[w] = "exWait" /\ w # t /\ w \in ExclusiveWaiting
        BY <1>1, <1>7 DEF ListInv, ExclusiveWaiting
    <2>2. owners' = [owners EXCEPT ![0] = Owner(w, 1)]
        <3>1. owners[0].count = 1
            BY <1>2 DEF Owner
        <3>2. [owners[0] EXCEPT !.thread = w] = Owner(w, 1)
            BY <1>3, <3>1 DEF Owner, TypeOK
        <3>3. QED BY <1>7, <3>2
    <2>3. TypeOK'
        BY <1>1, <1>3, <1>7, <2>1, <2>2 DEF TypeOK, Places, Acquiring, Owner
    <2>4. CallerInv'
        BY <1>1, <1>2, <1>7, <2>1 DEF CallerInv, TypeOK, Acquiring
    <2>5. /\ SharedWaiting' = SharedWaiting /\ ExclusiveWaiting' = ExclusiveWaiting \ {w}
          /\ Setting' = {} /\ Releasing' = {} /\ Holding' = {w}
        BY <1>1, <1>2, <1>7, <2>1
        DEF TypeOK, SharedWaiting, ExclusiveWaiting, Setting, Releasing, Holding
    <2>6. PendingUnits' = PendingUnits
        BY <1>1, <1>2, <2>5 DEF PendingUnits
    <2>7. ListInv'
        BY <1>1, <1>7, <2>5 DEF ListInv
    <2>8. OwnerInv'
        <3>1. \A i \in Slots : owners[i].thread # w
            BY <1>2, <2>1 DEF OwnerInv
        <3>2. owners'[0].thread = w /\ owners'[0].count = 1 /\ owners'[0].thread # NoThread
            BY <1>3, <2>1, <2>2, ThreadsAssumption DEF Owner, TypeOK
        <3>3. \A i \in Slots : i # 0 => owners'[i] = owners[i]
            BY <2>2 DEF TypeOK
        <3>4. ASSUME NEW u \in Threads
              PROVE  /\ mode'[u] # "none" => \E i \in Slots : owners'[i] = Owner(u, depth'[u])
                     /\ pc'[u] = "shWait" => \E i \in Slots : owners'[i] = Owner(u, 1)
                     /\ mode'[u] = "exclusive" => owners'[0].thread = u
                     /\ pc'[u] = "exGranted" =>
                           owners'[0].thread \in {u, Granted} /\ owners'[0].count = 1
                     /\ pc'[u] # "setEvent"
            <4>1. pc'[u] = "exGranted" => u = w
                BY <1>2, <1>7, <2>1 DEF TypeOK
            <4>2. pc'[u] # "setEvent"
                BY <2>5 DEF Setting
            <4>3. pc'[u] = "shWait" => \E i \in Slots : owners'[i] = Owner(u, 1)
                <5>1. SUFFICES ASSUME pc'[u] = "shWait" PROVE \E i \in Slots : owners'[i] = Owner(u, 1)
                    OBVIOUS
                <5>2. pc[u] = "shWait"
                    BY <1>7, <2>1, <5>1 DEF TypeOK
                <5>3. PICK i \in Slots : owners[i] = Owner(u, 1)
                    BY <5>2 DEF OwnerInv
                <5>4. i # 0
                    BY <1>2, <5>3, ThreadsAssumption DEF Owner
                <5>5. QED BY <3>3, <5>3, <5>4
            <4>4. mode'[u] = "none"
                BY <1>1, <1>2
            <4>5. pc'[u] = "exGranted" =>
                     owners'[0].thread \in {u, Granted} /\ owners'[0].count = 1
                BY <3>2, <4>1
            <4>6. mode'[u] # "exclusive"
                BY <4>4
            <4>7. QED BY <4>2, <4>3, <4>4, <4>5, <4>6, Zenon
        <3>5. ASSUME NEW i \in Slots, NEW j \in Slots,
                     owners'[i].thread = owners'[j].thread, owners'[i].thread \in Threads
              PROVE  i = j
            BY <3>1, <3>2, <3>3, <3>5 DEF OwnerInv
        <3>6. ASSUME NEW i \in Slots
              PROVE  /\ owners'[i].thread = Granted => i = 0 /\ ownedExclusive'
                     /\ owners'[i].thread \in Threads =>
                           \/ mode'[owners'[i].thread] # "none"
                           \/ pc'[owners'[i].thread] = "shWait" /\ i # 0
                           \/ pc'[owners'[i].thread] = "exGranted" /\ i = 0
            <4>1. CASE i = 0
                BY <1>1, <1>2, <1>7, <2>1, <3>2, <4>1 DEF TypeOK
            <4>2. CASE i # 0
                BY <1>1, <1>2, <1>7, <2>1, <3>3, <4>2 DEF TypeOK, OwnerInv
            <4>3. QED BY <4>1, <4>2
        <3>7. event' = 0 /\ Slots' = Slots
            BY <1>1, <1>7
        <3> HIDE DEF ResourceInv
        <3>8. QED BY <3>2, <3>4, <3>5, <3>6, <3>7, SMTT(30) DEF OwnerInv
    <2>9. CountInv'
        BY <1>1, <1>2, <1>4, <1>7, <2>1, <2>5, <2>6 DEF CountInv
    <2>10. WaiterInv'
        <3>1. Cardinality(ExclusiveWaiting') = Cardinality(ExclusiveWaiting) - 1
            BY <2>1, <2>5, RemoveThread DEF ExclusiveWaiting
        <3>2. QED BY <1>1, <1>2, <1>7, <1>5, <2>5, <2>6, <3>1, Counts DEF WaiterInv, TypeOK
    <2>11. QED BY <1>4, <2>3, <2>4, <2>7, <2>8, <2>9, <2>10
<1>8. QED BY <1>6, <1>7 DEF KeSetEventBoostPriority
=============================================================================
