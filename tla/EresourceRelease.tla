----------------------------- MODULE EresourceRelease -----------------------------
(***************************************************************************)
(* Proofs about Eresource, fourth part: the releases that hand no          *)
(* exclusive access on.                                                    *)
(***************************************************************************)
EXTENDS EresourceFacts

\* No thread but u has access, and none is being handed it or handing it on.
OnlyOwner(u) ==
    /\ event = 0 /\ semaphore = 0 /\ PendingUnits = 0
    /\ Releasing = {} /\ Setting = {}
    /\ \A v \in Threads : pc[v] \notin {"exGranted", "setEvent"}
    /\ \A v \in Threads : v # u => mode[v] = "none"
    /\ \A i \in Slots : owners[i].thread # Granted
    /\ owners[0].thread \in {u, NoThread}

\* ActiveCount is 1 and u has access: u is the only owner.
LEMMA LastOwner ==
    ASSUME ResourceInv, NEW u \in Threads, mode[u] # "none", activeCount = 1
    PROVE  OnlyOwner(u)
<1> USE DEF ResourceInv
<1>1. 0 \in Slots
    BY DEF Slots, TypeOK
<1>2. CASE mode[u] = "exclusive"
    <2>1. u \in Holding
        BY <1>2 DEF Holding
    <2>2. /\ ownedExclusive /\ event = 0 /\ Holding = {u}
          /\ SharedOwners = {} /\ semaphore = 0 /\ Releasing = {}
        BY <2>1 DEF CountInv, TypeOK
    <2>3. owners[0].thread = u
        BY <1>2 DEF OwnerInv
    <2>4. \A i \in Slots : owners[i].thread # Granted
        BY <2>3, ThreadsAssumption DEF OwnerInv
    <2>5. \A v \in Threads : v # u => mode[v] = "none"
        BY <2>2 DEF SharedOwners, Holding, TypeOK
    <2>6. pc[u] # "exGranted" /\ pc[u] # "setEvent"
        <3>1. pc[u] # "exGranted"
            BY <1>2 DEF CallerInv
        <3>2. pc[u] = "setEvent" => mode[u] = "none"
            BY Handing
        <3>3. QED BY <1>2, <3>1, <3>2
    <2>7. \A v \in Threads : pc[v] \notin {"exGranted", "setEvent"}
        BY <2>2, <2>6 DEF Holding
    <2>8. Setting = {} /\ PendingUnits = 0
        BY <2>2, <2>7 DEF Setting, PendingUnits
    <2>9. QED BY <2>2, <2>3, <2>4, <2>5, <2>7, <2>8 DEF OnlyOwner
<1>3. CASE mode[u] = "shared"
    <2>1. u \in SharedOwners
        BY <1>3 DEF SharedOwners
    <2>2. /\ ~ownedExclusive /\ event = 0 /\ Holding = {}
          /\ 1 = Cardinality(SharedOwners) + semaphore + PendingUnits
        BY <2>1 DEF CountInv, TypeOK
    <2>3. SharedOwners \in SUBSET Threads
        BY DEF SharedOwners
    <2>4. Cardinality(SharedOwners) # 0
        BY <2>1, <2>3, NoThreads
    <2>5. Cardinality(SharedOwners) = 1 /\ semaphore = 0 /\ PendingUnits = 0 /\ Releasing = {}
        BY <2>2, <2>4, Counts DEF TypeOK
    <2>6. SharedOwners = {u}
        BY <2>1, <2>3, <2>5, OneThread
    <2>7. \A v \in Threads : pc[v] \notin {"exGranted", "setEvent"} /\ mode[v] # "exclusive"
        BY <2>2 DEF Holding
    <2>8. \A v \in Threads : v # u => mode[v] = "none"
        BY <2>6, <2>7 DEF SharedOwners, TypeOK
    <2>9. \A i \in Slots : owners[i].thread # Granted
        BY <2>2 DEF OwnerInv
    <2>10. owners[0].thread \in {u, NoThread}
        BY <1>1, <2>7, <2>8, <2>9 DEF OwnerInv, TypeOK
    <2>11. Setting = {}
        BY <2>7 DEF Setting
    <2>12. QED BY <2>2, <2>5, <2>7, <2>8, <2>9, <2>10, <2>11 DEF OnlyOwner
<1>4. QED BY <1>2, <1>3 DEF TypeOK

\* The entry of a thread that no longer has access is freed.
LEMMA FreedEntry ==
    ASSUME ResourceInv, NEW u \in Threads, NEW i \in Slots,
           owners[i].thread = u, mode[u] # "none",
           owners' = [owners EXCEPT ![i] = FreeEntry], Slots' = Slots,
           event' = 0, ~ownedExclusive',
           mode' = [mode EXCEPT ![u] = "none"], depth' = [depth EXCEPT ![u] = 0],
           \A v \in Threads : pc'[v] = pc[v] \/ (pc[v] = "run" /\ pc'[v] = "releaseSemaphore"),
           \A v \in Threads : pc[v] \notin {"exGranted", "setEvent"},
           \A v \in Threads : v # u => mode[v] # "exclusive",
           \A j \in Slots : owners[j].thread # Granted
    PROVE  OwnerInv'
<1> USE DEF ResourceInv
<1>1. owners'[i].thread = NoThread /\ \A j \in Slots : j # i => owners'[j] = owners[j]
    BY DEF FreeEntry, Owner, TypeOK
<1>2. \A j \in Slots : j # i => owners[j].thread # u
    BY DEF OwnerInv
<1>3. pc[u] # "shWait"
    BY DEF CallerInv
<1>4. \A v \in Threads : v # u => mode'[v] = mode[v] /\ depth'[v] = depth[v]
    BY DEF TypeOK
<1>5. mode'[u] = "none"
    BY DEF TypeOK
<1>6. ASSUME NEW v \in Threads
      PROVE  /\ mode'[v] # "none" => \E j \in Slots : owners'[j] = Owner(v, depth'[v])
             /\ pc'[v] = "shWait" => \E j \in Slots : owners'[j] = Owner(v, 1)
             /\ mode'[v] # "exclusive" /\ pc'[v] \notin {"exGranted", "setEvent"}
    <2>1. CASE v = u
        BY <1>3, <1>5, <2>1
    <2>2. CASE v # u
        <3>1. ASSUME NEW n, NEW j \in Slots, owners[j] = Owner(v, n)
              PROVE  owners'[j] = Owner(v, n)
            BY <1>1, <2>2, <3>1 DEF Owner
        <3>2. mode[v] # "none" => \E j \in Slots : owners[j] = Owner(v, depth[v])
            BY DEF OwnerInv
        <3>3. pc[v] = "shWait" => \E j \in Slots : owners[j] = Owner(v, 1)
            BY DEF OwnerInv
        <3>4. QED BY <1>4, <2>2, <3>1, <3>2, <3>3
    <2>3. QED BY <2>1, <2>2
<1>7. \A j, k \in Slots :
         owners'[j].thread = owners'[k].thread /\ owners'[j].thread \in Threads => j = k
    BY <1>1, ThreadsAssumption DEF OwnerInv
<1>8. ASSUME NEW j \in Slots
      PROVE  /\ owners'[j].thread # Granted
             /\ owners'[j].thread \in Threads =>
                   \/ mode'[owners'[j].thread] # "none"
                   \/ pc'[owners'[j].thread] = "shWait" /\ j # 0
    <2>1. CASE j = i
        BY <1>1, <2>1, ThreadsAssumption
    <2>2. CASE j # i
        BY <1>1, <1>2, <1>4, <2>2 DEF OwnerInv
    <2>3. QED BY <2>1, <2>2
<1> HIDE DEF ResourceInv
<1>9. QED BY <1>6, <1>7, <1>8, SMTT(30) DEF OwnerInv

\* u releases one of several acquisitions.
LEMMA ReleaseAgainInv ==
    ASSUME ResourceInv, NEW u \in Threads, NEW i \in Slots, live,
           owners[i] = Owner(u, depth[u]), mode[u] # "none", depth[u] # 1, depth[u] > 0,
           Released(u), owners' = [owners EXCEPT ![i].count = @ - 1],
           UNCHANGED <<live, activeCount, ownedExclusive, tableSize, sharedWaiters,
                       exclusiveWaiters, eventExists, dispatcher, pc, number>>
    PROVE  ResourceInv'
<1> USE DEF ResourceInv
<1>1. UNCHANGED <<event, eventList, semaphore, semaphoreList>> /\ Slots' = Slots
    BY DEF dispatcher, Slots
<1>2. depth[u] \in Nat /\ depth[u] - 1 \in Nat /\ depth[u] - 1 # 0
    BY DEF TypeOK
<1>3. mode' = mode /\ depth' = [depth EXCEPT ![u] = depth[u] - 1]
    BY DEF Released, TypeOK
<1>4. owners[i].thread = u /\ owners[i].count = depth[u]
    BY DEF Owner
<1>5. owners' = [owners EXCEPT ![i] = Owner(u, depth[u] - 1)]
    <2>1. [owners[i] EXCEPT !.count = @ - 1] = Owner(u, depth[u] - 1)
        BY <1>4 DEF Owner
    <2>2. QED BY <2>1
<1>6. EntryStored(i, Owner(u, depth[u] - 1))
    <2>1. Owner(u, depth[u] - 1) \in Entries
        BY <1>2 DEF Owner, Entries
    <2>2. owners \in [Slots -> Entries] /\ tableSize \in Nat
        BY DEF TypeOK, Entries
    <2>3. QED BY <1>1, <1>5, <2>1, <2>2 DEF EntryStored
<1>7. OwnerInv'
    BY <1>1, <1>2, <1>3, <1>4, <1>6, SameEntry
<1>8. TypeOK'
    BY <1>1, <1>2, <1>3, <1>6 DEF TypeOK, EntryStored, Entries
<1>9. CallerInv'
    BY <1>2, <1>3 DEF CallerInv, TypeOK
<1>10. ListInv'
    BY <1>1, <1>3, SameSets DEF ListInv
<1>11. CountInv' /\ WaiterInv'
    BY <1>1, <1>3, SameCounts
<1>12. LifeInv'
    BY DEF LifeInv
<1>13. QED BY <1>7, <1>8, <1>9, <1>10, <1>11, <1>12

\* u gives up its access and other shared owners remain.
LEMMA ReleaseSharedInv ==
    ASSUME ResourceInv, NEW u \in Threads, NEW i \in Slots, live,
           owners[i].thread = u, mode[u] # "none", depth[u] = 1, activeCount # 1,
           Released(u), owners' = [owners EXCEPT ![i] = FreeEntry],
           activeCount' = activeCount - 1,
           UNCHANGED <<live, ownedExclusive, tableSize, sharedWaiters,
                       exclusiveWaiters, eventExists, dispatcher, pc, number>>
    PROVE  ResourceInv'
<1> USE DEF ResourceInv
<1>1. UNCHANGED <<event, eventList, semaphore, semaphoreList>> /\ Slots' = Slots
    BY DEF dispatcher, Slots
<1>2. mode' = [mode EXCEPT ![u] = "none"] /\ depth' = [depth EXCEPT ![u] = 0]
    BY DEF Released, TypeOK
<1>3. /\ ~ownedExclusive /\ event = 0 /\ Holding = {}
      /\ activeCount = Cardinality(SharedOwners) + semaphore + PendingUnits
    BY DEF CountInv
<1>4. \A v \in Threads : pc[v] \notin {"exGranted", "setEvent"} /\ mode[v] # "exclusive"
    BY <1>3 DEF Holding
<1>5. u \in SharedOwners /\ SharedOwners \in SUBSET Threads
    BY <1>4 DEF SharedOwners, TypeOK
<1>6. /\ Cardinality(SharedOwners \ {u}) = Cardinality(SharedOwners) - 1
      /\ Cardinality(SharedOwners) > 0
    <2>1. Cardinality(SharedOwners \ {u}) = Cardinality(SharedOwners) - 1
        BY <1>5, RemoveThread
    <2>2. Cardinality(SharedOwners) \in Nat /\ Cardinality(SharedOwners) # 0
        BY <1>5, ThreadSets, NoThreads
    <2>3. QED BY <2>1, <2>2
<1>7. activeCount > 1 /\ activeCount' \in Nat /\ activeCount' # 0
    BY <1>3, <1>6, Counts DEF TypeOK
<1>8. TypeOK'
    BY <1>1, <1>2, <1>7 DEF TypeOK, FreeEntry, Owner
<1>9. CallerInv'
    BY <1>2 DEF CallerInv, TypeOK
<1>10. /\ SharedWaiting' = SharedWaiting /\ ExclusiveWaiting' = ExclusiveWaiting
       /\ Setting' = Setting /\ Releasing' = Releasing
       /\ SharedOwners' = SharedOwners \ {u} /\ Holding' = {}
    BY <1>2, <1>3
    DEF TypeOK, SharedWaiting, ExclusiveWaiting, Setting, Releasing, SharedOwners, Holding
<1>11. PendingUnits' = PendingUnits
    BY <1>10 DEF PendingUnits
<1>12. ListInv'
    BY <1>1, <1>10 DEF ListInv
<1>13. OwnerInv'
    <2>1. \A j \in Slots : owners[j].thread # Granted
        BY <1>3 DEF OwnerInv
    <2>2. QED BY <1>1, <1>2, <1>3, <1>4, <2>1, FreedEntry
<1>14. CountInv'
    BY <1>1, <1>3, <1>6, <1>10, <1>11, Counts DEF CountInv, TypeOK
<1>15. WaiterInv'
    BY <1>1, <1>7, <1>10, <1>11 DEF WaiterInv
<1>16. LifeInv'
    BY DEF LifeInv
<1>17. QED BY <1>8, <1>9, <1>12, <1>13, <1>14, <1>15, <1>16

\* The last owner leaves and nobody waits.
LEMMA ReleaseFreeInv ==
    ASSUME ResourceInv, NEW u \in Threads, NEW i \in Slots, live,
           owners[i].thread = u, mode[u] # "none", depth[u] = 1, activeCount = 1,
           Released(u), owners' = [owners EXCEPT ![i] = FreeEntry],
           sharedWaiters = 0, exclusiveWaiters = 0,
           activeCount' = 0, ownedExclusive' = FALSE,
           UNCHANGED <<live, tableSize, sharedWaiters,
                       exclusiveWaiters, eventExists, dispatcher, pc, number>>
    PROVE  ResourceInv'
<1> USE DEF ResourceInv
<1>1. UNCHANGED <<event, eventList, semaphore, semaphoreList>> /\ Slots' = Slots
    BY DEF dispatcher, Slots
<1>2. mode' = [mode EXCEPT ![u] = "none"] /\ depth' = [depth EXCEPT ![u] = 0]
    BY DEF Released, TypeOK
<1>3. OnlyOwner(u)
    BY LastOwner
<1>4. TypeOK'
    BY <1>1, <1>2 DEF TypeOK, FreeEntry, Owner
<1>5. CallerInv'
    BY <1>2 DEF CallerInv, TypeOK
<1>6. /\ SharedWaiting' = SharedWaiting /\ ExclusiveWaiting' = ExclusiveWaiting
      /\ Setting' = {} /\ Releasing' = {} /\ SharedOwners' = {} /\ Holding' = {}
    BY <1>2, <1>3
    DEF TypeOK, SharedWaiting, ExclusiveWaiting, Setting, Releasing, SharedOwners, Holding,
        OnlyOwner
<1>7. PendingUnits' = 0
    BY <1>6 DEF PendingUnits
<1>8. ListInv'
    BY <1>1, <1>6 DEF ListInv
<1>9. OwnerInv'
    <2>1. /\ event' = 0 /\ ~ownedExclusive'
          /\ \A v \in Threads : pc[v] \notin {"exGranted", "setEvent"}
          /\ \A v \in Threads : v # u => mode[v] # "exclusive"
          /\ \A j \in Slots : owners[j].thread # Granted
        BY <1>1, <1>3 DEF OnlyOwner
    <2>2. QED BY <1>1, <1>2, <2>1, FreedEntry
<1>10. CountInv'
    BY <1>1, <1>3, <1>6, <1>7, NoThreads DEF CountInv, OnlyOwner
<1>11. WaiterInv'
    BY <1>1, <1>3, <1>6, <1>7 DEF WaiterInv, OnlyOwner
<1>12. LifeInv'
    BY DEF LifeInv
<1>13. QED BY <1>4, <1>5, <1>8, <1>9, <1>10, <1>11, <1>12

\* The units in transit are those of the one thread that just granted them.
LEMMA NewPending ==
    ASSUME NEW t \in Threads, TypeOK, Releasing' = {t},
           number' = [number EXCEPT ![t] = sharedWaiters]
    PROVE  PendingUnits' = sharedWaiters /\ number'[t] = sharedWaiters
<1>1. number'[t] = sharedWaiters
    BY DEF TypeOK
<1>2. (CHOOSE v \in Releasing' : TRUE) = t
    OBVIOUS
<1>3. QED BY <1>1, <1>2 DEF PendingUnits

\* The last owner leaves and shared access passes to the shared waiters.
LEMMA ReleaseToSharedInv ==
    ASSUME ResourceInv, NEW t \in Threads, NEW u \in Threads, NEW i \in Slots, live,
           pc[t] = "run",
           owners[i].thread = u, mode[u] # "none", depth[u] = 1, activeCount = 1,
           Released(u), owners' = [owners EXCEPT ![i] = FreeEntry],
           sharedWaiters # 0, GrantShared(t, 0),
           UNCHANGED <<live, tableSize, eventExists, dispatcher>>
    PROVE  ResourceInv'
<1> USE DEF ResourceInv
<1>1. UNCHANGED <<event, eventList, semaphore, semaphoreList>> /\ Slots' = Slots
    BY DEF dispatcher, Slots
<1>2. mode' = [mode EXCEPT ![u] = "none"] /\ depth' = [depth EXCEPT ![u] = 0]
    BY DEF Released, TypeOK
<1>3. OnlyOwner(u)
    BY LastOwner
<1>4. /\ ownedExclusive' = FALSE /\ activeCount' = sharedWaiters /\ sharedWaiters' = 0
      /\ number' = [number EXCEPT ![t] = sharedWaiters]
      /\ pc' = [pc EXCEPT ![t] = "releaseSemaphore"]
      /\ exclusiveWaiters' = exclusiveWaiters
      /\ sharedWaiters \in Nat /\ sharedWaiters > 0
    BY DEF GrantShared, TypeOK
<1>5. TypeOK'
    BY <1>1, <1>2, <1>4 DEF TypeOK, FreeEntry, Owner, Places
<1>6. CallerInv'
    BY <1>2, <1>4 DEF CallerInv, TypeOK, Acquiring
<1>7. /\ SharedWaiting' = SharedWaiting /\ ExclusiveWaiting' = ExclusiveWaiting
      /\ Setting' = {} /\ Releasing' = {t} /\ SharedOwners' = {} /\ Holding' = {}
    BY <1>2, <1>3, <1>4
    DEF TypeOK, SharedWaiting, ExclusiveWaiting, Setting, Releasing, SharedOwners, Holding,
        OnlyOwner
<1>8. PendingUnits' = sharedWaiters /\ number'[t] = sharedWaiters
    BY <1>4, <1>7, NewPending
<1>9. ListInv'
    BY <1>1, <1>7 DEF ListInv
<1>10. OwnerInv'
    <2>1. /\ event' = 0 /\ ~ownedExclusive'
          /\ \A v \in Threads : pc[v] \notin {"exGranted", "setEvent"}
          /\ \A v \in Threads : v # u => mode[v] # "exclusive"
          /\ \A j \in Slots : owners[j].thread # Granted
        BY <1>1, <1>3, <1>4 DEF OnlyOwner
    <2>2. \A v \in Threads : pc'[v] = pc[v] \/ (pc[v] = "run" /\ pc'[v] = "releaseSemaphore")
        BY <1>4 DEF TypeOK
    <2>3. QED BY <1>1, <1>2, <2>1, <2>2, FreedEntry
<1>11. event' = 0 /\ semaphore' = 0 /\ Setting = {} /\ semaphore = 0 /\ PendingUnits = 0
    BY <1>1, <1>3 DEF OnlyOwner
<1>12. CountInv'
    <2>1. activeCount' = Cardinality(SharedOwners') + semaphore' + PendingUnits'
        BY <1>4, <1>7, <1>8, <1>11, NoThreads
    <2>2. \A v \in Releasing' : number'[v] > 0 /\ Releasing' = {v}
        BY <1>4, <1>7, <1>8
    <2> HIDE DEF ResourceInv
    <2>3. QED BY <1>4, <1>7, <1>11, <2>1, <2>2 DEF CountInv
<1>13. WaiterInv'
    <2>1. /\ Cardinality(SharedWaiting) = sharedWaiters + semaphore + PendingUnits
          /\ Cardinality(ExclusiveWaiting) = exclusiveWaiters + event + Cardinality(Setting)
        BY DEF WaiterInv
    <2>2. Cardinality(SharedWaiting') = sharedWaiters' + semaphore' + PendingUnits'
        BY <1>4, <1>7, <1>8, <1>11, <2>1
    <2>3. Cardinality(ExclusiveWaiting') = exclusiveWaiters' + event' + Cardinality(Setting')
        BY <1>1, <1>4, <1>7, <1>11, <2>1
    <2> HIDE DEF ResourceInv
    <2>4. QED BY <1>4, <2>2, <2>3 DEF WaiterInv
<1>14. LifeInv'
    BY DEF LifeInv
<1>15. QED BY <1>5, <1>6, <1>9, <1>10, <1>12, <1>13, <1>14
=============================================================================
