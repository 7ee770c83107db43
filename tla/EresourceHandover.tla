----------------------------- MODULE EresourceHandover -----------------------------
(***************************************************************************)
(* Proofs about Eresource, fifth part: the release that hands exclusive    *)
(* access on, the releases together, and conversion to shared access.      *)
(***************************************************************************)
EXTENDS EresourceRelease

\* The last owner leaves and exclusive access is granted to a waiter.
LEMMA ReleaseToExclusiveInv ==
    ASSUME ResourceInv, NEW t \in Threads, NEW u \in Threads, NEW i \in Slots, live,
           pc[t] = "run",
           owners[i].thread = u, mode[u] # "none", depth[u] = 1, activeCount = 1,
           Released(u), exclusiveWaiters # 0, GrantExclusive(t, i),
           UNCHANGED <<live, tableSize, eventExists, dispatcher>>
    PROVE  ResourceInv'
<1> USE DEF ResourceInv
<1>1. /\ UNCHANGED <<event, eventList, semaphore, semaphoreList>> /\ Slots' = Slots
      /\ 0 \in Slots
    BY DEF dispatcher, Slots, TypeOK
<1>2. mode' = [mode EXCEPT ![u] = "none"] /\ depth' = [depth EXCEPT ![u] = 0]
    BY DEF Released, TypeOK
<1>3. OnlyOwner(u)
    BY LastOwner
<1>4. /\ ownedExclusive' = TRUE /\ activeCount' = 1
      /\ owners' = [owners EXCEPT ![i] = FreeEntry, ![0] = Owner(Granted, 1)]
      /\ exclusiveWaiters' = exclusiveWaiters - 1 /\ exclusiveWaiters' \in Nat
      /\ pc' = [pc EXCEPT ![t] = "setEvent"]
      /\ UNCHANGED <<sharedWaiters, number>>
    BY DEF GrantExclusive, TypeOK
<1>5. TypeOK'
    <2>1. owners' \in [Slots -> [thread : Threads \cup {NoThread, Granted}, count : Nat]]
        BY <1>4 DEF TypeOK, FreeEntry, Owner
    <2>2. QED BY <1>1, <1>2, <1>4, <2>1 DEF TypeOK, Places
<1>6. CallerInv'
    BY <1>2, <1>4 DEF CallerInv, TypeOK, Acquiring
<1>7. \A v \in Threads : mode'[v] = "none"
    BY <1>2, <1>3 DEF TypeOK, OnlyOwner
<1>8. /\ SharedWaiting' = SharedWaiting /\ ExclusiveWaiting' = ExclusiveWaiting
      /\ Setting' = {t} /\ Releasing' = {} /\ SharedOwners' = {} /\ Holding' = {t}
    BY <1>3, <1>4, <1>7
    DEF TypeOK, SharedWaiting, ExclusiveWaiting, Setting, Releasing, SharedOwners, Holding,
        OnlyOwner
<1>9. PendingUnits' = 0
    BY <1>8 DEF PendingUnits
<1>10. ListInv'
    BY <1>1, <1>8 DEF ListInv
<1>11. OwnerInv'
    <2>1. /\ owners'[0] = Owner(Granted, 1)
          /\ \A j \in Slots : j # 0 /\ j # i => owners'[j] = owners[j]
          /\ i # 0 => owners'[i] = FreeEntry
        BY <1>1, <1>4 DEF TypeOK
    <2>2. owners'[0].thread = Granted /\ (i # 0 => owners'[i].thread = NoThread)
        BY <2>1 DEF Owner, FreeEntry
    <2>3. \A v \in Threads : pc'[v] # "exGranted" /\ (pc'[v] = "shWait" => pc[v] = "shWait")
        BY <1>3, <1>4 DEF OnlyOwner, TypeOK
    <2>4. ASSUME NEW v \in Threads, pc'[v] = "shWait"
          PROVE  \E j \in Slots : owners'[j] = Owner(v, 1)
        <3>1. PICK j \in Slots : owners[j] = Owner(v, 1)
            BY <2>3, <2>4 DEF OwnerInv
        <3>2. owners[j].thread = v
            BY <3>1 DEF Owner
        <3>3. v # u
            BY <2>3, <2>4 DEF CallerInv
        <3>4. j # i /\ j # 0
            BY <1>3, <3>2, <3>3, ThreadsAssumption DEF OnlyOwner
        <3>5. QED BY <2>1, <3>1, <3>4
    <2>5. \A j, k \in Slots :
             owners'[j].thread = owners'[k].thread /\ owners'[j].thread \in Threads => j = k
        <3>1. ASSUME NEW j \in Slots, owners'[j].thread \in Threads
              PROVE  owners'[j] = owners[j]
            BY <2>1, <2>2, <3>1, ThreadsAssumption
        <3>2. \A j, k \in Slots :
                 owners[j].thread = owners[k].thread /\ owners[j].thread \in Threads => j = k
            BY DEF OwnerInv
        <3> HIDE DEF ResourceInv
        <3>3. QED BY <3>1, <3>2
    <2>6. ASSUME NEW j \in Slots
          PROVE  /\ owners'[j].thread = Granted => j = 0 /\ ownedExclusive'
                 /\ owners'[j].thread \in Threads =>
                       pc'[owners'[j].thread] = "shWait" /\ j # 0
        <3>1. CASE j = 0
            BY <1>4, <2>2, <3>1, ThreadsAssumption
        <3>2. CASE j = i /\ j # 0
            BY <2>2, <3>2, ThreadsAssumption
        <3>3. CASE j # i /\ j # 0
            <4>1. owners'[j] = owners[j] /\ owners[j].thread # Granted
                BY <1>3, <2>1, <3>3 DEF OnlyOwner
            <4>2. ASSUME owners[j].thread \in Threads PROVE pc'[owners[j].thread] = "shWait"
                <5>1. PICK v \in Threads : v = owners[j].thread
                    BY <4>2
                <5>2. v # u
                    BY <3>3, <5>1 DEF OwnerInv
                <5>3. mode[v] = "none"
                    BY <1>3, <5>2 DEF OnlyOwner
                <5>4. pc[v] = "shWait"
                    BY <3>3, <5>1, <5>3 DEF OwnerInv
                <5>5. QED BY <1>4, <5>1, <5>4 DEF TypeOK
            <4>3. QED BY <3>3, <4>1, <4>2
        <3>4. QED BY <3>1, <3>2, <3>3
    <2>7. event' = 0 /\ owners'[0].thread # NoThread /\ Slots' = Slots
        BY <1>1, <1>3, <2>2, ThreadsAssumption DEF OnlyOwner
    <2> HIDE DEF ResourceInv
    <2>8. QED BY <1>7, <2>1, <2>3, <2>4, <2>5, <2>6, <2>7, SMTT(30) DEF OwnerInv
<1>12. CountInv'
    BY <1>1, <1>3, <1>4, <1>8 DEF CountInv, OnlyOwner
<1>13. WaiterInv'
    <2>1. Cardinality(Setting) = 0 /\ Cardinality(Setting') = 1
        BY <1>3, <1>8, NoThreads, OneThread DEF OnlyOwner
    <2>2. QED BY <1>1, <1>3, <1>4, <1>8, <1>9, <2>1 DEF WaiterInv, OnlyOwner, TypeOK
<1>14. LifeInv'
    BY DEF LifeInv
<1>15. QED BY <1>5, <1>6, <1>10, <1>11, <1>12, <1>13, <1>14

\* ExReleaseResourceForThreadLite.
LEMMA ReleaseInv ==
    ASSUME ResourceInv, NEW t \in Threads, NEW u \in Threads,
           ExReleaseResourceForThreadLite(t, u)
    PROVE  ResourceInv'
<1>1. mode[u] # "none" /\ depth[u] > 0 /\ depth[u] \in Nat
    BY DEF ExReleaseResourceForThreadLite, ResourceInv, CallerInv, TypeOK
<1>2. PICK i \in Slots : /\ owners[i] = Owner(u, depth[u]) /\ owners[i].thread = u
                         /\ owners[i].count = depth[u] /\ First(SlotsOf(u)) = i
    BY <1>1, Named
<1>3. /\ live /\ pc[t] = "run" /\ Released(u)
      /\ UNCHANGED <<live, tableSize, eventExists, dispatcher>>
    BY DEF ExReleaseResourceForThreadLite
<1>4. CASE /\ owners[i].count # 1
           /\ owners' = [owners EXCEPT ![i].count = @ - 1]
           /\ UNCHANGED <<activeCount, ownedExclusive, sharedWaiters,
                          exclusiveWaiters, pc, number>>
    BY <1>1, <1>2, <1>3, <1>4, ReleaseAgainInv
<1>5. CASE /\ owners[i].count = 1 /\ activeCount # 1
           /\ owners' = [owners EXCEPT ![i] = FreeEntry]
           /\ activeCount' = activeCount - 1
           /\ UNCHANGED <<ownedExclusive, sharedWaiters, exclusiveWaiters, pc, number>>
    BY <1>1, <1>2, <1>3, <1>5, ReleaseSharedInv
<1>6. CASE owners[i].count = 1 /\ activeCount = 1 /\ ReleaseLast(t, i)
    <2>1. CASE exclusiveWaiters # 0 /\ GrantExclusive(t, i)
        BY <1>1, <1>2, <1>3, <1>6, <2>1, ReleaseToExclusiveInv
    <2>2. CASE sharedWaiters # 0 /\ GrantShared(t, 0) /\ owners' = [owners EXCEPT ![i] = FreeEntry]
        BY <1>1, <1>2, <1>3, <1>6, <2>2, ReleaseToSharedInv
    <2>3. CASE /\ sharedWaiters = 0 /\ exclusiveWaiters = 0
               /\ ownedExclusive' = FALSE /\ activeCount' = 0
               /\ owners' = [owners EXCEPT ![i] = FreeEntry]
               /\ UNCHANGED <<sharedWaiters, exclusiveWaiters, pc, number>>
        BY <1>1, <1>2, <1>3, <1>6, <2>3, ReleaseFreeInv
    <2>4. QED BY <1>6, <2>1, <2>2, <2>3 DEF ReleaseLast, FreeResource
<1>7. QED BY <1>2, <1>4, <1>5, <1>6 DEF ExReleaseResourceForThreadLite

\* ExConvertExclusiveToSharedLite.
LEMMA ConvertInv ==
    ASSUME ResourceInv, NEW t \in Threads, ExConvertExclusiveToSharedLite(t)
    PROVE  ResourceInv'
<1> USE DEF ResourceInv
<1>1. /\ UNCHANGED <<live, owners, tableSize, eventExists, event, eventList, semaphore,
                     semaphoreList, depth, exclusiveWaiters>>
      /\ Slots' = Slots /\ mode' = [mode EXCEPT ![t] = "shared"]
      /\ live /\ pc[t] = "run" /\ mode[t] = "exclusive" /\ ownedExclusive' = FALSE
    BY DEF ExConvertExclusiveToSharedLite, GrantShared, dispatcher, Slots
<1>2. ownedExclusive /\ activeCount = 1
    BY <1>1 DEF CountInv, Holding
<1>3. OnlyOwner(t)
    BY <1>1, <1>2, LastOwner
<1>4. /\ pc' \in [Threads -> Places] /\ number' \in [Threads -> Nat]
      /\ activeCount' \in Nat /\ sharedWaiters' \in Nat /\ activeCount' # 0
      /\ \A v \in Threads : pc'[v] = pc[v] \/ (pc[v] = "run" /\ pc'[v] = "releaseSemaphore")
    BY <1>1, <1>2 DEF ExConvertExclusiveToSharedLite, GrantShared, TypeOK, Places
<1>5. TypeOK'
    BY <1>1, <1>4 DEF TypeOK
<1>6. CallerInv'
    <2>1. \A v \in Threads : v # t => mode'[v] = mode[v]
        BY <1>1 DEF TypeOK
    <2>2. mode'[t] = "shared" /\ depth[t] # 0 /\ pc'[t] \in {"run", "releaseSemaphore"}
        BY <1>1, <1>4 DEF TypeOK, CallerInv
    <2>3. QED BY <1>1, <1>4, <2>1, <2>2 DEF CallerInv, Acquiring
<1>7. /\ SharedWaiting' = SharedWaiting /\ ExclusiveWaiting' = ExclusiveWaiting
      /\ Setting' = {} /\ SharedOwners' = {t} /\ Holding' = {}
    <2>1. SharedWaiting' = SharedWaiting /\ ExclusiveWaiting' = ExclusiveWaiting
        BY <1>4 DEF SharedWaiting, ExclusiveWaiting
    <2>2. \A v \in Threads : mode'[v] = IF v = t THEN "shared" ELSE "none"
        BY <1>1, <1>3 DEF TypeOK, OnlyOwner
    <2>3. \A v \in Threads : pc'[v] \notin {"exGranted", "setEvent"}
        BY <1>3, <1>4 DEF OnlyOwner
    <2>4. QED BY <2>1, <2>2, <2>3 DEF Setting, SharedOwners, Holding
<1>8. ListInv'
    BY <1>1, <1>7 DEF ListInv
<1>9. OwnerInv'
    <2>1. \A v \in Threads : pc'[v] \notin {"exGranted", "setEvent"} /\ mode'[v] # "exclusive"
        BY <1>7 DEF Holding
    <2>2. \A v \in Threads : /\ pc'[v] = "shWait" <=> pc[v] = "shWait"
                             /\ mode'[v] = "none" <=> mode[v] = "none"
        BY <1>1, <1>4 DEF TypeOK
    <2>3. event' = 0 /\ (\A j \in Slots : owners[j].thread # Granted)
          /\ \A v \in Threads : pc[v] \notin {"exGranted", "setEvent"}
        BY <1>1, <1>3 DEF OnlyOwner
    <2>4. ASSUME NEW v \in Threads
          PROVE  /\ mode'[v] # "none" => \E j \in Slots : owners[j] = Owner(v, depth[v])
                 /\ pc'[v] = "shWait" => \E j \in Slots : owners[j] = Owner(v, 1)
        BY <2>2 DEF OwnerInv
    <2>5. ASSUME NEW j \in Slots, owners[j].thread \in Threads
          PROVE  \/ mode'[owners[j].thread] # "none"
                 \/ pc'[owners[j].thread] = "shWait" /\ j # 0
        <3>1. \/ mode[owners[j].thread] # "none"
              \/ pc[owners[j].thread] = "shWait" /\ j # 0
            BY <2>3, <2>5 DEF OwnerInv
        <3>2. QED BY <2>2, <2>5, <3>1
    <2>6. \A j, k \in Slots :
             owners[j].thread = owners[k].thread /\ owners[j].thread \in Threads => j = k
        BY DEF OwnerInv
    <2>7. owners' = owners /\ depth' = depth /\ Slots' = Slots /\ ~ownedExclusive'
        BY <1>1
    <2> HIDE DEF ResourceInv
    <2>8. QED BY <2>1, <2>3, <2>4, <2>5, <2>6, <2>7, SMTT(30) DEF OwnerInv
<1>10. Cardinality(SharedOwners') = 1 /\ Cardinality(Setting') = Cardinality(Setting)
    BY <1>3, <1>7, OneThread DEF OnlyOwner
<1>11. CASE sharedWaiters # 0
    <2>1. /\ activeCount' = 1 + sharedWaiters /\ sharedWaiters' = 0
          /\ number' = [number EXCEPT ![t] = sharedWaiters]
          /\ pc' = [pc EXCEPT ![t] = "releaseSemaphore"]
        BY <1>2, <1>11 DEF ExConvertExclusiveToSharedLite, GrantShared
    <2>2. Releasing' = {t}
        BY <1>3, <2>1 DEF Releasing, OnlyOwner, TypeOK
    <2>3. PendingUnits' = sharedWaiters /\ number'[t] = sharedWaiters
        BY <2>1, <2>2, NewPending
    <2>4. CountInv'
        BY <1>1, <1>3, <1>7, <1>10, <1>11, <2>1, <2>2, <2>3 DEF CountInv, OnlyOwner, TypeOK
    <2>5. WaiterInv'
        BY <1>1, <1>3, <1>4, <1>7, <1>10, <2>1, <2>3 DEF WaiterInv, OnlyOwner
    <2>6. QED BY <2>4, <2>5, <1>1, <1>5, <1>6, <1>8, <1>9 DEF LifeInv
<1>12. CASE sharedWaiters = 0
    <2>1. UNCHANGED <<activeCount, sharedWaiters, pc, number>>
        BY <1>12 DEF ExConvertExclusiveToSharedLite
    <2>2. Releasing' = {} /\ PendingUnits' = 0
        BY <1>3, <2>1 DEF Releasing, OnlyOwner, PendingUnits
    <2>3. CountInv'
        BY <1>1, <1>2, <1>3, <1>7, <1>10, <2>1, <2>2 DEF CountInv, OnlyOwner
    <2>4. WaiterInv'
        BY <1>1, <1>2, <1>3, <1>7, <1>10, <2>1, <2>2 DEF WaiterInv, OnlyOwner
    <2>5. QED BY <2>3, <2>4, <1>1, <1>5, <1>6, <1>8, <1>9 DEF LifeInv
<1>13. QED BY <1>11, <1>12
=============================================================================
