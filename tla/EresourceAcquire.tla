----------------------------- MODULE EresourceAcquire -----------------------------
(***************************************************************************)
(* Proofs about Eresource, second part: the acquire routines.              *)
(***************************************************************************)
EXTENDS EresourceFacts

\* Exclusive access to a resource that nobody owns.
LEMMA AcquireFreeExclusiveInv ==
    ASSUME ResourceInv, NEW t \in Threads, live, pc[t] \in {"run", "exRetry"},
           AcquireFreeExclusive(t)
    PROVE  ResourceInv'
<1> USE DEF ResourceInv
<1>1. activeCount = 0 /\ activeCount' = 1 /\ ownedExclusive' /\ ownedExclusive' \in BOOLEAN
    BY DEF AcquireFreeExclusive
<1>2. /\ mode' = [mode EXCEPT ![t] = "exclusive"]
      /\ depth' = [depth EXCEPT ![t] = 1]
      /\ pc' = [pc EXCEPT ![t] = "run"]
    <2>1. depth[t] = 0
        BY <1>1, Idle
    <2>2. QED BY <2>1 DEF AcquireFreeExclusive, Acquired
<1>3. UNCHANGED <<live, sharedWaiters, exclusiveWaiters, eventExists,
                  event, eventList, semaphore, semaphoreList, number>>
    BY DEF AcquireFreeExclusive, dispatcher
<1>4. EntryStored(0, Owner(t, 1))
    <2>1. Owner(t, 1) \in Entries
        BY DEF Owner, Entries
    <2>2. 0 \in 0 .. (tableSize + 2)
        BY DEF TypeOK
    <2>3. QED BY <2>1, <2>2, SetEntryStores DEF AcquireFreeExclusive
<1>5. TypeOK'
    BY <1>1, <1>2, <1>3, <1>4 DEF TypeOK, EntryStored, Entries, Places
<1>6. CallerInv'
    BY <1>2 DEF CallerInv, TypeOK, Acquiring
<1>7. /\ SharedWaiting' = SharedWaiting /\ ExclusiveWaiting' = ExclusiveWaiting
      /\ Setting' = Setting /\ Releasing' = Releasing
      /\ SharedOwners' = {} /\ Holding' = {t}
    BY <1>1, <1>2, Idle
    DEF TypeOK, SharedWaiting, ExclusiveWaiting, Setting, Releasing, SharedOwners, Holding
<1>8. PendingUnits' = PendingUnits
    BY <1>3, <1>7 DEF PendingUnits
<1>9. ListInv'
    BY <1>3, <1>7 DEF ListInv
<1>10. OwnerInv'
    <2>1. \A i \in Slots' : i # 0 => owners'[i].thread = NoThread
        BY <1>1, <1>4, Idle DEF EntryStored, FreeEntry, Owner
    <2>2. 0 \in Slots' /\ owners'[0] = Owner(t, 1)
        BY <1>4 DEF EntryStored
    <2>3. \A u \in Threads : /\ pc'[u] \notin {"shWait", "exGranted", "setEvent"}
                             /\ mode'[u] # "none" => u = t
        BY <1>1, <1>2, Idle DEF TypeOK, Holding, SharedWaiting
    <2>4. event' = 0 /\ mode'[t] = "exclusive" /\ depth'[t] = 1
        BY <1>1, <1>2, <1>3, Idle DEF TypeOK
    <2>5. QED
        BY <1>1, <2>1, <2>2, <2>3, <2>4, ThreadsAssumption DEF OwnerInv, Owner
<1>11. CountInv'
    BY <1>1, <1>3, <1>7, Idle DEF CountInv
<1>12. WaiterInv'
    BY <1>1, <1>3, <1>7, <1>8 DEF WaiterInv
<1>13. LifeInv'
    BY <1>3 DEF LifeInv
<1>14. QED BY <1>5, <1>6, <1>9, <1>10, <1>11, <1>12, <1>13

\* A thread that becomes a shared owner or waiter is named by a free entry.
LEMMA NewEntry ==
    ASSUME ResourceInv, NEW t \in Threads, NEW i, FreeSlot(i), SlotsOf(t) = {},
           EntryStored(i, Owner(t, 1)),
           UNCHANGED <<ownedExclusive, event>>,
           \A u \in Threads \ {t} : /\ mode'[u] = mode[u] /\ pc'[u] = pc[u]
                                    /\ depth'[u] = depth[u],
           \/ pc'[t] = "run" /\ mode'[t] = "shared" /\ depth'[t] = 1
           \/ pc'[t] = "shWait" /\ mode'[t] = "none"
    PROVE  OwnerInv'
<1> USE DEF ResourceInv
<1>1. \A j \in Slots : owners[j].thread # t
    BY DEF SlotsOf
<1>2. /\ i # 0 /\ i \in Slots' /\ 0 \in Slots /\ Slots \subseteq Slots'
      /\ i \in Slots => owners[i].thread = NoThread
    BY DEF FreeSlot, EntryStored, TypeOK, Slots
<1>3. /\ owners'[i] = Owner(t, 1)
      /\ \A j \in Slots : j # i => owners'[j] = owners[j]
      /\ \A j \in Slots' : j # i /\ j \notin Slots => owners'[j].thread = NoThread
    BY <1>2 DEF EntryStored, FreeEntry, Owner
<1>4. owners'[0] = owners[0]
    BY <1>2, <1>3
<1>5. ASSUME NEW u \in Threads
      PROVE  /\ mode'[u] # "none" => \E j \in Slots' : owners'[j] = Owner(u, depth'[u])
             /\ pc'[u] = "shWait" => \E j \in Slots' : owners'[j] = Owner(u, 1)
             /\ mode'[u] = "exclusive" => owners'[0].thread = u
             /\ pc'[u] = "exGranted" =>
                   owners'[0].thread \in {u, Granted} /\ owners'[0].count = 1
             /\ pc'[u] = "setEvent" => owners'[0] = Owner(Granted, 1)
    <2>1. CASE u = t
        BY <1>2, <1>3, <2>1
    <2>2. CASE u # t
        <3>1. ASSUME NEW n, NEW j \in Slots, owners[j] = Owner(u, n)
              PROVE  j \in Slots' /\ owners'[j] = Owner(u, n)
            BY <1>2, <1>3, <3>1, ThreadsAssumption DEF Owner
        <3>2. QED BY <1>4, <2>2, <3>1 DEF OwnerInv
    <2>3. QED BY <2>1, <2>2
<1>6. event' = 1 => owners'[0] = Owner(Granted, 1)
    BY <1>4 DEF OwnerInv
<1>7. ASSUME NEW j \in Slots', NEW k \in Slots',
             owners'[j].thread = owners'[k].thread, owners'[j].thread \in Threads
      PROVE  j = k
    BY <1>1, <1>2, <1>3, <1>7, ThreadsAssumption DEF OwnerInv, Owner
<1>8. ASSUME NEW j \in Slots'
      PROVE  /\ owners'[j].thread = Granted => j = 0 /\ ownedExclusive'
             /\ owners'[j].thread \in Threads =>
                   \/ mode'[owners'[j].thread] # "none"
                   \/ pc'[owners'[j].thread] = "shWait" /\ j # 0
                   \/ pc'[owners'[j].thread] = "exGranted" /\ j = 0
    <2>1. CASE j = i
        BY <1>2, <1>3, <2>1, ThreadsAssumption DEF Owner
    <2>2. CASE j # i /\ j \in Slots
        BY <1>1, <1>3, <2>2 DEF OwnerInv
    <2>3. CASE j # i /\ j \notin Slots
        BY <1>3, <2>3, ThreadsAssumption
    <2>4. QED BY <2>1, <2>2, <2>3
<1>9. ownedExclusive' => owners'[0].thread # NoThread
    BY <1>4 DEF OwnerInv
<1>10. QED BY <1>5, <1>6, <1>7, <1>8, <1>9, SMTT(30) DEF OwnerInv

\* One more shared owner, in an entry that was free.
LEMMA NewSharedOwner ==
    ASSUME ResourceInv, NEW t \in Threads, live, pc[t] = "run",
           NEW i, FreeSlot(i), SlotsOf(t) = {}, SetEntry(i, Owner(t, 1)),
           ~ownedExclusive, activeCount' = activeCount + 1, Acquired(t, "shared"),
           UNCHANGED <<live, ownedExclusive, sharedWaiters, exclusiveWaiters,
                       eventExists, dispatcher, number>>
    PROVE  ResourceInv'
<1> USE DEF ResourceInv
<1>1. mode[t] = "none" /\ depth[t] = 0
    BY Unnamed
<1>2. /\ mode' = [mode EXCEPT ![t] = "shared"]
      /\ depth' = [depth EXCEPT ![t] = 1]
      /\ pc' = pc
    BY <1>1 DEF Acquired, TypeOK
<1>3. UNCHANGED <<event, eventList, semaphore, semaphoreList>>
    BY DEF dispatcher
<1>4. EntryStored(i, Owner(t, 1))
    BY StoreFree
<1>5. TypeOK'
    BY <1>2, <1>3, <1>4 DEF TypeOK, EntryStored, Entries
<1>6. CallerInv'
    BY <1>2 DEF CallerInv, TypeOK, Acquiring
<1>7. /\ SharedWaiting' = SharedWaiting /\ ExclusiveWaiting' = ExclusiveWaiting
      /\ Setting' = Setting /\ Releasing' = Releasing /\ Holding' = Holding
      /\ SharedOwners' = SharedOwners \cup {t} /\ t \notin SharedOwners
    BY <1>1, <1>2
    DEF TypeOK, SharedWaiting, ExclusiveWaiting, Setting, Releasing, SharedOwners, Holding
<1>8. PendingUnits' = PendingUnits
    BY <1>7 DEF PendingUnits
<1>9. ListInv'
    BY <1>3, <1>7 DEF ListInv
<1>10. OwnerInv'
    <2>1. \A u \in Threads \ {t} : /\ mode'[u] = mode[u] /\ pc'[u] = pc[u]
                                   /\ depth'[u] = depth[u]
        BY <1>2 DEF TypeOK
    <2>2. pc'[t] = "run" /\ mode'[t] = "shared" /\ depth'[t] = 1
        BY <1>2 DEF TypeOK
    <2>3. QED BY <1>3, <1>4, <2>1, <2>2, NewEntry
<1>11. CountInv'
    <2>1. Cardinality(SharedOwners') = Cardinality(SharedOwners) + 1
        BY <1>7, AddThread DEF SharedOwners
    <2>2. QED BY <1>3, <1>7, <1>8, <2>1, Counts DEF CountInv, TypeOK
<1>12. WaiterInv'
    BY <1>3, <1>7, <1>8 DEF WaiterInv, TypeOK
<1>13. LifeInv'
    BY DEF LifeInv
<1>14. QED BY <1>5, <1>6, <1>9, <1>10, <1>11, <1>12, <1>13

\* Shared access to a resource that nobody owns.
LEMMA AcquireFreeSharedInv ==
    ASSUME ResourceInv, NEW t \in Threads, live, pc[t] = "run", AcquireFreeShared(t)
    PROVE  ResourceInv'
<1>1. activeCount = 0
    BY DEF AcquireFreeShared
<1>2. SlotsOf(t) = {} /\ ~ownedExclusive
    BY <1>1, Idle, ThreadsAssumption DEF SlotsOf
<1>3. FreeSlot(1)
    BY <1>1, Idle DEF FreeSlot, ResourceInv, TypeOK
<1>4. QED BY <1>1, <1>2, <1>3, NewSharedOwner DEF AcquireFreeShared

\* One more owner of a resource that is owned shared.
LEMMA JoinSharedInv ==
    ASSUME ResourceInv, NEW t \in Threads, live, pc[t] = "run", JoinShared(t)
    PROVE  ResourceInv'
<1>1. SlotsOf(t) = {} /\ ~ownedExclusive
    BY DEF JoinShared, OwnedShared
<1>2. FreeSlot(ExpFindCurrentThread(t))
    BY <1>1, FindFree, ThreadsAssumption DEF ResourceInv
<1>3. QED BY <1>1, <1>2, NewSharedOwner DEF JoinShared

\* A thread that has access acquires again.
LEMMA AgainInv ==
    ASSUME ResourceInv, NEW t \in Threads, live, pc[t] = "run", mode[t] # "none",
           NEW i \in Slots, owners[i].thread = t,
           SetEntry(i, Owner(t, owners[i].count + 1)), Acquired(t, mode[t]),
           UNCHANGED <<live, activeCount, ownedExclusive, sharedWaiters,
                       exclusiveWaiters, eventExists, dispatcher, number>>
    PROVE  ResourceInv'
<1> USE DEF ResourceInv
<1>1. owners[i].count = depth[t]
    <2>1. PICK j \in Slots : owners[j].count = depth[t] /\ SlotsOf(t) = {j}
        BY Named
    <2>2. QED BY <2>1 DEF SlotsOf
<1>2. depth' = [depth EXCEPT ![t] = depth[t] + 1] /\ mode' = mode /\ pc' = pc
    BY DEF Acquired, TypeOK
<1>3. UNCHANGED <<event, eventList, semaphore, semaphoreList>>
    BY DEF dispatcher
<1>4. EntryStored(i, Owner(t, depth[t] + 1))
    <2>1. i \in 0 .. (tableSize + 2) /\ Owner(t, depth[t] + 1) \in Entries
        BY DEF Slots, Owner, Entries, TypeOK
    <2>2. QED BY <1>1, <2>1, SetEntryStores
<1>5. TypeOK'
    BY <1>2, <1>3, <1>4 DEF TypeOK, EntryStored, Entries
<1>6. CallerInv'
    BY <1>2 DEF CallerInv, TypeOK
<1>7. /\ SharedWaiting' = SharedWaiting /\ ExclusiveWaiting' = ExclusiveWaiting
      /\ Setting' = Setting /\ Releasing' = Releasing /\ Holding' = Holding
      /\ SharedOwners' = SharedOwners /\ PendingUnits' = PendingUnits
    <2> HIDE DEF ResourceInv
    <2>1. QED BY <1>2, SameSets
<1>8. ListInv'
    BY <1>3, <1>7 DEF ListInv
<1>9. OwnerInv'
    <2>1. depth[t] + 1 \in Nat
        BY DEF TypeOK
    <2>2. QED BY <1>2, <1>3, <1>4, <2>1, SameEntry
<1>10. CountInv' /\ WaiterInv' /\ LifeInv'
    BY <1>3, <1>7 DEF CountInv, WaiterInv, LifeInv
<1>11. QED BY <1>5, <1>6, <1>8, <1>9, <1>10

\* The exclusive owner acquires again.
LEMMA AcquireAgainInv ==
    ASSUME ResourceInv, NEW t \in Threads, live, pc[t] \in {"run", "exRetry"},
           AcquireAgain(t)
    PROVE  ResourceInv'
<1>1. mode[t] = "exclusive" /\ pc[t] = "run" /\ 0 \in Slots /\ owners[0].thread = t
    BY ExclusiveOwner DEF AcquireAgain, Acquiring, OwnsExclusive
<1>2. QED BY <1>1, AgainInv DEF AcquireAgain

\* A shared owner acquires again.
LEMMA AcquireSharedAgainInv ==
    ASSUME ResourceInv, NEW t \in Threads, live, pc[t] = "run", AcquireSharedAgain(t)
    PROVE  ResourceInv'
<1>1. PICK i \in Slots : owners[i].thread = t
    BY DEF AcquireSharedAgain, SlotsOf
<1>2. mode[t] # "none"
    BY <1>1 DEF ResourceInv, OwnerInv
<1>3. ExpFindCurrentThread(t) = i
    BY <1>1, FindOwn DEF ResourceInv
<1>4. QED BY <1>1, <1>2, <1>3, AgainInv DEF AcquireSharedAgain

\* A thread that cannot have shared access records itself and waits, or
\* returns.
LEMMA WaitSharedInv ==
    ASSUME ResourceInv, NEW t \in Threads, live, pc[t] = "run", activeCount # 0,
           NEW i, FreeSlot(i), SlotsOf(t) = {}, NEW wait \in BOOLEAN,
           WaitShared(t, i, wait)
    PROVE  ResourceInv'
<1> USE DEF ResourceInv
<1>1. /\ UNCHANGED <<live, activeCount, ownedExclusive, exclusiveWaiters, eventExists,
                     event, eventList, semaphore, semaphoreList, mode, depth, number>>
    BY DEF WaitShared, dispatcher, caller
<1>2. mode[t] = "none" /\ depth[t] = 0
    BY Unnamed
<1>3. CASE wait
    <2>1. sharedWaiters' = sharedWaiters + 1 /\ pc' = [pc EXCEPT ![t] = "shWait"]
        BY <1>3 DEF WaitShared
    <2>2. EntryStored(i, Owner(t, 1))
        BY <1>3, StoreFree DEF WaitShared
    <2>3. TypeOK'
        BY <1>1, <2>1, <2>2 DEF TypeOK, EntryStored, Entries, Places, Acquiring
    <2>4. CallerInv'
        BY <1>1, <1>2, <2>1 DEF CallerInv, TypeOK, Acquiring
    <2>5. /\ SharedWaiting' = SharedWaiting \cup {t} /\ t \notin SharedWaiting
          /\ ExclusiveWaiting' = ExclusiveWaiting
          /\ Setting' = Setting /\ Releasing' = Releasing /\ Holding' = Holding
          /\ SharedOwners' = SharedOwners
        BY <1>1, <1>2, <2>1
        DEF TypeOK, SharedWaiting, ExclusiveWaiting, Setting, Releasing, SharedOwners, Holding
    <2>6. PendingUnits' = PendingUnits
        BY <1>1, <2>5 DEF PendingUnits
    <2>7. ListInv'
        BY <1>1, <2>5 DEF ListInv
    <2>8. OwnerInv'
        <3>1. \A u \in Threads \ {t} : /\ mode'[u] = mode[u] /\ pc'[u] = pc[u]
                                       /\ depth'[u] = depth[u]
            BY <1>1, <2>1 DEF TypeOK
        <3>2. pc'[t] = "shWait" /\ mode'[t] = "none"
            BY <1>1, <1>2, <2>1 DEF TypeOK
        <3>3. QED BY <1>1, <2>2, <3>1, <3>2, NewEntry
    <2>9. CountInv'
        BY <1>1, <2>5, <2>6 DEF CountInv
    <2>10. WaiterInv'
        <3>1. Cardinality(SharedWaiting') = Cardinality(SharedWaiting) + 1
            BY <2>5, AddThread DEF SharedWaiting
        <3>2. QED BY <1>1, <2>1, <2>5, <2>6, <3>1, Counts DEF WaiterInv, TypeOK
    <2>11. LifeInv'
        BY <1>1 DEF LifeInv
    <2>12. QED BY <2>3, <2>4, <2>7, <2>8, <2>9, <2>10, <2>11
<1>4. CASE ~wait
    <2>1. UNCHANGED <<sharedWaiters, pc>>
        BY <1>4 DEF WaitShared
    <2>2. EntryStored(i, FreeEntry)
        <3>1. i \in 0 .. (tableSize + 2) /\ FreeEntry \in Entries
            BY DEF FreeSlot, FreeEntry, Owner, Entries, TypeOK
        <3>2. SetEntry(i, FreeEntry)
            BY <1>4 DEF WaitShared
        <3>3. QED BY <3>1, <3>2, SetEntryStores
    <2>3. TypeOK'
        BY <1>1, <2>1, <2>2 DEF TypeOK, EntryStored, Entries
    <2>4. CallerInv' /\ ListInv' /\ CountInv' /\ WaiterInv' /\ LifeInv'
        <3>1. CallerInv' /\ LifeInv'
            BY <1>1, <2>1 DEF CallerInv, LifeInv
        <3>2. ListInv'
            BY <1>1, <2>1, SameSets DEF ListInv
        <3>3. QED BY <1>1, <2>1, <3>1, <3>2, SameCounts
    <2>5. OwnerInv'
        <3>1. /\ 0 \in Slots /\ i # 0 /\ Slots \subseteq Slots'
              /\ i \in Slots => owners[i].thread = NoThread
            <4>1. 0 \in Slots
                BY DEF TypeOK, Slots
            <4>2. i # 0
                BY DEF FreeSlot, TypeOK
            <4>3. QED BY <4>1, <4>2, <2>2 DEF EntryStored, FreeSlot
        <3>2. \A j \in Slots : owners[j].thread # NoThread => owners'[j] = owners[j]
            BY <2>2, <3>1 DEF EntryStored
        <3>3. \A j \in Slots' :
                 \/ owners'[j].thread = NoThread
                 \/ j \in Slots /\ owners'[j] = owners[j]
            BY <2>2, <3>1 DEF EntryStored, FreeEntry, Owner
        <3>4. owners'[0] = owners[0]
            BY <2>2, <3>1 DEF EntryStored
        <3>5. UNCHANGED <<ownedExclusive, event, mode, depth, pc>> /\ OwnerInv
            BY <1>1, <2>1
        <3> HIDE DEF ResourceInv
        <3>6. QED BY <3>1, <3>2, <3>3, <3>4, <3>5, SameEntries
    <2>6. QED BY <2>3, <2>4, <2>5
<1>5. QED BY <1>3, <1>4

\* The routines wait behind an exclusive owner, or behind exclusive waiters.
LEMMA WaitBehindExclusiveInv ==
    ASSUME ResourceInv, NEW t \in Threads, live, pc[t] = "run", NEW wait \in BOOLEAN,
           WaitBehindExclusive(t, wait)
    PROVE  ResourceInv'
<1>1. /\ activeCount # 0 /\ ownedExclusive /\ owners[0].thread # t
      /\ WaitShared(t, ExpFindCurrentThread(NoThread), wait)
    BY DEF WaitBehindExclusive
<1>2. FreeSlot(ExpFindCurrentThread(NoThread))
    <2>1. owners[0].thread # NoThread
        BY <1>1 DEF ResourceInv, OwnerInv
    <2>2. QED BY <2>1, FindFree, ThreadsAssumption DEF ResourceInv
<1>3. mode[t] = "none"
    BY <1>1 DEF ResourceInv, TypeOK, OwnerInv, CountInv, SharedOwners
<1>4. SlotsOf(t) = {}
    BY <1>3 DEF ResourceInv, OwnerInv, SlotsOf
<1>5. QED BY <1>1, <1>2, <1>4, WaitSharedInv

\* A new shared request waits behind threads that wait for exclusive access.
LEMMA WaitBehindWaitersInv ==
    ASSUME ResourceInv, NEW t \in Threads, live, pc[t] = "run", NEW wait \in BOOLEAN,
           OwnedShared, SlotsOf(t) = {}, WaitShared(t, ExpFindCurrentThread(t), wait)
    PROVE  ResourceInv'
<1>1. FreeSlot(ExpFindCurrentThread(t))
    BY FindFree, ThreadsAssumption DEF ResourceInv
<1>2. activeCount # 0
    BY DEF OwnedShared
<1>3. QED BY <1>1, <1>2, WaitSharedInv

(***************************************************************************)
(* The acquire routines.                                                   *)
(***************************************************************************)
\* ExAcquireResourceExclusiveLite.
LEMMA ExclusiveInv ==
    ASSUME ResourceInv, NEW t \in Threads, ExAcquireResourceExclusiveLite(t)
    PROVE  ResourceInv'
<1>1. live /\ pc[t] \in {"run", "exRetry"}
    BY DEF ExAcquireResourceExclusiveLite, MayCall
<1>2. CASE AcquireFreeExclusive(t)
    BY <1>1, <1>2, AcquireFreeExclusiveInv
<1>3. CASE AcquireAgain(t)
    BY <1>1, <1>3, AcquireAgainInv
<1>4. CASE /\ activeCount # 0 /\ ~OwnsExclusive(t)
           /\ IF eventExists
              THEN /\ exclusiveWaiters' = exclusiveWaiters + 1
                   /\ pc' = [pc EXCEPT ![t] = "exWait"]
              ELSE /\ pc' = [pc EXCEPT ![t] = "exAllocate"]
                   /\ UNCHANGED exclusiveWaiters
           /\ UNCHANGED <<live, activeCount, ownedExclusive, owners, tableSize,
                          sharedWaiters, eventExists, dispatcher, caller, number>>
    <2> USE DEF ResourceInv
    <2>1. /\ UNCHANGED <<live, activeCount, ownedExclusive, owners, tableSize, sharedWaiters,
                         eventExists, event, eventList, semaphore, semaphoreList,
                         mode, depth, number>>
          /\ Slots' = Slots
        BY <1>4 DEF dispatcher, caller, Slots
    <2>2. \/ /\ exclusiveWaiters' = exclusiveWaiters + 1
             /\ pc' = [pc EXCEPT ![t] = "exWait"]
          \/ /\ pc' = [pc EXCEPT ![t] = "exAllocate"]
             /\ UNCHANGED exclusiveWaiters
        BY <1>4
    <2>3. mode[t] # "exclusive"
        <3>1. mode[t] = "exclusive" => owners[0].thread = t /\ ownedExclusive
            BY DEF OwnerInv, CountInv, Holding
        <3>2. QED BY <1>4, <3>1 DEF OwnsExclusive
    <2>4. TypeOK'
        BY <2>1, <2>2 DEF TypeOK, Places, Acquiring
    <2>5. CallerInv'
        BY <1>1, <2>1, <2>2, <2>3 DEF CallerInv, TypeOK, Acquiring
    <2>6. /\ SharedWaiting' = SharedWaiting
          /\ Setting' = Setting /\ Releasing' = Releasing /\ Holding' = Holding
          /\ SharedOwners' = SharedOwners
        BY <1>1, <2>1, <2>2
        DEF TypeOK, SharedWaiting, Setting, Releasing, SharedOwners, Holding
    <2>7. /\ ExclusiveWaiting \in SUBSET Threads /\ t \notin ExclusiveWaiting
          /\ \/ /\ exclusiveWaiters' = exclusiveWaiters + 1
                /\ ExclusiveWaiting' = ExclusiveWaiting \cup {t}
             \/ /\ exclusiveWaiters' = exclusiveWaiters
                /\ ExclusiveWaiting' = ExclusiveWaiting
        BY <1>1, <2>2 DEF TypeOK, ExclusiveWaiting
    <2>8. PendingUnits' = PendingUnits
        BY <2>1, <2>6 DEF PendingUnits
    <2>9. ListInv'
        BY <2>1, <2>6, <2>7 DEF ListInv
    <2>10. OwnerInv'
        BY <1>1, <2>1, <2>2 DEF TypeOK, OwnerInv
    <2>11. CountInv'
        BY <2>1, <2>6, <2>8 DEF CountInv
    <2>12. WaiterInv'
        <3>1. \/ /\ exclusiveWaiters' = exclusiveWaiters + 1
                 /\ Cardinality(ExclusiveWaiting') = Cardinality(ExclusiveWaiting) + 1
              \/ /\ exclusiveWaiters' = exclusiveWaiters
                 /\ ExclusiveWaiting' = ExclusiveWaiting
            BY <2>7, AddThread
        <3>2. QED BY <1>4, <2>1, <2>6, <2>8, <3>1, Counts DEF WaiterInv, TypeOK
    <2>13. LifeInv'
        BY <1>1, <2>1 DEF LifeInv
    <2>14. QED BY <2>4, <2>5, <2>9, <2>10, <2>11, <2>12, <2>13
<1>5. QED BY <1>2, <1>3, <1>4 DEF ExAcquireResourceExclusiveLite

\* ExAcquireResourceSharedLite.
LEMMA SharedInv ==
    ASSUME ResourceInv, NEW t \in Threads, NEW wait \in BOOLEAN,
           ExAcquireResourceSharedLite(t, wait)
    PROVE  ResourceInv'
<1>1. live /\ pc[t] = "run"
    BY DEF ExAcquireResourceSharedLite, MayCall, ResourceInv, CallerInv
<1>2. QED
    BY <1>1, AcquireFreeSharedInv, AcquireAgainInv, WaitBehindExclusiveInv,
       AcquireSharedAgainInv, JoinSharedInv, WaitBehindWaitersInv
    DEF ExAcquireResourceSharedLite

\* ExAcquireSharedStarveExclusive.
LEMMA StarveExclusiveInv ==
    ASSUME ResourceInv, NEW t \in Threads, NEW wait \in BOOLEAN,
           ExAcquireSharedStarveExclusive(t, wait)
    PROVE  ResourceInv'
<1>1. live /\ pc[t] = "run"
    BY DEF ExAcquireSharedStarveExclusive, MayCall
<1>2. QED
    BY <1>1, AcquireFreeSharedInv, AcquireAgainInv, WaitBehindExclusiveInv,
       AcquireSharedAgainInv, JoinSharedInv
    DEF ExAcquireSharedStarveExclusive

\* ExAcquireSharedWaitForExclusive with Wait = FALSE.
LEMMA WaitForExclusiveInv ==
    ASSUME ResourceInv, NEW t \in Threads, ExAcquireSharedWaitForExclusive(t, FALSE)
    PROVE  ResourceInv'
<1>1. live /\ pc[t] = "run"
    BY DEF ExAcquireSharedWaitForExclusive, MayCall
<1>2. QED
    BY <1>1, AcquireFreeSharedInv, AcquireAgainInv, WaitBehindExclusiveInv,
       AcquireSharedAgainInv, JoinSharedInv
    DEF ExAcquireSharedWaitForExclusive

\* ExTryToAcquireResourceExclusiveLite.
LEMMA TryExclusiveInv ==
    ASSUME ResourceInv, NEW t \in Threads, ExTryToAcquireResourceExclusiveLite(t)
    PROVE  ResourceInv'
BY AcquireFreeExclusiveInv, AcquireAgainInv DEF ExTryToAcquireResourceExclusiveLite, MayCall
=============================================================================
