------------------------------ MODULE EresourceFacts ------------------------------
(***************************************************************************)
(* Proofs about Eresource, first part: sets of threads, the owner table, and *)
(* what follows from the invariant in a state.                             *)
(***************************************************************************)
EXTENDS Eresource, FiniteSetTheorems, WellFoundedInduction, TLAPS

\* The order that NatLessThanWellFounded speaks of.
LEMMA LessThan ==
    ASSUME NEW x \in Nat, NEW y \in Nat, y < x
    PROVE  <<y, x>> \in OpToRel(<, Nat)
BY DEF OpToRel

\* A nonempty set of natural numbers has a least element.
LEMMA FirstIn ==
    ASSUME NEW S \in SUBSET Nat, S # {}
    PROVE  First(S) \in S
<1>1. PICK x \in S : \A y \in S : ~ (<<y, x>> \in OpToRel(<, Nat))
    <2>1. IsWellFoundedOn(OpToRel(<, Nat), Nat)
        BY NatLessThanWellFounded
    <2>2. QED BY <2>1, WFMin, Zenon
<1>2. \A y \in S : ~ (y < x)
    BY <1>1, LessThan, Zenon
<1>3. \A y \in S : x <= y
    BY <1>2
<1>4. QED BY <1>3 DEF First

\* A nonempty bounded set of natural numbers has a greatest element.
LEMMA LastIn ==
    ASSUME NEW S \in SUBSET Nat, S # {}, NEW n \in Nat, \A i \in S : i <= n
    PROVE  Last(S) \in S
<1> DEFINE B == {k \in Nat : \A i \in S : i <= k}
<1>1. B \in SUBSET Nat /\ B # {}
    OBVIOUS
<1>2. PICK x \in B : \A y \in B : ~ (<<y, x>> \in OpToRel(<, Nat))
    <2>1. IsWellFoundedOn(OpToRel(<, Nat), Nat)
        BY NatLessThanWellFounded
    <2> HIDE DEF B
    <2>2. QED BY <1>1, <2>1, WFMin, Zenon
<1>3. \A y \in B : x <= y
    <2>1. \A y \in B : ~ (y < x)
        BY <1>2, LessThan, Zenon
    <2>2. QED BY <2>1
<1>4. x \in S
    <2>1. SUFFICES ASSUME x \notin S PROVE FALSE
        OBVIOUS
    <2>2. PICK i \in S : TRUE
        OBVIOUS
    <2>3. x - 1 \in B
        BY <2>1, <2>2
    <2>4. QED BY <1>3, <2>3
<1>5. QED BY <1>4 DEF Last

(***************************************************************************)
(* Sets of threads.                                                        *)
(***************************************************************************)
\* Every set of threads is finite and has a natural number of members.
LEMMA ThreadSets ==
    ASSUME NEW S \in SUBSET Threads
    PROVE  IsFiniteSet(S) /\ Cardinality(S) \in Nat
BY ThreadsAssumption, FS_Subset, FS_CardinalityType

\* A thread that joins a set of threads adds one to its size.
LEMMA AddThread ==
    ASSUME NEW S \in SUBSET Threads, NEW t, t \notin S
    PROVE  Cardinality(S \cup {t}) = Cardinality(S) + 1
BY ThreadSets, FS_AddElement

\* A thread that leaves a set of threads takes one from its size.
LEMMA RemoveThread ==
    ASSUME NEW S \in SUBSET Threads, NEW t \in S
    PROVE  Cardinality(S \ {t}) = Cardinality(S) - 1
BY ThreadSets, FS_RemoveElement

\* Only the empty set of threads has no members.
LEMMA NoThreads ==
    /\ Cardinality({}) = 0
    /\ \A S \in SUBSET Threads : Cardinality(S) = 0 <=> S = {}
BY ThreadSets, FS_EmptySet

\* A set of threads with one member is a singleton.
LEMMA OneThread ==
    /\ \A t : Cardinality({t}) = 1
    /\ \A S \in SUBSET Threads : Cardinality(S) = 1 => \E t \in Threads : S = {t}
<1>1. \A t : Cardinality({t}) = 1
    BY FS_Singleton
<1>2. ASSUME NEW S \in SUBSET Threads, Cardinality(S) = 1
      PROVE  \E t \in Threads : S = {t}
    BY <1>2, ThreadSets, FS_Singleton
<1>3. QED BY <1>1, <1>2

\* A step that moves no thread moves none between the sets of the invariant.
LEMMA SameSets ==
    ASSUME UNCHANGED <<mode, pc, number>>
    PROVE  /\ SharedOwners' = SharedOwners /\ SharedWaiting' = SharedWaiting
           /\ ExclusiveWaiting' = ExclusiveWaiting /\ Setting' = Setting
           /\ Releasing' = Releasing /\ Holding' = Holding /\ PendingUnits' = PendingUnits
<1>1. Releasing' = Releasing
    BY DEF Releasing
<1>2. PendingUnits' = PendingUnits
    BY <1>1 DEF PendingUnits
<1>3. SharedOwners' = SharedOwners /\ SharedWaiting' = SharedWaiting
    BY DEF SharedOwners, SharedWaiting
<1>4. ExclusiveWaiting' = ExclusiveWaiting /\ Setting' = Setting /\ Holding' = Holding
    BY DEF ExclusiveWaiting, Setting, Holding
<1>5. QED BY <1>1, <1>2, <1>3, <1>4

\* A step that moves no thread and changes no count keeps what the invariant
\* says of them.
LEMMA SameCounts ==
    ASSUME CountInv, WaiterInv,
           UNCHANGED <<mode, pc, number, activeCount, ownedExclusive, sharedWaiters,
                       exclusiveWaiters, event, semaphore>>
    PROVE  CountInv' /\ WaiterInv'
<1>1. CountInv'
    BY SameSets DEF CountInv
<1>2. WaiterInv'
    BY SameSets DEF WaiterInv
<1>3. QED BY <1>1, <1>2

(***************************************************************************)
(* Owner entries.                                                          *)
(***************************************************************************)
Entries == [thread : Threads \cup {NoThread, Granted}, count : Nat]

\* Entry i, possibly the first one of an expanded table, is free and is not
\* OwnerThreads[0].
FreeSlot(i) ==
    /\ i \in 1 .. (tableSize + 2)
    /\ i \in Slots => owners[i].thread = NoThread

\* What ExpFindCurrentThread returns for a thread without an entry.
LEMMA FindFree ==
    ASSUME TypeOK, NEW t \in Threads \cup {NoThread},
           t # NoThread => SlotsOf(t) = {},
           t = NoThread => owners[0].thread # NoThread
    PROVE  FreeSlot(ExpFindCurrentThread(t))
<1> DEFINE free == SlotsOf(NoThread) \ {0}
<1>1. tableSize \in Nat /\ Slots \subseteq Nat /\ \A i \in Slots : i <= tableSize + 1
    BY DEF TypeOK, Slots
<1>2. CASE SlotsOf(t) # {}
    <2>1. t = NoThread /\ 0 \notin SlotsOf(t)
        BY <1>2 DEF SlotsOf
    <2>2. First(SlotsOf(t)) \in SlotsOf(t)
        BY <1>1, <1>2, FirstIn DEF SlotsOf
    <2>3. QED BY <1>1, <1>2, <2>1, <2>2 DEF ExpFindCurrentThread, FreeSlot, SlotsOf, Slots
<1>3. CASE SlotsOf(t) = {} /\ free # {}
    <2>1. Last(free) \in free
        <3>1. free \in SUBSET Nat /\ \A i \in free : i <= tableSize + 1
            BY <1>1 DEF SlotsOf
        <3>2. free # {} /\ tableSize + 1 \in Nat
            BY <1>1, <1>3
        <3> HIDE DEF free
        <3>3. QED BY <3>1, <3>2, LastIn, Zenon
    <2>2. ExpFindCurrentThread(t) = Last(free)
        BY <1>3 DEF ExpFindCurrentThread
    <2>3. QED BY <1>1, <2>1, <2>2 DEF FreeSlot, SlotsOf, Slots
<1>4. CASE SlotsOf(t) = {} /\ free = {}
    BY <1>1, <1>4 DEF ExpFindCurrentThread, FreeSlot, Slots
<1>5. QED BY <1>2, <1>3, <1>4

\* The entry that names t is the one the searches find.
LEMMA FindOwn ==
    ASSUME TypeOK, OwnerInv, NEW t \in Threads, NEW i \in Slots,
           owners[i].thread = t
    PROVE  /\ SlotsOf(t) = {i}
           /\ First(SlotsOf(t)) = i
           /\ ExpFindCurrentThread(t) = i
<1>1. SlotsOf(t) = {i}
    BY DEF SlotsOf, OwnerInv
<1>2. i \in Int
    BY DEF Slots, TypeOK
<1>3. First({i}) = i
    BY <1>2 DEF First
<1>4. QED BY <1>1, <1>3 DEF ExpFindCurrentThread

\* SetEntry stores e in entry i and leaves the others, or frees them.
EntryStored(i, e) ==
    /\ tableSize' \in Nat
    /\ owners' \in [Slots' -> Entries]
    /\ Slots \subseteq Slots' /\ i \in Slots'
    /\ owners'[i] = e
    /\ \A j \in Slots' : j # i =>
          owners'[j] = IF j \in Slots THEN owners[j] ELSE FreeEntry

\* SetEntry stores one entry and keeps the others, also when the table grows.
LEMMA SetEntryStores ==
    ASSUME TypeOK, NEW i \in 0 .. (tableSize + 2), NEW e \in Entries, SetEntry(i, e)
    PROVE  EntryStored(i, e)
<1> DEFINE size == IF i \in Slots THEN tableSize
                   ELSE IF tableSize = 0 THEN 3 ELSE tableSize + 4
<1>1. tableSize \in Nat /\ FreeEntry \in Entries /\ owners \in [Slots -> Entries]
    BY DEF TypeOK, FreeEntry, Owner, Entries
<1>2. size \in Nat /\ size >= tableSize /\ i <= size + 1
    BY <1>1 DEF Slots
<1>3. /\ tableSize' = size
      /\ owners' = [j \in 0 .. (size + 1) |->
                       IF j = i THEN e
                       ELSE IF j \in Slots THEN owners[j] ELSE FreeEntry]
    BY DEF SetEntry
<1>4. Slots' = 0 .. (size + 1) /\ Slots \subseteq Slots' /\ i \in Slots'
    BY <1>1, <1>2, <1>3 DEF Slots
<1>5. QED
    <2> HIDE DEF size
    <2>1. owners' \in [Slots' -> Entries]
        BY <1>1, <1>3, <1>4
    <2>2. QED BY <1>1, <1>2, <1>3, <1>4, <2>1 DEF EntryStored

\* SetEntry on a free entry, as the acquire routines use it.
LEMMA StoreFree ==
    ASSUME TypeOK, NEW t \in Threads, NEW i, FreeSlot(i), SetEntry(i, Owner(t, 1))
    PROVE  EntryStored(i, Owner(t, 1))
<1>1. i \in 0 .. (tableSize + 2) /\ Owner(t, 1) \in Entries
    BY DEF FreeSlot, Owner, Entries, TypeOK
<1>2. QED BY <1>1, SetEntryStores

\* A thread that acquires again, or releases one of several acquisitions, has
\* the count of its entry changed.
LEMMA SameEntry ==
    ASSUME ResourceInv, NEW t \in Threads, NEW i \in Slots, NEW n \in Nat,
           owners[i].thread = t, mode[t] # "none",
           EntryStored(i, Owner(t, n)),
           UNCHANGED <<ownedExclusive, event, mode, pc>>,
           depth' = [depth EXCEPT ![t] = n]
    PROVE  OwnerInv'
<1> USE DEF ResourceInv
<1>1. /\ \A j \in Slots : j # i => owners'[j] = owners[j] /\ owners[j].thread # t
      /\ \A j \in Slots' : j \notin Slots => owners'[j].thread = NoThread
      /\ owners'[i] = Owner(t, n)
      /\ 0 \in Slots /\ Slots \subseteq Slots'
    <2>0. 0 \in Slots
        BY DEF TypeOK, Slots
    <2>1. 0 \in Slots /\ Slots \subseteq Slots' /\ owners'[i] = Owner(t, n)
        BY <2>0 DEF EntryStored
    <2>2. \A j \in Slots : j # i => owners'[j] = owners[j]
        BY <2>1 DEF EntryStored
    <2>3. \A j \in Slots : j # i => owners[j].thread # t
        BY DEF OwnerInv
    <2>4. \A j \in Slots' : j \notin Slots => owners'[j].thread = NoThread
        BY DEF EntryStored, FreeEntry, Owner
    <2>5. QED BY <2>1, <2>2, <2>3, <2>4
<1>0. \A u \in Threads : pc[u] = "setEvent" => i # 0
    <2>1. \A u \in Threads : pc[u] = "setEvent" => owners[0] = Owner(Granted, 1)
        BY DEF OwnerInv
    <2>2. Owner(Granted, 1).thread = Granted
        BY DEF Owner
    <2>3. QED BY <2>1, <2>2, ThreadsAssumption
<1>2. ASSUME NEW u \in Threads
      PROVE  /\ mode[u] # "none" => \E j \in Slots' : owners'[j] = Owner(u, depth'[u])
             /\ pc[u] = "shWait" => \E j \in Slots' : owners'[j] = Owner(u, 1)
             /\ mode[u] = "exclusive" => owners'[0].thread = u
             /\ pc[u] = "exGranted" =>
                   owners'[0].thread \in {u, Granted} /\ owners'[0].count = 1
             /\ pc[u] = "setEvent" => owners'[0] = Owner(Granted, 1)
    <2>1. CASE u = t
        <3>1. pc[t] \notin {"shWait", "exGranted"}
            BY DEF CallerInv
        <3>2. mode[t] = "exclusive" => i = 0
            BY <1>1 DEF OwnerInv
        <3>3. depth'[t] = n
            BY DEF TypeOK
        <3>4. pc[t] = "setEvent" => owners'[0] = Owner(Granted, 1)
            BY <1>0, <1>1 DEF OwnerInv
        <3>5. mode[t] = "exclusive" => owners'[0].thread = t
            BY <1>1, <3>2 DEF Owner
        <3>6. QED BY <1>1, <2>1, <3>1, <3>3, <3>4, <3>5
    <2>2. CASE u # t
        <3>1. ASSUME NEW m, NEW j \in Slots, owners[j] = Owner(u, m)
              PROVE  j \in Slots' /\ owners'[j] = Owner(u, m)
            BY <1>1, <2>2, <3>1 DEF Owner
        <3>2. depth'[u] = depth[u]
            BY <2>2 DEF TypeOK
        <3>3. pc[u] = "exGranted" => i # 0
            BY <2>2, ThreadsAssumption DEF OwnerInv
        <3>4. mode[u] = "exclusive" => i # 0
            BY <2>2 DEF OwnerInv
        <3>5. QED BY <1>0, <1>1, <3>1, <3>2, <3>3, <3>4 DEF OwnerInv
    <2>3. QED BY <2>1, <2>2
<1>3. event = 1 => owners'[0] = Owner(Granted, 1)
    BY <1>1, ThreadsAssumption DEF OwnerInv, Owner
<1>4. \A j \in Slots' : owners'[j].thread = IF j \in Slots THEN owners[j].thread ELSE NoThread
    BY <1>1 DEF Owner
<1>5. QED BY <1>1, <1>2, <1>3, <1>4, ThreadsAssumption DEF OwnerInv

\* A step that only frees or adds free entries keeps what the invariant says
\* of the owner table.
LEMMA SameEntries ==
    ASSUME OwnerInv, UNCHANGED <<ownedExclusive, event, mode, depth, pc>>,
           Slots \subseteq Slots', owners'[0] = owners[0],
           \A j \in Slots : owners[j].thread # NoThread => owners'[j] = owners[j],
           \A j \in Slots' :
              owners'[j].thread = NoThread \/ (j \in Slots /\ owners'[j] = owners[j])
    PROVE  OwnerInv'
<1>1. ASSUME NEW u \in Threads, NEW n, NEW j \in Slots, owners[j] = Owner(u, n)
      PROVE  j \in Slots' /\ owners'[j] = Owner(u, n)
    <2>1. owners[j].thread # NoThread
        BY <1>1, ThreadsAssumption DEF Owner
    <2>2. QED BY <1>1, <2>1
<1>2. ASSUME NEW u \in Threads, mode[u] # "none"
      PROVE  \E j \in Slots' : owners'[j] = Owner(u, depth[u])
    <2>1. PICK j \in Slots : owners[j] = Owner(u, depth[u])
        BY <1>2 DEF OwnerInv
    <2>2. QED BY <1>1, <2>1
<1>3. ASSUME NEW u \in Threads, pc[u] = "shWait"
      PROVE  \E j \in Slots' : owners'[j] = Owner(u, 1)
    <2>1. PICK j \in Slots : owners[j] = Owner(u, 1)
        BY <1>3 DEF OwnerInv
    <2>2. QED BY <1>1, <2>1
<1>4. \A u \in Threads :
         /\ mode[u] = "exclusive" => owners'[0].thread = u
         /\ pc[u] = "exGranted" => owners'[0].thread \in {u, Granted} /\ owners'[0].count = 1
         /\ pc[u] = "setEvent" => owners'[0] = Owner(Granted, 1)
    BY DEF OwnerInv
<1>5. /\ event = 1 => owners'[0] = Owner(Granted, 1)
      /\ ownedExclusive => owners'[0].thread # NoThread
    BY DEF OwnerInv
<1>6. ASSUME NEW j \in Slots', owners'[j].thread # NoThread
      PROVE  j \in Slots /\ owners'[j] = owners[j]
    BY <1>6
<1>7. \A j, k \in Slots' :
         owners'[j].thread = owners'[k].thread /\ owners'[j].thread \in Threads => j = k
    <2>1. \A j, k \in Slots :
             owners[j].thread = owners[k].thread /\ owners[j].thread \in Threads => j = k
        BY DEF OwnerInv
    <2>2. QED BY <1>6, <2>1, ThreadsAssumption
<1>8. ASSUME NEW j \in Slots'
      PROVE  /\ owners'[j].thread = Granted => j = 0 /\ ownedExclusive
             /\ owners'[j].thread \in Threads =>
                   \/ mode[owners'[j].thread] # "none"
                   \/ pc[owners'[j].thread] = "shWait" /\ j # 0
                   \/ pc[owners'[j].thread] = "exGranted" /\ j = 0
    <2>1. CASE owners'[j].thread = NoThread
        BY <2>1, ThreadsAssumption
    <2>2. CASE owners'[j].thread # NoThread
        <3>1. j \in Slots /\ owners'[j] = owners[j]
            BY <1>6, <2>2
        <3>2. QED BY <3>1 DEF OwnerInv
    <2>3. QED BY <2>1, <2>2
<1>9. QED BY <1>2, <1>3, <1>4, <1>5, <1>7, <1>8, SMTT(30) DEF OwnerInv

\* A step that changes neither the owner table nor what it is about keeps what
\* the invariant says of it.
LEMMA SameOwners ==
    ASSUME OwnerInv, UNCHANGED <<ownedExclusive, event, mode, depth, pc, owners>>,
           Slots' = Slots
    PROVE  OwnerInv'
<1>1. \A j \in Slots' :
         owners'[j].thread = NoThread \/ (j \in Slots /\ owners'[j] = owners[j])
    OBVIOUS
<1>2. Slots \subseteq Slots' /\ \A j \in Slots : owners'[j] = owners[j]
    OBVIOUS
<1>3. QED BY <1>1, <1>2, SameEntries

(***************************************************************************)
(* Consequences of the invariant.                                          *)
(***************************************************************************)
\* The counts are natural numbers.
LEMMA Counts ==
    ASSUME ResourceInv
    PROVE  /\ Cardinality(SharedOwners) \in Nat
           /\ Cardinality(SharedWaiting) \in Nat
           /\ Cardinality(ExclusiveWaiting) \in Nat
           /\ Cardinality(Setting) \in Nat
           /\ PendingUnits \in Nat
           /\ Releasing # {} => PendingUnits > 0
<1>1. \A S \in SUBSET Threads : Cardinality(S) \in Nat
    BY ThreadSets
<1>2. PendingUnits \in Nat /\ (Releasing # {} => PendingUnits > 0)
    <2>1. CASE Releasing = {}
        BY <2>1 DEF PendingUnits
    <2>2. CASE Releasing # {}
        <3>1. (CHOOSE t \in Releasing : TRUE) \in Releasing
            BY <2>2
        <3>2. \A t \in Releasing : number[t] > 0 /\ number[t] \in Nat
            BY DEF ResourceInv, CountInv, TypeOK, Releasing
        <3>3. QED BY <2>2, <3>1, <3>2 DEF PendingUnits
    <2>3. QED BY <2>1, <2>2
<1>3. QED
    BY <1>1, <1>2 DEF SharedOwners, SharedWaiting, ExclusiveWaiting, Setting

\* Nobody has, waits for or is being handed a resource whose ActiveCount is 0.
LEMMA Idle ==
    ASSUME ResourceInv, activeCount = 0
    PROVE  /\ ~ownedExclusive
           /\ sharedWaiters = 0 /\ exclusiveWaiters = 0
           /\ event = 0 /\ semaphore = 0 /\ PendingUnits = 0
           /\ SharedOwners = {} /\ SharedWaiting = {} /\ ExclusiveWaiting = {}
           /\ Holding = {} /\ Setting = {} /\ Releasing = {}
           /\ eventList = {} /\ semaphoreList = {}
           /\ \A t \in Threads : mode[t] = "none" /\ depth[t] = 0
           /\ \A i \in Slots : owners[i].thread = NoThread
<1>1. ~ownedExclusive
    BY DEF ResourceInv, CountInv
<1>2. /\ Cardinality(SharedOwners) + semaphore + PendingUnits = 0
      /\ Holding = {} /\ event = 0
      /\ semaphore \in Nat
    BY <1>1 DEF ResourceInv, CountInv, TypeOK
<1>3. Cardinality(SharedOwners) = 0 /\ semaphore = 0 /\ PendingUnits = 0
    BY <1>2, Counts
<1>4. SharedOwners = {} /\ Releasing = {} /\ Setting = {}
    BY <1>2, <1>3, Counts, NoThreads DEF SharedOwners, Holding, Setting
<1>5. sharedWaiters = 0 /\ exclusiveWaiters = 0
    BY DEF ResourceInv, WaiterInv
<1>6. SharedWaiting = {} /\ ExclusiveWaiting = {}
    BY <1>2, <1>3, <1>4, <1>5, NoThreads DEF ResourceInv, WaiterInv, SharedWaiting, ExclusiveWaiting
<1>7. eventList = {} /\ semaphoreList = {}
    BY <1>6 DEF ResourceInv, ListInv
<1>8. \A t \in Threads : mode[t] = "none" /\ depth[t] = 0
    BY <1>2, <1>4 DEF ResourceInv, TypeOK, CallerInv, SharedOwners, Holding
<1>9. \A i \in Slots : owners[i].thread = NoThread
    BY <1>1, <1>2, <1>6, <1>8 DEF ResourceInv, TypeOK, OwnerInv, Holding, SharedWaiting
<1>10. QED BY <1>1, <1>2, <1>3, <1>4, <1>5, <1>6, <1>7, <1>8, <1>9

\* A thread that no entry names has no access and does not wait for shared access.
LEMMA Unnamed ==
    ASSUME ResourceInv, NEW t \in Threads, SlotsOf(t) = {}
    PROVE  mode[t] = "none" /\ depth[t] = 0 /\ pc[t] # "shWait"
<1> USE DEF ResourceInv
<1>1. \A i \in Slots : owners[i].thread # t
    BY DEF SlotsOf
<1>2. \A i \in Slots, n \in Nat : owners[i] # Owner(t, n)
    BY <1>1 DEF Owner
<1>3. mode[t] = "none" /\ pc[t] # "shWait"
    BY <1>2 DEF OwnerInv, TypeOK
<1>4. QED BY <1>3 DEF CallerInv

\* The entry of a thread that has access.
LEMMA Named ==
    ASSUME ResourceInv, NEW t \in Threads, mode[t] # "none"
    PROVE  \E i \in Slots : /\ owners[i] = Owner(t, depth[t])
                            /\ owners[i].thread = t /\ owners[i].count = depth[t]
                            /\ SlotsOf(t) = {i} /\ First(SlotsOf(t)) = i
                            /\ ExpFindCurrentThread(t) = i
                            /\ mode[t] = "exclusive" => i = 0
<1> USE DEF ResourceInv
<1>1. PICK i \in Slots : owners[i] = Owner(t, depth[t])
    BY DEF OwnerInv
<1>2. owners[i].thread = t /\ owners[i].count = depth[t]
    BY <1>1 DEF Owner
<1>3. SlotsOf(t) = {i} /\ First(SlotsOf(t)) = i /\ ExpFindCurrentThread(t) = i
    BY <1>2, FindOwn
<1>4. mode[t] = "exclusive" => i = 0
    <2>1. 0 \in Slots
        BY DEF TypeOK, Slots
    <2>2. QED BY <1>2, <2>1 DEF OwnerInv
<1>5. QED BY <1>1, <1>2, <1>3, <1>4

\* The thread OwnerThreads[0] names while the resource is owned exclusively and
\* the thread is not in an acquire routine is the exclusive owner.
LEMMA ExclusiveOwner ==
    ASSUME ResourceInv, NEW t \in Threads, OwnsExclusive(t), pc[t] # "exGranted"
    PROVE  mode[t] = "exclusive" /\ pc[t] \notin Acquiring /\ 0 \in Slots
<1> USE DEF ResourceInv
<1>1. 0 \in Slots /\ owners[0].thread = t /\ ownedExclusive
    BY DEF OwnsExclusive, TypeOK, Slots
<1>2. mode[t] # "none"
    BY <1>1 DEF OwnerInv
<1>3. mode[t] # "shared"
    BY <1>1 DEF CountInv, SharedOwners
<1>4. QED BY <1>1, <1>2, <1>3 DEF TypeOK, CallerInv

\* The thread that calls KeSetEventBoostPriority is the only one about to, and
\* no thread has access meanwhile.
LEMMA Handing ==
    ASSUME ResourceInv, NEW t \in Threads, pc[t] = "setEvent"
    PROVE  /\ ownedExclusive /\ event = 0 /\ Holding = {t} /\ Setting = {t}
           /\ Releasing = {} /\ owners[0] = Owner(Granted, 1)
           /\ \A u \in Threads : mode[u] = "none" /\ pc[u] # "exGranted"
<1> USE DEF ResourceInv
<1>1. t \in Holding /\ owners[0] = Owner(Granted, 1)
    BY DEF Holding, OwnerInv
<1>2. ownedExclusive /\ event = 0 /\ Holding = {t} /\ Releasing = {} /\ SharedOwners = {}
    BY <1>1 DEF CountInv, TypeOK
<1>3. Setting = {t}
    BY <1>2 DEF Setting, Holding
<1>4. owners[0].thread = Granted
    BY <1>1 DEF Owner
<1>5. \A u \in Threads : mode[u] # "exclusive"
    BY <1>4, ThreadsAssumption DEF OwnerInv
<1>6. \A u \in Threads : mode[u] = "none"
    BY <1>2, <1>5 DEF SharedOwners, TypeOK
<1>7. \A u \in Threads : pc[u] # "exGranted"
    BY <1>2 DEF Holding
<1>8. QED BY <1>1, <1>2, <1>3, <1>6, <1>7
=============================================================================
