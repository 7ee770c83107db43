----------------------------- MODULE Virtqueue -----------------------------
(***************************************************************************)
(* The split virtqueue of the virtio drivers: NTOS/VIRTIO/RING.C, with the *)
(* interrupt acknowledgement of NTOS/VIRTIO/PCI.C, a driver that submits   *)
(* requests and drains completions, and the device on the other side of    *)
(* the shared memory.                                                      *)
(*                                                                         *)
(* Grain of atomicity.  The drivers call the queue under their own spin    *)
(* lock, so its routines never overlap each other; pc says which of them   *)
(* holds the lock.  The device and the interrupt run between any two steps.*)
(* A routine is cut where it reads what the device writes.                 *)
(*                                                                         *)
(* Memory.  The processor is an x86: stores reach memory in program order, *)
(* but a load may run ahead of them.  Stores to the avail ring wait in     *)
(* storeBuf until they drain.  Descriptors are written at once: the device *)
(* reads a chain only after it has seen the idx store that follows the     *)
(* chain's stores.  VIRTIO_MB() expands to nothing and waits for no store.  *)
(***************************************************************************)
EXTENDS Integers, FiniteSets, Sequences, SequencesExt

CONSTANTS
    Num,          \* Ring.Num, a power of two
    Wrap,         \* 2^16: the range of the 16-bit idx counters
    Cookies,      \* the requests the driver may have outstanding
    NoCookie,     \* Cookie = NULL
    Shapes,       \* the <<read_bufs, write_bufs>> of requests
    Suppresses,   \* whether the device sets VRING_USED_F_NO_NOTIFY while it
                  \* works: a set of BOOLEANs
    Polls         \* whether the driver suppresses interrupts while it drains
                  \* (no driver of the repository does)

ASSUME RingAssumption ==
    /\ Num \in Nat \ {0} /\ Wrap \in Nat
    /\ Num < Wrap /\ Wrap % Num = 0
    /\ NoCookie \notin Cookies
    /\ Suppresses \in SUBSET BOOLEAN \ {{}}
    /\ Polls \in BOOLEAN

VARIABLES
    desc,        \* Ring.Desc: next, more (Flags & NEXT), and seg, the buffer
    info,        \* DescInfo: cookie and count
    descAvail,   \* DescAvail
    headFree,    \* HeadFreeDesc
    lastUsed,    \* LastUsedDescIdx
    storeBuf,    \* stores to the avail ring that have not reached memory
    availRing,   \* Avail->Ring, in memory
    availIdx,    \* Avail->Idx, in memory
    noInterrupt, \* Avail->Flags & VRING_AVAIL_F_NO_INTERRUPT, in memory
    usedRing,    \* Used->Ring[].Id
    usedIdx,     \* Used->Idx
    noNotify,    \* Used->Flags & VRING_USED_F_NO_NOTIFY
    pc,          \* what the driver does
    dpc,         \* the completion DPC is queued
    isr,         \* the device's interrupt status bit; the line is its level
    kick,        \* the notify register was written
    device,      \* "asleep" until kicked, "awake", "arming" (about to sleep)
    lastAvail,   \* the next avail entry the device fetches
    fetched,     \* requests the device works on: head and the buffers it saw
    completing,  \* progress of a completion: "none", "filled", "signal"
    asked        \* the buffers of every outstanding request, as submitted

driver == <<info, descAvail, headFree, lastUsed>>
avail == <<storeBuf, availRing, availIdx, noInterrupt>>
used == <<usedRing, usedIdx, noNotify>>
host == <<device, lastAvail, fetched, completing>>
signals == <<dpc, isr, kick>>
vars == <<desc, driver, avail, used, pc, signals, host, asked>>

Descs == 0..Num - 1

END_OF_LIST == Num

NoSeg == [of |-> NoCookie, nth |-> 0, write |-> FALSE]

\* The buffers of a request: those the device reads, then those it writes.
Segs(c, reads, writes) ==
    [i \in 1..reads + writes |-> [of |-> c, nth |-> i, write |-> i > reads]]

Following(d) == IF d \in Descs THEN desc[d].next ELSE END_OF_LIST

\* The n descriptors reached from h along the next pointers.
Walk(h, n) ==
    LET at[i \in 1..n] == IF i = 1 THEN h ELSE Following(at[i - 1])
    IN  [i \in 1..n |-> at[i]]

\* The chain that starts at h: it ends with the first clear NEXT flag.
Chain(h) ==
    LET path == Walk(h, Num)
        goesOn(d) == d \in Descs /\ desc[d].more
        last == {i \in 1..Num : /\ ~goesOn(path[i])
                                /\ \A j \in 1..i - 1 : goesOn(path[j])}
    IN  IF last = {} THEN path ELSE SubSeq(path, 1, CHOOSE i \in last : TRUE)

\* What the driver reads back of its own idx: the latest store wins.
AvailIdx ==
    LET pending == SelectSeq(storeBuf, LAMBDA s : s.to = "idx")
    IN  IF pending = <<>> THEN availIdx ELSE Last(pending).val

\* ((void)0)
VIRTIO_MB == TRUE

VirtqHasData == lastUsed # usedIdx

-----------------------------------------------------------------------------

VringInitFreeList ==
    /\ desc = [d \in Descs |-> [next |-> d + 1, more |-> FALSE, seg |-> NoSeg]]
    /\ descAvail = Num
    /\ headFree = 0
    /\ lastUsed = 0

VirtqCreate ==
    /\ VringInitFreeList
    /\ info = [d \in Descs |-> [cookie |-> NoCookie, count |-> 0]]
    /\ storeBuf = <<>>
    /\ availRing = [i \in Descs |-> 0]
    /\ availIdx = 0
    /\ noInterrupt = FALSE
    /\ usedRing = [i \in Descs |-> 0]
    /\ usedIdx = 0
    /\ noNotify = FALSE

Init ==
    /\ VirtqCreate
    /\ pc = "idle"
    /\ dpc = FALSE /\ isr = FALSE /\ kick = FALSE
    /\ device = "asleep"
    /\ lastAvail = 0
    /\ fetched = {}
    /\ completing = "none"
    /\ asked = [c \in Cookies |-> <<>>]

-----------------------------------------------------------------------------
(* The driver submits a request.                                           *)

\* Mutant: idx moves before the slot is written.
VringPushAvail_IdxFirst(head) ==
    storeBuf' = storeBuf \o
        << [to |-> "idx", at |-> 0, val |-> (AvailIdx + 1) % Wrap],
           [to |-> "ring", at |-> AvailIdx % Num, val |-> head] >>

\* The slot is written before idx moves past it.
VringPushAvail(head) ==
    storeBuf' = storeBuf \o
        << [to |-> "ring", at |-> AvailIdx % Num, val |-> head],
           [to |-> "idx", at |-> 0, val |-> (AvailIdx + 1) % Wrap] >>

\* A request that does not fit is refused and changes nothing.
VirtqEnqueue(c, reads, writes) ==
    LET total == reads + writes
        path == Walk(headFree, total)
        segs == Segs(c, reads, writes)
    IN  /\ pc = "idle" /\ asked[c] = <<>>
        /\ total \in 1..Num /\ total <= descAvail
        /\ info' = [info EXCEPT ![headFree] = [cookie |-> c, count |-> total]]
        /\ desc' = [d \in Descs |->
               IF d \in ToSet(path)
               THEN LET i == CHOOSE i \in 1..total : path[i] = d
                    IN  [desc[d] EXCEPT !.seg = segs[i], !.more = i < total]
               ELSE desc[d]]
        /\ headFree' = Following(path[total])
        /\ descAvail' = descAvail - total
        /\ VringPushAvail(headFree)
        /\ asked' = [asked EXCEPT ![c] = segs]
        /\ pc' = "notify"
        /\ UNCHANGED <<lastUsed, availRing, availIdx, noInterrupt, used,
                       signals, host>>

\* Mutant: no kick while other requests are outstanding.
VirtqHostNotify_FirstOnly ==
    /\ pc = "notify"
    /\ VIRTIO_MB
    /\ pc' = IF noNotify \/ Cardinality({c \in Cookies : asked[c] # <<>>}) > 1
             THEN "idle" ELSE "kick"
    /\ UNCHANGED <<desc, driver, avail, used, signals, host, asked>>

\* The notify register is written only if the device asks for it.
VirtqHostNotify ==
    /\ pc = "notify"
    /\ VIRTIO_MB
    /\ pc' = IF noNotify THEN "idle" ELSE "kick"
    /\ UNCHANGED <<desc, driver, avail, used, signals, host, asked>>

\* A device register is not cached: earlier stores drain first.
VpciNotify ==
    /\ pc = "kick"
    /\ storeBuf = <<>>
    /\ kick' = TRUE
    /\ pc' = "idle"
    /\ UNCHANGED <<desc, driver, avail, used, dpc, isr, host, asked>>

-----------------------------------------------------------------------------
(* The driver is interrupted and drains the used ring.                     *)

\* Reading the status clears it.  The drivers of the repository pass no
\* callback, so every ring interrupt is handled and queues the DPC.
VirtioPciIsr ==
    /\ isr
    /\ isr' = FALSE
    /\ dpc' = TRUE
    /\ UNCHANGED <<desc, driver, avail, used, pc, kick, host, asked>>

VirtqIntrDisable ==
    storeBuf' = Append(storeBuf, [to |-> "flags", at |-> 0, val |-> TRUE])

CompletionDpc ==
    /\ dpc /\ pc = "idle"
    /\ dpc' = FALSE
    /\ pc' = "drain"
    /\ IF Polls THEN VirtqIntrDisable ELSE UNCHANGED storeBuf
    /\ UNCHANGED <<desc, driver, availRing, availIdx, noInterrupt, used, isr,
                   kick, host, asked>>

\* Mutant: the head, not the tail, is linked to the free list.
VringDetachChain_HeadLinked(head) ==
    /\ descAvail' = descAvail + info[head].count
    /\ info' = [info EXCEPT ![head] =
           [cookie |-> NoCookie, count |-> @.count - Len(Chain(head))]]
    /\ desc' = [desc EXCEPT ![head].next = headFree]
    /\ headFree' = head

\* The chain goes back on top of the free list; its count becomes 0.  The
\* cookie, which VirtqDequeue clears just before, goes with it.
VringDetachChain(head) ==
    LET tail == Last(Chain(head))
    IN  /\ descAvail' = descAvail + info[head].count
        /\ info' = [info EXCEPT ![head] =
               [cookie |-> NoCookie, count |-> @.count - Len(Chain(head))]]
        /\ desc' = [desc EXCEPT ![tail].next = headFree]
        /\ headFree' = head

\* Mutant: the index is kept modulo the ring size.
VirtqDequeue_ModNum ==
    LET head == usedRing[lastUsed % Num]
    IN  /\ pc = "drain" /\ VirtqHasData
        /\ VringDetachChain(head)
        /\ lastUsed' = (lastUsed + 1) % Num
        /\ asked' = [c \in Cookies |->
               IF c = info[head].cookie THEN <<>> ELSE asked[c]]
        /\ UNCHANGED <<avail, used, pc, signals, host>>

\* Mutant: one completion is taken per DPC.
VirtqDequeue_Once ==
    LET head == usedRing[lastUsed % Num]
    IN  /\ pc = "drain" /\ VirtqHasData
        /\ VringDetachChain(head)
        /\ lastUsed' = (lastUsed + 1) % Wrap
        /\ asked' = [c \in Cookies |->
               IF c = info[head].cookie THEN <<>> ELSE asked[c]]
        /\ pc' = "idle"
        /\ UNCHANGED <<avail, used, signals, host>>

VirtqDequeue ==
    LET head == usedRing[lastUsed % Num]
    IN  /\ pc = "drain" /\ VirtqHasData
        /\ VringDetachChain(head)
        /\ lastUsed' = (lastUsed + 1) % Wrap
        /\ asked' = [c \in Cookies |->
               IF c = info[head].cookie THEN <<>> ELSE asked[c]]
        /\ UNCHANGED <<avail, used, pc, signals, host>>

\* STATUS_NO_MORE_ENTRIES ends the drain.
DrainEmpty ==
    /\ pc = "drain" /\ ~VirtqHasData
    /\ pc' = IF Polls THEN "enable" ELSE "idle"
    /\ UNCHANGED <<desc, driver, avail, used, signals, host, asked>>

\* VirtqIntrEnable: nothing to drain, so interrupts are enabled ...
VirtqIntrEnable ==
    /\ pc = "enable"
    /\ \/ /\ VirtqHasData
          /\ pc' = "drain"
          /\ UNCHANGED storeBuf
       \/ /\ ~VirtqHasData
          /\ storeBuf' = Append(storeBuf,
                                [to |-> "flags", at |-> 0, val |-> FALSE])
          /\ pc' = "recheck"
    /\ UNCHANGED <<desc, driver, availRing, availIdx, noInterrupt, used,
                   signals, host, asked>>

\* ... and the used ring is tested again.
VirtqIntrEnableRecheck ==
    /\ pc = "recheck"
    /\ VIRTIO_MB
    /\ \/ /\ VirtqHasData
          /\ VirtqIntrDisable
          /\ pc' = "drain"
       \/ /\ ~VirtqHasData
          /\ pc' = "idle"
          /\ UNCHANGED storeBuf
    /\ UNCHANGED <<desc, driver, availRing, availIdx, noInterrupt, used,
                   signals, host, asked>>

\* The oldest store reaches memory.
StoreDrains ==
    /\ storeBuf # <<>>
    /\ LET s == Head(storeBuf)
       IN  /\ availRing' = IF s.to = "ring"
                           THEN [availRing EXCEPT ![s.at] = s.val]
                           ELSE availRing
           /\ availIdx' = IF s.to = "idx" THEN s.val ELSE availIdx
           /\ noInterrupt' = IF s.to = "flags" THEN s.val ELSE noInterrupt
    /\ storeBuf' = Tail(storeBuf)
    /\ UNCHANGED <<desc, driver, used, pc, signals, host, asked>>

-----------------------------------------------------------------------------
(* The device.                                                             *)

DeviceWakes ==
    /\ kick /\ device = "asleep"
    /\ kick' = FALSE
    /\ device' = "awake"
    /\ noNotify' \in Suppresses
    /\ UNCHANGED <<desc, driver, avail, usedRing, usedIdx, pc, dpc, isr,
                   lastAvail, fetched, completing, asked>>

DeviceFetches ==
    LET head == availRing[lastAvail % Num]
        chain == Chain(head)
    IN  /\ device = "awake" /\ lastAvail # availIdx
        /\ fetched' = fetched \cup
               {[head |-> head,
                 segs |-> [i \in DOMAIN chain |-> desc[chain[i]].seg]]}
        /\ lastAvail' = (lastAvail + 1) % Wrap
        /\ UNCHANGED <<desc, driver, avail, used, pc, signals, device,
                       completing, asked>>

\* With nothing left to fetch it asks for kicks, tests once more and sleeps.
DeviceArms ==
    /\ device = "awake" /\ lastAvail = availIdx
    /\ noNotify' = FALSE
    /\ device' = "arming"
    /\ UNCHANGED <<desc, driver, avail, usedRing, usedIdx, pc, signals,
                   lastAvail, fetched, completing, asked>>

DeviceSleeps ==
    /\ device = "arming"
    /\ \/ /\ lastAvail = availIdx
          /\ device' = "asleep"
          /\ UNCHANGED noNotify
       \/ /\ lastAvail # availIdx
          /\ device' = "awake"
          /\ noNotify' \in Suppresses
    /\ UNCHANGED <<desc, driver, avail, usedRing, usedIdx, pc, signals,
                   lastAvail, fetched, completing, asked>>

\* A completion: the used entry, then idx, then the interrupt.
DeviceFills(f) ==
    /\ completing = "none"
    /\ usedRing' = [usedRing EXCEPT ![usedIdx % Num] = f.head]
    /\ fetched' = fetched \ {f}
    /\ completing' = "filled"
    /\ UNCHANGED <<desc, driver, avail, usedIdx, noNotify, pc, signals,
                   device, lastAvail, asked>>

DevicePublishes ==
    /\ completing = "filled"
    /\ usedIdx' = (usedIdx + 1) % Wrap
    /\ completing' = "signal"
    /\ UNCHANGED <<desc, driver, avail, usedRing, noNotify, pc, signals,
                   device, lastAvail, fetched, asked>>

DeviceSignals ==
    /\ completing = "signal"
    /\ isr' = (isr \/ ~noInterrupt)
    /\ completing' = "none"
    /\ UNCHANGED <<desc, driver, avail, used, pc, dpc, kick, device,
                   lastAvail, fetched, asked>>

-----------------------------------------------------------------------------

Submit == \E c \in Cookies, s \in Shapes : VirtqEnqueue(c, s[1], s[2])

Notify == VirtqHostNotify \/ VpciNotify

Drain == VirtqDequeue \/ DrainEmpty \/ VirtqIntrEnable \/ VirtqIntrEnableRecheck

DeviceWorks == DeviceWakes \/ DeviceFetches \/ DeviceArms \/ DeviceSleeps

DeviceCompletes == DevicePublishes \/ DeviceSignals

Next ==
    \/ Submit \/ Notify
    \/ VirtioPciIsr \/ CompletionDpc \/ Drain
    \/ StoreDrains
    \/ DeviceWorks \/ DeviceCompletes
    \/ \E f \in fetched : DeviceFills(f)

Spec == Init /\ [][Next]_vars

(***************************************************************************)
(* Fairness.  The driver's routines do not block, a queued DPC runs once   *)
(* the lock is free, an interrupt is taken while its line is asserted, and *)
(* a processor drains its store buffer.  The device is assumed to answer a *)
(* kick, to finish every completion it has begun and to complete every     *)
(* request it has fetched.  Nobody has to submit a request.                *)
(***************************************************************************)
Fairness ==
    /\ WF_vars(Notify \/ CompletionDpc \/ Drain)
    /\ WF_vars(VirtioPciIsr)
    /\ WF_vars(StoreDrains)
    /\ WF_vars(DeviceWorks)
    /\ WF_vars(DeviceCompletes)
    /\ \A h \in Descs :
           SF_vars(\E f \in fetched : f.head = h /\ DeviceFills(f))

FairSpec == Spec /\ Fairness

-----------------------------------------------------------------------------
(* Properties.                                                             *)

Heads == {d \in Descs : info[d].cookie # NoCookie}

FreeList == Walk(headFree, descAvail)

Stores ==
    [to : {"ring"}, at : Descs, val : Descs]
        \cup [to : {"idx"}, at : {0}, val : 0..Wrap - 1]
        \cup [to : {"flags"}, at : {0}, val : BOOLEAN]

Seg == [of : Cookies, nth : 1..Num, write : BOOLEAN]

\* Every field keeps to its type; free-list links stay inside the table.
TypeOK ==
    /\ desc \in [Descs -> [next : 0..Num, more : BOOLEAN,
                           seg : Seg \cup {NoSeg}]]
    /\ info \in [Descs -> [cookie : Cookies \cup {NoCookie}, count : 0..Num]]
    /\ descAvail \in 0..Num /\ headFree \in 0..Num
    /\ {lastUsed, availIdx, usedIdx, lastAvail} \subseteq 0..Wrap - 1
    /\ storeBuf \in Seq(Stores)
    /\ availRing \in [Descs -> Descs] /\ usedRing \in [Descs -> Descs]
    /\ {noInterrupt, noNotify, dpc, isr, kick} \subseteq BOOLEAN
    /\ pc \in {"idle", "notify", "kick", "drain", "enable", "recheck"}
    /\ device \in {"asleep", "awake", "arming"}
    /\ completing \in {"none", "filled", "signal"}
    /\ \A f \in fetched : f.head \in Descs /\ f.segs \in Seq(Seg)
    /\ \A c \in Cookies : asked[c] \in Seq(Seg)

\* The fields keep their types and no descriptor is ever lost or shared: the
\* free list, walked for DescAvail
\* links, ends at VIRTQUEUE_END_OF_LIST, and together with the chains of the
\* outstanding requests it holds every descriptor exactly once.  A chain has
\* the length DescCount recorded for it (the ASSERT of VringDetachChain).
DescriptorsConserved ==
    /\ TypeOK
    /\ IsInjective(FreeList)
    /\ END_OF_LIST = IF descAvail = 0 THEN headFree ELSE desc[Last(FreeList)].next
    /\ \A d \in Descs :
           Cardinality({h \in Heads : d \in ToSet(Chain(h))})
               = IF d \in ToSet(FreeList) THEN 0 ELSE 1
    /\ \A d \in Descs : info[d].count = IF d \in Heads THEN Len(Chain(d)) ELSE 0

\* The device works on exactly what was submitted: whenever it fetches an
\* avail entry it finds all buffers of one outstanding request, in order and
\* with the right direction, however VirtqEnqueue and VirtqDequeue have
\* recycled descriptors and ring slots meanwhile.
DeviceSeesRequest ==
    \A f \in fetched :
        f.head \in Heads /\ f.segs = asked[info[f.head].cookie]

\* Unread completions are never forgotten: an interrupt or a DPC is on its
\* way, or the driver is draining and will test the used ring again.
NoLostInterrupt ==
    VirtqHasData =>
        \/ isr \/ dpc \/ completing = "signal"
        \/ pc \in {"drain", "enable", "recheck"}

\* The device never sleeps on a request it could see: VirtqHostNotify has
\* kicked it or is still going to.
NoLostKick ==
    device = "asleep" /\ lastAvail # availIdx =>
        kick \/ pc \in {"notify", "kick"}

\* The cookies of the completions the driver has not dequeued.
Done ==
    [i \in 1..(usedIdx - lastUsed) % Wrap |->
        info[usedRing[(lastUsed + i - 1) % Num]].cookie]

RQ == INSTANCE RequestQueue
          WITH owed <- {c \in Cookies : asked[c] # <<>>} \ ToSet(Done),
               done <- Done

\* The virtqueue implements RequestQueue: VirtqDequeue hands back each
\* submitted cookie once, after its completion and in completion order, also
\* when the 16-bit indices wrap.
ImplementsRequestQueue == RQ!Spec

\* Every request the driver submits comes back to it.
EveryRequestReturns ==
    \A c \in Cookies : asked[c] # <<>> ~> asked[c] = <<>>

=============================================================================
