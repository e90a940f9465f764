-------------------------- MODULE ThreadQueueProofs --------------------------
(***************************************************************************)
(* Proofs about ThreadQueue, for every number of threads, every QUEUESIZE  *)
(* and every set of blocks.                                                *)
(***************************************************************************)
EXTENDS ThreadQueue, SequenceTheorems, FiniteSetTheorems, TLAPS

\* The index arithmetic of head and tail stays inside the array
\* (q.c:135-139, 175-179, 230-234).
LEMMA NextSlotInRange ==
  ASSUME NEW i \in Slots
  PROVE  NextSlot(i) \in Slots
BY QueueAssumption DEF NextSlot, Slots

\* NULL is neither a block nor a thread, and a thread has one role.
LEMMA Disjoint ==
  /\ NULL \notin Cells
  /\ NULL \notin Threads
  /\ \A p \in Producers : p \in Threads /\ p \notin Consumers
  /\ \A c \in Consumers : c \in Threads /\ c \notin Producers
BY QueueAssumption DEF Threads

LEMMA InitQueueInv == Init => QueueInv
<1> SUFFICES ASSUME Init PROVE QueueInv
  OBVIOUS
<1> USE QueueAssumption DEF Init
<1>1. TypeOK
  <2>1. head \in Slots /\ tail \in Slots
    BY DEF Slots
  <2>2. pc \in [Threads -> ProducerPC \cup ConsumerPC]
    BY DEF ProducerPC
  <2>3. /\ \A p \in Producers : pc[p] \in ProducerPC
        /\ \A c \in Consumers : pc[c] \in ConsumerPC
    BY DEF Threads, ProducerPC, ConsumerPC
  <2> QED BY <2>1, <2>2, <2>3 DEF TypeOK
<1>2. RingInv
  BY DEF RingInv
<1>3. LockInv
  BY DEF LockInv, Threads
<1>4. ItemInv
  BY DEF ItemInv, Threads
<1> QED BY <1>1, <1>2, <1>3, <1>4 DEF QueueInv

\* A signal only moves program counters: the signaller's to after, and
\* perhaps that of one thread that waits.
LEMMA SignalEffect ==
  ASSUME NEW t \in Threads, NEW after, NEW wait, NEW relock,
         pc \in [Threads -> ProducerPC \cup ConsumerPC],
         Signal(t, after, wait, relock), pc[t] # wait
  PROVE  /\ pc' = [u \in Threads |-> pc'[u]]
         /\ pc'[t] = after
         /\ \A u \in Threads \ {t} :
              pc'[u] = pc[u] \/ (pc[u] = wait /\ pc'[u] = relock)
BY DEF Signal, Goto, At

LEMMA ProducerStepQueueInv ==
  ASSUME QueueInv, NEW p \in Producers, ProducerStep(p)
  PROVE  QueueInv'
<1> USE Disjoint DEF QueueInv
<1>1. CASE QueueDataInit(p)
  <2> USE <1>1 DEF QueueDataInit, At, Goto, ring
  <2>1. TypeOK' BY DEF TypeOK, ProducerPC
  <2>2. RingInv' BY DEF RingInv
  <2>3. LockInv' BY DEF LockInv, TypeOK
  <2>4. ItemInv' BY DEF ItemInv, TypeOK
  <2> QED BY <2>1, <2>2, <2>3, <2>4
<1>2. CASE AddLock(p)
  <2> USE <1>2 DEF AddLock, At, Goto, ring
  <2>1. TypeOK' BY DEF TypeOK, ProducerPC
  <2>2. RingInv' BY DEF RingInv
  <2>3. LockInv' BY DEF LockInv, TypeOK
  <2>4. ItemInv' BY DEF ItemInv, TypeOK
  <2> QED BY <2>1, <2>2, <2>3, <2>4
<1>3. CASE AddWait(p)
  <2> USE <1>3 DEF AddWait, At, Goto, ring
  <2>1. TypeOK' BY DEF TypeOK, ProducerPC
  <2>2. RingInv' BY DEF RingInv
  <2>3. LockInv' BY DEF LockInv, TypeOK
  <2>4. ItemInv' BY DEF ItemInv, TypeOK
  <2> QED BY <2>1, <2>2, <2>3, <2>4
<1>4. CASE AddStore(p)
  <2> USE <1>4 DEF AddStore, At, Goto
  <2>0. item[p] \in Cells
    BY DEF ItemInv, TypeOK
  <2>1. TypeOK' BY <2>0, NextSlotInRange DEF TypeOK, ProducerPC
  <2>2. RingInv' BY DEF RingInv
  <2>3. LockInv' BY DEF LockInv, TypeOK
  <2>4. mut = p
    BY DEF LockInv
  <2>5. \A c \in Consumers : pc[c] # "remClock"
    BY <2>4 DEF LockInv
  <2>6. ItemInv' BY <2>5 DEF ItemInv, TypeOK
  <2> QED BY <2>1, <2>2, <2>3, <2>6
<1>5. CASE AddSignal(p)
  <2>1. /\ pc[p] = "addSignal"
        /\ UNCHANGED <<buf, head, tail, full, empty, mut, heap, item, timed>>
    BY <1>5 DEF AddSignal, At, ring
  <2>2. /\ pc' = [u \in Threads |-> pc'[u]]
        /\ pc'[p] = "idle"
        /\ \A u \in Threads \ {p} :
             pc'[u] = pc[u] \/ (pc[u] = "remWait" /\ pc'[u] = "remLock")
    BY <1>5, <2>1, SignalEffect DEF AddSignal, TypeOK
  <2>3. \A u \in Producers : u # p => pc'[u] = pc[u]
    BY <2>2 DEF TypeOK, ProducerPC
  <2>4. TypeOK' BY <2>1, <2>2, <2>3 DEF TypeOK, ProducerPC, ConsumerPC, Threads
  <2>5. RingInv' BY <2>1 DEF RingInv
  <2>6. LockInv' BY <2>1, <2>2 DEF LockInv
  <2>7. ItemInv' BY <2>1, <2>2, <2>3 DEF ItemInv
  <2> QED BY <2>4, <2>5, <2>6, <2>7
<1> QED BY <1>1, <1>2, <1>3, <1>4, <1>5 DEF ProducerStep

LEMMA ConsumerStepQueueInv ==
  ASSUME QueueInv, NEW c \in Consumers, ConsumerStep(c)
  PROVE  QueueInv'
<1> USE Disjoint DEF QueueInv
<1>1. CASE RemCall(c)
  <2> USE <1>1 DEF RemCall, At, Goto, ring
  <2>1. TypeOK' BY DEF TypeOK, ConsumerPC
  <2>2. RingInv' BY DEF RingInv
  <2>3. LockInv' BY DEF LockInv, TypeOK
  <2>4. ItemInv' BY DEF ItemInv, TypeOK
  <2> QED BY <2>1, <2>2, <2>3, <2>4
<1>2. CASE RemLock(c)
  <2> USE <1>2 DEF RemLock, At, Goto, ring
  <2>1. TypeOK' BY DEF TypeOK, ConsumerPC
  <2>2. RingInv' BY DEF RingInv
  <2>3. LockInv' BY DEF LockInv, TypeOK
  <2>4. ItemInv' BY DEF ItemInv, TypeOK
  <2> QED BY <2>1, <2>2, <2>3, <2>4
<1>3. CASE RemWait(c)
  <2> USE <1>3 DEF RemWait, At, Goto, ring
  <2>1. TypeOK' BY DEF TypeOK, ConsumerPC
  <2>2. RingInv' BY DEF RingInv
  <2>3. LockInv' BY DEF LockInv, TypeOK
  <2>4. ItemInv' BY DEF ItemInv, TypeOK
  <2> QED BY <2>1, <2>2, <2>3, <2>4
<1>4. CASE RemDeadline(c)
  <2> USE <1>4 DEF RemDeadline, At, Goto, ring
  <2>1. TypeOK' BY DEF TypeOK, ConsumerPC
  <2>2. RingInv' BY DEF RingInv
  <2>3. LockInv' BY DEF LockInv, TypeOK
  <2>4. ItemInv' BY DEF ItemInv, TypeOK
  <2> QED BY <2>1, <2>2, <2>3, <2>4
<1>5. CASE RemTimedWait(c)
  <2> USE <1>5 DEF RemTimedWait, At, Goto, ring
  <2>1. TypeOK' BY DEF TypeOK, ConsumerPC
  <2>2. RingInv' BY DEF RingInv
  <2>3. LockInv' BY DEF LockInv, TypeOK
  <2>4. ItemInv' BY DEF ItemInv, TypeOK
  <2> QED BY <2>1, <2>2, <2>3, <2>4
<1>6. CASE RemInvalidDeadline(c)
  <2> USE <1>6 DEF RemInvalidDeadline, At, Goto, ring
  <2>1. TypeOK' BY DEF TypeOK, ConsumerPC
  <2>2. RingInv' BY DEF RingInv
  <2>3. LockInv' BY DEF LockInv, TypeOK
  <2>4. ItemInv' BY DEF ItemInv, TypeOK
  <2> QED BY <2>1, <2>2, <2>3, <2>4
<1>7. CASE RemTimeout(c)
  <2> USE <1>7 DEF RemTimeout, At, Goto, ring
  <2>1. TypeOK' BY DEF TypeOK, ConsumerPC
  <2>2. RingInv' BY DEF RingInv
  <2>3. LockInv' BY DEF LockInv, TypeOK
  <2>4. ItemInv' BY DEF ItemInv, TypeOK
  <2> QED BY <2>1, <2>2, <2>3, <2>4
<1>8. CASE RemReturnErr(c)
  <2> USE <1>8 DEF RemReturnErr, At, Goto, ring
  <2>1. TypeOK' BY DEF TypeOK, ConsumerPC
  <2>2. RingInv' BY DEF RingInv
  <2>3. LockInv' BY DEF LockInv, TypeOK
  <2>4. ItemInv' BY DEF ItemInv, TypeOK
  <2> QED BY <2>1, <2>2, <2>3, <2>4
<1>9. CASE RemTake(c)
  <2> USE <1>9 DEF RemTake, At, Goto
  <2>1. TypeOK' BY NextSlotInRange DEF TypeOK, ConsumerPC
  <2>2. RingInv' BY DEF RingInv
  <2>3. LockInv' BY DEF LockInv, TypeOK
  <2>4. buf[head] \in Cells
    BY DEF TypeOK
  <2>5. \A k \in Consumers : pc[k] # "remClock"
    BY DEF LockInv
  <2>6. ItemInv' BY <2>4, <2>5 DEF ItemInv, TypeOK
  <2> QED BY <2>1, <2>2, <2>3, <2>6
<1>10. CASE RemSignal(c)
  <2>1. /\ pc[c] = "remSignal"
        /\ UNCHANGED <<buf, head, tail, full, empty, mut, heap, item, timed>>
    BY <1>10 DEF RemSignal, At, ring
  <2>2. /\ pc' = [u \in Threads |-> pc'[u]]
        /\ pc'[c] = "use"
        /\ \A u \in Threads \ {c} :
             pc'[u] = pc[u] \/ (pc[u] = "addWait" /\ pc'[u] = "addLock")
    BY <1>10, <2>1, SignalEffect DEF RemSignal, TypeOK
  <2>3. \A u \in Consumers : u # c => pc'[u] = pc[u]
    BY <2>2 DEF TypeOK, ConsumerPC
  <2>4. TypeOK' BY <2>1, <2>2, <2>3 DEF TypeOK, ProducerPC, ConsumerPC, Threads
  <2>5. RingInv' BY <2>1 DEF RingInv
  <2>6. LockInv' BY <2>1, <2>2 DEF LockInv
  <2>7. ItemInv' BY <2>1, <2>2, <2>3 DEF ItemInv
  <2> QED BY <2>4, <2>5, <2>6, <2>7
<1>11. CASE QueueDataDeInit(c)
  <2> USE <1>11 DEF QueueDataDeInit, At, Goto, ring
  <2>1. TypeOK' BY DEF TypeOK, ConsumerPC
  <2>2. RingInv' BY DEF RingInv
  <2>3. LockInv' BY DEF LockInv, TypeOK
  <2>4. ItemInv' BY DEF ItemInv, TypeOK
  <2> QED BY <2>1, <2>2, <2>3, <2>4
<1> QED BY <1>1, <1>2, <1>3, <1>4, <1>5, <1>6, <1>7, <1>8, <1>9, <1>10, <1>11
        DEF ConsumerStep

LEMMA WakeupQueueInv ==
  ASSUME QueueInv, NEW t \in Threads, SpuriousWakeup(t)
  PROVE  QueueInv'
<1> USE Disjoint DEF QueueInv, SpuriousWakeup, At, Goto, ring
<1>1. TypeOK' BY DEF TypeOK, ProducerPC, ConsumerPC, Threads
<1>2. RingInv' BY DEF RingInv
<1>3. LockInv' BY DEF LockInv, TypeOK
<1>4. ItemInv' BY DEF ItemInv, TypeOK
<1> QED BY <1>1, <1>2, <1>3, <1>4

\* The flags, indices, mutex and owners of the queue always agree, for every
\* number of threads and every QUEUESIZE (q.c:111-245).
THEOREM QueueInvariant == Spec => []QueueInv
<1>1. Init => QueueInv
  BY InitQueueInv
<1>2. QueueInv /\ [Next]_vars => QueueInv'
  <2> SUFFICES ASSUME QueueInv, [Next]_vars PROVE QueueInv'
    OBVIOUS
  <2>1. CASE Next
    BY <2>1, ProducerStepQueueInv, ConsumerStepQueueInv, WakeupQueueInv DEF Next
  <2>2. CASE UNCHANGED vars
    BY <2>2 DEF vars, QueueInv, TypeOK, RingInv, LockInv, ItemInv
  <2> QED BY <2>1, <2>2
<1> QED BY <1>1, <1>2, PTL DEF Spec

-----------------------------------------------------------------------------
(* What one store and one take do to the ring.                             *)

LEMMA CountRange ==
  ASSUME QueueInv
  PROVE  /\ Count \in 0 .. QUEUESIZE
         /\ Count = QUEUESIZE <=> full
         /\ Count = 0 <=> empty
BY QueueAssumption DEF QueueInv, TypeOK, RingInv, Slots, Count

LEMMA SlotOfInRange ==
  ASSUME QueueInv, NEW i \in 1 .. QUEUESIZE
  PROVE  SlotOf(i) \in Slots
BY QueueAssumption DEF QueueInv, TypeOK, Slots, SlotOf

\* A store puts the slot behind the newest element, which was free, into the
\* ring (q.c:134-144).
LEMMA StoreRing ==
  ASSUME QueueInv, ~full,
         tail' = NextSlot(tail), full' = (tail' = head), head' = head
  PROVE  /\ Count' = Count + 1
         /\ tail \notin LiveSlots
         /\ LiveSlots' = LiveSlots \cup {tail}
         /\ SlotOf(Count + 1) = tail
         /\ \A i \in 1 .. Count : SlotOf(i)' = SlotOf(i) /\ SlotOf(i) # tail
<1> USE QueueAssumption DEF QueueInv, TypeOK, RingInv, Slots, NextSlot, Offset
<1>0. full' <=> NextSlot(tail) = head
  OBVIOUS
<1>1. Count' = Count + 1
  <2>1. CASE NextSlot(tail) = head
    <3>1. Count' = QUEUESIZE
      BY <1>0, <2>1 DEF Count
    <3>2. Count = QUEUESIZE - 1
      BY <2>1 DEF Count
    <3> QED BY <3>1, <3>2
  <2>2. CASE NextSlot(tail) # head
    BY <1>0, <2>2 DEF Count
  <2> QED BY <2>1, <2>2
<1>2. tail \notin LiveSlots
  BY DEF Count, LiveSlots
<1>3. LiveSlots' = LiveSlots \cup {tail}
  <2>1. \A s \in Slots : (Offset(s) < Count)' <=> (Offset(s) < Count \/ s = tail)
    BY <1>1 DEF Count
  <2> QED BY <2>1, <1>1 DEF LiveSlots
<1>4. SlotOf(Count + 1) = tail
  BY DEF Count, SlotOf
<1>5. \A i \in 1 .. Count : SlotOf(i)' = SlotOf(i) /\ SlotOf(i) # tail
  BY DEF Count, SlotOf
<1> QED BY <1>1, <1>2, <1>3, <1>4, <1>5

\* A take removes the slot of the oldest element from the ring
\* (q.c:173-184, 228-239).
LEMMA TakeRing ==
  ASSUME QueueInv, ~empty,
         head' = NextSlot(head), full' = FALSE, tail' = tail
  PROVE  /\ Count' = Count - 1
         /\ head \in LiveSlots
         /\ LiveSlots' = LiveSlots \ {head}
         /\ SlotOf(1) = head
         /\ \A i \in 1 .. Count - 1 : SlotOf(i)' = SlotOf(i + 1)
<1> USE QueueAssumption DEF QueueInv, TypeOK, RingInv, Slots, NextSlot, Offset
<1>1. Count' = Count - 1
  BY DEF Count
<1>2. head \in LiveSlots
  BY DEF Count, LiveSlots
<1>3. LiveSlots' = LiveSlots \ {head}
  <2>1. \A s \in Slots : (Offset(s) < Count)' <=> (Offset(s) < Count /\ s # head)
    BY DEF Count
  <2> QED BY <2>1, <1>1 DEF LiveSlots
<1>4. SlotOf(1) = head
  BY DEF SlotOf
<1>5. \A i \in 1 .. Count - 1 : SlotOf(i)' = SlotOf(i + 1)
  BY DEF Count, SlotOf
<1> QED BY <1>1, <1>2, <1>3, <1>4, <1>5

-----------------------------------------------------------------------------
(* Ownership: one step per action that moves a block.                      *)

LEMMA OwnedUnchanged ==
  ASSUME OwnedOnce, UNCHANGED <<buf, head, tail, full, heap, item>>
  PROVE  OwnedOnce'
BY DEF OwnedOnce, Holders, LiveSlots, Offset, Count

LEMMA AllocKeepsOwned ==
  ASSUME QueueInv, OwnedOnce, NEW p \in Producers, QueueDataInit(p)
  PROVE  OwnedOnce'
<1> USE Disjoint DEF QueueInv, TypeOK
<1>1. PICK d \in Cells \ heap :
        heap' = heap \cup {d} /\ item' = [item EXCEPT ![p] = d]
  BY DEF QueueDataInit
<1>2. LiveSlots' = LiveSlots /\ buf' = buf
  BY DEF QueueDataInit, ring, LiveSlots, Offset, Count
<1>3. item[p] = NULL
  BY DEF QueueDataInit, At, ItemInv
<1>4. Holders' = Holders \cup {p} /\ p \notin Holders
  BY <1>1, <1>3 DEF Holders
<1>5. /\ \A t \in Holders : item'[t] = item[t] /\ item[t] # d
      /\ item'[p] = d
      /\ \A s \in LiveSlots : buf[s] # d
  BY <1>1, <1>4 DEF OwnedOnce, Holders
<1>6. heap' = {item'[t] : t \in Holders'} \cup {buf'[s] : s \in LiveSlots'}
  BY <1>1, <1>2, <1>4, <1>5 DEF OwnedOnce
<1>7. \A t, u \in Holders' : item'[t] = item'[u] => t = u
  BY <1>4, <1>5 DEF OwnedOnce
<1>8. \A t \in Holders', s \in LiveSlots' : item'[t] # buf'[s]
  BY <1>2, <1>4, <1>5 DEF OwnedOnce
<1> QED BY <1>2, <1>6, <1>7, <1>8 DEF OwnedOnce

LEMMA StoreKeepsOwned ==
  ASSUME QueueInv, OwnedOnce, NEW p \in Producers, AddStore(p)
  PROVE  OwnedOnce'
<1> USE Disjoint DEF QueueInv, TypeOK
<1>1. /\ buf' = [buf EXCEPT ![tail] = item[p]]
      /\ item' = [item EXCEPT ![p] = NULL]
      /\ heap' = heap
  BY DEF AddStore
<1>2. tail \notin LiveSlots /\ LiveSlots' = LiveSlots \cup {tail}
  BY StoreRing DEF AddStore
<1>3. p \in Holders
  BY DEF AddStore, At, ItemInv, Holders
<1>4. Holders' = Holders \ {p}
  BY <1>1 DEF Holders
<1>5. /\ \A t \in Holders' : item'[t] = item[t]
      /\ \A s \in LiveSlots : buf'[s] = buf[s]
      /\ buf'[tail] = item[p]
  BY <1>1, <1>2, <1>4 DEF Holders, LiveSlots
<1>6. heap' = {item'[t] : t \in Holders'} \cup {buf'[s] : s \in LiveSlots'}
  BY <1>1, <1>2, <1>3, <1>4, <1>5 DEF OwnedOnce
<1>7. \A t, u \in Holders' : item'[t] = item'[u] => t = u
  BY <1>4, <1>5 DEF OwnedOnce
<1>8. \A r, s \in LiveSlots' : buf'[r] = buf'[s] => r = s
  BY <1>2, <1>3, <1>5 DEF OwnedOnce
<1>9. \A t \in Holders', s \in LiveSlots' : item'[t] # buf'[s]
  BY <1>2, <1>3, <1>4, <1>5 DEF OwnedOnce
<1> QED BY <1>6, <1>7, <1>8, <1>9 DEF OwnedOnce

LEMMA TakeKeepsOwned ==
  ASSUME QueueInv, OwnedOnce, NEW c \in Consumers, RemTake(c)
  PROVE  OwnedOnce'
<1> USE Disjoint DEF QueueInv, TypeOK
<1>1. /\ item' = [item EXCEPT ![c] = buf[head]]
      /\ heap' = heap
      /\ buf' = buf
  BY DEF RemTake
<1>2. head \in LiveSlots /\ LiveSlots' = LiveSlots \ {head}
  BY TakeRing DEF RemTake
<1>3. item[c] = NULL /\ buf[head] # NULL
  BY DEF RemTake, At, ItemInv
<1>4. Holders' = Holders \cup {c} /\ c \notin Holders
  BY <1>1, <1>3 DEF Holders
<1>5. item'[c] = buf[head] /\ \A t \in Holders : item'[t] = item[t]
  BY <1>1, <1>4 DEF Holders
<1>6. heap' = {item'[t] : t \in Holders'} \cup {buf'[s] : s \in LiveSlots'}
  BY <1>1, <1>2, <1>4, <1>5 DEF OwnedOnce
<1>7. \A t, u \in Holders' : item'[t] = item'[u] => t = u
  BY <1>2, <1>4, <1>5 DEF OwnedOnce
<1>8. \A r, s \in LiveSlots' : buf'[r] = buf'[s] => r = s
  BY <1>1, <1>2 DEF OwnedOnce
<1>9. \A t \in Holders', s \in LiveSlots' : item'[t] # buf'[s]
  BY <1>1, <1>2, <1>4, <1>5 DEF OwnedOnce
<1> QED BY <1>6, <1>7, <1>8, <1>9 DEF OwnedOnce

LEMMA FreeKeepsOwned ==
  ASSUME QueueInv, OwnedOnce, NEW c \in Consumers, QueueDataDeInit(c)
  PROVE  OwnedOnce'
<1> USE Disjoint DEF QueueInv, TypeOK
<1>1. /\ item' = [item EXCEPT ![c] = NULL]
      /\ heap' = heap \ {item[c]}
  BY DEF QueueDataDeInit
<1>2. LiveSlots' = LiveSlots /\ buf' = buf
  BY DEF QueueDataDeInit, ring, LiveSlots, Offset, Count
<1>3. c \in Holders
  BY DEF QueueDataDeInit, At, ItemInv, Holders
<1>4. Holders' = Holders \ {c}
  BY <1>1 DEF Holders
<1>5. \A t \in Holders' : item'[t] = item[t] /\ item[t] # item[c]
  BY <1>1, <1>3, <1>4 DEF Holders, OwnedOnce
<1>6. heap' = {item'[t] : t \in Holders'} \cup {buf'[s] : s \in LiveSlots'}
  BY <1>1, <1>2, <1>3, <1>4, <1>5 DEF OwnedOnce
<1>7. \A t, u \in Holders' : item'[t] = item'[u] => t = u
  BY <1>4, <1>5 DEF OwnedOnce
<1>8. \A t \in Holders', s \in LiveSlots' : item'[t] # buf'[s]
  BY <1>2, <1>4, <1>5 DEF OwnedOnce
<1> QED BY <1>2, <1>6, <1>7, <1>8 DEF OwnedOnce

LEMMA NextKeepsOwned ==
  ASSUME QueueInv, OwnedOnce, [Next]_vars
  PROVE  OwnedOnce'
<1>1. ASSUME NEW p \in Producers, ProducerStep(p) PROVE OwnedOnce'
  <2>1. CASE QueueDataInit(p)
    BY <2>1, AllocKeepsOwned
  <2>2. CASE AddStore(p)
    BY <2>2, StoreKeepsOwned
  <2>3. CASE AddLock(p) \/ AddWait(p) \/ AddSignal(p)
    BY <2>3, OwnedUnchanged DEF AddLock, AddWait, AddSignal, ring
  <2> QED BY <1>1, <2>1, <2>2, <2>3 DEF ProducerStep
<1>2. ASSUME NEW c \in Consumers, ConsumerStep(c) PROVE OwnedOnce'
  <2>1. CASE RemTake(c)
    BY <2>1, TakeKeepsOwned
  <2>2. CASE QueueDataDeInit(c)
    BY <2>2, FreeKeepsOwned
  <2>3. CASE \/ RemCall(c) \/ RemLock(c) \/ RemWait(c) \/ RemDeadline(c)
             \/ RemTimedWait(c) \/ RemInvalidDeadline(c) \/ RemTimeout(c)
             \/ RemReturnErr(c) \/ RemSignal(c)
    BY <2>3, OwnedUnchanged
       DEF RemCall, RemLock, RemWait, RemDeadline, RemTimedWait,
           RemInvalidDeadline, RemTimeout, RemReturnErr, RemSignal, ring
  <2> QED BY <1>2, <2>1, <2>2, <2>3 DEF ConsumerStep
<1>3. ASSUME NEW t \in Threads, SpuriousWakeup(t) PROVE OwnedOnce'
  BY <1>3, OwnedUnchanged DEF SpuriousWakeup, ring
<1>4. CASE UNCHANGED vars
  BY <1>4, OwnedUnchanged DEF vars
<1> QED BY <1>1, <1>2, <1>3, <1>4 DEF Next

\* No block is lost, owned twice or used after its disposal, for every number
\* of threads and every QUEUESIZE (q.c:134, 173, 228; lirc_thr.c:152-159).
THEOREM Ownership == Spec => []OwnedOnce
<1>1. Init => OwnedOnce
  BY QueueAssumption DEF Init, OwnedOnce, Holders, LiveSlots, Offset, Count, Slots
<1>2. QueueInv /\ OwnedOnce /\ [Next]_vars => OwnedOnce'
  BY NextKeepsOwned
<1> QED BY <1>1, <1>2, QueueInvariant, PTL DEF Spec

-----------------------------------------------------------------------------
(* The queue implements the FIFO.                                          *)

LEMMA QueuedSeq ==
  ASSUME QueueInv
  PROVE  /\ Queued \in Seq(Cells)
         /\ Len(Queued) = Count
         /\ DOMAIN Queued = 1 .. Count
         /\ \A i \in 1 .. Count : Queued[i] = buf[SlotOf(i)]
<1>1. Count \in Nat /\ Count <= QUEUESIZE
  BY CountRange, QueueAssumption
<1>2. \A i \in 1 .. Count : buf[SlotOf(i)] \in Cells
  BY <1>1, SlotOfInRange, QueueAssumption DEF QueueInv, TypeOK
<1> QED BY <1>1, <1>2 DEF Queued

\* The same of the next state.
LEMMA QueuedSeqNext ==
  QueueInv' => (Queued \in Seq(Cells) /\ Len(Queued) = Count)'
<1>1. QueueInv => Queued \in Seq(Cells) /\ Len(Queued) = Count
  BY QueuedSeq
<1> QED BY <1>1, PTL

\* A store appends.
LEMMA StoreAppends ==
  ASSUME QueueInv, QueueInv', NEW p \in Producers, AddStore(p)
  PROVE  Queued' = Append(Queued, item[p])
<1>1. PICK n \in Nat : n = Count
  BY CountRange
<1>2. /\ Count' = n + 1
      /\ SlotOf(n + 1) = tail
      /\ \A i \in 1 .. n : SlotOf(i)' = SlotOf(i) /\ SlotOf(i) # tail
  BY <1>1, StoreRing DEF AddStore
<1>3. /\ tail \in Slots
      /\ item[p] \in Cells
      /\ buf \in [Slots -> Cells]
      /\ buf' = [buf EXCEPT ![tail] = item[p]]
  BY Disjoint DEF AddStore, At, QueueInv, TypeOK, ItemInv
<1>4. SlotOf(n + 1)' = tail
  BY <1>2 DEF SlotOf, AddStore
<1>5. \A i \in 1 .. n : buf'[SlotOf(i)'] = buf[SlotOf(i)]
  <2>1. \A i \in 1 .. n : SlotOf(i) \in Slots
    BY <1>1, SlotOfInRange, CountRange, QueueAssumption
  <2> QED BY <2>1, <1>2, <1>3
<1>6. buf'[SlotOf(n + 1)'] = item[p]
  BY <1>3, <1>4
<1>7. Queued \in Seq(Cells) /\ Len(Queued) = n
  BY <1>1, QueuedSeq
<1>8. Queued' \in Seq(Cells) /\ Len(Queued') = n + 1
  BY <1>2, QueuedSeqNext
<1>9. /\ \A i \in 1 .. n : Queued'[i] = Queued[i]
      /\ Queued'[n + 1] = item[p]
  BY <1>1, <1>2, <1>5, <1>6 DEF Queued
<1>10. /\ Append(Queued, item[p]) \in Seq(Cells)
       /\ Len(Append(Queued, item[p])) = n + 1
       /\ \A i \in 1 .. n : Append(Queued, item[p])[i] = Queued[i]
       /\ Append(Queued, item[p])[n + 1] = item[p]
  BY <1>3, <1>7, AppendProperties
<1>11. \A i \in 1 .. n + 1 : Queued'[i] = Append(Queued, item[p])[i]
  BY <1>9, <1>10
<1> QED BY <1>8, <1>10, <1>11, SeqEqual

\* A take returns the head and leaves the tail.
LEMMA TakePops ==
  ASSUME QueueInv, QueueInv', NEW c \in Consumers, RemTake(c)
  PROVE  /\ Queued # <<>>
         /\ buf[head] = Head(Queued)
         /\ Queued' = Tail(Queued)
<1>1. PICK n \in Nat : n = Count
  BY CountRange
<1>2. /\ Count' = n - 1
      /\ SlotOf(1) = head
      /\ \A i \in 1 .. n - 1 : SlotOf(i)' = SlotOf(i + 1)
  BY <1>1, TakeRing DEF RemTake
<1>3. n # 0 /\ buf' = buf
  BY <1>1, CountRange DEF RemTake
<1>4. /\ Queued \in Seq(Cells)
      /\ Len(Queued) = n
      /\ \A i \in 1 .. n : Queued[i] = buf[SlotOf(i)]
  BY <1>1, QueuedSeq
<1>5. Queued # <<>> /\ buf[head] = Head(Queued)
  BY <1>2, <1>3, <1>4
<1>6. /\ Tail(Queued) \in Seq(Cells)
      /\ Len(Tail(Queued)) = n - 1
      /\ \A i \in 1 .. n - 1 : Tail(Queued)[i] = Queued[i + 1]
  BY <1>4, <1>5, HeadTailProperties
<1>7. Queued' \in Seq(Cells) /\ Len(Queued') = n - 1
  BY <1>2, QueuedSeqNext
<1>8. \A i \in 1 .. n - 1 : Queued'[i] = buf[SlotOf(i + 1)]
  BY <1>2, <1>3 DEF Queued
<1>9. \A i \in 1 .. n - 1 : Queued'[i] = Tail(Queued)[i]
  BY <1>4, <1>6, <1>8
<1> QED BY <1>5, <1>6, <1>7, <1>9, SeqEqual

LEMMA QueuedUnchanged ==
  ASSUME UNCHANGED <<buf, head, tail, full>>
  PROVE  UNCHANGED Queued
<1>1. Count' = Count
  BY DEF Count
<1>2. \A i \in 1 .. Count : SlotOf(i)' = SlotOf(i)
  BY DEF SlotOf
<1> QED BY <1>1, <1>2 DEF Queued

LEMMA FifoStutters ==
  ASSUME UNCHANGED <<buf, head, tail, full, item>>
  PROVE  UNCHANGED Fifo!fifoVars
BY QueuedUnchanged DEF Fifo!fifoVars

LEMMA NextImplementsFifo ==
  ASSUME QueueInv, QueueInv', OwnedOnce, [Next]_vars
  PROVE  [Fifo!Next]_(Fifo!fifoVars)
<1> USE Disjoint DEF QueueInv, TypeOK
<1>1. ASSUME NEW p \in Producers, QueueDataInit(p) PROVE Fifo!Offer(p)
  <2>1. PICK d \in Cells \ heap : item' = [item EXCEPT ![p] = d]
    BY <1>1 DEF QueueDataInit
  <2>2. Queued' = Queued
    BY <1>1, QueuedUnchanged DEF QueueDataInit, ring
  <2>3. item[p] = NULL
    BY <1>1 DEF QueueDataInit, At, ItemInv
  <2>4. \A i \in DOMAIN Queued : Queued[i] \in heap
    <3>1. \A i \in 1 .. Count : SlotOf(i) \in LiveSlots
      <4> SUFFICES ASSUME NEW i \in 1 .. Count PROVE SlotOf(i) \in LiveSlots
        OBVIOUS
      <4>1. SlotOf(i) \in Slots
        BY SlotOfInRange, CountRange, QueueAssumption
      <4>2. Offset(SlotOf(i)) = i - 1
        BY CountRange, QueueAssumption DEF Offset, SlotOf, Slots
      <4> QED BY <4>1, <4>2, CountRange, QueueAssumption DEF LiveSlots
    <3> QED BY <3>1, QueuedSeq DEF OwnedOnce
  <2>5. \A t \in Threads : item[t] = NULL \/ item[t] \in heap
    BY DEF OwnedOnce, Holders
  <2>6. d \notin Fifo!Owned
    BY <2>4, <2>5 DEF Fifo!Owned
  <2>7. [q \in Producers |-> item'[q]]
          = [[q \in Producers |-> item[q]] EXCEPT ![p] = d]
    BY <2>1
  <2>8. [c \in Consumers |-> item'[c]] = [c \in Consumers |-> item[c]]
    BY <2>1
  <2> QED BY <2>1, <2>2, <2>3, <2>6, <2>7, <2>8 DEF Fifo!Offer
<1>2. ASSUME NEW p \in Producers, AddStore(p) PROVE Fifo!Put(p)
  <2>1. item[p] # NULL /\ item' = [item EXCEPT ![p] = NULL]
    BY <1>2 DEF AddStore, At, ItemInv
  <2>2. Len(Queued) < QUEUESIZE
    BY <1>2, QueuedSeq, CountRange, QueueAssumption DEF AddStore
  <2>3. Queued' = Append(Queued, item[p])
    BY <1>2, StoreAppends
  <2>4. [q \in Producers |-> item'[q]]
          = [[q \in Producers |-> item[q]] EXCEPT ![p] = NULL]
    BY <2>1
  <2>5. [c \in Consumers |-> item'[c]] = [c \in Consumers |-> item[c]]
    BY <2>1
  <2> QED BY <2>1, <2>2, <2>3, <2>4, <2>5 DEF Fifo!Put
<1>3. ASSUME NEW c \in Consumers, RemTake(c) PROVE Fifo!Get(c)
  <2>1. item[c] = NULL /\ item' = [item EXCEPT ![c] = buf[head]]
    BY <1>3 DEF RemTake, At, ItemInv
  <2>2. Queued # <<>> /\ buf[head] = Head(Queued) /\ Queued' = Tail(Queued)
    BY <1>3, TakePops
  <2>3. [k \in Consumers |-> item'[k]]
          = [[k \in Consumers |-> item[k]] EXCEPT ![c] = buf[head]]
    BY <2>1
  <2>4. [p \in Producers |-> item'[p]] = [p \in Producers |-> item[p]]
    BY <2>1
  <2> QED BY <2>1, <2>2, <2>3, <2>4 DEF Fifo!Get
<1>4. ASSUME NEW c \in Consumers, QueueDataDeInit(c) PROVE Fifo!Dispose(c)
  <2>1. item[c] # NULL /\ item' = [item EXCEPT ![c] = NULL]
    BY <1>4 DEF QueueDataDeInit, At, ItemInv
  <2>2. Queued' = Queued
    BY <1>4, QueuedUnchanged DEF QueueDataDeInit, ring
  <2>3. [k \in Consumers |-> item'[k]]
          = [[k \in Consumers |-> item[k]] EXCEPT ![c] = NULL]
    BY <2>1
  <2>4. [p \in Producers |-> item'[p]] = [p \in Producers |-> item[p]]
    BY <2>1
  <2> QED BY <2>1, <2>2, <2>3, <2>4 DEF Fifo!Dispose
<1>5. ASSUME NEW p \in Producers, AddLock(p) \/ AddWait(p) \/ AddSignal(p)
      PROVE  UNCHANGED Fifo!fifoVars
  BY <1>5, FifoStutters DEF AddLock, AddWait, AddSignal, ring
<1>6. ASSUME NEW c \in Consumers,
             \/ RemCall(c) \/ RemLock(c) \/ RemWait(c) \/ RemDeadline(c)
             \/ RemTimedWait(c) \/ RemInvalidDeadline(c) \/ RemTimeout(c)
             \/ RemReturnErr(c) \/ RemSignal(c)
      PROVE  UNCHANGED Fifo!fifoVars
  BY <1>6, FifoStutters
     DEF RemCall, RemLock, RemWait, RemDeadline, RemTimedWait,
         RemInvalidDeadline, RemTimeout, RemReturnErr, RemSignal, ring
<1>7. ASSUME NEW t \in Threads, SpuriousWakeup(t)
      PROVE  UNCHANGED Fifo!fifoVars
  BY <1>7, FifoStutters DEF SpuriousWakeup, ring
<1>8. CASE UNCHANGED vars
  BY <1>8, FifoStutters DEF vars
<1>9. CASE \E p \in Producers : ProducerStep(p)
  BY <1>9, <1>1, <1>2, <1>5 DEF ProducerStep, Fifo!Next
<1>10. CASE \E c \in Consumers : ConsumerStep(c)
  BY <1>10, <1>3, <1>4, <1>6 DEF ConsumerStep, Fifo!Next
<1> QED BY <1>7, <1>8, <1>9, <1>10 DEF Next

LEMMA InitImplementsFifo == Init => Fifo!Init
<1> SUFFICES ASSUME Init PROVE Fifo!Init
  OBVIOUS
<1>1. Count = 0
  BY DEF Init, Count
<1>2. Queued = <<>>
  BY <1>1 DEF Queued
<1>3. /\ [p \in Producers |-> item[p]] = [p \in Producers |-> NULL]
      /\ [c \in Consumers |-> item[c]] = [c \in Consumers |-> NULL]
  BY Disjoint DEF Init
<1> QED BY <1>2, <1>3 DEF Fifo!Init

\* The ring, its flags and the two remove functions implement a bounded FIFO,
\* for every number of threads and every QUEUESIZE (q.c:111-245).
THEOREM FifoRefinement == Spec => ImplementsFifo
<1>1. QueueInv /\ QueueInv' /\ OwnedOnce /\ [Next]_vars
        => [Fifo!Next]_(Fifo!fifoVars)
  BY NextImplementsFifo
<1> QED BY <1>1, InitImplementsFifo, QueueInvariant, Ownership, PTL
        DEF Spec, ImplementsFifo, Fifo!Spec
-----------------------------------------------------------------------------
(* Wakeups: every step moves one thread, a signal that finds a waiter two.  *)

\* The program counters f become g when thread t goes from label k to label l.
Moves(f, g, t, k, l) ==
  f[t] = k /\ g[t] = l /\ \A u \in Threads \ {t} : g[u] = f[u]

LEMMA GotoMoves ==
  ASSUME TypeOK, NEW t \in Threads, NEW l, Goto(t, l)
  PROVE  Moves(pc, pc', t, pc[t], l)
BY DEF Moves, Goto, TypeOK

\* The threads of T that the program counters f put at one of labels.
In(f, T, labels) == {t \in T : f[t] \in labels}

Counted(f, T, labels) == Cardinality(In(f, T, labels))

Hit(l, labels) == IF l \in labels THEN 1 ELSE 0

LEMMA CountedIsNat ==
  ASSUME NEW f, NEW T \in SUBSET Threads, NEW labels
  PROVE  IsFiniteSet(In(f, T, labels)) /\ Counted(f, T, labels) \in Nat
<1>1. IsFiniteSet(In(f, T, labels))
  <2>1. In(f, T, labels) \in SUBSET Threads
    BY DEF In
  <2> QED BY <2>1, QueueAssumption, FS_Subset
<1> QED BY <1>1, FS_CardinalityType DEF Counted

\* When a thread of T goes from label k to label l the count of a label set that
\* has l grows by one, and the count of one that has k shrinks by one.
LEMMA MoveCounts ==
  ASSUME NEW T \in SUBSET Threads, NEW t \in T,
         NEW f, NEW g, NEW k, NEW l, Moves(f, g, t, k, l), NEW labels
  PROVE  Counted(g, T, labels) = Counted(f, T, labels) + Hit(l, labels) - Hit(k, labels)
<1> DEFINE rest == In(f, T, labels) \ {t}
<1>1. In(g, T, labels) = IF l \in labels THEN rest \cup {t} ELSE rest
  BY DEF In, Moves
<1>2. In(f, T, labels) = IF k \in labels THEN rest \cup {t} ELSE rest
  BY DEF In, Moves
<1>3. IsFiniteSet(rest) /\ Cardinality(rest) \in Nat
  BY CountedIsNat, FS_RemoveElement, FS_CardinalityType
<1>4. Cardinality(rest \cup {t}) = Cardinality(rest) + 1
  BY <1>3, FS_AddElement
<1> HIDE DEF rest
<1>5. Counted(g, T, labels) = Cardinality(rest) + Hit(l, labels)
  BY <1>1, <1>3, <1>4 DEF Counted, Hit
<1>6. Counted(f, T, labels) = Cardinality(rest) + Hit(k, labels)
  BY <1>2, <1>3, <1>4 DEF Counted, Hit
<1> QED BY <1>3, <1>5, <1>6 DEF Hit

\* The four counts of NoLostWakeup, and its two halves.
Announced(f) == Counted(f, Producers, {"addSignal"})
Looking(f) == Counted(f, Consumers, {"remLock", "remTest"})
Freed(f) == Counted(f, Consumers, {"remSignal"})
Coming(f) == Counted(f, Producers, {"addLock", "addTest"})

Asleep(f, T, label) == \E t \in T : f[t] = label

ElementsSeen(f, n) ==
  Asleep(f, Consumers, "remWait") => n <= Announced(f) + Looking(f)
SlotsSeen(f, n) ==
  Asleep(f, Producers, "addWait") => n <= Freed(f) + Coming(f)

LEMMA HalvesOfNoLostWakeup ==
  /\ NoLostWakeup <=> ElementsSeen(pc, Count) /\ SlotsSeen(pc, QUEUESIZE - Count)
  /\ NoLostWakeup' <=> ElementsSeen(pc', Count') /\ SlotsSeen(pc', QUEUESIZE - Count')
BY DEF NoLostWakeup, ElementsSeen, SlotsSeen, Asleep, AtAny, Announced, Looking,
       Freed, Coming, Counted, In

LEMMA CountsAreNat ==
  ASSUME NEW f
  PROVE  /\ Announced(f) \in Nat /\ Looking(f) \in Nat
         /\ Freed(f) \in Nat /\ Coming(f) \in Nat
BY CountedIsNat DEF Announced, Looking, Freed, Coming, Threads

LEMMA ProducerMove ==
  ASSUME NEW p \in Producers, NEW f, NEW g, NEW k, NEW l, Moves(f, g, p, k, l)
  PROVE  /\ Announced(g) = Announced(f) + Hit(l, {"addSignal"}) - Hit(k, {"addSignal"})
         /\ Coming(g) = Coming(f) + Hit(l, {"addLock", "addTest"}) - Hit(k, {"addLock", "addTest"})
         /\ Looking(g) = Looking(f) /\ Freed(g) = Freed(f)
         /\ Asleep(g, Consumers, "remWait") <=> Asleep(f, Consumers, "remWait")
         /\ Asleep(g, Producers, "addWait")
              => l = "addWait" \/ Asleep(f, Producers, "addWait")
<1>1. /\ p \notin Consumers
      /\ Producers \in SUBSET Threads /\ Consumers \in SUBSET Threads
  BY Disjoint DEF Threads
<1>2. \A labels : Counted(g, Producers, labels)
                    = Counted(f, Producers, labels) + Hit(l, labels) - Hit(k, labels)
  BY <1>1, MoveCounts
<1>3. \A labels : In(g, Consumers, labels) = In(f, Consumers, labels)
  BY <1>1 DEF In, Moves
<1>4. Asleep(g, Consumers, "remWait") <=> Asleep(f, Consumers, "remWait")
  BY <1>1 DEF Asleep, Moves
<1>5. Asleep(g, Producers, "addWait") => l = "addWait" \/ Asleep(f, Producers, "addWait")
  BY <1>1 DEF Asleep, Moves
<1>6. Looking(g) = Looking(f) /\ Freed(g) = Freed(f)
  BY <1>3 DEF Looking, Freed, Counted
<1> QED BY <1>2, <1>4, <1>5, <1>6 DEF Announced, Coming

LEMMA ConsumerMove ==
  ASSUME NEW c \in Consumers, NEW f, NEW g, NEW k, NEW l, Moves(f, g, c, k, l)
  PROVE  /\ Freed(g) = Freed(f) + Hit(l, {"remSignal"}) - Hit(k, {"remSignal"})
         /\ Looking(g) = Looking(f) + Hit(l, {"remLock", "remTest"}) - Hit(k, {"remLock", "remTest"})
         /\ Announced(g) = Announced(f) /\ Coming(g) = Coming(f)
         /\ Asleep(g, Producers, "addWait") <=> Asleep(f, Producers, "addWait")
         /\ Asleep(g, Consumers, "remWait")
              => l = "remWait" \/ Asleep(f, Consumers, "remWait")
<1>1. /\ c \notin Producers
      /\ Consumers \in SUBSET Threads /\ Producers \in SUBSET Threads
  BY Disjoint DEF Threads
<1>2. \A labels : Counted(g, Consumers, labels)
                    = Counted(f, Consumers, labels) + Hit(l, labels) - Hit(k, labels)
  BY <1>1, MoveCounts
<1>3. \A labels : In(g, Producers, labels) = In(f, Producers, labels)
  BY <1>1 DEF In, Moves
<1>4. Asleep(g, Producers, "addWait") <=> Asleep(f, Producers, "addWait")
  BY <1>1 DEF Asleep, Moves
<1>5. Asleep(g, Consumers, "remWait") => l = "remWait" \/ Asleep(f, Consumers, "remWait")
  BY <1>1 DEF Asleep, Moves
<1>6. Announced(g) = Announced(f) /\ Coming(g) = Coming(f)
  BY <1>3 DEF Announced, Coming, Counted
<1> QED BY <1>2, <1>4, <1>5, <1>6 DEF Freed, Looking

\* A producer only goes to sleep, or leaves the queue alone, when it is full.
LEMMA QuietProducer ==
  ASSUME QueueInv, NoLostWakeup, NEW p \in Producers, NEW l,
         Goto(p, l), UNCHANGED ring, pc[p] # "addSignal",
         l = "addWait" => Count = QUEUESIZE,
         pc[p] \in {"addLock", "addTest"} => l \in {"addLock", "addTest"} \/ Count = QUEUESIZE
  PROVE  NoLostWakeup'
<1>1. Count \in 0 .. QUEUESIZE /\ QUEUESIZE \in Nat
  BY CountRange, QueueAssumption DEF QueueInv, TypeOK
<1>2. Count' = Count
  BY DEF Count, ring
<1>3. ElementsSeen(pc, Count) /\ SlotsSeen(pc, QUEUESIZE - Count)
  BY HalvesOfNoLostWakeup
<1>4. /\ Announced(pc') \in Nat /\ Looking(pc') \in Nat
      /\ Freed(pc') \in Nat /\ Coming(pc') \in Nat
      /\ Announced(pc) \in Nat /\ Looking(pc) \in Nat
      /\ Freed(pc) \in Nat /\ Coming(pc) \in Nat
  BY CountsAreNat
<1>5. Moves(pc, pc', p, pc[p], l)
  BY GotoMoves, Disjoint DEF QueueInv
<1>6. /\ Announced(pc') >= Announced(pc) /\ Looking(pc') = Looking(pc)
      /\ Freed(pc') = Freed(pc)
      /\ Coming(pc') >= Coming(pc) \/ Count = QUEUESIZE
      /\ Asleep(pc', Consumers, "remWait") => Asleep(pc, Consumers, "remWait")
      /\ Asleep(pc', Producers, "addWait")
           => Asleep(pc, Producers, "addWait") \/ Count = QUEUESIZE
  BY <1>4, <1>5, ProducerMove DEF Hit
<1> QED BY <1>1, <1>2, <1>3, <1>4, <1>6, HalvesOfNoLostWakeup
        DEF ElementsSeen, SlotsSeen

\* A consumer only goes to sleep, or leaves without an element, when there is none.
LEMMA QuietConsumer ==
  ASSUME QueueInv, NoLostWakeup, NEW c \in Consumers, NEW l,
         Goto(c, l), UNCHANGED ring, pc[c] # "remSignal",
         l = "remWait" => Count = 0,
         pc[c] \in {"remLock", "remTest"} => l \in {"remLock", "remTest"} \/ Count = 0
  PROVE  NoLostWakeup'
<1>1. Count \in 0 .. QUEUESIZE /\ QUEUESIZE \in Nat
  BY CountRange, QueueAssumption DEF QueueInv, TypeOK
<1>2. Count' = Count
  BY DEF Count, ring
<1>3. ElementsSeen(pc, Count) /\ SlotsSeen(pc, QUEUESIZE - Count)
  BY HalvesOfNoLostWakeup
<1>4. /\ Announced(pc') \in Nat /\ Looking(pc') \in Nat
      /\ Freed(pc') \in Nat /\ Coming(pc') \in Nat
      /\ Announced(pc) \in Nat /\ Looking(pc) \in Nat
      /\ Freed(pc) \in Nat /\ Coming(pc) \in Nat
  BY CountsAreNat
<1>5. Moves(pc, pc', c, pc[c], l)
  BY GotoMoves, Disjoint DEF QueueInv
<1>6. /\ Freed(pc') >= Freed(pc) /\ Coming(pc') = Coming(pc)
      /\ Announced(pc') = Announced(pc)
      /\ Looking(pc') >= Looking(pc) \/ Count = 0
      /\ Asleep(pc', Producers, "addWait") => Asleep(pc, Producers, "addWait")
      /\ Asleep(pc', Consumers, "remWait")
           => Asleep(pc, Consumers, "remWait") \/ Count = 0
  BY <1>4, <1>5, ConsumerMove DEF Hit
<1> QED BY <1>1, <1>2, <1>3, <1>4, <1>6, HalvesOfNoLostWakeup
        DEF ElementsSeen, SlotsSeen

LEMMA ProducerKeepsWakeups ==
  ASSUME QueueInv, NoLostWakeup, NEW p \in Producers, ProducerStep(p)
  PROVE  NoLostWakeup'
<1> USE DEF At
<1>1. Count \in 0 .. QUEUESIZE /\ QUEUESIZE \in Nat
  BY CountRange, QueueAssumption DEF QueueInv, TypeOK
<1>2. ElementsSeen(pc, Count) /\ SlotsSeen(pc, QUEUESIZE - Count)
  BY HalvesOfNoLostWakeup
<1>3. ASSUME NEW f
      PROVE  /\ Announced(f) \in Nat /\ Looking(f) \in Nat
             /\ Freed(f) \in Nat /\ Coming(f) \in Nat
  BY CountsAreNat
<1>4. p \in Threads /\ TypeOK
  BY Disjoint DEF QueueInv
<1>5. CASE QueueDataInit(p) \/ AddLock(p)
  BY <1>5, QuietProducer DEF QueueDataInit, AddLock
<1>6. CASE AddWait(p)
  <2>1. Count = QUEUESIZE
    BY <1>6, CountRange DEF AddWait
  <2> QED BY <1>6, <2>1, QuietProducer DEF AddWait
<1>7. CASE AddStore(p)
  <2>1. Moves(pc, pc', p, "addTest", "addSignal")
    BY <1>7, <1>4, GotoMoves DEF AddStore
  <2>2. Count' = Count + 1
    BY <1>7, StoreRing DEF AddStore
  <2>3. /\ Announced(pc') = Announced(pc) + 1 /\ Looking(pc') = Looking(pc)
        /\ Freed(pc') = Freed(pc) /\ Coming(pc') = Coming(pc) - 1
        /\ Asleep(pc', Consumers, "remWait") => Asleep(pc, Consumers, "remWait")
        /\ Asleep(pc', Producers, "addWait") => Asleep(pc, Producers, "addWait")
    BY <1>3, <2>1, ProducerMove DEF Hit
  <2> QED BY <1>1, <1>2, <1>3, <2>2, <2>3, HalvesOfNoLostWakeup
          DEF ElementsSeen, SlotsSeen
<1>8. CASE AddSignal(p)
  <2> DEFINE f == [pc EXCEPT ![p] = "idle"]
  <2>1. /\ Signal(p, "idle", "remWait", "remLock") /\ Count' = Count
        /\ Moves(pc, f, p, "addSignal", "idle")
    BY <1>8, <1>4 DEF AddSignal, ring, Count, Moves, TypeOK
  <2>2. /\ Announced(f) = Announced(pc) - 1 /\ Looking(f) = Looking(pc)
        /\ Freed(f) = Freed(pc) /\ Coming(f) = Coming(pc)
        /\ Asleep(f, Consumers, "remWait") <=> Asleep(pc, Consumers, "remWait")
        /\ Asleep(f, Producers, "addWait") => Asleep(pc, Producers, "addWait")
    BY <1>3, <2>1, ProducerMove DEF Hit
  <2>3. CASE pc' = f /\ \A u \in Threads : pc[u] # "remWait"
    <3>1. ~Asleep(pc', Consumers, "remWait")
      BY <2>2, <2>3 DEF Asleep, Threads
    <3> QED BY <1>1, <1>2, <1>3, <2>1, <2>2, <2>3, <3>1, HalvesOfNoLostWakeup
            DEF ElementsSeen, SlotsSeen
  <2>4. ASSUME NEW u \in Threads, pc[u] = "remWait",
               pc' = [pc EXCEPT ![p] = "idle", ![u] = "remLock"]
        PROVE  NoLostWakeup'
    <3>1. u \in Consumers /\ Asleep(pc, Consumers, "remWait")
      BY <2>4 DEF Asleep, Threads, QueueInv, TypeOK, ProducerPC
    <3>2. Moves(f, pc', u, "remWait", "remLock")
      BY <1>8, <1>4, <2>4 DEF AddSignal, Moves, TypeOK
    <3> HIDE DEF f
    <3>3. /\ Announced(pc') = Announced(f) /\ Looking(pc') = Looking(f) + 1
          /\ Freed(pc') = Freed(f) /\ Coming(pc') = Coming(f)
          /\ Asleep(pc', Producers, "addWait") => Asleep(f, Producers, "addWait")
      BY <1>3, <3>1, <3>2, ConsumerMove DEF Hit
    <3> QED BY <1>1, <1>2, <1>3, <2>1, <2>2, <3>1, <3>3, HalvesOfNoLostWakeup
            DEF ElementsSeen, SlotsSeen
  <2> QED BY <2>1, <2>3, <2>4 DEF Signal, Goto
<1> QED BY <1>5, <1>6, <1>7, <1>8 DEF ProducerStep

LEMMA ConsumerKeepsWakeups ==
  ASSUME QueueInv, NoLostWakeup, NEW c \in Consumers, ConsumerStep(c)
  PROVE  NoLostWakeup'
<1> USE DEF At
<1>1. Count \in 0 .. QUEUESIZE /\ QUEUESIZE \in Nat
  BY CountRange, QueueAssumption DEF QueueInv, TypeOK
<1>2. ElementsSeen(pc, Count) /\ SlotsSeen(pc, QUEUESIZE - Count)
  BY HalvesOfNoLostWakeup
<1>3. ASSUME NEW f
      PROVE  /\ Announced(f) \in Nat /\ Looking(f) \in Nat
             /\ Freed(f) \in Nat /\ Coming(f) \in Nat
  BY CountsAreNat
<1>4. c \in Threads /\ TypeOK
  BY Disjoint DEF QueueInv
<1>5. CASE RemCall(c) \/ RemLock(c) \/ RemInvalidDeadline(c) \/ RemTimeout(c)
           \/ RemReturnErr(c) \/ QueueDataDeInit(c)
  BY <1>5, QuietConsumer
     DEF RemCall, RemLock, RemInvalidDeadline, RemTimeout, RemReturnErr, QueueDataDeInit
<1>6. CASE RemWait(c) \/ RemDeadline(c) \/ RemTimedWait(c)
  <2>1. Count = 0
    BY <1>6, CountRange DEF RemWait, RemDeadline, RemTimedWait, QueueInv, ItemInv
  <2> QED BY <1>6, <2>1, QuietConsumer DEF RemWait, RemDeadline, RemTimedWait
<1>7. CASE RemTake(c)
  <2>1. Moves(pc, pc', c, "remTest", "remSignal")
    BY <1>7, <1>4, GotoMoves DEF RemTake
  <2>2. Count' = Count - 1
    BY <1>7, TakeRing DEF RemTake
  <2>3. /\ Freed(pc') = Freed(pc) + 1 /\ Coming(pc') = Coming(pc)
        /\ Announced(pc') = Announced(pc) /\ Looking(pc') = Looking(pc) - 1
        /\ Asleep(pc', Consumers, "remWait") => Asleep(pc, Consumers, "remWait")
        /\ Asleep(pc', Producers, "addWait") => Asleep(pc, Producers, "addWait")
    BY <1>3, <2>1, ConsumerMove DEF Hit
  <2> QED BY <1>1, <1>2, <1>3, <2>2, <2>3, HalvesOfNoLostWakeup
          DEF ElementsSeen, SlotsSeen
<1>8. CASE RemSignal(c)
  <2> DEFINE f == [pc EXCEPT ![c] = "use"]
  <2>1. /\ Signal(c, "use", "addWait", "addLock") /\ Count' = Count
        /\ Moves(pc, f, c, "remSignal", "use")
    BY <1>8, <1>4 DEF RemSignal, ring, Count, Moves, TypeOK
  <2>2. /\ Freed(f) = Freed(pc) - 1 /\ Coming(f) = Coming(pc)
        /\ Announced(f) = Announced(pc) /\ Looking(f) = Looking(pc)
        /\ Asleep(f, Producers, "addWait") <=> Asleep(pc, Producers, "addWait")
        /\ Asleep(f, Consumers, "remWait") => Asleep(pc, Consumers, "remWait")
    BY <1>3, <2>1, ConsumerMove DEF Hit
  <2>3. CASE pc' = f /\ \A u \in Threads : pc[u] # "addWait"
    <3>1. ~Asleep(pc', Producers, "addWait")
      BY <2>2, <2>3 DEF Asleep, Threads
    <3> QED BY <1>1, <1>2, <1>3, <2>1, <2>2, <2>3, <3>1, HalvesOfNoLostWakeup
            DEF ElementsSeen, SlotsSeen
  <2>4. ASSUME NEW u \in Threads, pc[u] = "addWait",
               pc' = [pc EXCEPT ![c] = "use", ![u] = "addLock"]
        PROVE  NoLostWakeup'
    <3>1. u \in Producers /\ Asleep(pc, Producers, "addWait")
      BY <2>4 DEF Asleep, Threads, QueueInv, TypeOK, ConsumerPC
    <3>2. Moves(f, pc', u, "addWait", "addLock")
      BY <1>8, <1>4, <2>4 DEF RemSignal, Moves, TypeOK
    <3> HIDE DEF f
    <3>3. /\ Freed(pc') = Freed(f) /\ Coming(pc') = Coming(f) + 1
          /\ Announced(pc') = Announced(f) /\ Looking(pc') = Looking(f)
          /\ Asleep(pc', Consumers, "remWait") => Asleep(f, Consumers, "remWait")
      BY <1>3, <3>1, <3>2, ProducerMove DEF Hit
    <3> QED BY <1>1, <1>2, <1>3, <2>1, <2>2, <3>1, <3>3, HalvesOfNoLostWakeup
            DEF ElementsSeen, SlotsSeen
  <2> QED BY <2>1, <2>3, <2>4 DEF Signal, Goto
<1> QED BY <1>5, <1>6, <1>7, <1>8 DEF ConsumerStep

LEMMA SpuriousKeepsWakeups ==
  ASSUME QueueInv, NoLostWakeup, NEW t \in Threads, SpuriousWakeup(t)
  PROVE  NoLostWakeup'
<1> USE DEF SpuriousWakeup, At
<1>1. CASE pc[t] = "addWait"
  <2>1. t \in Producers
    BY <1>1 DEF Threads, QueueInv, TypeOK, ConsumerPC
  <2> QED BY <1>1, <2>1, QuietProducer
<1>2. CASE pc[t] = "remWait"
  <2>1. t \in Consumers
    BY <1>2 DEF Threads, QueueInv, TypeOK, ProducerPC
  <2> QED BY <1>2, <2>1, QuietConsumer
<1> QED BY <1>1, <1>2

\* No wakeup is ever lost, for every number of producers and consumers, every
\* QUEUESIZE and every mix of blocking and timed removes (q.c:118-147, 155-187,
\* 199-242).
THEOREM WakeupsAreNotLost == Spec => []NoLostWakeup
<1>1. Init => NoLostWakeup
  BY DEF Init, NoLostWakeup, AtAny, Threads
<1>2. QueueInv /\ NoLostWakeup /\ [Next]_vars => NoLostWakeup'
  <2> SUFFICES ASSUME QueueInv, NoLostWakeup, [Next]_vars PROVE NoLostWakeup'
    OBVIOUS
  <2>1. CASE UNCHANGED vars
    BY <2>1 DEF vars, NoLostWakeup, AtAny, Count
  <2>2. CASE Next
    BY <2>2, ProducerKeepsWakeups, ConsumerKeepsWakeups, SpuriousKeepsWakeups DEF Next
  <2> QED BY <2>1, <2>2
<1> QED BY <1>1, <1>2, QueueInvariant, PTL DEF Spec

\* Nobody sleeps without a reason: when no wakeup is under way, a consumer
\* sleeps on an empty queue only and a producer on a full one, so that the two
\* never sleep on each other, whatever woke or expired in between
\* (q.c:118-126, 155-163, 199-226).
SleepersHaveReason ==
  /\ /\ AtAny(Consumers, {"remWait"}) # {}
     /\ AtAny(Consumers, {"remLock", "remTest"}) = {}
     /\ AtAny(Producers, {"addSignal"}) = {}
     => empty
  /\ /\ AtAny(Producers, {"addWait"}) # {}
     /\ AtAny(Producers, {"addLock", "addTest"}) = {}
     /\ AtAny(Consumers, {"remSignal"}) = {}
     => full
  /\ Producers # {} /\ Consumers # {} =>
       \E t \in Threads : pc[t] \notin {"addWait", "remWait"}

\* The signals that add and remove send are enough: none of the two sides is
\* left asleep by the other (q.c:118-126, 155-163, 199-226).
THEOREM NobodySleepsForNothing == Spec => []SleepersHaveReason
<1>1. ASSUME QueueInv, NoLostWakeup PROVE SleepersHaveReason
  <2> USE <1>1
  <2>1. Cardinality({}) = 0
    BY FS_EmptySet
  <2>2. /\ Count \in Nat /\ Count <= QUEUESIZE
        /\ Count = QUEUESIZE <=> full
        /\ Count = 0 <=> empty
    BY CountRange, QueueAssumption
  <2>3. ASSUME AtAny(Consumers, {"remWait"}) # {},
               AtAny(Consumers, {"remLock", "remTest"}) = {},
               AtAny(Producers, {"addSignal"}) = {}
        PROVE  empty
    BY <2>1, <2>2, <2>3 DEF NoLostWakeup
  <2>4. ASSUME AtAny(Producers, {"addWait"}) # {},
               AtAny(Producers, {"addLock", "addTest"}) = {},
               AtAny(Consumers, {"remSignal"}) = {}
        PROVE  full
    <3>1. QUEUESIZE - Count <= 0
      BY <2>1, <2>4 DEF NoLostWakeup
    <3> QED BY <2>2, <3>1, QueueAssumption
  <2>5. ASSUME \A t \in Threads : pc[t] \in {"addWait", "remWait"},
               Producers # {}, Consumers # {}
        PROVE  FALSE
    <3>1. /\ \A p \in Producers : pc[p] = "addWait"
          /\ \A c \in Consumers : pc[c] = "remWait"
      BY <2>5 DEF Threads, QueueInv, TypeOK, ProducerPC, ConsumerPC
    <3>2. /\ AtAny(Producers, {"addWait"}) # {} /\ AtAny(Consumers, {"remWait"}) # {}
          /\ AtAny(Producers, {"addLock", "addTest"}) = {}
          /\ AtAny(Consumers, {"remLock", "remTest"}) = {}
          /\ AtAny(Producers, {"addSignal"}) = {}
          /\ AtAny(Consumers, {"remSignal"}) = {}
      BY <2>5, <3>1 DEF AtAny
    <3>3. empty /\ full
      BY <2>3, <2>4, <3>2
    <3> QED BY <2>2, <3>3, QueueAssumption
  <2> QED BY <2>3, <2>4, <2>5 DEF SleepersHaveReason
<1> QED BY <1>1, QueueInvariant, WakeupsAreNotLost, PTL
=============================================================================
