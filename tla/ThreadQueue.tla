----------------------------- MODULE ThreadQueue -----------------------------
(***************************************************************************)
(* The thread safe queue of src/src/q.c: a ring of QUEUESIZE pointers with *)
(* a full and an empty flag, one mutex and two condition variables.        *)
(*                                                                         *)
(* The fields of the ring are only touched with the mutex held, so what a  *)
(* thread does between pthread_mutex_lock (or the return of a condition    *)
(* wait) and the next unlock or wait is one step; the steps of different   *)
(* threads interleave everywhere else, in particular between the unlock    *)
(* and the pthread_cond_signal that follows it.                            *)
(*                                                                         *)
(* Cells stands for the heap blocks queueDataInit can return.  It is       *)
(* finite: a producer waits when no block is left, so a configuration      *)
(* gives it enough blocks for every thread and every slot to hold one.     *)
(***************************************************************************)
EXTENDS Integers, FiniteSets

CONSTANTS
  Producers,   \* threads that call queueAdd (the daemon has one)
  Consumers,   \* threads that remove elements (the daemon has one)
  QUEUESIZE,   \* slots of the ring: 254 in q.h
  Cells,       \* queueData blocks
  NULL

Threads == Producers \cup Consumers

ASSUME QueueAssumption ==
  /\ QUEUESIZE \in Nat \ {0}
  /\ Producers \cap Consumers = {}
  /\ IsFiniteSet(Threads)
  /\ NULL \notin Cells \cup Threads

VARIABLES
  buf, head, tail, full, empty,   \* the fields of struct queue
  mut,     \* the thread that holds the mutex, or NULL
  heap,    \* the blocks that are allocated
  item,    \* the block a thread owns: _in of queueAdd, *_out of a remove
  timed,   \* TRUE: this remove call is queueRemNonBlock, else queueRemBlock
  pc

ring == <<buf, head, tail, full, empty>>
vars == <<buf, head, tail, full, empty, mut, heap, item, timed, pc>>

Slots == 0 .. QUEUESIZE - 1

ProducerPC == {"idle", "addLock", "addTest", "addWait", "addSignal"}
ConsumerPC == {"idle", "remLock", "remTest", "remClock", "remWait",
               "remExpired", "remSignal", "use"}

At(t, l) == pc[t] = l
Goto(t, l) == pc' = [pc EXCEPT ![t] = l]

-----------------------------------------------------------------------------
(* The ring.                                                               *)

\* Faulty variant of NextSlot: the index is reset one slot too late.
NextSlotLate(i) == IF i = QUEUESIZE THEN 0 ELSE i + 1

\* head++ and tail++ with their reset to 0 at the end of the array.
NextSlot(i) == IF i + 1 = QUEUESIZE THEN 0 ELSE i + 1

\* The slots hold whatever malloc left there: an element is only ever read
\* from a slot it was stored in.
Init ==
  /\ buf \in [Slots -> Cells]
  /\ head = 0
  /\ tail = 0
  /\ full = FALSE
  /\ empty = TRUE
  /\ mut = NULL
  /\ heap = {}
  /\ item = [t \in Threads |-> NULL]
  /\ timed = [c \in Consumers |-> FALSE]
  /\ pc = [t \in Threads |-> "idle"]

\* pthread_cond_signal by t, then on to after: it wakes one of the threads
\* that wait at label wait, if there is one; a woken thread goes back for the
\* mutex at label relock and tests its condition again.
Signal(t, after, wait, relock) ==
  \/ /\ \A u \in Threads : ~At(u, wait)
     /\ Goto(t, after)
  \/ \E u \in Threads :
       /\ At(u, wait)
       /\ pc' = [pc EXCEPT ![t] = after, ![u] = relock]

-----------------------------------------------------------------------------
(* queueAdd                                                                *)

\* DataInd allocates a block and calls queueAdd.
QueueDataInit(p) ==
  /\ At(p, "idle")
  /\ \E d \in Cells \ heap :
       /\ heap' = heap \cup {d}
       /\ item' = [item EXCEPT ![p] = d]
  /\ Goto(p, "addLock")
  /\ UNCHANGED <<ring, mut, timed>>

AddLock(p) ==
  /\ At(p, "addLock")
  /\ mut = NULL
  /\ mut' = p
  /\ Goto(p, "addTest")
  /\ UNCHANGED <<ring, heap, item, timed>>

\* The queue is full: wait for notFull, which releases the mutex.
AddWait(p) ==
  /\ At(p, "addTest")
  /\ full
  /\ mut' = NULL
  /\ Goto(p, "addWait")
  /\ UNCHANGED <<ring, heap, item, timed>>

\* Faulty variant of AddStore: queueAdd without its test of full.
AddStoreUnchecked(p) ==
  /\ At(p, "addTest")
  /\ buf' = [buf EXCEPT ![tail] = item[p]]
  /\ tail' = NextSlot(tail)
  /\ full' = (full \/ tail' = head)
  /\ empty' = FALSE
  /\ item' = [item EXCEPT ![p] = NULL]
  /\ mut' = NULL
  /\ Goto(p, "addSignal")
  /\ UNCHANGED <<head, heap, timed>>

\* Faulty variant of AddStore: notEmpty is only signalled when the queue was
\* empty.
AddStoreSignalsFirst(p) ==
  /\ At(p, "addTest")
  /\ ~full
  /\ buf' = [buf EXCEPT ![tail] = item[p]]
  /\ tail' = NextSlot(tail)
  /\ full' = (tail' = head)
  /\ empty' = FALSE
  /\ item' = [item EXCEPT ![p] = NULL]
  /\ mut' = NULL
  /\ Goto(p, IF empty THEN "addSignal" ELSE "idle")
  /\ UNCHANGED <<head, heap, timed>>

AddStore(p) ==
  /\ At(p, "addTest")
  /\ ~full
  /\ buf' = [buf EXCEPT ![tail] = item[p]]
  /\ tail' = NextSlot(tail)
  /\ full' = (tail' = head)
  /\ empty' = FALSE
  /\ item' = [item EXCEPT ![p] = NULL]
  /\ mut' = NULL
  /\ Goto(p, "addSignal")
  /\ UNCHANGED <<head, heap, timed>>

\* Faulty variant of AddSignal: nobody is woken.
AddSignalLost(p) ==
  /\ At(p, "addSignal")
  /\ Goto(p, "idle")
  /\ UNCHANGED <<ring, mut, heap, item, timed>>

AddSignal(p) ==
  /\ At(p, "addSignal")
  /\ Signal(p, "idle", "remWait", "remLock")
  /\ UNCHANGED <<ring, mut, heap, item, timed>>

-----------------------------------------------------------------------------
(* queueRemBlock and queueRemNonBlock, and what the caller does with the    *)
(* element.                                                                *)

RemCall(c) ==
  /\ At(c, "idle")
  /\ \E b \in BOOLEAN : timed' = [timed EXCEPT ![c] = b]
  /\ Goto(c, "remLock")
  /\ UNCHANGED <<ring, mut, heap, item>>

RemLock(c) ==
  /\ At(c, "remLock")
  /\ mut = NULL
  /\ mut' = c
  /\ Goto(c, "remTest")
  /\ UNCHANGED <<ring, heap, item, timed>>

\* The blocking call waits for notEmpty.
RemWait(c) ==
  /\ At(c, "remTest")
  /\ empty
  /\ ~timed[c]
  /\ mut' = NULL
  /\ Goto(c, "remWait")
  /\ UNCHANGED <<ring, heap, item, timed>>

\* The timed call computes its deadline, still holding the mutex.
RemDeadline(c) ==
  /\ At(c, "remTest")
  /\ empty
  /\ timed[c]
  /\ Goto(c, "remClock")
  /\ UNCHANGED <<ring, mut, heap, item, timed>>

RemTimedWait(c) ==
  /\ At(c, "remClock")
  /\ mut' = NULL
  /\ Goto(c, "remWait")
  /\ UNCHANGED <<ring, heap, item, timed>>

\* tv_nsec is not carried into tv_sec: in the last _n ms of a second the
\* wait fails with EINVAL at once, the mutex is not released and the loop
\* goes round.
RemInvalidDeadline(c) ==
  /\ At(c, "remClock")
  /\ Goto(c, "remTest")
  /\ UNCHANGED <<ring, mut, heap, item, timed>>

RemTimeout(c) ==
  /\ At(c, "remWait")
  /\ timed[c]
  /\ Goto(c, "remExpired")
  /\ UNCHANGED <<ring, mut, heap, item, timed>>

\* The expired wait gets the mutex back and the call returns Q_ERR without
\* looking at the queue again.
RemReturnErr(c) ==
  /\ At(c, "remExpired")
  /\ mut = NULL
  /\ Goto(c, "idle")
  /\ UNCHANGED <<ring, mut, heap, item, timed>>

\* Faulty variant of RemTake: the condition is tested by an if before the
\* wait and not again after it.
RemTakeUnchecked(c) ==
  /\ At(c, "remTest")
  /\ item' = [item EXCEPT ![c] = buf[head]]
  /\ head' = NextSlot(head)
  /\ empty' = (head' = tail)
  /\ full' = FALSE
  /\ mut' = NULL
  /\ Goto(c, "remSignal")
  /\ UNCHANGED <<buf, tail, heap, timed>>

\* Faulty variant of RemTake: full is not reset.
RemTakeStaysFull(c) ==
  /\ At(c, "remTest")
  /\ ~empty
  /\ item' = [item EXCEPT ![c] = buf[head]]
  /\ head' = NextSlot(head)
  /\ empty' = (head' = tail)
  /\ mut' = NULL
  /\ Goto(c, "remSignal")
  /\ UNCHANGED <<buf, tail, full, heap, timed>>

RemTake(c) ==
  /\ At(c, "remTest")
  /\ ~empty
  /\ item' = [item EXCEPT ![c] = buf[head]]
  /\ head' = NextSlot(head)
  /\ empty' = (head' = tail)
  /\ full' = FALSE
  /\ mut' = NULL
  /\ Goto(c, "remSignal")
  /\ UNCHANGED <<buf, tail, heap, timed>>

\* Faulty variant of RemSignal: nobody is woken.
RemSignalLost(c) ==
  /\ At(c, "remSignal")
  /\ Goto(c, "use")
  /\ UNCHANGED <<ring, mut, heap, item, timed>>

RemSignal(c) ==
  /\ At(c, "remSignal")
  /\ Signal(c, "use", "addWait", "addLock")
  /\ UNCHANGED <<ring, mut, heap, item, timed>>

\* The LIRC thread frees the element once it has handled it.
QueueDataDeInit(c) ==
  /\ At(c, "use")
  /\ heap' = heap \ {item[c]}
  /\ item' = [item EXCEPT ![c] = NULL]
  /\ Goto(c, "idle")
  /\ UNCHANGED <<ring, mut, timed>>

-----------------------------------------------------------------------------
\* A condition wait may return although nobody signalled.
SpuriousWakeup(t) ==
  /\ \/ At(t, "addWait") /\ Goto(t, "addLock")
     \/ At(t, "remWait") /\ Goto(t, "remLock")
  /\ UNCHANGED <<ring, mut, heap, item, timed>>

ProducerStep(p) ==
  QueueDataInit(p) \/ AddLock(p) \/ AddWait(p) \/ AddStore(p) \/ AddSignal(p)

ConsumerStep(c) ==
  \/ RemCall(c) \/ RemLock(c) \/ RemWait(c) \/ RemDeadline(c)
  \/ RemTimedWait(c) \/ RemInvalidDeadline(c) \/ RemTimeout(c)
  \/ RemReturnErr(c) \/ RemTake(c) \/ RemSignal(c) \/ QueueDataDeInit(c)

Next ==
  \/ \E p \in Producers : ProducerStep(p)
  \/ \E c \in Consumers : ConsumerStep(c)
  \/ \E t \in Threads : SpuriousWakeup(t)

Spec == Init /\ [][Next]_vars

\* A thread that can go on does; one that asks for the mutex again and again
\* gets it; a timed wait is not called in the last _n ms of a second forever.
\* No fairness for QueueDataInit: the remote need not send anything, and none
\* for spurious wakeups.
Fairness ==
  /\ \A p \in Producers :
       /\ SF_vars(AddLock(p))
       /\ WF_vars(AddWait(p) \/ AddStore(p) \/ AddSignal(p))
  /\ \A c \in Consumers :
       /\ SF_vars(RemLock(c)) /\ SF_vars(RemReturnErr(c))
       /\ SF_vars(RemTimedWait(c))
       /\ WF_vars(RemCall(c) \/ RemWait(c) \/ RemDeadline(c) \/ RemTimeout(c)
                  \/ RemTake(c) \/ RemSignal(c) \/ QueueDataDeInit(c))

FairSpec == Spec /\ Fairness

-----------------------------------------------------------------------------
(* What the queue keeps true.                                              *)

\* Every variable has its type.
TypeOK ==
  /\ buf \in [Slots -> Cells]
  /\ head \in Slots
  /\ tail \in Slots
  /\ full \in BOOLEAN
  /\ empty \in BOOLEAN
  /\ mut \in Threads \cup {NULL}
  /\ heap \subseteq Cells
  /\ item \in [Threads -> Cells \cup {NULL}]
  /\ timed \in [Consumers -> BOOLEAN]
  /\ pc \in [Threads -> ProducerPC \cup ConsumerPC]
  /\ \A p \in Producers : pc[p] \in ProducerPC
  /\ \A c \in Consumers : pc[c] \in ConsumerPC

\* The number of queued elements, which the code never computes: head = tail
\* means either none or QUEUESIZE.
Count ==
  IF full THEN QUEUESIZE
  ELSE IF head <= tail THEN tail - head ELSE tail - head + QUEUESIZE

\* The slot of the i-th oldest element, and how far behind head a slot is.
SlotOf(i) == IF head + i <= QUEUESIZE THEN head + i - 1 ELSE head + i - 1 - QUEUESIZE
Offset(s) == IF head <= s THEN s - head ELSE s - head + QUEUESIZE

LiveSlots == {s \in Slots : Offset(s) < Count}

\* The queued elements, oldest first.
Queued == [i \in 1 .. Count |-> buf[SlotOf(i)]]

\* The two flags tell the two meanings of head = tail apart.
RingInv ==
  /\ full => head = tail
  /\ empty <=> (head = tail /\ ~full)

\* The mutex is held by the thread that is between its lock and its unlock.
LockInv == \A t \in Threads :
  (mut = t) <=> (pc[t] \in {"addTest", "remTest", "remClock"})

\* A thread owns an element exactly from its allocation to queueAdd's store,
\* and from the remove to its disposal; only the timed remove ever expires or
\* looks at the clock, the latter when the queue is empty.
ItemInv ==
  /\ \A p \in Producers :
       (item[p] # NULL) <=> (pc[p] \in {"addLock", "addTest", "addWait"})
  /\ \A c \in Consumers :
       /\ (item[c] # NULL) <=> (pc[c] \in {"remSignal", "use"})
       /\ pc[c] \in {"remClock", "remExpired"} => timed[c]
       /\ pc[c] = "remClock" => empty

\* The flags, the indices, the mutex and the owners always agree, whatever
\* the order in which the threads run: the inductive invariant on which the
\* proofs of this module's properties rest (q.c:116-146, 155-186, 199-241).
QueueInv == TypeOK /\ RingInv /\ LockInv /\ ItemInv

Holders == {t \in Threads : item[t] # NULL}

\* No block is lost, owned twice or used after it was freed: the allocated
\* blocks are those the threads own and those in the queue, each of them in
\* one place.  queueAdd takes its argument over and the caller of a remove
\* frees what it got (q.c:134, q.c:173, q.c:228 and lirc_thr.c:159).
OwnedOnce ==
  /\ heap = {item[t] : t \in Holders} \cup {buf[s] : s \in LiveSlots}
  /\ \A t, u \in Holders : item[t] = item[u] => t = u
  /\ \A r, s \in LiveSlots : buf[r] = buf[s] => r = s
  /\ \A t \in Holders, s \in LiveSlots : item[t] # buf[s]

AtAny(T, labels) == {t \in T : pc[t] \in labels}

\* No wakeup is lost although both conditions are signalled after the mutex is
\* released (q.c:147, 187, 242) and a timed wait may expire at any moment.
\* While a consumer sleeps, each queued element is accounted for by a producer
\* that has yet to signal or by a consumer that is up and will look at the
\* queue; while a producer sleeps, each free slot is accounted for likewise.
NoLostWakeup ==
  /\ AtAny(Consumers, {"remWait"}) # {} =>
       Count <= Cardinality(AtAny(Producers, {"addSignal"}))
                + Cardinality(AtAny(Consumers, {"remLock", "remTest"}))
  /\ AtAny(Producers, {"addWait"}) # {} =>
       QUEUESIZE - Count <= Cardinality(AtAny(Consumers, {"remSignal"}))
                + Cardinality(AtAny(Producers, {"addLock", "addTest"}))

\* The queue implements the FIFO of BoundedFifo: a producer's element enters
\* at the end when there is room, a consumer gets the oldest, nothing else
\* changes the contents (q.h, "Thread safe queue").
Fifo == INSTANCE BoundedFifo WITH
  Capacity <- QUEUESIZE,
  Elements <- Cells,
  offer <- [p \in Producers |-> item[p]],
  items <- Queued,
  taken <- [c \in Consumers |-> item[c]]

ImplementsFifo == Fifo!Spec

\* A call of queueAdd returns: the bluetooth thread is not blocked for good as
\* long as the LIRC thread goes on removing (q.c:118-126).
AddReturns == \A p \in Producers : At(p, "addLock") ~> At(p, "idle")

\* Every element that is added is removed and freed: no key press is left in
\* the queue, even when a remove timed out as the element arrived (q.c:214-226).
ElementsHandled == \A d \in Cells : (d \in heap) ~> (d \notin heap)
=============================================================================
