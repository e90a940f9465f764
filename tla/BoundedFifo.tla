----------------------------- MODULE BoundedFifo -----------------------------
(***************************************************************************)
(* What the queue between the bluetooth thread and the LIRC thread         *)
(* promises (src/src/q.h), with no ring, mutex or condition variable: a    *)
(* FIFO of at most Capacity elements.  queueAdd blocks while it is full    *)
(* and takes ownership of the element; the two remove functions hand the   *)
(* oldest element, and its ownership, to the caller, who disposes of it.   *)
(***************************************************************************)
EXTENDS Naturals, Sequences

CONSTANTS Producers, Consumers, Capacity, Elements, NULL

VARIABLES
  offer,   \* the element each producer has allocated and not yet added
  items,   \* the elements in the queue, oldest first
  taken    \* the element each consumer has removed and not yet disposed of

fifoVars == <<offer, items, taken>>

\* Every element that is owned by somebody.
Owned ==
  {offer[p] : p \in Producers} \cup {items[i] : i \in DOMAIN items}
                               \cup {taken[c] : c \in Consumers}

Init ==
  /\ offer = [p \in Producers |-> NULL]
  /\ items = <<>>
  /\ taken = [c \in Consumers |-> NULL]

\* A producer allocates an element nobody owns.
Offer(p) ==
  /\ offer[p] = NULL
  /\ \E d \in Elements \ Owned : offer' = [offer EXCEPT ![p] = d]
  /\ UNCHANGED <<items, taken>>

\* The queue takes the element over, if there is room.
Put(p) ==
  /\ offer[p] # NULL
  /\ Len(items) < Capacity
  /\ items' = Append(items, offer[p])
  /\ offer' = [offer EXCEPT ![p] = NULL]
  /\ UNCHANGED taken

\* A consumer gets the oldest element.
Get(c) ==
  /\ taken[c] = NULL
  /\ items # <<>>
  /\ taken' = [taken EXCEPT ![c] = Head(items)]
  /\ items' = Tail(items)
  /\ UNCHANGED offer

\* A consumer disposes of the element it got.
Dispose(c) ==
  /\ taken[c] # NULL
  /\ taken' = [taken EXCEPT ![c] = NULL]
  /\ UNCHANGED <<offer, items>>

Next ==
  \/ \E p \in Producers : Offer(p) \/ Put(p)
  \/ \E c \in Consumers : Get(c) \/ Dispose(c)

Spec == Init /\ [][Next]_fifoVars
=============================================================================
