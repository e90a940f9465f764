-------------------------- MODULE ClientListProofs --------------------------
(***************************************************************************)
(* Proofs about ClientList, for every MAX_CLIENTS and every set of         *)
(* descriptors.                                                            *)
(***************************************************************************)
EXTENDS ClientList, TLAPS, FiniteSetTheorems

LEMMA InitClientInv == Init => ClientInv
<1> SUFFICES ASSUME Init PROVE ClientInv
  OBVIOUS
<1> USE ClientAssumption DEF Init, Slots, FAIL
<1>1. clis \in [Slots -> Fds \cup {FAIL, 0}]
  OBVIOUS
<1>2. /\ clin \in 0 .. MAX_CLIENTS
      /\ i \in 0 .. MAX_CLIENTS
  OBVIOUS
<1>3. TypeOK
  BY <1>1, <1>2 DEF TypeOK
<1> QED BY <1>3 DEF ClientInv, NoOverflow, Broadcasting

\* The steps of the main thread.
LEMMA MainClientInv ==
  ASSUME ClientInv, Main
  PROVE  ClientInv'
<1> USE ClientAssumption
    DEF ClientInv, TypeOK, NoOverflow, Broadcasting, Slots, FAIL,
        mainVars, lircVars
<1>1. CASE Poll BY <1>1 DEF Poll
<1>2. CASE Interrupted BY <1>2 DEF Interrupted
<1>3. CASE Accept BY <1>3 DEF Accept
<1>4. CASE AcceptFails BY <1>4 DEF AcceptFails
<1>5. CASE Reject BY <1>5 DEF Reject
<1>6. CASE Admit BY <1>6 DEF Admit
<1>7. CASE AppendClient
  <2>1. /\ clin < MAX_CLIENTS
        /\ mutex = "none"
        /\ clis' = [clis EXCEPT ![clin] = fd]
        /\ clin' = clin + 1
    BY <1>7 DEF AppendClient
  <2>2. \A k \in Slots : k < clin' => clis'[k] \in Fds \cup {FAIL}
    BY <2>1
  <2>3. TypeOK'
    BY <1>7, <2>1 DEF AppendClient
  <2> QED BY <1>7, <2>1, <2>2, <2>3 DEF AppendClient
<1>8. CASE Drain
  <2>1. open' \subseteq Fds
    BY <1>8 DEF Drain
  <2> QED BY <1>8, <2>1 DEF Drain
<1> QED BY <1>1, <1>2, <1>3, <1>4, <1>5, <1>6, <1>7, <1>8 DEF Main

\* The steps of the LIRC thread.
LEMMA LircClientInv ==
  ASSUME ClientInv, Lirc
  PROVE  ClientInv'
<1> USE ClientAssumption
    DEF ClientInv, TypeOK, NoOverflow, Broadcasting, Slots, FAIL,
        mainVars, lircVars
<1>1. CASE LircPoll BY <1>1 DEF LircPoll
<1>2. CASE NothingToSend BY <1>2 DEF NothingToSend
<1>3. CASE AssertHolds BY <1>3 DEF AssertHolds
<1>4. CASE AssertFails BY <1>4 DEF AssertFails
<1>5. CASE Lock
  <2>1. Entries(0, clin) \subseteq Fds \cup {FAIL}
    BY DEF Entries
  <2> QED BY <1>5, <2>1 DEF Lock
<1>6. CASE WriteSucceeds
  <2>1. i + 1 \in 0 .. MAX_CLIENTS /\ i + 1 <= clin
    BY <1>6 DEF WriteSucceeds
  <2>2. written \cup {clis[i]} \subseteq Fds
    BY <1>6 DEF WriteSucceeds
  <2> QED BY <1>6, <2>1, <2>2 DEF WriteSucceeds
<1>7. CASE WriteFails BY <1>7 DEF WriteFails
<1>8. CASE CloseClient
  <2>1. i \in Slots /\ i < clin
    BY <1>8 DEF CloseClient
  <2>2. removed \cup {clis[i]} \subseteq Fds \cup {FAIL}
    BY <2>1
  <2>3. open \ {clis[i]} \subseteq Fds
    OBVIOUS
  <2> QED BY <1>8, <2>1, <2>2, <2>3 DEF CloseClient
<1>9. CASE ShiftClients
  <2>1. clin' = clin - 1 /\ i < clin /\ i' = i /\ clin \in 1 .. MAX_CLIENTS
    BY <1>9 DEF ShiftClients
  <2>2. PICK f : clis' = [k \in Slots |->
                            IF f <= k /\ k < clin - 1 THEN clis[k + 1] ELSE clis[k]]
    BY <1>9 DEF ShiftClients
  <2>3. \A k \in Slots : k < clin - 1 => k + 1 \in Slots
    BY <2>1
  <2>4. clis' \in [Slots -> Fds \cup {FAIL, 0}]
    BY <2>2, <2>3
  <2>5. \A k \in Slots : k < clin' => clis'[k] \in Fds \cup {FAIL}
    BY <2>1, <2>2, <2>3
  <2> QED BY <1>9, <2>1, <2>4, <2>5 DEF ShiftClients
<1>10. CASE Unlock BY <1>10 DEF Unlock
<1> QED BY <1>1, <1>2, <1>3, <1>4, <1>5, <1>6, <1>7, <1>8, <1>9, <1>10 DEF Lirc

\* The LIRC thread shrinks the list only under the mutex and the main thread
\* grows it only below its limit (lirc_srv.c:200-254, lirc_thr.c:371-392).
THEOREM ClientInvariant == Spec => []ClientInv
<1>1. ClientInv /\ [Next]_vars => ClientInv'
  <2> SUFFICES ASSUME ClientInv, [Next]_vars PROVE ClientInv'
    OBVIOUS
  <2>1. CASE Cancel
    BY <2>1 DEF Cancel, ClientInv, TypeOK, NoOverflow, Broadcasting,
                mainVars, lircVars
  <2>2. CASE UNCHANGED vars
    BY <2>2 DEF vars, ClientInv, TypeOK, NoOverflow, Broadcasting
  <2> QED BY <2>1, <2>2, MainClientInv, LircClientInv DEF Next, Terminated
<1> QED BY <1>1, InitClientInv, PTL DEF Spec

\* The array of clients never overflows, for every MAX_CLIENTS and however the
\* two threads interleave (lirc_srv.c:214, 229-231).
THEOREM ListNeverOverflows == Spec => []NoOverflow
<1>1. ClientInv => NoOverflow
  BY DEF ClientInv
<1> QED BY <1>1, ClientInvariant, PTL

-----------------------------------------------------------------------------
\* What a broadcast knows of the slots it has passed and the one it is at:
\* whoever was written to was a client and not a failed accept, and whoever
\* was closed counts as removed.
WalkInv ==
  /\ Broadcasting => \A k \in Slots : k < i => clis[k] # FAIL
  /\ lircPc = "shift" => clis[i] \in removed
  /\ IsFiniteSet(written)

ListInv == NoStaleFd /\ BroadcastReachesAll /\ WalkInv

\* remove_client finds the slot the broadcast is at, and no earlier one.
LEMMA FirstSlotIsI ==
  ASSUME ClientInv, ListInv, lircPc = "shift"
  PROVE  FirstSlot(clis[i]) = i
<1> USE ClientAssumption DEF ClientInv, TypeOK, Slots
<1>1. i \in Slots /\ i < clin
  OBVIOUS
<1>2. \A l \in Slots : l < i => clis[l] # clis[i]
  BY <1>1 DEF ListInv, NoStaleFd, WalkInv, Broadcasting
<1>3. \A k \in Slots :
        (clis[k] = clis[i] /\ \A l \in Slots : l < k => clis[l] # clis[i]) => k = i
  BY <1>1, <1>2
<1> QED BY <1>1, <1>2, <1>3, Zenon DEF FirstSlot

\* The entries of a list that grows at either end.
LEMMA EntriesSplit ==
  ASSUME ClientInv, NEW a \in Nat, NEW b \in Nat, a < b, a \in Slots, b - 1 \in Slots
  PROVE  /\ Entries(a, b) = {clis[a]} \cup Entries(a + 1, b)
         /\ Entries(a, b) = Entries(a, b - 1) \cup {clis[b - 1]}
BY ClientAssumption DEF Entries, Slots

\* Taking the list apart at slot i and closing the gap.
LEMMA ShiftEffect ==
  ASSUME ClientInv, ListInv, ShiftClients
  PROVE  /\ i \in Slots /\ i < clin /\ clin' = clin - 1 /\ i' = i
         /\ clin \in 1 .. MAX_CLIENTS
         /\ \A k \in Slots : k < i => clis'[k] = clis[k]
         /\ \A k \in Slots : i <= k /\ k < clin - 1 =>
              k + 1 \in Slots /\ clis'[k] = clis[k + 1]
<1> USE ClientAssumption DEF ClientInv, TypeOK, Slots
<1>1. i \in Slots /\ i < clin /\ clin' = clin - 1 /\ i' = i /\ clin \in 1 .. MAX_CLIENTS
  BY DEF ShiftClients
<1>2. clis' = [k \in Slots |->
                 IF i <= k /\ k < clin - 1 THEN clis[k + 1] ELSE clis[k]]
  BY FirstSlotIsI DEF ShiftClients
<1> QED BY <1>1, <1>2

LEMMA ShiftListInv ==
  ASSUME ClientInv, ListInv, ShiftClients
  PROVE  ListInv'
<1> USE ClientAssumption DEF ClientInv, TypeOK, Slots, FAIL
<1> DEFINE listed == {clis[k] : k \in OwnSlots}
<1>1. /\ i \in Slots /\ i < clin /\ clin' = clin - 1 /\ i' = i
      /\ clin \in 1 .. MAX_CLIENTS
      /\ \A k \in Slots : k < i => clis'[k] = clis[k]
      /\ \A k \in Slots : i <= k /\ k < clin - 1 =>
           k + 1 \in Slots /\ clis'[k] = clis[k + 1]
  BY ShiftEffect
<1>2. /\ lircPc = "shift" /\ lircPc' = "write"
      /\ UNCHANGED <<open, mainPc, fd, i, audience, written, removed>>
      /\ clin \in Nat /\ i \in Nat
  BY DEF ShiftClients, mainVars
<1>3. \A k \in Slots : k < clin' =>
        \E j \in Slots : /\ j < clin /\ j # i /\ clis'[k] = clis[j]
                         /\ j = IF k < i THEN k ELSE k + 1
  BY <1>1, <1>2
<1>4. \A j \in Slots : j < clin /\ j # i =>
        \E k \in Slots : /\ k < clin' /\ clis'[k] = clis[j]
                         /\ k = IF j < i THEN j ELSE j - 1
  <2> SUFFICES ASSUME NEW j \in Slots, j < clin, j # i
               PROVE  \E k \in Slots : /\ k < clin' /\ clis'[k] = clis[j]
                                       /\ k = IF j < i THEN j ELSE j - 1
    OBVIOUS
  <2>1. CASE j < i BY <1>1, <1>2, <2>1
  <2>2. CASE j > i
    <3>1. j - 1 \in Slots /\ i <= j - 1 /\ j - 1 < clin - 1 /\ (j - 1) + 1 = j
      BY <1>1, <1>2, <2>2
    <3>2. clis'[j - 1] = clis[j]
      BY <1>1, <3>1
    <3> QED BY <1>1, <2>2, <3>1, <3>2
  <2> QED BY <1>1, <1>2, <2>1, <2>2
<1>5. NoStaleFd'
  <2>1. {clis[k] : k \in OwnSlots}' = listed
    <3>1. OwnSlots = {k \in Slots : k < clin /\ k # i}
      BY <1>2 DEF OwnSlots
    <3>2. OwnSlots' = {k \in Slots : k < clin'}
      BY <1>2 DEF OwnSlots
    <3>3. \A k \in OwnSlots' : \E j \in OwnSlots : clis'[k] = clis[j]
      BY <1>3, <3>1, <3>2
    <3>4. \A j \in OwnSlots : \E k \in OwnSlots' : clis'[k] = clis[j]
      BY <1>4, <3>1, <3>2
    <3> QED BY <3>3, <3>4
  <2>2. Pending' = Pending
    BY <1>2 DEF Pending
  <2>3. ASSUME NEW k \in Slots, NEW l \in Slots, k < clin', l < clin',
               clis'[k] = clis'[l], clis'[k] # FAIL
        PROVE  k = l
    <3>1. PICK jk \in Slots : /\ jk < clin /\ clis'[k] = clis[jk]
                              /\ jk = IF k < i THEN k ELSE k + 1
      BY <1>3, <2>3
    <3>2. PICK jl \in Slots : /\ jl < clin /\ clis'[l] = clis[jl]
                              /\ jl = IF l < i THEN l ELSE l + 1
      BY <1>3, <2>3
    <3>3. jk = jl
      BY <2>3, <3>1, <3>2 DEF ListInv, NoStaleFd
    <3> QED BY <1>2, <3>1, <3>2, <3>3
  <2> HIDE DEF listed
  <2>4. open' = (listed \ {FAIL}) \cup Pending /\ (listed \ {FAIL}) \cap Pending = {}
    BY <1>2 DEF ListInv, NoStaleFd, listed
  <2> QED BY <2>1, <2>2, <2>3, <2>4 DEF NoStaleFd, Slots
<1>6. BroadcastReachesAll'
  <2>1. /\ written = Entries(0, i) /\ Cardinality(written) = i
        /\ audience = written \cup removed \cup Entries(i, clin)
    BY <1>2 DEF ListInv, BroadcastReachesAll, Broadcasting
  <2>2. Entries(0, i)' = Entries(0, i)
    BY <1>1, <1>2 DEF Entries
  <2>3. Entries(i, clin) = {clis[i]} \cup Entries(i, clin)'
    <3>1. \A k \in Slots : i <= k /\ k < clin' => 
            \E j \in Slots : i <= j /\ j < clin /\ clis'[k] = clis[j]
      BY <1>1, <1>2, <1>3
    <3>2. \A j \in Slots : i <= j /\ j < clin /\ j # i =>
            \E k \in Slots : i <= k /\ k < clin' /\ clis'[k] = clis[j]
      BY <1>1, <1>2, <1>4
    <3>3. Entries(i, clin)' = {clis'[k] : k \in {s \in Slots : i <= s /\ s < clin'}}
      BY <1>1 DEF Entries
    <3>4. Entries(i, clin) = {clis[k] : k \in {s \in Slots : i <= s /\ s < clin}}
      BY DEF Entries
    <3>5. Entries(i, clin)' \subseteq Entries(i, clin)
      BY <3>1, <3>3, <3>4
    <3>6. \A j \in Slots : i <= j /\ j < clin => clis[j] \in {clis[i]} \cup Entries(i, clin)'
      BY <1>2, <3>2, <3>3
    <3>7. clis[i] \in Entries(i, clin)
      BY <1>1, <1>2, <3>4
    <3> QED BY <3>4, <3>5, <3>6, <3>7
  <2>4. clis[i] \in removed
    BY <1>2 DEF ListInv, WalkInv
  <2> QED BY <1>1, <1>2, <2>1, <2>2, <2>3, <2>4 DEF BroadcastReachesAll
<1>7. WalkInv'
  BY <1>1, <1>2 DEF ListInv, WalkInv, Broadcasting
<1> QED BY <1>5, <1>6, <1>7 DEF ListInv

LEMMA InitListInv == ASSUME Init PROVE ListInv
<1> USE ClientAssumption DEF Init
<1>1. OwnSlots = {} /\ Pending = {}
  BY DEF OwnSlots, Pending, Slots
<1> QED BY <1>1, FS_EmptySet
        DEF ListInv, NoStaleFd, BroadcastReachesAll, WalkInv, Broadcasting, Slots

\* The other steps of the LIRC thread.
LEMMA LircListInv ==
  ASSUME ClientInv, ListInv, Lirc
  PROVE  ListInv'
<1> USE ClientAssumption DEF ClientInv, TypeOK, Slots, FAIL, mainVars
<1>1. CASE LircPoll \/ NothingToSend \/ AssertHolds \/ AssertFails
  <2>1. /\ UNCHANGED <<clis, clin, open, mainPc, fd, written>>
        /\ ~Broadcasting /\ ~Broadcasting'
    BY <1>1 DEF LircPoll, NothingToSend, AssertHolds, AssertFails, Broadcasting,
                lircVars
  <2>2. OwnSlots' = OwnSlots /\ Pending' = Pending
    BY <2>1 DEF OwnSlots, Pending, Broadcasting
  <2> QED BY <2>1, <2>2 DEF ListInv, NoStaleFd, BroadcastReachesAll, WalkInv,
                            Broadcasting
<1>2. CASE Lock \/ Unlock
  <2>1. /\ UNCHANGED <<clis, clin, open, mainPc, fd>>
        /\ lircPc # "shift" /\ lircPc' # "shift"
        /\ written' = {} /\ i' = 0
    BY <1>2 DEF Lock, Unlock
  <2>2. OwnSlots' = OwnSlots /\ Pending' = Pending
    BY <2>1 DEF OwnSlots, Pending
  <2>3. NoStaleFd'
    BY <2>1, <2>2 DEF ListInv, NoStaleFd
  <2>4. WalkInv'
    BY <2>1, FS_EmptySet DEF WalkInv
  <2>5. BroadcastReachesAll'
    <3>1. CASE Lock
      <4>1. audience' = Entries(0, clin) /\ removed' = {} /\ clin \in Nat
        BY <3>1 DEF Lock
      <4>2. Entries(0, 0)' = {} /\ Entries(0, clin)' = Entries(0, clin)
        BY <2>1, <4>1 DEF Entries
      <4> QED BY <2>1, <4>1, <4>2, FS_EmptySet DEF BroadcastReachesAll
    <3>2. CASE Unlock BY <3>2 DEF Unlock, BroadcastReachesAll, Broadcasting
    <3> QED BY <1>2, <3>1, <3>2
  <2> QED BY <2>3, <2>4, <2>5 DEF ListInv
<1>3. CASE WriteSucceeds
  <2>1. /\ UNCHANGED <<clis, clin, open, mainPc, fd, lircPc, audience, removed>>
        /\ i \in Slots /\ i < clin /\ clis[i] \in open /\ lircPc = "write"
        /\ written' = written \cup {clis[i]} /\ i' = i + 1 /\ clin \in Nat
    BY <1>3 DEF WriteSucceeds
  <2>2. OwnSlots' = OwnSlots /\ Pending' = Pending
    BY <2>1 DEF OwnSlots, Pending
  <2>3. NoStaleFd'
    BY <2>1, <2>2 DEF ListInv, NoStaleFd
  <2>4. clis[i] # FAIL
    BY <2>1
  <2>5. /\ written = Entries(0, i) /\ Cardinality(written) = i
        /\ audience = written \cup removed \cup Entries(i, clin)
        /\ IsFiniteSet(written)
    BY <2>1 DEF ListInv, BroadcastReachesAll, WalkInv, Broadcasting
  <2>6. clis[i] \notin written
    BY <2>1, <2>4, <2>5 DEF Entries, ListInv, NoStaleFd
  <2>7. IsFiniteSet(written') /\ Cardinality(written') = i + 1
    BY <2>1, <2>5, <2>6, FS_AddElement
  <2>8. /\ Entries(0, i + 1) = Entries(0, i) \cup {clis[i]}
        /\ Entries(i, clin) = {clis[i]} \cup Entries(i + 1, clin)
    <3>1. (i + 1) - 1 = i /\ i \in Nat /\ i + 1 \in Nat /\ 0 \in Slots
          /\ clin - 1 \in Slots
      BY <2>1
    <3> QED BY <2>1, <3>1, EntriesSplit
  <2>9. Entries(0, i)' = Entries(0, i + 1) /\ Entries(i, clin)' = Entries(i + 1, clin)
    BY <2>1 DEF Entries
  <2>10. BroadcastReachesAll'
    BY <2>1, <2>5, <2>7, <2>8, <2>9 DEF BroadcastReachesAll
  <2>11. WalkInv'
    BY <2>1, <2>4, <2>7 DEF ListInv, WalkInv, Broadcasting
  <2> QED BY <2>3, <2>10, <2>11 DEF ListInv
<1>4. CASE WriteFails
  <2>1. /\ UNCHANGED <<clis, clin, open, mainPc, fd, i, audience, written, removed>>
        /\ lircPc = "write" /\ lircPc' = "close"
    BY <1>4 DEF WriteFails
  <2>2. OwnSlots' = OwnSlots /\ Pending' = Pending
    BY <2>1 DEF OwnSlots, Pending
  <2> QED BY <2>1, <2>2 DEF ListInv, NoStaleFd, BroadcastReachesAll, WalkInv,
                            Broadcasting, Entries
<1>5. CASE CloseClient
  <2>1. /\ UNCHANGED <<clis, clin, mainPc, fd, i, audience, written>>
        /\ i \in Slots /\ i < clin
        /\ open' = open \ {clis[i]} /\ removed' = removed \cup {clis[i]}
        /\ lircPc = "close" /\ lircPc' = "shift" /\ clin \in Nat
    BY <1>5 DEF CloseClient
  <2>2. /\ OwnSlots = {k \in Slots : k < clin}
        /\ OwnSlots' = {k \in Slots : k < clin /\ k # i}
        /\ Pending' = Pending
    BY <2>1 DEF OwnSlots, Pending
  <2>3. {clis[k] : k \in OwnSlots}' \ {FAIL}
          = ({clis[k] : k \in OwnSlots} \ {FAIL}) \ {clis[i]}
    BY <2>1, <2>2 DEF ListInv, NoStaleFd
  <2>4. clis[i] \notin Pending
    <3>1. CASE clis[i] = FAIL BY <3>1 DEF Pending
    <3>2. CASE clis[i] # FAIL BY <2>1, <2>2, <3>2 DEF ListInv, NoStaleFd
    <3> QED BY <3>1, <3>2
  <2>5. NoStaleFd'
    BY <2>1, <2>2, <2>3, <2>4 DEF ListInv, NoStaleFd
  <2>6. clis[i] \in Entries(i, clin)
    BY <2>1 DEF Entries
  <2>7. BroadcastReachesAll'
    BY <2>1, <2>6 DEF ListInv, BroadcastReachesAll, Broadcasting, Entries
  <2>8. WalkInv'
    BY <2>1 DEF ListInv, WalkInv, Broadcasting
  <2> QED BY <2>5, <2>7, <2>8 DEF ListInv
<1> QED BY <1>1, <1>2, <1>3, <1>4, <1>5, ShiftListInv DEF Lirc

\* The steps of the main thread; none that changes the list meets a broadcast.
LEMMA MainListInv ==
  ASSUME ClientInv, ListInv, Main
  PROVE  ListInv'
<1> USE ClientAssumption DEF ClientInv, TypeOK, Slots, FAIL
<1> DEFINE listed == {clis[k] : k \in OwnSlots} \ {FAIL}
<1>1. UNCHANGED <<lircPc, i, audience, written, removed>>
  BY DEF Main, Poll, Interrupted, Accept, AcceptFails, Reject, Admit, AppendClient,
         Drain, lircVars
<1>2. open = listed \cup Pending /\ listed \cap Pending = {}
  BY DEF ListInv, NoStaleFd
<1>3. CASE Poll \/ Interrupted \/ Accept \/ AcceptFails \/ Reject \/ Admit
  <2>1. UNCHANGED <<clis, clin>>
    BY <1>3 DEF Poll, Interrupted, Accept, AcceptFails, Reject, Admit
  <2>2. OwnSlots' = OwnSlots /\ listed' = listed
    BY <1>1, <2>1 DEF OwnSlots
  <2>3. BroadcastReachesAll' /\ WalkInv'
    BY <1>1, <2>1 DEF ListInv, BroadcastReachesAll, WalkInv, Broadcasting, Entries
  <2>4. open' = listed \cup Pending' /\ listed \cap Pending' = {}
    <3> HIDE DEF listed
    <3>1. CASE Poll \/ Interrupted \/ AcceptFails
      BY <1>2, <3>1 DEF Poll, Interrupted, AcceptFails, Pending
    <3>2. CASE Accept
      <4>1. PICK f \in Fds \ open : fd' = f /\ open' = open \cup {f}
        BY <3>2 DEF Accept
      <4>2. Pending = {} /\ Pending' = {f}
        BY <3>2, <4>1 DEF Accept, Pending
      <4> QED BY <1>2, <4>1, <4>2
    <3>3. CASE Reject
      BY <1>2, <3>3 DEF Reject, Pending
    <3>4. CASE Admit
      BY <1>2, <3>4 DEF Admit, Pending
    <3> QED BY <1>3, <3>1, <3>2, <3>3, <3>4
  <2>5. NoStaleFd'
    BY <2>1, <2>2, <2>4 DEF ListInv, NoStaleFd
  <2> QED BY <2>3, <2>5 DEF ListInv
<1>4. CASE AppendClient
  <2>1. /\ clin \in Slots /\ clis' = [clis EXCEPT ![clin] = fd] /\ clin' = clin + 1
        /\ ~Broadcasting /\ lircPc # "shift" /\ mainPc = "append"
        /\ mainPc' = "loop" /\ UNCHANGED open
    BY <1>4 DEF AppendClient, NoOverflow, Broadcasting
  <2>2. BroadcastReachesAll' /\ WalkInv'
    BY <1>1, <2>1 DEF ListInv, BroadcastReachesAll, WalkInv, Broadcasting
  <2>3. /\ OwnSlots = {k \in Slots : k < clin}
        /\ OwnSlots' = OwnSlots \cup {clin}
    BY <1>1, <2>1 DEF OwnSlots
  <2>4. \A k \in OwnSlots : clis'[k] = clis[k]
    BY <2>1, <2>3
  <2>5. {clis[k] : k \in OwnSlots}' = {clis[k] : k \in OwnSlots} \cup {fd}
    BY <2>1, <2>3, <2>4
  <2>6. Pending' = {} /\ Pending = {fd} \ {FAIL}
    BY <2>1 DEF Pending
  <2>7. \A k \in OwnSlots : clis[k] = fd => fd = FAIL
    BY <1>2, <2>6
  <2>8. ASSUME NEW k \in Slots, NEW l \in Slots, k < clin', l < clin',
               clis'[k] = clis'[l], clis'[k] # FAIL
        PROVE  k = l
    <3>1. CASE k < clin /\ l < clin
      BY <2>3, <2>4, <2>8, <3>1 DEF ListInv, NoStaleFd
    <3>2. CASE k = clin /\ l < clin
      BY <2>1, <2>3, <2>4, <2>7, <2>8, <3>2
    <3>3. CASE k < clin /\ l = clin
      BY <2>1, <2>3, <2>4, <2>7, <2>8, <3>3
    <3> QED BY <2>1, <2>8, <3>1, <3>2, <3>3
  <2>9. open' = ({clis[k] : k \in OwnSlots}' \ {FAIL}) \cup Pending'
    BY <1>2, <2>1, <2>5, <2>6
  <2>10. NoStaleFd'
    BY <2>6, <2>8, <2>9 DEF NoStaleFd
  <2> QED BY <2>2, <2>10 DEF ListInv
<1>5. CASE Drain
  <2>1. /\ open' = open \ Entries(0, clin) /\ clin' = 0 /\ ~Broadcasting
        /\ mainPc = "loop" /\ mainPc' = "done"
    BY <1>5 DEF Drain, Broadcasting
  <2>2. BroadcastReachesAll' /\ WalkInv'
    BY <1>1, <2>1 DEF ListInv, BroadcastReachesAll, WalkInv, Broadcasting
  <2>3. Pending = {} /\ Pending' = {} /\ OwnSlots' = {}
    BY <2>1 DEF Pending, OwnSlots
  <2>4. OwnSlots = {k \in Slots : 0 <= k /\ k < clin}
    BY <2>1 DEF OwnSlots, Broadcasting
  <2>5. open' = {}
    BY <1>2, <2>1, <2>3, <2>4 DEF Entries
  <2>6. {k \in Slots : k < clin'} = {}
    BY <2>1 DEF Slots
  <2>7. {clis[k] : k \in OwnSlots}' = {}
    BY <2>3
  <2>8. NoStaleFd'
    BY <2>3, <2>5, <2>6, <2>7 DEF NoStaleFd
  <2> QED BY <2>2, <2>8 DEF ListInv
<1> QED BY <1>3, <1>4, <1>5 DEF Main

LEMMA ListInvariant == Spec => []ListInv
<1>1. Init => ListInv
  BY InitListInv
<1>2. ClientInv /\ ListInv /\ [Next]_vars => ListInv'
  <2> SUFFICES ASSUME ClientInv, ListInv, [Next]_vars PROVE ListInv'
    OBVIOUS
  <2>1. CASE Cancel \/ UNCHANGED vars
    <3>1. UNCHANGED <<clis, clin, open, mainPc, fd, lircPc, i, audience, written,
                      removed>>
      BY <2>1 DEF Cancel, vars, mainVars, lircVars
    <3>2. OwnSlots' = OwnSlots /\ Pending' = Pending
      BY <3>1 DEF OwnSlots, Pending
    <3> QED BY <3>1, <3>2 DEF ListInv, NoStaleFd, BroadcastReachesAll, WalkInv,
                              Broadcasting, Entries
  <2> QED BY <2>1, MainListInv, LircListInv DEF Next, Terminated
<1> QED BY <1>1, <1>2, ClientInvariant, PTL DEF Spec

\* No slot ever names a closed descriptor or one the kernel has given away
\* again, for every number of clients (lirc_srv.c:205-253).
THEOREM NoStaleDescriptor == Spec => []NoStaleFd
<1>1. ListInv => NoStaleFd
  BY DEF ListInv
<1> QED BY <1>1, ListInvariant, PTL

\* A broadcast leaves nobody out and serves nobody twice, whichever of its
\* writes fail (lirc_thr.c:375-381, lirc_srv.c:238-252).
THEOREM BroadcastLeavesNobodyOut == Spec => []BroadcastReachesAll
<1>1. ListInv => BroadcastReachesAll
  BY DEF ListInv
<1> QED BY <1>1, ListInvariant, PTL

\* A server that has returned has closed every client (lirc_srv.c:146-164).
THEOREM ServerDrains == Spec => []Drained
<1>1. ClientInv /\ ListInv => Drained
  <2> SUFFICES ASSUME ClientInv, ListInv, mainPc = "done"
               PROVE  clin = 0 /\ open = {}
    BY DEF Drained
  <2>1. clin = 0
    BY DEF ClientInv
  <2>2. OwnSlots = {} /\ Pending = {}
    BY <2>1, ClientAssumption DEF OwnSlots, Pending, Slots
  <2> QED BY <2>1, <2>2 DEF ListInv, NoStaleFd
<1> QED BY <1>1, ClientInvariant, ListInvariant, PTL

-----------------------------------------------------------------------------
(* A broadcast has a bounded number of steps to go.                        *)

\* What is left of a broadcast is bounded, so that it cannot shrink for ever.
LEMMA StepsAreBounded ==
  ASSUME ClientInv, Broadcasting
  PROVE  StepsLeft \in 0 .. 3 * MAX_CLIENTS + 2
<1>1. clin \in 0 .. MAX_CLIENTS /\ i \in 0 .. MAX_CLIENTS /\ i <= clin
  BY ClientAssumption DEF ClientInv, TypeOK
<1>2. lircPc \in {"write", "close", "shift"}
  BY DEF Broadcasting
<1> QED BY <1>1, <1>2, ClientAssumption DEF StepsLeft

LEMMA LircShrinks ==
  ASSUME ClientInv, ListInv, Broadcasting, Lirc
  PROVE  StepsLeft' < StepsLeft \/ ~Broadcasting'
<1>1. clin \in Nat /\ i \in Nat
  BY ClientAssumption DEF ClientInv, TypeOK
<1>2. lircPc \in {"write", "close", "shift"}
  BY DEF Broadcasting
<1>3. CASE WriteSucceeds BY <1>1, <1>3 DEF WriteSucceeds, StepsLeft
<1>4. CASE WriteFails BY <1>1, <1>4 DEF WriteFails, StepsLeft
<1>5. CASE CloseClient BY <1>1, <1>5 DEF CloseClient, StepsLeft
<1>6. CASE ShiftClients
  <2>1. clin' = clin - 1 /\ i' = i /\ lircPc = "shift" /\ lircPc' = "write"
    BY <1>6 DEF ShiftClients
  <2> QED BY <1>1, <2>1 DEF StepsLeft
<1>7. CASE Unlock BY <1>7 DEF Unlock, Broadcasting
<1> QED BY <1>2, <1>3, <1>4, <1>5, <1>6, <1>7
           DEF Lirc, LircPoll, NothingToSend, AssertHolds, AssertFails, Lock

\* The main thread cannot touch the list while the LIRC thread walks it.
LEMMA MainLeavesBroadcast ==
  ASSUME ClientInv, Broadcasting, Main
  PROVE  UNCHANGED <<lircPc, i, clin>>
BY DEF ClientInv, Main, Poll, Interrupted, Accept, AcceptFails, Reject, Admit,
       AppendClient, Drain, lircVars

\* A broadcast ends for want of steps: each of its own leaves one less, and
\* nobody adds any (lirc_thr.c:373-392, lirc_srv.c:229-231, 245-250).
THEOREM BroadcastRunsOut ==
  Spec => BroadcastShrinks /\ [](Broadcasting => StepsLeft \in 0 .. 3 * MAX_CLIENTS + 2)
<1>1. ClientInv /\ ListInv /\ [Next]_vars =>
        [Broadcasting => \/ StepsLeft' < StepsLeft
                         \/ ~Broadcasting'
                         \/ UNCHANGED <<lircPc, i, clin>>]_vars
  <2> SUFFICES ASSUME ClientInv, ListInv, Next, Broadcasting
               PROVE  \/ StepsLeft' < StepsLeft
                      \/ ~Broadcasting'
                      \/ UNCHANGED <<lircPc, i, clin>>
    OBVIOUS
  <2> QED BY LircShrinks, MainLeavesBroadcast
          DEF Next, Cancel, Terminated, vars, lircVars
<1>2. ClientInv => (Broadcasting => StepsLeft \in 0 .. 3 * MAX_CLIENTS + 2)
  BY StepsAreBounded
<1> QED BY <1>1, <1>2, ClientInvariant, ListInvariant, PTL DEF Spec, BroadcastShrinks

-----------------------------------------------------------------------------
(* The list implements the set of clients.                                 *)

LEMMA ListedFits ==
  ASSUME ClientInv
  PROVE  IsFiniteSet(Listed) /\ Cardinality(Listed) <= clin
<1> USE ClientAssumption DEF ClientInv, TypeOK, Slots
<1> DEFINE E == Entries(0, clin)
           f == [k \in 1 .. clin |-> clis[k - 1]]
<1>1. clin \in Nat
  OBVIOUS
<1>2. \A k \in 1 .. clin : k - 1 \in Slots /\ 0 <= k - 1 /\ k - 1 < clin
  OBVIOUS
<1>3. f \in [1 .. clin -> E]
  BY <1>2 DEF Entries
<1>4. \A e \in E : \E k \in 1 .. clin : f[k] = e
  <2> SUFFICES ASSUME NEW e \in E PROVE \E k \in 1 .. clin : f[k] = e
    OBVIOUS
  <2>1. PICK s \in Slots : 0 <= s /\ s < clin /\ e = clis[s]
    BY DEF Entries
  <2>2. s + 1 \in 1 .. clin /\ (s + 1) - 1 = s
    BY <2>1
  <2> QED BY <2>1, <2>2
<1> HIDE DEF f, E
<1>5. ExistsSurjection(1 .. clin, E)
  BY <1>3, <1>4 DEF ExistsSurjection, Surjection
<1>6. IsFiniteSet(E)
  BY <1>1, <1>5, FS_NatSurjection
<1>7. Cardinality(E) <= clin
  BY <1>1, <1>5, FS_SurjCardinalityBound
<1>8. Listed \in SUBSET E
  BY DEF Listed, OwnSlots, Entries, E
<1>9. IsFiniteSet(Listed) /\ Cardinality(Listed) <= Cardinality(E)
  BY <1>6, <1>8, FS_Subset
<1>10. Cardinality(Listed) \in Nat /\ Cardinality(E) \in Nat
  BY <1>6, <1>9, FS_CardinalityType
<1> QED BY <1>1, <1>7, <1>9, <1>10

\* A step that changes neither the list nor what is in add_client's hands,
\* nor how far a broadcast has come, is none of the set.
LEMMA SetUnchanged ==
  ASSUME UNCHANGED <<clis, clin, i>>, OwnSlots' = OwnSlots, Pending' = Pending,
         Broadcasting' <=> Broadcasting
  PROVE  UNCHANGED Abstract!setVars
<1>1. Listed' = Listed
  BY DEF Listed
<1>2. Ahead' = Ahead
  BY DEF Ahead
<1> QED BY <1>1, <1>2 DEF Abstract!setVars

\* The list as a broadcast sees it before and after the client in its slot:
\* nobody else has that client's descriptor.
LEMMA AheadSplits ==
  ASSUME ClientInv, ListInv, lircPc \in {"write", "close"}, i \in Slots, i < clin
  PROVE  /\ OwnSlots = {k \in Slots : k < clin}
         /\ Ahead = {clis[k] : k \in {s \in OwnSlots : i <= s}} \ {FAIL}
         /\ Listed \ {clis[i]} = {clis[k] : k \in {s \in OwnSlots : s # i}} \ {FAIL}
         /\ Ahead \ {clis[i]} = {clis[k] : k \in {s \in OwnSlots : i < s}} \ {FAIL}
         /\ clis[i] # FAIL => clis[i] \in Ahead /\ clis[i] \in Fds
<1> USE ClientAssumption DEF ClientInv, TypeOK
<1>1. OwnSlots = {k \in Slots : k < clin}
  BY DEF OwnSlots
<1>2. Ahead = {clis[k] : k \in {s \in OwnSlots : i <= s}} \ {FAIL}
  BY DEF Ahead, Broadcasting
<1>3. \A k \in OwnSlots : clis[k] = clis[i] => k = i \/ clis[k] = FAIL
  BY <1>1 DEF ListInv, NoStaleFd
<1>4. Listed \ {clis[i]} = {clis[k] : k \in {s \in OwnSlots : s # i}} \ {FAIL}
  BY <1>3 DEF Listed
<1>5. \A s \in OwnSlots : i <= s <=> s = i \/ i < s
  BY <1>1 DEF Slots
<1>6. Ahead \ {clis[i]} = {clis[k] : k \in {s \in OwnSlots : i < s}} \ {FAIL}
  BY <1>2, <1>3, <1>5
<1>7. clis[i] # FAIL => clis[i] \in Ahead /\ clis[i] \in Fds
  BY <1>1, <1>2, <1>5
<1> QED BY <1>1, <1>2, <1>4, <1>6, <1>7

\* The shift moves the clients in the list and changes nothing about them.
LEMMA ShiftIsSilent ==
  ASSUME ClientInv, ListInv, ShiftClients
  PROVE  UNCHANGED Abstract!setVars
<1> USE ClientAssumption DEF ClientInv, TypeOK, Slots
<1>1. /\ i \in Slots /\ i < clin /\ clin' = clin - 1 /\ i' = i
      /\ clin \in 1 .. MAX_CLIENTS
      /\ \A k \in Slots : k < i => clis'[k] = clis[k]
      /\ \A k \in Slots : i <= k /\ k < clin - 1 =>
           k + 1 \in Slots /\ clis'[k] = clis[k + 1]
  BY ShiftEffect
<1>2. /\ lircPc = "shift" /\ lircPc' = "write" /\ UNCHANGED <<mainPc, fd>>
  BY DEF ShiftClients, mainVars
<1>3. /\ OwnSlots = {k \in Slots : k < clin /\ k # i}
      /\ OwnSlots' = {k \in Slots : k < clin'}
      /\ Broadcasting /\ Broadcasting'
  BY <1>2 DEF OwnSlots, Broadcasting
<1>4. \A k \in OwnSlots' : \E j \in OwnSlots :
        clis'[k] = clis[j] /\ (i <= k <=> i <= j)
  <2> SUFFICES ASSUME NEW k \in Slots, k < clin - 1
               PROVE  \E j \in OwnSlots : clis'[k] = clis[j] /\ (i <= k <=> i <= j)
    BY <1>1, <1>3
  <2>1. CASE k < i BY <1>1, <1>3, <2>1
  <2>2. CASE i <= k
    <3>1. k + 1 \in OwnSlots /\ clis'[k] = clis[k + 1]
      BY <1>1, <1>3, <2>2
    <3> QED BY <1>1, <2>2, <3>1
  <2> QED BY <1>1, <2>1, <2>2
<1>5. \A j \in OwnSlots : \E k \in OwnSlots' :
        clis'[k] = clis[j] /\ (i <= k <=> i <= j)
  <2> SUFFICES ASSUME NEW j \in Slots, j < clin, j # i
               PROVE  \E k \in OwnSlots' : clis'[k] = clis[j] /\ (i <= k <=> i <= j)
    BY <1>3
  <2>1. CASE j < i BY <1>1, <1>3, <2>1
  <2>2. CASE i < j
    <3>1. j - 1 \in Slots /\ i <= j - 1 /\ j - 1 < clin - 1 /\ (j - 1) + 1 = j
      BY <1>1, <2>2
    <3>2. j - 1 \in OwnSlots' /\ clis'[j - 1] = clis[j]
      BY <1>1, <1>3, <3>1
    <3> QED BY <1>1, <2>2, <3>1, <3>2
  <2> QED BY <1>1, <2>1, <2>2
<1>6. Listed' = Listed
  BY <1>4, <1>5 DEF Listed
<1>7. Ahead' = Ahead
  <2> DEFINE before == {s \in OwnSlots : i <= s}
             after == {s \in OwnSlots' : i <= s}
  <2>1. \A k \in after : \E j \in before : clis'[k] = clis[j]
    BY <1>4
  <2>2. \A j \in before : \E k \in after : clis'[k] = clis[j]
    BY <1>5
  <2>3. {clis'[k] : k \in after} = {clis[j] : j \in before}
    BY <2>1, <2>2
  <2>4. /\ Ahead = {clis[j] : j \in before} \ {FAIL}
        /\ Ahead' = {clis'[k] : k \in after} \ {FAIL}
    BY <1>1, <1>3 DEF Ahead
  <2> QED BY <2>3, <2>4
<1>8. Pending' = Pending
  BY <1>2 DEF Pending
<1> QED BY <1>3, <1>6, <1>7, <1>8 DEF Abstract!setVars

\* What each step of the LIRC thread is to the set.
LEMMA LircImplements ==
  ASSUME ClientInv, ListInv, Lirc
  PROVE  [Abstract!Next]_(Abstract!setVars)
<1> USE ClientAssumption
<1>1. CASE LircPoll \/ NothingToSend \/ AssertHolds \/ AssertFails
  <2>1. /\ UNCHANGED <<clis, clin, i, mainPc, fd>>
        /\ ~Broadcasting /\ ~Broadcasting'
    BY <1>1 DEF LircPoll, NothingToSend, AssertHolds, AssertFails, Broadcasting,
                mainVars, lircVars
  <2>2. OwnSlots' = OwnSlots /\ Pending' = Pending
    BY <2>1 DEF OwnSlots, Pending, Broadcasting
  <2> QED BY <2>1, <2>2, SetUnchanged
<1>2. CASE WriteFails
  <2>1. /\ UNCHANGED <<clis, clin, i, mainPc, fd>>
        /\ lircPc = "write" /\ lircPc' = "close"
    BY <1>2 DEF WriteFails, mainVars
  <2>2. OwnSlots' = OwnSlots /\ Pending' = Pending
    BY <2>1 DEF OwnSlots, Pending
  <2> QED BY <2>1, <2>2, SetUnchanged DEF Broadcasting
<1>3. CASE Lock
  <2>1. /\ UNCHANGED <<clis, clin, mainPc, fd>> /\ i' = 0
        /\ lircPc = "lock" /\ lircPc' = "write"
    BY <1>3 DEF Lock, mainVars
  <2>2. OwnSlots' = OwnSlots /\ Pending' = Pending
    BY <2>1 DEF OwnSlots, Pending
  <2>3. ~Broadcasting /\ Broadcasting' = TRUE
    BY <2>1 DEF Broadcasting
  <2>4. Listed' = Listed
    BY <2>1, <2>2 DEF Listed
  <2>5. {s \in OwnSlots' : Broadcasting' /\ i' <= s} = OwnSlots
    BY <2>1, <2>2, <2>3 DEF OwnSlots, Slots
  <2>6. Ahead' = Listed
    BY <2>1, <2>5 DEF Ahead, Listed
  <2>7. Abstract!Begin
    BY <2>2, <2>3, <2>4, <2>6 DEF Abstract!Begin
  <2> QED BY <2>7 DEF Abstract!Next
<1>4. CASE WriteSucceeds \/ CloseClient
  <2>1. /\ lircPc \in {"write", "close"} /\ i \in Slots /\ i < clin
        /\ UNCHANGED <<clis, clin, mainPc, fd>>
    BY <1>4 DEF ClientInv, TypeOK, Slots, WriteSucceeds, CloseClient, mainVars
  <2>2. /\ OwnSlots = {k \in Slots : k < clin}
        /\ Ahead = {clis[k] : k \in {s \in OwnSlots : i <= s}} \ {FAIL}
        /\ Listed \ {clis[i]} = {clis[k] : k \in {s \in OwnSlots : s # i}} \ {FAIL}
        /\ Ahead \ {clis[i]} = {clis[k] : k \in {s \in OwnSlots : i < s}} \ {FAIL}
        /\ clis[i] # FAIL => clis[i] \in Ahead /\ clis[i] \in Fds
    BY <2>1, AheadSplits
  <2>3. Pending' = Pending
    BY <2>1 DEF Pending
  <2>4. Broadcasting /\ Broadcasting'
    BY <1>4 DEF Broadcasting, WriteSucceeds, CloseClient
  <2>5. CASE WriteSucceeds
    <3>1. i' = i + 1 /\ lircPc' = "write" /\ clis[i] \in open /\ lircPc = "write"
      BY <2>5 DEF WriteSucceeds
    <3>2. OwnSlots' = OwnSlots
      BY <2>1, <3>1 DEF OwnSlots
    <3>3. Listed' = Listed
      BY <2>1, <3>2 DEF Listed
    <3>4. {s \in OwnSlots' : Broadcasting' /\ i' <= s} = {s \in OwnSlots : i < s}
      BY <2>1, <2>2, <2>4, <3>1, <3>2 DEF Slots
    <3>5. Ahead' = Ahead \ {clis[i]}
      BY <2>1, <2>2, <3>4 DEF Ahead
    <3>6. clis[i] # FAIL
      BY <3>1 DEF ClientInv, TypeOK, FAIL
    <3>7. Abstract!Serve(clis[i])
      BY <2>2, <2>3, <2>4, <3>3, <3>5, <3>6 DEF Abstract!Serve
    <3> QED BY <2>2, <3>6, <3>7 DEF Abstract!Next
  <2>6. CASE CloseClient
    <3>1. i' = i /\ lircPc' = "shift"
      BY <2>6 DEF CloseClient
    <3>2. OwnSlots' = {s \in OwnSlots : s # i}
      BY <2>1, <2>2, <3>1 DEF OwnSlots
    <3>3. Listed' = Listed \ {clis[i]}
      BY <2>1, <2>2, <3>2 DEF Listed
    <3>4. {s \in OwnSlots' : Broadcasting' /\ i' <= s} = {s \in OwnSlots : i < s}
      BY <2>1, <2>2, <2>4, <3>1, <3>2 DEF Slots
    <3>5. Ahead' = Ahead \ {clis[i]}
      BY <2>1, <2>2, <3>4 DEF Ahead
    <3>6. CASE clis[i] = FAIL
      <4>1. Listed' = Listed /\ Ahead' = Ahead
        BY <2>2, <3>3, <3>5, <3>6 DEF Listed
      <4> QED BY <2>3, <2>4, <4>1 DEF Abstract!setVars
    <3>7. CASE clis[i] # FAIL
      <4>1. Abstract!Drop(clis[i])
        BY <2>2, <2>3, <2>4, <3>3, <3>5, <3>7 DEF Abstract!Drop
      <4> QED BY <2>2, <3>7, <4>1 DEF Abstract!Next
    <3> QED BY <3>6, <3>7
  <2> QED BY <1>4, <2>5, <2>6
<1>5. CASE ShiftClients BY <1>5, ShiftIsSilent
<1>6. CASE Unlock
  <2>1. /\ UNCHANGED <<clis, clin, mainPc, fd>> /\ i >= clin
        /\ lircPc = "write" /\ lircPc' = "loop"
    BY <1>6 DEF Unlock, mainVars
  <2>2. OwnSlots' = OwnSlots /\ Pending' = Pending
    BY <2>1 DEF OwnSlots, Pending
  <2>3. Broadcasting /\ Broadcasting' = FALSE
    BY <2>1 DEF Broadcasting
  <2>4. Listed' = Listed
    BY <2>1, <2>2 DEF Listed
  <2>5. {s \in OwnSlots : i <= s} = {}
    BY <2>1 DEF OwnSlots, Slots, ClientInv, TypeOK
  <2>6. Ahead = {} /\ Ahead' = {}
    BY <2>3, <2>5 DEF Ahead
  <2>7. Abstract!End
    BY <2>2, <2>3, <2>4, <2>6 DEF Abstract!End
  <2> QED BY <2>7 DEF Abstract!Next
<1> QED BY <1>1, <1>2, <1>3, <1>4, <1>5, <1>6 DEF Lirc

\* What each step of the main thread is to the set.
LEMMA MainImplements ==
  ASSUME ClientInv, ListInv, Main
  PROVE  [Abstract!Next]_(Abstract!setVars)
<1> USE ClientAssumption
<1>1. UNCHANGED <<lircPc, i>> /\ (Broadcasting' <=> Broadcasting)
  BY DEF Main, Poll, Interrupted, Accept, AcceptFails, Reject, Admit, AppendClient,
         Drain, lircVars, Broadcasting
<1>2. open = Listed \cup Pending /\ Listed \cap Pending = {}
  BY DEF ListInv, NoStaleFd, Listed
<1>3. fd \in Fds \cup {FAIL}
  BY DEF ClientInv, TypeOK
<1>4. CASE Poll \/ Interrupted \/ Accept \/ AcceptFails \/ Reject \/ Admit
  <2>1. UNCHANGED <<clis, clin>>
    BY <1>4 DEF Poll, Interrupted, Accept, AcceptFails, Reject, Admit
  <2>2. OwnSlots' = OwnSlots
    BY <1>1, <2>1 DEF OwnSlots
  <2>3. Listed' = Listed /\ Ahead' = Ahead
    BY <1>1, <2>1, <2>2 DEF Listed, Ahead
  <2>4. CASE Pending' = Pending
    BY <1>1, <2>3, <2>4 DEF Abstract!setVars
  <2>5. CASE Accept
    <3>1. PICK f \in Fds \ open : fd' = f /\ open' = open \cup {f}
      BY <2>5 DEF Accept
    <3>2. Pending = {} /\ Pending' = {f}
      BY <2>5, <3>1 DEF Accept, Pending, FAIL, ClientAssumption
    <3>3. Abstract!Connect(f)
      BY <1>1, <1>2, <2>3, <3>1, <3>2 DEF Abstract!Connect
    <3> QED BY <3>1, <3>3 DEF Abstract!Next
  <2>6. CASE Reject /\ Pending' # Pending
    <3>1. Pending = {fd} /\ Pending' = {} /\ fd \in Fds
      BY <1>3, <2>6 DEF Reject, Pending
    <3>2. Abstract!Refuse(fd)
      BY <1>1, <2>3, <3>1 DEF Abstract!Refuse
    <3> QED BY <3>1, <3>2 DEF Abstract!Next
  <2>7. CASE Poll \/ Interrupted \/ AcceptFails \/ Admit
    <3>1. Pending' = Pending
      BY <2>7 DEF Poll, Interrupted, AcceptFails, Admit, Pending
    <3> QED BY <2>4, <3>1
  <2> QED BY <1>4, <2>4, <2>5, <2>6, <2>7
<1>5. CASE AppendClient
  <2>1. /\ clin \in Slots /\ clis' = [clis EXCEPT ![clin] = fd] /\ clin' = clin + 1
        /\ ~Broadcasting /\ lircPc # "shift" /\ mainPc = "append"
        /\ mainPc' = "loop" /\ clin < MAX_CLIENTS /\ clin \in Nat
    BY <1>5 DEF AppendClient, NoOverflow, Broadcasting, ClientInv, TypeOK, Slots
  <2>2. /\ OwnSlots = {k \in Slots : k < clin}
        /\ OwnSlots' = OwnSlots \cup {clin}
    BY <1>1, <2>1 DEF OwnSlots, Slots
  <2>3. clis'[clin] = fd /\ \A k \in OwnSlots : clis'[k] = clis[k]
    BY <2>1, <2>2 DEF ClientInv, TypeOK
  <2>4. {clis[k] : k \in OwnSlots}' = {clis[k] : k \in OwnSlots} \cup {fd}
    BY <2>2, <2>3
  <2>5. Listed' = Listed \cup ({fd} \ {FAIL})
    BY <2>4 DEF Listed
  <2>6. Ahead = {} /\ Ahead' = {}
    BY <1>1, <2>1 DEF Ahead
  <2>7. Pending' = {} /\ Pending = {fd} \ {FAIL}
    BY <2>1 DEF Pending
  <2>8. CASE fd = FAIL
    BY <1>1, <2>5, <2>6, <2>7, <2>8 DEF Abstract!setVars
  <2>9. CASE fd # FAIL
    <3>1. Cardinality(Listed) < MAX_CLIENTS
      <4>1. IsFiniteSet(Listed) /\ Cardinality(Listed) <= clin
        BY ListedFits
      <4>2. Cardinality(Listed) \in Nat
        BY <4>1, FS_CardinalityType
      <4> QED BY <2>1, <4>1, <4>2
    <3>2. Abstract!Cardinality(Listed) = Cardinality(Listed)
      BY DEF Abstract!Cardinality, Cardinality
    <3>3. Abstract!Join(fd)
      BY <1>1, <2>1, <2>5, <2>6, <2>7, <2>9, <3>1, <3>2 DEF Abstract!Join
    <3> QED BY <1>3, <2>9, <3>3 DEF Abstract!Next
  <2> QED BY <2>8, <2>9
<1>6. CASE Drain
  <2>1. ~Broadcasting /\ clin' = 0 /\ mainPc = "loop" /\ mainPc' = "done"
    BY <1>6 DEF Drain, ClientInv, Broadcasting
  <2>2. OwnSlots' = {}
    BY <2>1 DEF OwnSlots, Slots
  <2>3. Listed' = {} /\ Ahead = {} /\ Ahead' = {}
    BY <1>1, <2>1, <2>2 DEF Listed, Ahead
  <2>4. Pending = {} /\ Pending' = {}
    BY <2>1 DEF Pending
  <2>5. Abstract!Close
    BY <1>1, <2>1, <2>3, <2>4 DEF Abstract!Close
  <2> QED BY <2>5 DEF Abstract!Next
<1> QED BY <1>4, <1>5, <1>6 DEF Main

LEMMA InitImplementsSet == Init => Abstract!Init
<1> SUFFICES ASSUME Init PROVE Abstract!Init
  OBVIOUS
<1>1. OwnSlots = {} /\ Pending = {} /\ Broadcasting = FALSE
  BY DEF Init, OwnSlots, Pending, Broadcasting, Slots
<1>2. Listed = {} /\ Ahead = {}
  BY <1>1 DEF Listed, Ahead
<1> QED BY <1>1, <1>2 DEF Abstract!Init

\* For every number of clients, the list that two threads change under each
\* other's feet is a set whose members are each served once by every broadcast
\* they were there for, or dropped (lirc_srv.c:111-254, lirc_thr.c:356-393).
THEOREM ClientSetRefinement == Spec => ImplementsClientSet
<1>1. ClientInv /\ ListInv /\ [Next]_vars => [Abstract!Next]_(Abstract!setVars)
  <2> SUFFICES ASSUME ClientInv, ListInv, [Next]_vars
               PROVE  [Abstract!Next]_(Abstract!setVars)
    OBVIOUS
  <2>1. CASE Cancel \/ UNCHANGED vars
    <3>1. UNCHANGED <<clis, clin, i, lircPc, mainPc, fd>>
      BY <2>1 DEF Cancel, vars, mainVars, lircVars
    <3>2. OwnSlots' = OwnSlots /\ Pending' = Pending /\ (Broadcasting' <=> Broadcasting)
      BY <3>1 DEF OwnSlots, Pending, Broadcasting
    <3> QED BY <3>1, <3>2, SetUnchanged
  <2> QED BY <2>1, MainImplements, LircImplements DEF Next, Terminated
<1> QED BY <1>1, InitImplementsSet, ClientInvariant, ListInvariant, PTL
        DEF Spec, ImplementsClientSet, Abstract!Spec
=============================================================================
