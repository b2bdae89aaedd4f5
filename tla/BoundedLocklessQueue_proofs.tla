--------------------- MODULE BoundedLocklessQueue_proofs ---------------------
(***************************************************************************)
(* Safety of the bounded queue for any threads, capacity and bound.        *)
(***************************************************************************)
EXTENDS BoundedLocklessQueue, SequenceTheorems, TLAPS

\* Producers that own a ticket, and how far the tickets and shadows reach.
Owning == {"write", "written", "publish"}

Cursors ==
  /\ head <= consumer_tail /\ consumer_tail <= producer_tail
  /\ producer_tail <= head + Cap

ProducerShadows ==
  \A p \in Producers :
    /\ pc[p] \in {"size", "recheck", "claim"} => shadow[p] <= producer_tail
    /\ pc[p] \in {"recheck", "claim"} => shadow[p] < head + Cap
    /\ pc[p] \in Owning => consumer_tail <= shadow[p] /\ shadow[p] < producer_tail

TicketsDistinct ==
  \A p, q \in Producers :
    p # q /\ pc[p] \in Owning /\ pc[q] \in Owning => shadow[p] # shadow[q]

ConsumerShadows ==
  \A c \in Consumers :
    /\ shadow[c] <= head
    /\ pc[c] \in {"read", "take"} => shadow[c] < consumer_tail

Contents ==
  /\ \A i \in head..consumer_tail-1 : data[Slot(i)] = i
  /\ \A p \in Producers : pc[p] = "publish" => data[Slot(shadow[p])] = shadow[p]

IInv ==
  /\ TypeOK /\ Cursors /\ ProducerShadows /\ TicketsDistinct
  /\ ConsumerShadows /\ Contents /\ TakesOldest

(* Fewer than n apart, two different numbers have different remainders: the *)
(* slots of a window of at most Cap tickets are distinct.                   *)
LEMMA ModDistinct ==
  ASSUME NEW n \in Nat \ {0}, NEW i \in Nat, NEW j \in Nat, i < j, j - i < n
  PROVE  i % n # j % n
<1> SUFFICES ASSUME i % n = j % n PROVE FALSE
  OBVIOUS
<1>1. PICK a \in Nat, b \in Nat, r \in 0..n-1 : i = n * a + r /\ j = n * b + r
  <2>1. /\ i = n * (i \div n) + (i % n) /\ i \div n \in Nat /\ i % n \in 0..n-1
        /\ j = n * (j \div n) + (j % n) /\ j \div n \in Nat
    OBVIOUS
  <2> QED
    BY <2>1
<1>2. b > a
  <2>1. b <= a => n * b <= n * a
    OBVIOUS
  <2> QED
    BY <1>1, <2>1
<1>3. n * b >= n * a + n
  <2>1. b - a - 1 \in Nat /\ n * b = n * a + n + n * (b - a - 1) /\ n * (b - a - 1) >= 0
    BY <1>2
  <2> QED
    BY <2>1
<1> QED
  BY <1>1, <1>3

USE BoundedQueueAssumption

(* Every ticket has a slot of the ring. *)
LEMMA SlotInRing == \A i \in Nat : Slot(i) \in 0..Cap-1
  BY DEF Slot

(* Two tickets of the same window have different slots. *)
LEMMA SlotsDistinct ==
  ASSUME NEW i \in Nat, NEW j \in Nat, i # j, i - j < Cap, j - i < Cap
  PROVE  Slot(i) # Slot(j)
<1>1. CASE i < j
  BY <1>1, ModDistinct DEF Slot
<1>2. CASE j < i
  BY <1>2, ModDistinct DEF Slot
<1>3. QED
  BY <1>1, <1>2

(* The invariant holds initially. *)
LEMMA InitIInv == Init => IInv
  BY DEF Init, IInv, TypeOK, Cursors, ProducerShadows, TicketsDistinct, Owning,
         ConsumerShadows, Contents, TakesOldest, Threads, Garbage, None

(* Every step keeps the invariant. *)
LEMMA NextIInv == IInv /\ [Next]_vars => IInv'
<1> SUFFICES ASSUME IInv, [Next]_vars PROVE IInv'
  OBVIOUS
<1> USE DEF IInv, TypeOK, Cursors, ProducerShadows, TicketsDistinct, Owning,
        ConsumerShadows, Contents, TakesOldest, Threads, Goto
<1>1. ASSUME NEW p \in Producers, PushStart(p) PROVE IInv'
  BY <1>1 DEF PushStart
<1>2. ASSUME NEW p \in Producers, PushSize(p) PROVE IInv'
  <2>1. TypeOK' /\ Cursors' /\ TicketsDistinct' /\ ConsumerShadows' /\ Contents'
    BY <1>2 DEF PushSize
  <2>2. ProducerShadows'
    BY <1>2 DEF PushSize, Full
  <2>3. TakesOldest'
    BY <1>2 DEF PushSize
  <2>4. QED
    BY <2>1, <2>2, <2>3
<1>3. ASSUME NEW p \in Producers, PushRecheck(p) PROVE IInv'
  BY <1>3 DEF PushRecheck
<1>4. ASSUME NEW p \in Producers, PushClaim(p) PROVE IInv'
  BY <1>4 DEF PushClaim, ClaimOK
<1>5. ASSUME NEW p \in Producers, PushClaimLost(p) PROVE IInv'
  BY <1>5 DEF PushClaimLost
<1>6. ASSUME NEW p \in Producers, PushWrite(p) PROVE IInv'
  <2>1. Cursors' /\ ProducerShadows' /\ TicketsDistinct' /\ ConsumerShadows' /\ TakesOldest'
    BY <1>6 DEF PushWrite
  <2>2. TypeOK'
    BY <1>6, SlotInRing DEF PushWrite, Garbage
  <2>3. PICK w \in Nat \cup {Garbage} : data' = [data EXCEPT ![Slot(shadow[p])] = w]
    BY <1>6 DEF PushWrite, Garbage
  <2>4. \A i \in head..consumer_tail-1 :
          /\ i \in Nat /\ i # shadow[p]
          /\ i - shadow[p] < Cap /\ shadow[p] - i < Cap
    BY <1>6 DEF PushWrite
  <2>5. ASSUME NEW i \in head..consumer_tail-1 PROVE data'[Slot(i)] = i
    <3>1. Slot(i) # Slot(shadow[p])
      BY <2>4, SlotsDistinct
    <3>2. QED
      BY <2>3, <3>1, SlotInRing, <2>4
  <2>6. ASSUME NEW q \in Producers, q # p, pc[q] = "publish"
        PROVE  data'[Slot(shadow[q])] = shadow[q]
    <3>1. /\ shadow[q] # shadow[p]
          /\ shadow[q] - shadow[p] < Cap /\ shadow[p] - shadow[q] < Cap
      BY <1>6, <2>6 DEF PushWrite
    <3>2. Slot(shadow[q]) # Slot(shadow[p])
      BY <3>1, SlotsDistinct
    <3>3. QED
      BY <2>3, <2>6, <3>2, SlotInRing
  <2>7. pc'[p] = "publish" => data'[Slot(shadow[p])] = shadow[p]
    BY <1>6, SlotInRing DEF PushWrite
  <2>8. Contents'
    BY <1>6, <2>5, <2>6, <2>7 DEF PushWrite
  <2>9. QED
    BY <2>1, <2>2, <2>8
<1>7. ASSUME NEW p \in Producers, PushPublish(p) PROVE IInv'
  BY <1>7 DEF PushPublish, PublishTurn
<1>8. ASSUME NEW c \in Consumers, PopStart(c) PROVE IInv'
  BY <1>8 DEF PopStart
<1>9. ASSUME NEW c \in Consumers, PopAvail(c) PROVE IInv'
  BY <1>9 DEF PopAvail, Empty
<1>10. ASSUME NEW c \in Consumers, PopRead(c) PROVE IInv'
  <2>1. TypeOK' /\ Cursors' /\ ProducerShadows' /\ TicketsDistinct' /\ ConsumerShadows' /\ Contents'
    BY <1>10, SlotInRing DEF PopRead
  <2>2. shadow[c] = head => data[Slot(shadow[c])] = head
    BY <1>10 DEF PopRead
  <2>3. TakesOldest'
    BY <1>10, <2>2 DEF PopRead
  <2>4. QED
    BY <2>1, <2>3
<1>11. ASSUME NEW c \in Consumers, PopTake(c) PROVE IInv'
  BY <1>11 DEF PopTake, TakeOK
<1>12. ASSUME NEW c \in Consumers, PopTakeLost(c) PROVE IInv'
  BY <1>12 DEF PopTakeLost
<1>13. CASE UNCHANGED vars
  BY <1>13 DEF vars
<1>14. QED
  BY <1>1, <1>2, <1>3, <1>4, <1>5, <1>6, <1>7, <1>8, <1>9, <1>10, <1>11, <1>12, <1>13
     DEF Next, Push, Pop

(* The invariant holds throughout. *)
LEMMA Invariance == Spec => []IInv
<1>1. QED
  BY InitIInv, NextIInv, PTL DEF Spec

(* Types of the reachable states; no pop() returns a half-written slot. *)
THEOREM TypeCorrect == Spec => []TypeOK
<1>1. IInv => TypeOK
  BY DEF IInv
<1>2. QED
  BY <1>1, Invariance, PTL

(* Lines 45, 66: the counters stay in order and the assertions hold. *)
THEOREM CursorsCorrect == Spec => []CursorsInOrder
<1>1. IInv => CursorsInOrder
  BY DEF IInv, CursorsInOrder, TypeOK, Cursors, ProducerShadows, ConsumerShadows, Threads
<1>2. QED
  BY <1>1, Invariance, PTL

(* Line 52: a producer never touches a published slot nor the slot of       *)
(* another producer.                                                        *)
THEOREM SlotsCorrect == Spec => []PublishedIntact
<1>1. ASSUME IInv, NEW p \in Producers, NEW q \in Producers, p # q,
             pc[p] \in {"write", "written"}, pc[q] \in {"write", "written"}
      PROVE  Slot(shadow[p]) # Slot(shadow[q])
  <2>1. /\ shadow[p] \in Nat /\ shadow[q] \in Nat /\ shadow[p] # shadow[q]
        /\ shadow[p] - shadow[q] < Cap /\ shadow[q] - shadow[p] < Cap
    BY <1>1 DEF IInv, TypeOK, Cursors, ProducerShadows, TicketsDistinct, Owning, Threads
  <2>2. QED
    BY <2>1, SlotsDistinct
<1>2. IInv => PublishedIntact
  BY <1>1 DEF IInv, Contents, PublishedIntact
<1>3. QED
  BY <1>2, Invariance, PTL

(* Lines 68-70: the value a pop() is about to return is the oldest one. *)
THEOREM TakesCorrect == Spec => []TakesOldest
<1>1. IInv => TakesOldest
  BY DEF IInv
<1>2. QED
  BY <1>1, Invariance, PTL

(* Lines 46, 65: "full" and "empty" are true when they are decided. *)
THEOREM VerdictsCorrect == Spec => []VerdictsReal
<1>1. IInv => VerdictsReal
  BY DEF IInv, VerdictsReal, Full, Empty, TypeOK, Cursors, ProducerShadows,
         ConsumerShadows, Threads
<1>2. QED
  BY <1>1, Invariance, PTL

(* Consecutive tickets as a sequence. *)
LEMMA RunSeq ==
  ASSUME NEW a \in Nat, NEW b \in Nat, a <= b
  PROVE  Run(a, b) \in Seq(Nat) /\ Len(Run(a, b)) = b - a
  BY DEF Run

LEMMA RunTail ==
  ASSUME NEW a \in Nat, NEW b \in Nat, a < b
  PROVE  Run(a, b) # <<>> /\ Head(Run(a, b)) = a /\ Tail(Run(a, b)) = Run(a + 1, b)
<1>1. /\ Run(a, b) \in Seq(Nat) /\ Len(Run(a, b)) = b - a
      /\ Run(a + 1, b) \in Seq(Nat) /\ Len(Run(a + 1, b)) = b - a - 1
  <2>1. PICK c \in Nat : c = a + 1 /\ c <= b
    OBVIOUS
  <2>2. Run(c, b) \in Seq(Nat) /\ Len(Run(c, b)) = b - c
    BY <2>1, RunSeq
  <2>3. Run(a, b) \in Seq(Nat) /\ Len(Run(a, b)) = b - a
    BY RunSeq
  <2>4. QED
    BY <2>1, <2>2, <2>3
<1>2. Run(a, b) # <<>>
  BY <1>1
<1>3. Head(Run(a, b)) = a
  BY <1>1 DEF Run
<1>4. /\ Tail(Run(a, b)) \in Seq(Nat)
      /\ Len(Tail(Run(a, b))) = b - a - 1
      /\ \A i \in 1..b-a-1 : Tail(Run(a, b))[i] = Run(a, b)[i + 1]
  BY <1>1, <1>2, HeadTailProperties
<1>5. \A i \in 1..b-a-1 : Run(a, b)[i + 1] = Run(a + 1, b)[i]
  BY DEF Run
<1>6. Tail(Run(a, b)) = Run(a + 1, b)
  BY <1>1, <1>4, <1>5, SeqEqual
<1>7. QED
  BY <1>2, <1>3, <1>6

LEMMA RunAppend ==
  ASSUME NEW a \in Nat, NEW b \in Nat, a <= b
  PROVE  Append(Run(a, b), b) = Run(a, b + 1)
  BY DEF Run

LEMMA RunPrefix ==
  ASSUME NEW a \in Nat, NEW b \in Nat, a <= b
  PROVE  SubSeq(Run(a, b + 1), 1, b - a) = Run(a, b)
  BY DEF Run

(* The queue implements the bounded FIFO: a won compare_exchange of line 50 *)
(* is its Claim, that of line 55 its Publish, that of line 69 its Take, and *)
(* every other step changes nothing a client of the queue can see.          *)
THEOREM Refinement == Spec => FifoSpec
<1> USE DEF IInv, TypeOK, Cursors, Goto
<1>1. Init => Fifo!Init
  BY DEF Init, Fifo!Init, Run
<1>2. IInv /\ [Next]_vars => [Fifo!Next]_(Fifo!fifoVars)
  <2> SUFFICES ASSUME IInv, [Next]_vars PROVE [Fifo!Next]_(Fifo!fifoVars)
    OBVIOUS
  <2>1. ASSUME NEW p \in Producers, PushClaim(p) PROVE Fifo!Claim
    <3>1. /\ producer_tail' = producer_tail + 1 /\ producer_tail < head + Cap
          /\ consumer_tail' = consumer_tail /\ head' = head /\ popped' = popped
      BY <2>1 DEF PushClaim, ClaimOK, ProducerShadows
    <3>2. /\ Len(Run(consumer_tail, producer_tail)) = producer_tail - consumer_tail
          /\ Len(Run(head, consumer_tail)) = consumer_tail - head
          /\ Run(consumer_tail, producer_tail + 1) \in Seq(Nat)
          /\ Len(Run(consumer_tail, producer_tail + 1)) = producer_tail + 1 - consumer_tail
      <4>1. /\ producer_tail + 1 \in Nat /\ consumer_tail <= producer_tail + 1
            /\ consumer_tail <= producer_tail /\ head <= consumer_tail
        OBVIOUS
      <4>2. Len(Run(consumer_tail, producer_tail)) = producer_tail - consumer_tail
        BY <4>1, RunSeq
      <4>3. Len(Run(head, consumer_tail)) = consumer_tail - head
        BY <4>1, RunSeq
      <4>4. PICK b \in Nat : b = producer_tail + 1 /\ consumer_tail <= b
        BY <4>1
      <4>5. Run(consumer_tail, b) \in Seq(Nat) /\ Len(Run(consumer_tail, b)) = b - consumer_tail
        BY <4>4, RunSeq
      <4>6. QED
        BY <4>2, <4>3, <4>4, <4>5
    <3>3. SubSeq(Run(consumer_tail, producer_tail + 1), 1, producer_tail - consumer_tail)
            = Run(consumer_tail, producer_tail)
      BY RunPrefix
    <3>4. Run(consumer_tail, producer_tail + 1) # <<>>
      BY <3>2
    <3>5. QED
      BY <3>1, <3>2, <3>3, <3>4 DEF Fifo!Claim
  <2>2. ASSUME NEW p \in Producers, PushPublish(p) PROVE Fifo!Publish
    <3>1. /\ consumer_tail' = consumer_tail + 1 /\ consumer_tail < producer_tail
          /\ producer_tail' = producer_tail /\ head' = head /\ popped' = popped
      BY <2>2 DEF PushPublish, PublishTurn, ProducerShadows, Owning
    <3>2. QED
      BY <3>1, RunTail, RunAppend DEF Fifo!Publish
  <2>3. ASSUME NEW c \in Consumers, PopTake(c) PROVE Fifo!Take
    <3>1. /\ head' = head + 1 /\ head < consumer_tail /\ popped' = head
          /\ producer_tail' = producer_tail /\ consumer_tail' = consumer_tail
      BY <2>3 DEF PopTake, TakeOK, ConsumerShadows, TakesOldest
    <3>2. QED
      BY <3>1, RunTail DEF Fifo!Take
  <2>4. ASSUME UNCHANGED <<head, producer_tail, consumer_tail, popped>>
        PROVE  UNCHANGED Fifo!fifoVars
    BY <2>4 DEF Fifo!fifoVars
  <2>5. \/ \E p \in Producers : PushClaim(p) \/ PushPublish(p)
        \/ \E c \in Consumers : PopTake(c)
        \/ UNCHANGED <<head, producer_tail, consumer_tail, popped>>
    BY DEF Next, Push, Pop, PushStart, PushSize, PushRecheck, PushClaimLost, PushWrite,
           PopStart, PopAvail, PopRead, PopTakeLost, vars
  <2>6. QED
    BY <2>1, <2>2, <2>3, <2>4, <2>5 DEF Fifo!Next
<1>3. QED
  BY <1>1, <1>2, Invariance, PTL DEF Spec, FifoSpec, Fifo!Spec
==============================================================================
