------------------------ MODULE BoundedLocklessQueue ------------------------
(***************************************************************************)
(* answer/concurrency/bounded_lockless_queue.cxx: a ring of Cap slots, the *)
(* atomic counters head, producer_tail and consumer_tail, and threads that *)
(* loop on push() or pop() as in multi_thread_test().                      *)
(*                                                                         *)
(* Every access to an atomic or to a slot is a step.  The queue only       *)
(* copies the values it is given, so the value pushed under ticket i is    *)
(* called i.                                                               *)
(***************************************************************************)
EXTENDS Integers

CONSTANTS Producers, \* threads that call push()
          Consumers, \* threads that call pop()
          Cap,       \* template parameter Cap
          MaxTail    \* bound: no push() starts once producer_tail is MaxTail

ASSUME BoundedQueueAssumption ==
  /\ Cap \in Nat \ {0}
  /\ MaxTail \in Nat
  /\ Producers \cap Consumers = {}

VARIABLES head, producer_tail, consumer_tail,
          data,   \* the ring
          pc,     \* where each thread is in push() or pop()
          shadow, \* shadow_producer_tail of a producer, shadow_head of a consumer
          val,    \* local val of a consumer
          popped  \* the value the latest successful pop() returned

vars == <<head, producer_tail, consumer_tail, data, pc, shadow, val, popped>>

Threads == Producers \cup Consumers

Garbage == -1 \* a slot never written, or in the middle of a write
None == -2    \* nothing popped yet

Slot(i) == i % Cap

Init ==
  /\ head = 0 /\ producer_tail = 0 /\ consumer_tail = 0
  /\ data = [s \in 0..Cap-1 |-> Garbage]
  /\ pc = [t \in Threads |-> "idle"]
  /\ shadow = [t \in Threads |-> 0]
  /\ val = [c \in Consumers |-> Garbage]
  /\ popped = None

Goto(t, from, to) == pc[t] = from /\ pc' = [pc EXCEPT ![t] = to]

-----------------------------------------------------------------------------
(* push(), lines 38-57 *)

PushStart(p) ==
  /\ producer_tail < MaxTail
  /\ Goto(p, "idle", "size")
  /\ shadow' = [shadow EXCEPT ![p] = producer_tail]
  /\ UNCHANGED <<head, producer_tail, consumer_tail, data, val, popped>>

\* Mutant: the size is compared with one slot too many.
Full_OneMore(p) == shadow[p] - head = Cap + 1

Full(p) == shadow[p] - head = Cap

\* Lines 43-46: the size is computed from the shadow and a fresh head.
PushSize(p) ==
  /\ Goto(p, "size", IF Full(p) THEN "idle" ELSE "recheck")
  /\ UNCHANGED <<head, producer_tail, consumer_tail, data, shadow, val, popped>>

\* Line 48: a relaxed load may return any value since the shadow was loaded.
\* A different value repeats the loop and leaves the shadow as it was.
PushRecheck(p) ==
  /\ \E seen \in shadow[p]..producer_tail :
       Goto(p, "recheck", IF seen = shadow[p] THEN "claim" ELSE "size")
  /\ UNCHANGED <<head, producer_tail, consumer_tail, data, shadow, val, popped>>

ClaimOK(p) == producer_tail = shadow[p]

\* Line 50: compare_exchange_weak succeeds.
PushClaim(p) ==
  /\ ClaimOK(p)
  /\ Goto(p, "claim", "write")
  /\ producer_tail' = shadow[p] + 1
  /\ UNCHANGED <<head, consumer_tail, data, shadow, val, popped>>

\* Line 50: it fails, on a different value or spuriously, and reloads.
PushClaimLost(p) ==
  /\ Goto(p, "claim", "size")
  /\ shadow' = [shadow EXCEPT ![p] = producer_tail]
  /\ UNCHANGED <<head, producer_tail, consumer_tail, data, val, popped>>

\* Line 52: a plain store; a racing read may see it half done.
PushWrite(p) ==
  /\ \/ /\ Goto(p, "write", "written")
        /\ data' = [data EXCEPT ![Slot(shadow[p])] = Garbage]
     \/ /\ Goto(p, "written", "publish")
        /\ data' = [data EXCEPT ![Slot(shadow[p])] = shadow[p]]
  /\ UNCHANGED <<head, producer_tail, consumer_tail, shadow, val, popped>>

\* Mutants: publish out of turn, and wait for a ticket one too high.
PublishTurn_Any(p) == TRUE
PublishTurn_Next(p) == consumer_tail = shadow[p] + 1

PublishTurn(p) == consumer_tail = shadow[p]

\* Lines 53-55: spins until every earlier ticket is published.
PushPublish(p) ==
  /\ PublishTurn(p)
  /\ Goto(p, "publish", "idle")
  /\ consumer_tail' = consumer_tail + 1
  /\ UNCHANGED <<head, producer_tail, data, shadow, val, popped>>

-----------------------------------------------------------------------------
(* pop(), lines 59-71 *)

PopStart(c) ==
  /\ Goto(c, "idle", "avail")
  /\ shadow' = [shadow EXCEPT ![c] = head]
  /\ UNCHANGED <<head, producer_tail, consumer_tail, data, val, popped>>

\* Mutant: one slot is kept free.
Empty_OneLess(c) == shadow[c] + 1 >= consumer_tail

Empty(c) == shadow[c] = consumer_tail

\* Lines 64-65.
PopAvail(c) ==
  /\ Goto(c, "avail", IF Empty(c) THEN "idle" ELSE "read")
  /\ UNCHANGED <<head, producer_tail, consumer_tail, data, shadow, val, popped>>

\* Line 68: a plain load, before the slot is owned.
PopRead(c) ==
  /\ Goto(c, "read", "take")
  /\ val' = [val EXCEPT ![c] = data[Slot(shadow[c])]]
  /\ UNCHANGED <<head, producer_tail, consumer_tail, data, shadow, popped>>

TakeOK(c) == head = shadow[c]

\* Lines 69-70: compare_exchange_weak succeeds.
PopTake(c) ==
  /\ TakeOK(c)
  /\ Goto(c, "take", "idle")
  /\ head' = shadow[c] + 1
  /\ popped' = val[c]
  /\ UNCHANGED <<producer_tail, consumer_tail, data, shadow, val>>

\* Mutant: retry with the value read before.
PopTakeLost_Retry(c) ==
  /\ Goto(c, "take", "take")
  /\ shadow' = [shadow EXCEPT ![c] = head]
  /\ UNCHANGED <<head, producer_tail, consumer_tail, data, val, popped>>

\* Line 69: it fails, on a different value or spuriously, and reloads.
PopTakeLost(c) ==
  /\ Goto(c, "take", "avail")
  /\ shadow' = [shadow EXCEPT ![c] = head]
  /\ UNCHANGED <<head, producer_tail, consumer_tail, data, val, popped>>

-----------------------------------------------------------------------------
Push(p) ==
  \/ PushStart(p) \/ PushSize(p) \/ PushRecheck(p) \/ PushClaim(p)
  \/ PushClaimLost(p) \/ PushWrite(p) \/ PushPublish(p)

Pop(c) ==
  \/ PopStart(c) \/ PopAvail(c) \/ PopRead(c) \/ PopTake(c) \/ PopTakeLost(c)

Next == (\E p \in Producers : Push(p)) \/ (\E c \in Consumers : Pop(c))

\* The scheduler keeps running every thread, and a weak compare_exchange
\* that could succeed again and again does not fail spuriously for ever.
Fairness ==
  /\ \A p \in Producers : WF_vars(Push(p)) /\ SF_vars(PushClaim(p))
  /\ \A c \in Consumers : WF_vars(Pop(c)) /\ SF_vars(PopTake(c))

Spec == Init /\ [][Next]_vars /\ Fairness

-----------------------------------------------------------------------------
\* Types; in particular no pop() ever returns an unwritten or half-written slot.
TypeOK ==
  /\ head \in Nat /\ producer_tail \in Nat /\ consumer_tail \in Nat
  /\ data \in [0..Cap-1 -> Nat \cup {Garbage}]
  /\ pc \in [Threads -> {"idle", "size", "recheck", "claim", "write",
                         "written", "publish", "avail", "read", "take"}]
  /\ shadow \in [Threads -> Nat]
  /\ val \in [Consumers -> Nat \cup {Garbage}]
  /\ popped \in Nat \cup {None}

\* The three counters never cross and never span more than the ring, and the
\* assertions of lines 45 and 66 hold although both compare a shadow loaded
\* earlier with a counter that other threads have moved since.
CursorsInOrder ==
  /\ head <= consumer_tail /\ consumer_tail <= producer_tail
  /\ producer_tail <= head + Cap
  /\ \A p \in Producers : pc[p] = "size" => shadow[p] - head <= Cap
  /\ \A c \in Consumers : pc[c] = "avail" => shadow[c] <= consumer_tail

\* No producer overwrites a value that is published and not popped yet, and
\* no two producers are writing the same slot.
PublishedIntact ==
  /\ \A i \in head..consumer_tail-1 : data[Slot(i)] = i
  /\ \A p, q \in Producers :
       p # q /\ pc[p] \in {"write", "written"} /\ pc[q] \in {"write", "written"}
         => Slot(shadow[p]) # Slot(shadow[q])

\* A pop() about to win its compare_exchange holds the oldest value, although
\* it read the slot before it owned it (line 68 races with line 52).
TakesOldest ==
  \A c \in Consumers : pc[c] = "take" /\ shadow[c] = head => val[c] = head

\* push() returns false only when the ring is full at that moment, and pop()
\* returns nullopt only when nothing is published at that moment.
VerdictsReal ==
  /\ \A p \in Producers : pc[p] = "size" /\ Full(p) => producer_tail = head + Cap
  /\ \A c \in Consumers : pc[c] = "avail" /\ Empty(c) => head = consumer_tail

\* The queue is a bounded FIFO: claims are published in order, values leave in
\* the order of their claims, each once.
Run(first, past) == [i \in 1..past-first |-> first + i - 1]

Fifo == INSTANCE BoundedFifo
          WITH NoValue <- None,
               claimed <- Run(consumer_tail, producer_tail),
               items   <- Run(head, consumer_tail),
               out     <- popped

FifoSpec == Fifo!Spec

\* A push() that got a place finishes: nobody waits for ever in lines 53-55.
ClaimedIsPublished ==
  \A p \in Producers : pc[p] = "write" ~> pc[p] = "idle"

\* doc/concurrency/bounded_lockless_queue.md asks for a lock-free queue, in
\* which a call of push() returns when its thread keeps running.
PushReturns ==
  \A p \in Producers : pc[p] = "size" ~> pc[p] = "idle"
=============================================================================
