--------------------------- MODULE LocklessQueue ---------------------------
(***************************************************************************)
(* answer/concurrency/lockless_queue.cxx: a linked queue whose push()      *)
(* moves tail first and links the node after that, and whose pop() moves   *)
(* head along the links and frees nothing.  The threads are those of       *)
(* multi_thread_test(), which push or pop for ever.                        *)
(*                                                                         *)
(* Node 0 is the dummy of line 23, node n the one made by the n-th push;   *)
(* a node stands for the value in it.                                      *)
(***************************************************************************)
EXTENDS Integers, Sequences

CONSTANTS Producers, Consumers,
          MaxPush \* bound: number of pushes

LocklessQueueAssumption == Producers \cap Consumers = {} /\ MaxPush \in Nat

nullptr == -1
Unset == -2 \* the next of the dummy, which line 14 does not initialise

Nodes == 0..MaxPush

VARIABLES head, tail, next,
          pc, shadow,  \* per thread; shadow is shadow_tail or shadow_head
          node,        \* new_node of a producer, the new head of a consumer
          pushes,      \* pushes begun
          order,       \* history: the nodes in the order in which tail took them
          crashed      \* a pointer that is null or unset was dereferenced

vars == <<head, tail, next, pc, shadow, node, pushes, order, crashed>>

Threads == Producers \cup Consumers

Init ==
  /\ head = 0 /\ tail = 0 /\ pushes = 0
  /\ next = [n \in Nodes |-> IF n = 0 THEN Unset ELSE nullptr]
  /\ pc = [t \in Threads |-> "idle"]
  /\ shadow = [t \in Threads |-> 0]
  /\ node = [t \in Threads |-> 0]
  /\ order = <<0>> /\ crashed = FALSE

Goto(t, from, to) == pc[t] = from /\ pc' = [pc EXCEPT ![t] = to]

-----------------------------------------------------------------------------
(* push(), lines 25-30 *)

\* Line 26.
PushNew(p) ==
  /\ pushes < MaxPush
  /\ Goto(p, "idle", "load")
  /\ pushes' = pushes + 1
  /\ node' = [node EXCEPT ![p] = pushes + 1]
  /\ UNCHANGED <<head, tail, next, shadow, order, crashed>>

\* Line 27, and line 28 when the compare_exchange fails, also spuriously.
PushLoad(p) ==
  /\ Goto(p, "load", "cas") \/ Goto(p, "cas", "cas")
  /\ shadow' = [shadow EXCEPT ![p] = tail]
  /\ UNCHANGED <<head, tail, next, node, pushes, order, crashed>>

TailIs(n) == tail = n

\* Line 28.
PushCas(p) ==
  /\ TailIs(shadow[p])
  /\ Goto(p, "cas", "link")
  /\ tail' = node[p]
  /\ order' = Append(order, node[p])
  /\ UNCHANGED <<head, next, shadow, node, pushes, crashed>>

\* Line 29.
PushLink(p) ==
  /\ Goto(p, "link", "idle")
  /\ next' = [next EXCEPT ![shadow[p]] = node[p]]
  /\ UNCHANGED <<head, tail, shadow, node, pushes, order, crashed>>

-----------------------------------------------------------------------------
(* pop(), lines 33-42 *)

\* Line 34, and line 36 when the compare_exchange fails, also spuriously.
PopLoad(c) ==
  /\ Goto(c, "idle", "test") \/ Goto(c, "cas", "test")
  /\ shadow' = [shadow EXCEPT ![c] = head]
  /\ UNCHANGED <<head, tail, next, node, pushes, order, crashed>>

Empty(c) == shadow[c] = tail

\* Line 36: the first operand of &&, and line 37.
PopTest(c) ==
  /\ Goto(c, "test", IF Empty(c) THEN "idle" ELSE "next")
  /\ UNCHANGED <<head, tail, next, shadow, node, pushes, order, crashed>>

\* Line 36: the argument shadow_head->next.
PopNext(c) ==
  /\ Goto(c, "next", "cas")
  /\ shadow[c] \in Nodes
  /\ node' = [node EXCEPT ![c] = next[shadow[c]]]
  /\ UNCHANGED <<head, tail, next, shadow, pushes, order, crashed>>

\* Mutant: a plain store.
HeadIs_Any(n) == TRUE

HeadIs(n) == head = n

\* Line 36.
PopCas(c) ==
  /\ HeadIs(shadow[c])
  /\ Goto(c, "cas", "data")
  /\ head' = node[c]
  /\ UNCHANGED <<tail, next, shadow, node, pushes, order, crashed>>

\* Line 39: shadow_head->next is read again, and its data returned.
PopData(c) ==
  /\ Goto(c, "data", "idle")
  /\ next[shadow[c]] \in Nodes
  /\ UNCHANGED <<head, tail, next, shadow, node, pushes, order, crashed>>

\* A pointer about to be dereferenced that points to no node.
Dangling(c) ==
  \/ pc[c] = "next" /\ shadow[c] \notin Nodes
  \/ pc[c] = "data" /\ next[shadow[c]] \notin Nodes

Crash(c) ==
  /\ Dangling(c)
  /\ crashed' = TRUE
  /\ UNCHANGED <<head, tail, next, pc, shadow, node, pushes, order>>

-----------------------------------------------------------------------------
Push(p) == PushNew(p) \/ PushLoad(p) \/ PushCas(p) \/ PushLink(p)
Pop(c) == PopLoad(c) \/ PopTest(c) \/ PopNext(c) \/ PopCas(c) \/ PopData(c) \/ Crash(c)

Next ==
  \/ \E p \in Producers : ~ crashed /\ Push(p)
  \/ \E c \in Consumers : ~ crashed /\ Pop(c)

Spec == Init /\ [][Next]_vars

-----------------------------------------------------------------------------
\* The node that follows n in the order of the pushes.
Successor(n) == CHOOSE m \in Nodes :
  \E k \in 1..Len(order)-1 : order[k] = n /\ order[k+1] = m

\* A link, once made, goes to the next value pushed, and two pops that have
\* won line 36 return different values, in the order of the pushes.
TakesInOrder ==
  /\ \A n \in Nodes : next[n] \in Nodes => next[n] = Successor(n)
  /\ \A c, d \in Consumers :
       c # d /\ pc[c] = "data" /\ pc[d] = "data" => shadow[c] # shadow[d]

\* As long as head points to a node, every value pushed and not popped yet
\* lies behind head, and only links that some push is about to make (line 29)
\* are missing on the way to tail.
NothingLost ==
  head \in Nodes =>
    \E k \in 1..Len(order) :
      /\ order[k] = head
      /\ \A j \in k..Len(order)-1 :
           \/ next[order[j]] = order[j+1]
           \/ \E p \in Producers : pc[p] = "link" /\ shadow[p] = order[j] /\ node[p] = order[j+1]

\* A pop reads a pointer that is no node only while a push is between lines 28
\* and 29 behind that very node.
MissesOnlyUnlinked ==
  [][\A c \in Consumers :
       pc[c] = "next" /\ pc'[c] = "cas" /\ node'[c] \notin Nodes
         => \E p \in Producers : pc[p] = "link" /\ shadow[p] = shadow[c]]_vars

\* doc/concurrency/lockless_queue.md asks for a queue that producers and
\* consumers share: no call dereferences a pointer that points to no node.
NoBadDereference == \A c \in Consumers : ~ Dangling(c)
=============================================================================
