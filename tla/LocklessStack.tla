--------------------------- MODULE LocklessStack ---------------------------
(***************************************************************************)
(* answer/concurrency/lockless_stack.cxx: a linked stack changed by        *)
(* compare_exchange on head, whose pop() deletes the node it took, and the *)
(* threads of multi_thread_test(), which push or pop for ever.             *)
(*                                                                         *)
(* Nodes are addresses; new may return the address of a deleted node, and  *)
(* an access to a deleted node sees what the memory holds.  The n-th push  *)
(* pushes the value n.                                                     *)
(*                                                                         *)
(* Nothing keeps the node that one popper looks at from being deleted by   *)
(* another.  Whether it was is kept in stale, and a behaviour ends when a  *)
(* popper then goes by what it has: it reads the pointer in the deleted    *)
(* node, or its compare_exchange finds the address on the stack again.     *)
(***************************************************************************)
EXTENDS Integers, FiniteSets, Sequences

CONSTANTS Pushers, Poppers,
          Addresses, \* where new can put a node: positive numbers
          MaxPush    \* bound: number of pushes

LocklessStackAssumption ==
  /\ Pushers \cap Poppers = {} /\ MaxPush \in Nat
  /\ Addresses \subseteq Nat \ {0} /\ IsFiniteSet(Addresses)

null == 0

VARIABLES head,
          live,       \* addresses that hold a node
          next, data, \* contents of the memory
          pc, shadow_head, \* per thread
          node,       \* new_node of a pusher, the expected next of a popper
          val,        \* val of a popper
          pushes,     \* pushes begun
          stale,      \* history: poppers whose shadow_head was deleted since
                      \* they loaded it
          misused     \* history: one of them went by it

vars == <<head, live, next, data, pc, shadow_head, node, val, pushes, stale, misused>>

Threads == Pushers \cup Poppers

Init ==
  /\ head = null /\ live = {} /\ pushes = 0
  /\ next = [a \in Addresses |-> null]
  /\ data = [a \in Addresses |-> 0]
  /\ pc = [t \in Threads |-> "idle"]
  /\ shadow_head = [t \in Threads |-> null]
  /\ node = [t \in Threads |-> null]
  /\ val = [c \in Poppers |-> 0]
  /\ stale = {} /\ misused = FALSE

Goto(t, from, to) == pc[t] = from /\ pc' = [pc EXCEPT ![t] = to]

-----------------------------------------------------------------------------
(* push(), lines 18-24 *)

\* Line 19.
PushNew(p) ==
  /\ pushes < MaxPush
  /\ Goto(p, "idle", "load")
  /\ pushes' = pushes + 1
  /\ \E a \in Addresses \ live :
       /\ live' = live \cup {a}
       /\ node' = [node EXCEPT ![p] = a]
       /\ data' = [data EXCEPT ![a] = pushes + 1]
  /\ UNCHANGED <<head, next, shadow_head, val, stale, misused>>

\* Line 20, and line 23 when the compare_exchange fails.
PushLoad(p) ==
  /\ \/ Goto(p, "load", "link")
     \/ shadow_head[p] # head /\ Goto(p, "cas", "link")
  /\ shadow_head' = [shadow_head EXCEPT ![p] = head]
  /\ UNCHANGED <<head, live, next, data, node, val, pushes, stale, misused>>

\* Line 22.
PushLink(p) ==
  /\ Goto(p, "link", "cas")
  /\ next' = [next EXCEPT ![node[p]] = shadow_head[p]]
  /\ UNCHANGED <<head, live, data, shadow_head, node, val, pushes, stale, misused>>

\* Line 23.
PushCas(p) ==
  /\ shadow_head[p] = head
  /\ Goto(p, "cas", "idle")
  /\ head' = node[p]
  /\ UNCHANGED <<live, next, data, shadow_head, node, val, pushes, stale, misused>>

-----------------------------------------------------------------------------
(* pop(), lines 26-34 *)

\* Line 27, and line 30 when the compare_exchange fails.
PopLoad(c) ==
  /\ \/ Goto(c, "idle", "test")
     \/ shadow_head[c] # head /\ Goto(c, "cas", "test")
  /\ shadow_head' = [shadow_head EXCEPT ![c] = head]
  /\ stale' = stale \ {c}
  /\ UNCHANGED <<head, live, next, data, node, val, pushes, misused>>

\* Line 29.
PopTest(c) ==
  /\ Goto(c, "test", IF shadow_head[c] = null THEN "idle" ELSE "next")
  /\ UNCHANGED <<head, live, next, data, shadow_head, node, val, pushes, stale, misused>>

\* Line 30: the argument shadow_head->next.
PopNext(c) ==
  /\ Goto(c, "next", "cas")
  /\ node' = [node EXCEPT ![c] = next[shadow_head[c]]]
  /\ misused' = (c \in stale)
  /\ UNCHANGED <<head, live, next, data, shadow_head, val, pushes, stale>>

\* Line 30.
PopCas(c) ==
  /\ shadow_head[c] = head
  /\ Goto(c, "cas", "data")
  /\ head' = node[c]
  /\ misused' = (c \in stale)
  /\ UNCHANGED <<live, next, data, shadow_head, node, val, pushes, stale>>

\* Mutant: the node is deleted before its value is read.
PopData_Deleted(c) ==
  /\ Goto(c, "data", "delete")
  /\ val' = [val EXCEPT ![c] = data[shadow_head[c]]]
  /\ live' = live \ {shadow_head[c]}
  /\ UNCHANGED <<head, next, data, shadow_head, node, pushes, stale, misused>>

\* Line 31.
PopData(c) ==
  /\ Goto(c, "data", "delete")
  /\ val' = [val EXCEPT ![c] = data[shadow_head[c]]]
  /\ UNCHANGED <<head, live, next, data, shadow_head, node, pushes, stale, misused>>

\* Line 32.
PopDelete(c) ==
  /\ Goto(c, "delete", "idle")
  /\ live' = live \ {shadow_head[c]}
  /\ stale' = stale \cup {d \in Poppers \ {c} : /\ pc[d] \in {"test", "next", "cas"}
                                               /\ shadow_head[d] = shadow_head[c]}
  /\ UNCHANGED <<head, next, data, shadow_head, node, val, pushes, misused>>

Push(p) == PushNew(p) \/ PushLoad(p) \/ PushLink(p) \/ PushCas(p)
Pop(c) == PopLoad(c) \/ PopTest(c) \/ PopNext(c) \/ PopCas(c) \/ PopData(c) \/ PopDelete(c)

Next == ~ misused /\ ((\E p \in Pushers : Push(p)) \/ (\E c \in Poppers : Pop(c)))

Spec == Init /\ [][Next]_vars

-----------------------------------------------------------------------------
\* Until a popper goes by a node that was deleted, no node is linked, and none
\* read or deleted, after it was deleted.
PushersHold == \A p \in Pushers : pc[p] \in {"load", "link", "cas"} => node[p] \in live
PoppersHold == \A c \in Poppers :
  /\ pc[c] \in {"data", "delete"} => shadow_head[c] \in live
  /\ pc[c] = "next" /\ c \notin stale => shadow_head[c] \in live
NodesHeld == PushersHold /\ PoppersHold

\* The addresses from h on along the pointers nx, and the values from head on.
Walk(h, nx) ==
  LET f[i \in 0..Cardinality(Addresses)] ==
        IF i = 0 THEN h ELSE IF f[i - 1] = null THEN null ELSE nx[f[i - 1]]
  IN  f

chain == Walk(head, next)

Reachable == [i \in {j \in 1..Cardinality(Addresses) : chain[j - 1] # null} |-> data[chain[i - 1]]]

Popped == [c \in Poppers |-> IF pc[c] = "data" THEN data[shadow_head[c]] ELSE val[c]]

\* The stack is a stack until then: a pushed value is on top from line 23 on,
\* and a popper has the top value from line 30 on, although it reads it after
\* that.
Abstract == INSTANCE Lifo WITH Values <- 0..MaxPush, items <- Reachable, out <- Popped
LifoSpec == Abstract!Init /\ [][misused' \/ Abstract!Next]_<<Reachable, Popped>>
=============================================================================
