--------------------------- MODULE PriorityQueue ---------------------------
(***************************************************************************)
(* answer/stl/priority_queue.cxx: a binary heap in a container whose place *)
(* 0 is never used, so that the children of place k are 2k and 2k+1.  The  *)
(* loops that sift a value up or down are one iteration a step.            *)
(***************************************************************************)
EXTENDS Integers, Sequences, FiniteSets

CONSTANTS Values,  \* the numbers that are pushed
          MaxSize  \* bound: no push() to a queue of this size

PriorityQueueAssumption == Values \subseteq Int /\ MaxSize \in Nat

VARIABLES container, \* places 1, 2, ... of the code's container
          pc,        \* the loop that runs, or "idle"
          cur        \* place of the value that is sifted

vars == <<container, pc, cur>>

Init == container = <<>> /\ pc = "idle" /\ cur = 1

Swap(s, a, b) == [s EXCEPT ![a] = s[b], ![b] = s[a]]

\* less of lines 4-9.
f(x, y) == x < y

\* Line 23, and line 24: the new last place.
Push(v) ==
  /\ pc = "idle" /\ Len(container) < MaxSize
  /\ container' = Append(container, v)
  /\ pc' = "up" /\ cur' = Len(container) + 1

Parent(k) == k \div 2

\* Lines 25-30.
SiftUp ==
  /\ pc = "up"
  /\ IF cur > 1 /\ f(container[Parent(cur)], container[cur])
     THEN /\ container' = Swap(container, Parent(cur), cur)
          /\ cur' = Parent(cur)
          /\ UNCHANGED pc
     ELSE pc' = "idle" /\ cur' = 1 /\ UNCHANGED container

\* Lines 35-37; main() pops only what size() says is there, line 74.
Pop ==
  /\ pc = "idle" /\ container # <<>>
  /\ LET last == Len(container)
     IN  container' = SubSeq(Swap(container, 1, last), 1, last - 1)
  /\ pc' = "down" /\ cur' = 1

\* Mutant: the right child is compared with the parent, not with the best.
Best_Right(k) ==
  LET Beats(child, best) == child <= Len(container) /\ f(container[best], container[child])
  IN  IF Beats(2 * k + 1, k) THEN 2 * k + 1 ELSE IF Beats(2 * k, k) THEN 2 * k ELSE k

\* Lines 39-50: best_idx.
Best(k) ==
  LET Beats(child, best) == child <= Len(container) /\ f(container[best], container[child])
      left == IF Beats(2 * k, k) THEN 2 * k ELSE k
  IN  IF Beats(2 * k + 1, left) THEN 2 * k + 1 ELSE left

\* Lines 38 and 51-53.
SiftDown ==
  /\ pc = "down"
  /\ IF cur <= Len(container) /\ Best(cur) # cur
     THEN /\ container' = Swap(container, cur, Best(cur))
          /\ cur' = Best(cur)
          /\ UNCHANGED pc
     ELSE pc' = "idle" /\ cur' = 1 /\ UNCHANGED container

Next == (\E v \in Values : Push(v)) \/ SiftUp \/ Pop \/ SiftDown

Spec == Init /\ [][Next]_vars

-----------------------------------------------------------------------------
\* Types; the loops never leave the container.
TypeOK ==
  /\ container \in Seq(Values) /\ Len(container) <= MaxSize
  /\ pc \in {"idle", "up", "down"}
  /\ cur \in Nat \ {0}
  /\ pc = "up" => cur <= Len(container)

\* No value is above its parent, but for the one that is being sifted; while
\* that one moves, its children are in order with its parent.
HeapOrder ==
  /\ \A k \in 2..Len(container) :
       \/ container[k] <= container[Parent(k)]
       \/ pc = "up" /\ k = cur
       \/ pc = "down" /\ Parent(k) = cur
  /\ \A k \in 2..Len(container) :
       Parent(k) = cur /\ cur > 1 => container[k] <= container[Parent(cur)]

\* The queue is a bag from which pop() takes a largest value, the one that
\* top() returns.
Count(s) == [v \in Values |-> Cardinality({k \in DOMAIN s : s[k] = v})]

Bag == INSTANCE LargestFirst WITH items <- Count(container)

BagSpec == Bag!Spec

\* Line 58: top() is the value that the next pop() takes.
TopIsLargest ==
  pc = "idle" => \A k \in DOMAIN container : container[k] <= container[1]
=============================================================================
