---------------------------- MODULE LargestFirst ----------------------------
(***************************************************************************)
(* What a priority queue promises: it holds a bag of values, and a largest *)
(* one leaves it first.                                                    *)
(***************************************************************************)
EXTENDS Integers

CONSTANT Values

VARIABLE items \* how often each value is in the queue

Init == items = [v \in Values |-> 0]

Push(v) == items' = [items EXCEPT ![v] = @ + 1]

Pop ==
  \E v \in Values :
    /\ items[v] > 0
    /\ \A w \in Values : items[w] > 0 => w <= v
    /\ items' = [items EXCEPT ![v] = @ - 1]

Next == (\E v \in Values : Push(v)) \/ Pop

Spec == Init /\ [][Next]_items
=============================================================================
