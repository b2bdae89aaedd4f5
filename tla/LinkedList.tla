----------------------------- MODULE LinkedList -----------------------------
(***************************************************************************)
(* answer/mm/linked_list.cxx: a ring of nodes, the head among them, with   *)
(* shared_ptr to the next and weak_ptr to the previous node.               *)
(*                                                                         *)
(* shared_ptr and weak_ptr are the library's: a node is there as long as   *)
(* the list or a node that is there refers to it.                          *)
(***************************************************************************)
EXTENDS Integers, Sequences, SequencesExt, FiniteSets, FiniteSetsExt

CONSTANTS Lists, Values,
          MaxNodes \* bound: the addresses

LinkedListAssumption == MaxNodes \in Nat

VARIABLES head, next, prev, data,
          live,  \* the nodes that are there
          leaked \* history: the nodes of lists that were destroyed

vars == <<head, next, prev, data, live, leaked>>

Nodes == 1..MaxNodes
null == 0
NoLinks == [n \in Nodes \cup {null} |-> null]

Init ==
  /\ head = [l \in Lists |-> null]
  /\ next = NoLinks /\ prev = NoLinks /\ data = [n \in Nodes \cup {null} |-> 0]
  /\ live = {} /\ leaked = {}

Room == Nodes \ live # {}
new == Min(Nodes \ live)

\* Of the nodes ns with links nx, those that keep each other or that a list
\* keeps.
Kept(ns, nx, hd) ==
  UNION {S \in SUBSET ns : S \subseteq Range(hd) \cup {nx[n] : n \in S}}

\* The links change, and the nodes that nothing refers to any more go.
Link(ns, nx, pv) ==
  /\ live' = Kept(ns, nx, head')
  /\ next' = [n \in DOMAIN next |-> IF n \in live' THEN nx[n] ELSE null]
  /\ prev' = [n \in DOMAIN prev |-> IF n \in live' THEN pv[n] ELSE null]

\* Lines 18-21.
Construct(l) ==
  /\ head[l] = null /\ Room
  /\ head' = [head EXCEPT ![l] = new]
  /\ Link(live \cup {new}, [next EXCEPT ![new] = new], [prev EXCEPT ![new] = new])
  /\ data' = [data EXCEPT ![new] = 0]
  /\ UNCHANGED leaked

\* Lines 23-30.
PushBack(l, x) ==
  /\ head[l] # null /\ Room
  /\ LET back == prev[head[l]]
     IN  /\ UNCHANGED head
         /\ Link(live \cup {new}, [next EXCEPT ![back] = new, ![new] = head[l]],
                 [prev EXCEPT ![new] = back, ![head[l]] = new])
  /\ data' = [data EXCEPT ![new] = x]
  /\ UNCHANGED leaked

\* Mutant: line 37 is forgotten.
PopBack_StillLinked(l) ==
  /\ head[l] # null /\ prev[head[l]] # head[l]
  /\ UNCHANGED head
  /\ Link(live, next, [prev EXCEPT ![head[l]] = prev[prev[head[l]]]])
  /\ UNCHANGED <<data, leaked>>

\* Lines 32-38; an empty list stays as it is.
PopBack(l) ==
  /\ head[l] # null /\ prev[head[l]] # head[l]
  /\ LET sec_back == prev[prev[head[l]]]
     IN  /\ UNCHANGED head
         /\ Link(live, [next EXCEPT ![sec_back] = head[l]], [prev EXCEPT ![head[l]] = sec_back])
  /\ UNCHANGED <<data, leaked>>

\* The nodes one after the other, until the next one is the first again.
Walk(from, links) ==
  LET at[k \in 0..MaxNodes] ==
        IF k = 0 THEN from
        ELSE IF links[at[k - 1]] = from THEN null ELSE links[at[k - 1]]
  IN  [k \in {m \in 1..MaxNodes : at[m] # null} |-> at[k]]

\* The destructor, which the compiler writes, gives up head.
Destroy(l) ==
  /\ head[l] # null
  /\ head' = [head EXCEPT ![l] = null]
  /\ Link(live, next, prev)
  /\ leaked' = leaked \cup {head[l]} \cup Range(Walk(head[l], next))
  /\ UNCHANGED data

Next == \E l \in Lists :
  Construct(l) \/ (\E x \in Values : PushBack(l, x)) \/ PopBack(l) \/ Destroy(l)

Spec == Init /\ [][Next]_vars

-----------------------------------------------------------------------------
Alive == {l \in Lists : head[l] # null}

\* Forward, as main() prints it, a list is what was pushed and not popped.
Contents(l) ==
  IF head[l] = null THEN <<>>
  ELSE LET nodes == Walk(head[l], next) IN [k \in DOMAIN nodes |-> data[nodes[k]]]

Store == INSTANCE ListStore
           WITH Vectors <- Lists, alive <- Alive, list <- [l \in Lists |-> Contents(l)]

ListSpec == Store!Spec

\* Backward a list is the same, no weak pointer of it has expired when lock()
\* follows it, and a node goes with pop_back().  The ring keeps itself when
\* its list goes: head->next never lets the head go.
RingsRight ==
  /\ \A l \in Alive : Walk(head[l], prev) = Reverse(Walk(head[l], next))
  /\ live = leaked \cup UNION {{head[l]} \cup Range(Walk(head[l], next)) : l \in Alive}
  /\ \A l, k \in Alive :
       l # k => (Range(Walk(head[l], next)) \cup {head[l]}) \cap Range(Walk(head[k], next)) = {}
=============================================================================
