----------------------------- MODULE ListStore -----------------------------
(***************************************************************************)
(* What vectors and linked lists promise: each has a list of its own,      *)
(* which only operations on it change.  One that was moved from has the    *)
(* empty list.                                                             *)
(***************************************************************************)
EXTENDS Sequences, SequencesExt

CONSTANTS Vectors, Values

VARIABLES alive, list

vars == <<alive, list>>

Init == alive = {} /\ list = [v \in Vectors |-> <<>>]

Begin(v, s) ==
  v \notin alive /\ alive' = alive \cup {v} /\ list' = [list EXCEPT ![v] = s]

Change(v, s) == v \in alive /\ UNCHANGED alive /\ list' = [list EXCEPT ![v] = s]

Create(v) == Begin(v, <<>>) \/ \E w \in alive : Begin(v, list[w])

Push(v) ==
  \/ \E x \in Values : Change(v, Append(list[v], x))
  \/ \E k \in DOMAIN list[v] : Change(v, Append(list[v], list[v][k]))

Pop(v) == list[v] # <<>> /\ Change(v, Front(list[v]))

Assign(v) == \E w \in alive : Change(v, list[w])

\* The list of w is handed over to v.
Move(v) ==
  \E w \in alive :
    /\ alive' = alive \cup {v}
    /\ list' = [list EXCEPT ![w] = <<>>, ![v] = list[w]]

Destroy(v) == v \in alive /\ alive' = alive \ {v} /\ list' = [list EXCEPT ![v] = <<>>]

Next == \E v \in Vectors :
  Create(v) \/ Push(v) \/ Pop(v) \/ Assign(v) \/ Move(v) \/ Destroy(v)

Spec == Init /\ [][Next]_vars
=============================================================================
