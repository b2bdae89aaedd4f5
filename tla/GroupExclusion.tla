--------------------------- MODULE GroupExclusion ---------------------------
(***************************************************************************)
(* What a group lock promises (doc/concurrency/group_lock.md): threads of  *)
(* one group may be inside together, threads of different groups may not.  *)
(***************************************************************************)
CONSTANTS Threads, Group

VARIABLE inside \* the threads in the critical section

Init == inside = {}

Enter == \E t \in Threads \ inside :
  /\ \A u \in inside : Group[u] = Group[t]
  /\ inside' = inside \cup {t}

Leave == \E t \in inside : inside' = inside \ {t}

Next == Enter \/ Leave

Spec == Init /\ [][Next]_inside
=============================================================================
