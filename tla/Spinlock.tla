------------------------------ MODULE Spinlock ------------------------------
(***************************************************************************)
(* answer/concurrency/spinlock.cxx: a test-and-set lock, and main(), which *)
(* joins a thread whose body is "for (;;);" before it starts the threads   *)
(* that increment cnt under the lock.                                      *)
(*                                                                         *)
(* A loop without effects is undefined behaviour: a build may run it for   *)
(* ever or leave it out (loops).                                           *)
(***************************************************************************)
EXTENDS Integers, FiniteSets

CONSTANT Threads \* those of lines 22-28

SpinlockAssumption == IsFiniteSet(Threads)

n == Cardinality(Threads)

VARIABLES flag, cnt,
          pc, tmp, \* per thread; tmp is what cnt ++ has read
          mpc,     \* main()
          loops    \* what the build makes of line 20

vars == <<flag, cnt, pc, tmp, mpc, loops>>

Init ==
  /\ flag = FALSE /\ cnt = 0
  /\ pc = [t \in Threads |-> "new"] /\ tmp = [t \in Threads |-> 0]
  /\ mpc = "join" /\ loops \in BOOLEAN

Goto(t, from, to) == pc[t] = from /\ pc' = [pc EXCEPT ![t] = to]

\* Line 21.
JoinLoop == mpc = "join" /\ ~ loops /\ mpc' = "start" /\ UNCHANGED <<flag, cnt, pc, tmp, loops>>

\* Line 23; line 29 when all threads are there.
Start(t) ==
  /\ mpc = "start"
  /\ Goto(t, "new", "lock")
  /\ mpc' = IF \A u \in Threads \ {t} : pc[u] # "new" THEN "wait" ELSE "start"
  /\ UNCHANGED <<flag, cnt, tmp, loops>>

\* Lines 29-30.
Report ==
  /\ mpc = "wait" /\ \A t \in Threads : pc[t] = "end"
  /\ mpc' = "printed"
  /\ UNCHANGED <<flag, cnt, pc, tmp, loops>>

\* Mutant: the flag is tested and set in two steps (the test is forgotten).
Lock_Untested(t) ==
  /\ Goto(t, "lock", "load")
  /\ flag' = TRUE
  /\ UNCHANGED <<cnt, tmp, mpc, loops>>

\* Line 7: a test_and_set() that finds the flag set changes nothing.
Lock(t) ==
  /\ ~ flag
  /\ Goto(t, "lock", "load")
  /\ flag' = TRUE
  /\ UNCHANGED <<cnt, tmp, mpc, loops>>

\* Line 25.
Load(t) ==
  /\ Goto(t, "load", "store")
  /\ tmp' = [tmp EXCEPT ![t] = cnt]
  /\ UNCHANGED <<flag, cnt, mpc, loops>>

Store(t) ==
  /\ Goto(t, "store", "unlock")
  /\ cnt' = tmp[t] + 1
  /\ UNCHANGED <<flag, tmp, mpc, loops>>

\* Line 11.
Unlock(t) ==
  /\ Goto(t, "unlock", "end")
  /\ flag' = FALSE
  /\ UNCHANGED <<cnt, tmp, mpc, loops>>

Thread(t) == Lock(t) \/ Load(t) \/ Store(t) \/ Unlock(t)
Main == JoinLoop \/ (\E t \in Threads : Start(t)) \/ Report

\* main() waits for the loop, or has returned.
Rest == (mpc = "printed" \/ loops) /\ UNCHANGED vars

Next == Main \/ (\E t \in Threads : Thread(t)) \/ Rest

\* The scheduler runs every thread.  Each takes the lock once, so that one
\* that spins finds it free in the end.
Fairness == WF_vars(Main) /\ \A t \in Threads : WF_vars(Thread(t))

Spec == Init /\ [][Next]_vars /\ Fairness

-----------------------------------------------------------------------------
Types ==
  /\ flag \in BOOLEAN /\ cnt \in Nat /\ loops \in BOOLEAN
  /\ pc \in [Threads -> {"new", "lock", "load", "store", "unlock", "end"}]
  /\ tmp \in [Threads -> Nat]
  /\ mpc \in {"join", "start", "wait", "printed"}

\* The threads between lock() and unlock().
Inside == {t \in Threads : pc[t] \in {"load", "store", "unlock"}}

\* Mutual exclusion: one thread is inside when the flag is set, none otherwise.
Exclusion ==
  /\ \A t, u \in Inside : t = u
  /\ flag <=> Inside # {}

\* No increment is lost: cnt is the number of threads that have stored.
CountsExact ==
  /\ cnt = Cardinality({t \in Threads : pc[t] \in {"unlock", "end"}})
  /\ \A t \in Threads : pc[t] = "store" => tmp[t] = cnt

\* Line 30 prints n ...
PrintsAll == mpc = "printed" => cnt = n

\* ... if the loop of line 20 lets main() get there at all.
Prints == ~ loops ~> mpc = "printed"
=============================================================================
