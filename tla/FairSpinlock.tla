---------------------------- MODULE FairSpinlock ----------------------------
(***************************************************************************)
(* answer/concurrency/fair_spinlock.cxx: a ticket lock made of the atomic  *)
(* ints seq and flag, and the threads of main(), each of which increments  *)
(* the shared count Loops times inside the lock.                           *)
(*                                                                         *)
(* The variables seq, flag and myseq are the ideal counters; the program's *)
(* ints are their residues modulo Wrap, and whatever the program compares  *)
(* is compared modulo Wrap.                                                *)
(***************************************************************************)
EXTENDS Integers, FiniteSets

CONSTANTS Threads, \* the threads started by main()
          Loops,   \* iterations of each thread
          Wrap     \* number of values of an int

FairSpinlockAssumption ==
  /\ IsFiniteSet(Threads)
  /\ Loops \in Nat
  /\ Wrap \in Nat \ {0}
  /\ Cardinality(Threads) <= Wrap

VARIABLES seq, flag, count,
          pc,     \* where each thread is
          myseq,  \* local of lock()
          loaded, \* the value of count a thread has loaded in count++
          done    \* iterations a thread has finished

vars == <<seq, flag, count, pc, myseq, loaded, done>>

Init ==
  /\ seq = 0 /\ flag = 0 /\ count = 0
  /\ pc = [t \in Threads |-> "start"]
  /\ myseq = [t \in Threads |-> 0]
  /\ loaded = [t \in Threads |-> 0]
  /\ done = [t \in Threads |-> 0]

Goto(t, from, to) == pc[t] = from /\ pc' = [pc EXCEPT ![t] = to]

-----------------------------------------------------------------------------
\* Line 12: an atomic fetch_add.
TakeTicket(t) ==
  /\ done[t] < Loops
  /\ Goto(t, "start", "spin")
  /\ myseq' = [myseq EXCEPT ![t] = seq]
  /\ seq' = seq + 1
  /\ UNCHANGED <<flag, count, loaded, done>>

\* Mutants of the test of line 13.
MyTurn_Passed(t) == flag % Wrap >= myseq[t] % Wrap
MyTurn_Narrow(t) == flag % (Wrap - 1) = myseq[t] % (Wrap - 1)

MyTurn(t) == flag % Wrap = myseq[t] % Wrap

\* Line 13: the load that ends the loop; the others change nothing.
Enter(t) ==
  /\ MyTurn(t)
  /\ Goto(t, "spin", "load")
  /\ UNCHANGED <<seq, flag, count, myseq, loaded, done>>

\* Line 31: count++ is a load and a store.
Load(t) ==
  /\ Goto(t, "load", "store")
  /\ loaded' = [loaded EXCEPT ![t] = count]
  /\ UNCHANGED <<seq, flag, count, myseq, done>>

Store(t) ==
  /\ Goto(t, "store", "unlock")
  /\ count' = loaded[t] + 1
  /\ done' = [done EXCEPT ![t] = @ + 1]
  /\ UNCHANGED <<seq, flag, myseq, loaded>>

\* Line 17.
Unlock(t) ==
  /\ Goto(t, "unlock", "start")
  /\ flag' = flag + 1
  /\ UNCHANGED <<seq, count, myseq, loaded, done>>

\* The thread function returns and main() can join it.
Finished(t) == pc[t] = "start" /\ done[t] = Loops
Terminated == (\A t \in Threads : Finished(t)) /\ UNCHANGED vars

Step(t) ==
  TakeTicket(t) \/ Enter(t) \/ Load(t) \/ Store(t) \/ Unlock(t)

Next == (\E t \in Threads : Step(t)) \/ Terminated

\* The scheduler keeps running every thread.
Fairness == \A t \in Threads : WF_vars(Step(t))

Spec == Init /\ [][Next]_vars /\ Fairness

-----------------------------------------------------------------------------
Holding(t) == pc[t] \in {"load", "store", "unlock"}
Queued(t) == pc[t] = "spin" \/ Holding(t)

\* Types, and the tickets handed out never outnumber the threads.
TypeOK ==
  /\ seq \in Nat /\ flag \in Nat /\ count \in Nat
  /\ flag <= seq /\ seq <= flag + Cardinality(Threads)
  /\ pc \in [Threads -> {"start", "spin", "load", "store", "unlock"}]
  /\ myseq \in [Threads -> Nat]
  /\ loaded \in [Threads -> Nat]
  /\ done \in [Threads -> 0..Loops]

\* Mutual exclusion although the ints of lines 6-7 wrap around.
Exclusion == \A t, u \in Threads : Holding(t) /\ Holding(u) => t = u

\* No increment of count is lost: a thread stores to count (line 31) when
\* count still is what it loaded.
NoLostIncrement == \A t \in Threads : pc[t] = "store" => loaded[t] = count

\* doc/concurrency/fail_spinlock.md: a thread whose lock() took its place
\* before that of another thread enters the critical section before it.
FirstComeFirstServed ==
  [][\A t, u \in Threads :
       pc[t] = "spin" /\ Holding(t)' /\ t # u /\ Queued(u) => myseq[t] < myseq[u]]_vars

\* Nobody spins for ever in line 13.
EveryoneEnters == \A t \in Threads : pc[t] = "spin" ~> Holding(t)
=============================================================================
