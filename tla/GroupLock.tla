----------------------------- MODULE GroupLock -----------------------------
(***************************************************************************)
(* answer/concurrency/group_lock.cxx: a lock packed into one atomic word,  *)
(* the group that holds it in the two bits above Unit and the number of    *)
(* its holders below, and the threads of main(), each of which increments  *)
(* cnt Loops times inside the lock.                                        *)
(***************************************************************************)
EXTENDS Integers, FiniteSets

CONSTANTS Threads,
          Group, \* the group each thread locks for: 1 or 2
          Loops, \* iterations of each thread
          Unit   \* 2^30: the count of holders takes the bits below it

GroupLockAssumption ==
  /\ IsFiniteSet(Threads)
  /\ Group \in [Threads -> {1, 2}]
  /\ Loops \in Nat
  /\ Unit \in Nat \ {0}
  /\ Cardinality(Threads) < Unit

VARIABLES lk, cnt,
          pc,     \* where each thread is
          shadow, \* shadow_lk of lock() or unlock()
          loaded, \* the value of cnt a thread has loaded in cnt++
          done    \* iterations a thread has finished

vars == <<lk, cnt, pc, shadow, loaded, done>>

Init ==
  /\ lk = 0 /\ cnt = 0
  /\ pc = [t \in Threads |-> "start"]
  /\ shadow = [t \in Threads |-> 0]
  /\ loaded = [t \in Threads |-> 0]
  /\ done = [t \in Threads |-> 0]

Goto(t, from, to) == pc[t] = from /\ pc' = [pc EXCEPT ![t] = to]

\* Lines 16-38: the two fields of a word.
State(word) == word \div Unit
Count(word) == word % Unit

-----------------------------------------------------------------------------
(* lock(), lines 40-54, called in a loop until it returns true *)

\* Line 41, and line 52 when the compare_exchange fails, on a different value
\* or spuriously.
LoadToLock(t) ==
  /\ done[t] < Loops
  /\ \/ Goto(t, "start", "lock")
     \/ State(shadow[t]) \in {0, Group[t]} /\ Goto(t, "lock", "lock")
  /\ shadow' = [shadow EXCEPT ![t] = lk]
  /\ UNCHANGED <<lk, cnt, loaded, done>>

\* Line 47: lock() returns false and the caller calls it again.
Refused(t) ==
  /\ State(shadow[t]) \notin {0, Group[t]}
  /\ Goto(t, "lock", "start")
  /\ UNCHANGED <<lk, cnt, shadow, loaded, done>>

\* Mutants of lines 45-51: the group is not looked at, and the first holder
\* is not counted.
Admit_Any(t, word) == word + 1
Admit_NoCount(t, word) ==
  IF State(word) = 0 THEN word + Group[t] * Unit ELSE word + 1

\* Lines 45-51: the word in which t is one more holder.
Admit(t, word) ==
  IF State(word) = 0 THEN word + Group[t] * Unit + 1 ELSE word + 1

\* Line 52.
Acquire(t) ==
  /\ State(shadow[t]) \in {0, Group[t]}
  /\ lk = shadow[t]
  /\ Goto(t, "lock", "load")
  /\ lk' = Admit(t, shadow[t])
  /\ UNCHANGED <<cnt, shadow, loaded, done>>

-----------------------------------------------------------------------------
\* Lines 81 and 88: cnt++ is a load and a store.
Load(t) ==
  /\ Goto(t, "load", "store")
  /\ loaded' = [loaded EXCEPT ![t] = cnt]
  /\ UNCHANGED <<lk, cnt, shadow, done>>

Store(t) ==
  /\ Goto(t, "store", "leave")
  /\ cnt' = loaded[t] + 1
  /\ done' = [done EXCEPT ![t] = @ + 1]
  /\ UNCHANGED <<lk, shadow, loaded>>

-----------------------------------------------------------------------------
(* unlock(), lines 56-72 *)

\* Line 57, and line 71 when the compare_exchange fails.
LoadToUnlock(t) ==
  /\ \/ Goto(t, "leave", "unlock")
     \/ Goto(t, "unlock", "unlock")
  /\ shadow' = [shadow EXCEPT ![t] = lk]
  /\ UNCHANGED <<lk, cnt, loaded, done>>

\* Mutants of lines 62-67: the state is never cleared, and it is cleared when
\* one holder is left.
Dismiss_KeepState(word) == word - 1
Dismiss_Early(word) == IF Count(word - 1) <= 1 THEN 0 ELSE word - 1

\* Lines 62-67: the word with one holder less, 0 after the last one.
Dismiss(word) == IF Count(word - 1) = 0 THEN 0 ELSE word - 1

\* Line 71.
Release(t) ==
  /\ lk = shadow[t]
  /\ Goto(t, "unlock", "start")
  /\ lk' = Dismiss(shadow[t])
  /\ UNCHANGED <<cnt, shadow, loaded, done>>

-----------------------------------------------------------------------------
\* The thread function returns and main() can join it.
Finished(t) == pc[t] = "start" /\ done[t] = Loops
Terminated == (\A t \in Threads : Finished(t)) /\ UNCHANGED vars

Step(t) ==
  \/ LoadToLock(t) \/ Refused(t) \/ Acquire(t) \/ Load(t) \/ Store(t)
  \/ LoadToUnlock(t) \/ Release(t)

Next == (\E t \in Threads : Step(t)) \/ Terminated

\* The scheduler keeps running every thread, and a weak compare_exchange that
\* could succeed again and again does not fail spuriously for ever.
Fairness == \A t \in Threads :
  WF_vars(Step(t)) /\ SF_vars(Acquire(t)) /\ SF_vars(Release(t))

Spec == Init /\ [][Next]_vars /\ Fairness

-----------------------------------------------------------------------------
Inside(t) == pc[t] \in {"load", "store", "leave", "unlock"}
Holders == {t \in Threads : Inside(t)}

\* The word always says which group is inside and how many of it: the count
\* never runs over into the state and the state is 0 just when nobody is inside.
WordExact ==
  /\ Holders = {} => lk = 0
  /\ \A t \in Holders : lk = Group[t] * Unit + Cardinality(Holders)

\* The assertions of lines 26, 49 and 61 hold on words that may be stale.
AssertionsHold ==
  /\ \A t \in Threads : pc[t] = "lock" => State(shadow[t]) \in 0..2
  /\ \A t \in Threads : pc[t] = "unlock" => State(shadow[t]) = Group[t]

\* doc/concurrency/group_lock.md: the lock is a group lock.
Abstract == INSTANCE GroupExclusion WITH inside <- Holders
GroupSpec == Abstract!Spec

\* Every thread of main() finishes its iterations: nobody is refused for ever
\* once the other group is through, and no release is lost.
AllFinish == <>(\A t \in Threads : Finished(t))
=============================================================================
