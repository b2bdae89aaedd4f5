-------------------------------- MODULE H2O --------------------------------
(***************************************************************************)
(* answer/concurrency/H2O.cxx: a thread that prints H and a thread that    *)
(* prints O for ever, two H and one O a round, in the two versions of the  *)
(* file: condition_variable_ver() and atomic_variable_ver().               *)
(***************************************************************************)
EXTENDS Integers

Atoms == {"H", "O"} \* the threads, named by what they print
Quota == [H |-> 2, O |-> 1]

VARIABLES version, \* "condition_variable" or "atomic_variable"
          pc,
          mtx, cnt,             \* first version: mutex held; hcnt and ocnt
          x, print_cnt, shadow, \* second version
          printed               \* history: the characters of the round, complete
                                \* or not, that was printed last

cvVars == <<mtx, cnt>>
atomicVars == <<x, print_cnt, shadow>>
vars == <<version, pc, mtx, cnt, x, print_cnt, shadow, printed>>

Nothing == [t \in Atoms |-> 0]

Init ==
  /\ version \in {"condition_variable", "atomic_variable"}
  /\ pc = [t \in Atoms |-> IF version = "condition_variable" THEN "lock" ELSE "load"]
  /\ mtx = FALSE /\ cnt = Nothing
  /\ x = 0 /\ print_cnt = 0 /\ shadow = Nothing
  /\ printed = Nothing

Goto(t, from, to) == pc[t] = from /\ pc' = [pc EXCEPT ![t] = to]

\* Three characters make a round, whatever they are; the next begins a new one.
Emit(t) ==
  LET round == IF printed["H"] + printed["O"] = 3 THEN Nothing ELSE printed
  IN  printed' = [round EXCEPT ![t] = @ + 1]

-----------------------------------------------------------------------------
(* condition_variable_ver(), lines 7-44 *)

\* Lines 23 and 34, and the wait taking the mutex again.
Lock(t) ==
  /\ Goto(t, "lock", "check")
  /\ ~ mtx /\ mtx' = TRUE
  /\ UNCHANGED <<version, cnt, atomicVars, printed>>

\* Mutant: the predicates let one print too many.
MayPrint_OneMore(t) == cnt[t] <= Quota[t]

\* The predicates of lines 24 and 35.
MayPrint(t) == cnt[t] < Quota[t]

Check(t) ==
  /\ Goto(t, "check", IF MayPrint(t) THEN "put" ELSE "block")
  /\ UNCHANGED <<version, cvVars, atomicVars, printed>>

\* The wait gives the mutex up and sleeps, in one step.
Block(t) ==
  /\ Goto(t, "block", "sleep")
  /\ mtx' = FALSE
  /\ UNCHANGED <<version, cnt, atomicVars, printed>>

WakeSpuriously(t) ==
  /\ Goto(t, "sleep", "lock")
  /\ UNCHANGED <<version, cvVars, atomicVars, printed>>

\* Lines 25 and 36.
Put(t) ==
  /\ Goto(t, "put", "count")
  /\ Emit(t)
  /\ UNCHANGED <<version, cvVars, atomicVars>>

\* Lines 26-27 and 37-38.
Count(t) ==
  /\ Goto(t, "count", "notify")
  /\ LET counted == [cnt EXCEPT ![t] = @ + 1]
     IN  cnt' = IF counted = Quota THEN Nothing ELSE counted
  /\ UNCHANGED <<version, mtx, atomicVars, printed>>

\* Lines 28 and 39, and the end of the scope of lk.
Notify(t) ==
  /\ pc[t] = "notify"
  /\ pc' = [u \in Atoms |-> IF u = t \/ pc[u] = "sleep" THEN "lock" ELSE pc[u]]
  /\ mtx' = FALSE
  /\ UNCHANGED <<version, cnt, atomicVars, printed>>

CvThread(t) ==
  Lock(t) \/ Check(t) \/ Block(t) \/ Put(t) \/ Count(t) \/ Notify(t)

-----------------------------------------------------------------------------
(* atomic_variable_ver(), lines 46-99: x holds hcnt in two bits, ocnt above *)

Field(t, word) == IF t = "H" THEN word % 4 ELSE word \div 4

\* Lines 50 and 73, and 63 and 86 when the compare_exchange fails, also
\* spuriously.
Load(t) ==
  /\ Goto(t, "load", "test") \/ Goto(t, "cas", "test")
  /\ shadow' = [shadow EXCEPT ![t] = x]
  /\ UNCHANGED <<version, cvVars, x, print_cnt, printed>>

\* Lines 55 and 78: a full count ends the loop.
Test(t) ==
  /\ Goto(t, "test", IF Field(t, shadow[t]) # Quota[t] THEN "cas"
                     ELSE IF t = "H" THEN "load" ELSE "final")
  /\ UNCHANGED <<version, cvVars, atomicVars, printed>>

\* Lines 63 and 86.
Cas(t) ==
  /\ x = shadow[t]
  /\ Goto(t, "cas", "print")
  /\ x' = IF t = "H" THEN x + 1 ELSE x + 4
  /\ UNCHANGED <<version, cvVars, print_cnt, shadow, printed>>

\* Lines 65 and 88.
Cout(t) ==
  /\ Goto(t, "print", "add")
  /\ Emit(t)
  /\ UNCHANGED <<version, cvVars, atomicVars>>

\* Lines 66 and 89.
Add(t) ==
  /\ Goto(t, "add", IF t = "H" THEN "load" ELSE "final")
  /\ print_cnt' = print_cnt + 1
  /\ UNCHANGED <<version, cvVars, x, shadow, printed>>

\* Mutant: the count is one too high.
RoundOver_OneMore == print_cnt = 4

\* Line 91, in the O thread only.
RoundOver == print_cnt = 3

Final(t) ==
  /\ Goto(t, "final", IF RoundOver THEN "reset" ELSE "load")
  /\ UNCHANGED <<version, cvVars, atomicVars, printed>>

\* Lines 92-93.
ResetCount(t) ==
  /\ Goto(t, "reset", "release")
  /\ print_cnt' = 0
  /\ UNCHANGED <<version, cvVars, x, shadow, printed>>

Release(t) ==
  /\ Goto(t, "release", "load")
  /\ x' = 0
  /\ UNCHANGED <<version, cvVars, print_cnt, shadow, printed>>

AtomicThread(t) ==
  \/ Load(t) \/ Test(t) \/ Cas(t) \/ Cout(t) \/ Add(t)
  \/ Final(t) \/ ResetCount(t) \/ Release(t)

-----------------------------------------------------------------------------
Next == \E t \in Atoms : CvThread(t) \/ WakeSpuriously(t) \/ AtomicThread(t)

\* The scheduler keeps running both threads; a mutex that is free again and
\* again is got in the end, and a weak compare_exchange that could succeed
\* again and again does not fail spuriously for ever.
Fairness == \A t \in Atoms :
  /\ WF_vars(CvThread(t)) /\ SF_vars(Lock(t))
  /\ WF_vars(AtomicThread(t)) /\ SF_vars(Cas(t))

Spec == Init /\ [][Next]_vars /\ Fairness

-----------------------------------------------------------------------------
\* doc/concurrency/H2O.md: every round prints two H and one O, so that none
\* of its characters, the third included, is one too many.
RoundsOfWater == \A t \in Atoms : printed[t] <= Quota[t]

\* The assertions of lines 59 and 82 hold on words that may be stale, and
\* the reset of lines 92-93 meets no print that is not counted.
AssertionsHold ==
  /\ \A t \in Atoms : pc[t] = "cas" => Field(t, shadow[t]) < Quota[t]
  /\ pc["O"] \in {"reset", "release"} => x = 6 /\ pc["H"] \notin {"print", "add"}

\* Printing never comes to rest, neither in the middle of a round nor at its
\* end.
RoundsGoOn == []<>(printed = Quota) /\ []<>(printed # Quota)
=============================================================================
