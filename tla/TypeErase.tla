----------------------------- MODULE TypeErase -----------------------------
(***************************************************************************)
(* answer/template/type-erase.cxx: submit() puts a task at the end of a    *)
(* queue, and a worker that never ends runs the tasks, oldest first, with  *)
(* the queue's mutex held.  Each client submits one task and waits for its *)
(* result, as test_case1() does; a task has the name of the thread that    *)
(* submitted it.                                                           *)
(***************************************************************************)
EXTENDS Sequences, SequencesExt

CONSTANT Clients

TypeEraseAssumption == Clients \cap {"worker", "free"} = {}

Threads == Clients \union {"worker"}

VARIABLES vec,    \* the queue
          holder, \* who holds mtx: a thread, or "free"
          pc,     \* per thread
          cur,    \* the task the worker has taken, or nothing
          nested, \* the tasks that call submit() themselves
          done,   \* the tasks that have run, in that order
          order   \* history: the tasks, as they were submitted

vars == <<vec, holder, pc, cur, nested, done, order>>

Init ==
  /\ vec = <<>> /\ holder = "free" /\ cur = <<>>
  /\ pc = [t \in Threads |-> IF t = "worker" THEN "acquire" ELSE "lock"]
  /\ nested \in SUBSET Clients
  /\ done = <<>> /\ order = <<>>

Goto(t, from, to) == pc[t] = from /\ pc' = [pc EXCEPT ![t] = to]
Work(from, to) == Goto("worker", from, to)

\* A std::mutex refuses its own holder, too.
Take(t) == holder = "free" /\ holder' = t
Give == holder' = "free"

-----------------------------------------------------------------------------
(* submit(), by a client or by the task that the worker runs *)

\* Line 73.
Lock(t) ==
  /\ Goto(t, "lock", "emplace")
  /\ Take(t)
  /\ UNCHANGED <<vec, cur, nested, done, order>>

\* Lines 74-75: the mutex is given up before the worker is notified.
Emplace(t) ==
  /\ Goto(t, "emplace", "notify")
  /\ vec' = Append(vec, t) /\ order' = Append(order, t)
  /\ Give
  /\ UNCHANGED <<cur, nested, done>>

\* Mutant: only a task that joins others in the queue wakes the worker.
Notify_Later(t) ==
  /\ pc[t] = "notify"
  /\ pc' = [u \in Threads |->
              CASE u = t -> IF t = "worker" THEN "return" ELSE "get"
                [] u # t /\ pc[u] = "sleep" /\ Len(vec) > 1 -> "acquire"
                [] OTHER -> pc[u]]
  /\ UNCHANGED <<vec, holder, cur, nested, done, order>>

\* Lines 76-77.
Notify(t) ==
  /\ pc[t] = "notify"
  /\ pc' = [u \in Threads |->
              CASE u = t -> IF t = "worker" THEN "return" ELSE "get"
                [] u # t /\ pc[u] = "sleep" -> "acquire"
                [] OTHER -> pc[u]]
  /\ UNCHANGED <<vec, holder, cur, nested, done, order>>

\* Line 99.
Get(c) ==
  /\ Contains(done, c)
  /\ Goto(c, "get", "end")
  /\ UNCHANGED <<vec, holder, cur, nested, done, order>>

Submit(t) == Lock(t) \/ Emplace(t) \/ Notify(t)

-----------------------------------------------------------------------------
(* The worker, lines 86-96 *)

\* Line 88, and cv.wait taking the mutex again.
Acquire ==
  /\ Work("acquire", "check")
  /\ Take("worker")
  /\ UNCHANGED <<vec, cur, nested, done, order>>

\* Line 89: the predicate.
Check ==
  /\ Work("check", IF vec = <<>> THEN "block" ELSE "drain")
  /\ UNCHANGED <<vec, holder, cur, nested, done, order>>

\* Line 89: cv.wait gives the mutex up and sleeps.
Block ==
  /\ Work("block", "sleep")
  /\ Give
  /\ UNCHANGED <<vec, cur, nested, done, order>>

\* cv.wait may wake up by itself.
WakeSpuriously ==
  /\ Work("sleep", "acquire")
  /\ UNCHANGED <<vec, holder, cur, nested, done, order>>

\* Mutant: the newest task first.
PopFront_Back ==
  /\ vec # <<>>
  /\ Work("drain", "execute")
  /\ cur' = <<vec[Len(vec)]>> /\ vec' = SubSeq(vec, 1, Len(vec) - 1)
  /\ UNCHANGED <<holder, nested, done, order>>

\* Lines 91-92.
PopFront ==
  /\ vec # <<>>
  /\ Work("drain", "execute")
  /\ cur' = <<Head(vec)>> /\ vec' = Tail(vec)
  /\ UNCHANGED <<holder, nested, done, order>>

\* Line 93: the task starts, and may call submit() ...
Execute ==
  /\ Work("execute", IF cur[1] \in nested THEN "lock" ELSE "return")
  /\ UNCHANGED <<vec, holder, cur, nested, done, order>>

\* ... and returns, which sets its future.
Return ==
  /\ Work("return", "drain")
  /\ cur' = <<>> /\ done' = done \o cur
  /\ UNCHANGED <<vec, holder, nested, order>>

\* Lines 90 and 95.
Unlock ==
  /\ vec = <<>>
  /\ Work("drain", "acquire")
  /\ Give
  /\ UNCHANGED <<vec, cur, nested, done, order>>

Worker == Acquire \/ Check \/ Block \/ PopFront \/ Execute \/ Return \/ Unlock

-----------------------------------------------------------------------------
\* Line 93 in a task that submits: the worker holds the mutex it waits for.
Hangs == pc["worker"] = "lock"

\* The program goes on for ever, whether the worker sleeps or hangs.
Quiet == (pc["worker"] = "sleep" \/ Hangs) /\ UNCHANGED vars

Next ==
  \/ \E t \in Threads : Submit(t)
  \/ \E c \in Clients : Get(c)
  \/ Worker \/ WakeSpuriously \/ Quiet

\* The scheduler runs every thread.  (That a client gets the mutex is not
\* assumed: the worker may take and give it again and again.)
Fairness ==
  /\ WF_vars(Worker \/ Submit("worker"))
  /\ \A c \in Clients : WF_vars(Submit(c))

Spec == Init /\ [][Next]_vars /\ Fairness

-----------------------------------------------------------------------------
\* Between taking mtx and giving it up; the worker runs tasks there, too.
Inside(t) ==
  IF t = "worker"
    THEN pc[t] \in {"check", "block", "drain", "execute", "lock", "emplace", "notify", "return"}
    ELSE pc[t] = "emplace"

\* The queue is used by one thread at a time, the one that has the mutex.
Guarded == \A t \in Threads : Inside(t) <=> holder = t

\* Tasks run once each, in the order in which they were submitted.
RunsInOrder == done \o cur \o vec = order

\* The worker hangs only in a task that submits, and it never ends.
HangsInNested == Hangs => cur # <<>> /\ cur[1] \in nested
HangsForGood == [][Hangs => Hangs']_vars

\* A task that was submitted runs, also when the notification of line 76 comes
\* late, unless the worker hangs.
TasksRun ==
  \A c \in Clients : pc[c] = "notify" ~> Contains(done, c) \/ Hangs
=============================================================================
