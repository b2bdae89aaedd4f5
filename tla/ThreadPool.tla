----------------------------- MODULE ThreadPool -----------------------------
(***************************************************************************)
(* answer/concurrency/thread_pool.cxx: N workers, each with a queue, a     *)
(* mutex, a condition variable and a stop flag, and main(), which submits  *)
(* M tasks round robin, gets their results, and stops and joins the        *)
(* workers.  A task is called by its index in main()'s first loop.         *)
(***************************************************************************)
EXTENDS Integers, Sequences, SequencesExt

CONSTANTS N, \* number of workers
          M  \* number of tasks

ASSUME ThreadPoolAssumption == N \in Nat \ {0} /\ M \in Nat \ {0}

Workers == 0..N-1
Tasks == 0..M-1

VARIABLES wqs, mtxs, stop_flag, \* per worker
          pc,     \* where each worker is in worker_fn()
          ready,  \* tasks whose future has its result
          mpc, i  \* where main() is, and its loop variable

vars == <<wqs, mtxs, stop_flag, pc, ready, mpc, i>>

Init ==
  /\ wqs = [w \in Workers |-> <<>>]
  /\ mtxs = [w \in Workers |-> FALSE]
  /\ stop_flag = [w \in Workers |-> FALSE]
  /\ pc = [w \in Workers |-> "lock"]
  /\ ready = {}
  /\ mpc = "submit" /\ i = 0

Goto(w, from, to) == pc[w] = from /\ pc' = [pc EXCEPT ![w] = to]
MGoto(from, to) == mpc = from /\ mpc' = to

\* mtxs[w] says whether the mutex is held.
Lock(w) == ~ mtxs[w] /\ mtxs' = [mtxs EXCEPT ![w] = TRUE]
Unlock(w) == mtxs' = [mtxs EXCEPT ![w] = FALSE]

\* notify_all() on cvs[w].
Awake(w) == IF pc[w] = "sleep" THEN [pc EXCEPT ![w] = "lock"] ELSE pc

-----------------------------------------------------------------------------
(* submit(), lines 41-55, called by main() only *)

\* select_worker(), lines 34-39: the static cur follows main()'s loop.
Selected == i % N

\* Line 50.
SubmitLock ==
  /\ MGoto("submit", "push")
  /\ Lock(Selected)
  /\ UNCHANGED <<wqs, stop_flag, pc, ready, i>>

\* Line 51.
SubmitPush ==
  /\ MGoto("push", "notify")
  /\ wqs' = [wqs EXCEPT ![Selected] = Append(@, i)]
  /\ UNCHANGED <<mtxs, stop_flag, pc, ready, i>>

\* Mutant: the other workers are notified instead.
SubmitNotify_Next ==
  /\ MGoto("notify", "unlock")
  /\ pc' = Awake((i + 1) % N)
  /\ UNCHANGED <<wqs, mtxs, stop_flag, ready, i>>

\* Line 53.
SubmitNotify ==
  /\ MGoto("notify", "unlock")
  /\ pc' = Awake(Selected)
  /\ UNCHANGED <<wqs, mtxs, stop_flag, ready, i>>

\* Line 55; the next call, or the loop of line 86.
SubmitReturn ==
  /\ MGoto("unlock", IF i + 1 < M THEN "submit" ELSE "get")
  /\ i' = (i + 1) % M
  /\ Unlock(Selected)
  /\ UNCHANGED <<wqs, stop_flag, pc, ready>>

-----------------------------------------------------------------------------
(* main(), lines 86-96 *)

\* Line 87 waits for the result.
Get ==
  /\ i \in ready
  /\ MGoto("get", IF i + 1 < M THEN "get" ELSE "stop")
  /\ i' = (i + 1) % M
  /\ UNCHANGED <<wqs, mtxs, stop_flag, pc, ready>>

\* Line 92: without the mutex.
Stop ==
  /\ MGoto("stop", "notify_stop")
  /\ stop_flag' = [stop_flag EXCEPT ![i] = TRUE]
  /\ UNCHANGED <<wqs, mtxs, pc, ready, i>>

\* Line 93.
StopNotify ==
  /\ MGoto("notify_stop", "join")
  /\ pc' = Awake(i)
  /\ UNCHANGED <<wqs, mtxs, stop_flag, ready, i>>

\* Line 94.
Join ==
  /\ MGoto("join", IF i + 1 < N THEN "stop" ELSE "return")
  /\ pc[i] = "exit"
  /\ i' = (i + 1) % N
  /\ UNCHANGED <<wqs, mtxs, stop_flag, pc, ready>>

MainThread ==
  \/ SubmitLock \/ SubmitPush \/ SubmitNotify \/ SubmitReturn
  \/ Get \/ Stop \/ StopNotify \/ Join

-----------------------------------------------------------------------------
(* worker_fn(), lines 57-73 *)

\* Line 63, and cv.wait taking the mutex again.
WorkerLock(w) ==
  /\ Goto(w, "lock", "check")
  /\ Lock(w)
  /\ UNCHANGED <<wqs, stop_flag, ready, mpc, i>>

\* Mutant: the queue is not part of the condition.
MayRun_Stopped(w) == stop_flag[w]

MayRun(w) == wqs[w] # <<>> \/ stop_flag[w]

\* Line 64: the predicate.
Check(w) ==
  /\ Goto(w, "check", IF MayRun(w) THEN "drain" ELSE "block")
  /\ UNCHANGED <<wqs, mtxs, stop_flag, ready, mpc, i>>

\* Line 64: cv.wait gives the mutex up and sleeps, in one step.
Block(w) ==
  /\ Goto(w, "block", "sleep")
  /\ Unlock(w)
  /\ UNCHANGED <<wqs, stop_flag, ready, mpc, i>>

\* cv.wait may wake up by itself.
WakeSpuriously(w) ==
  /\ Goto(w, "sleep", "lock")
  /\ UNCHANGED <<wqs, mtxs, stop_flag, ready, mpc, i>>

\* Mutant: the mutex is given up while the task runs.
Start_Unlocked(w) ==
  /\ wqs[w] # <<>>
  /\ Goto(w, "drain", "run")
  /\ Unlock(w)
  /\ UNCHANGED <<wqs, stop_flag, ready, mpc, i>>

\* Lines 65-66: the task runs where it lies in the vector.
Start(w) ==
  /\ wqs[w] # <<>>
  /\ Goto(w, "drain", "run")
  /\ UNCHANGED <<wqs, mtxs, stop_flag, ready, mpc, i>>

\* Line 67: the task returns and its future becomes ready.
Finish(w) ==
  /\ Goto(w, "run", "pop_back")
  /\ ready' = ready \cup {Last(wqs[w])}
  /\ UNCHANGED <<wqs, mtxs, stop_flag, mpc, i>>

\* Mutant: the oldest task is removed.
PopBack_Front(w) ==
  /\ Goto(w, "pop_back", "drain")
  /\ wqs' = [wqs EXCEPT ![w] = Tail(@)]
  /\ UNCHANGED <<mtxs, stop_flag, ready, mpc, i>>

\* Line 68.
PopBack(w) ==
  /\ Goto(w, "pop_back", "drain")
  /\ wqs' = [wqs EXCEPT ![w] = Front(@)]
  /\ UNCHANGED <<mtxs, stop_flag, ready, mpc, i>>

\* Mutant: the flag is not looked at after the queue is drained.
Again_Always(w) ==
  /\ wqs[w] = <<>>
  /\ Goto(w, "drain", "lock")
  /\ Unlock(w)
  /\ UNCHANGED <<wqs, stop_flag, ready, mpc, i>>

\* Lines 70-72: the next iteration, or the end.
Again(w) ==
  /\ wqs[w] = <<>>
  /\ Goto(w, "drain", IF stop_flag[w] THEN "exit" ELSE "lock")
  /\ Unlock(w)
  /\ UNCHANGED <<wqs, stop_flag, ready, mpc, i>>

Worker(w) ==
  \/ WorkerLock(w) \/ Check(w) \/ Block(w)
  \/ Start(w) \/ Finish(w) \/ PopBack(w) \/ Again(w)

Returned == mpc = "return" /\ UNCHANGED vars

Next ==
  \/ MainThread
  \/ \E w \in Workers : Worker(w) \/ WakeSpuriously(w)
  \/ Returned

\* The scheduler keeps running every thread, and a mutex that is free again
\* and again is got in the end, also when the worker it belongs to keeps waking
\* up by itself; nothing makes a worker wake up without a notification.
Spec ==
  /\ Init /\ [][Next]_vars
  /\ WF_vars(MainThread) /\ SF_vars(SubmitLock)
  /\ \A w \in Workers : WF_vars(Worker(w))

-----------------------------------------------------------------------------
\* A submitted task never meets a worker that sleeps and will not be notified:
\* lines 50-53 leave no window between the predicate and the sleep.
SubmitWakes ==
  \A w \in Workers :
    pc[w] = "sleep" /\ wqs[w] # <<>> => mpc = "notify" /\ Selected = w

\* Each task runs once: only the one that line 68 is about to remove has run
\* and is still in a queue, and a task that is in no queue has run.
RunsOnce ==
  /\ \A w \in Workers : \A k \in 1..Len(wqs[w]) :
       wqs[w][k] \in ready <=> pc[w] = "pop_back" /\ k = Len(wqs[w])
  /\ mpc \in {"get", "stop"} =>
       \A t \in Tasks \ ready : \E w \in Workers : Contains(wqs[w], t)

\* cur_tsk of line 66 is a reference into the vector: nobody changes the
\* vector while the task runs.
TaskStaysPut ==
  [][\A w \in Workers : pc[w] = "run" => wqs'[w] = wqs[w]]_vars

\* Every future gets its result, so the loop of line 86 ends.
ResultsArrive == <>(mpc = "stop")

\* A worker that is not between its predicate and its sleep when line 93
\* notifies it does stop.
AwakeWorkersStop ==
  \A w \in Workers :
    mpc = "notify_stop" /\ i = w /\ pc[w] # "block" ~> pc[w] = "exit"

\* answer/concurrency/stop-thread.md: a worker whose flag is set leaves its
\* loop.
WorkersStop == \A w \in Workers : stop_flag[w] ~> pc[w] = "exit"
=============================================================================
