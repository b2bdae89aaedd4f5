-------------------------- MODULE ThreadPool_proofs --------------------------
(***************************************************************************)
(* Safety of the thread pool for any number of workers and tasks.          *)
(*                                                                         *)
(* A queue changes only under its mutex (Mutex), so a worker that has found *)
(* it empty cannot miss a submission, and one that runs a task is alone    *)
(* with it.  A queue holds increasing tasks of its own residue (Queues): a *)
(* task that has run is in no other place.                                 *)
(***************************************************************************)
EXTENDS ThreadPool, SequenceTheorems, TLAPS

Submitting == {"submit", "push", "notify", "unlock"}

Types ==
  /\ wqs \in [Workers -> Seq(Tasks)]
  /\ mtxs \in [Workers -> BOOLEAN]
  /\ stop_flag \in [Workers -> BOOLEAN]
  /\ pc \in [Workers -> {"lock", "check", "block", "sleep", "drain", "run", "pop_back", "exit"}]
  /\ ready \in SUBSET Tasks
  /\ \/ mpc \in Submitting \cup {"get"} /\ i \in Tasks
     \/ mpc \in {"stop", "notify_stop", "join", "return"} /\ i \in Workers

MainHolds(w) == mpc \in {"push", "notify", "unlock"} /\ Selected = w
WorkerHolds(w) == pc[w] \in {"check", "block", "drain", "run", "pop_back"}

\* Who holds a mutex holds it alone.
Mutex ==
  \A w \in Workers :
    /\ MainHolds(w) \/ WorkerHolds(w) => mtxs[w]
    /\ ~ (MainHolds(w) /\ WorkerHolds(w))

\* What the predicate of line 64 has found holds until the worker sleeps.
StillEmpty == \A w \in Workers : pc[w] = "block" => wqs[w] = <<>>

\* Lines 66-68 work on a task that is there.
Busy == \A w \in Workers : pc[w] \in {"run", "pop_back"} => wqs[w] # <<>>

WakeInv == Types /\ Mutex /\ StillEmpty /\ Busy /\ SubmitWakes

\* The tasks that line 51 has put into a queue.
Handed ==
  {t \in Tasks : /\ mpc \in {"submit", "push"} => t < i
                 /\ mpc \in {"notify", "unlock"} => t <= i}

\* What is in the queues.
Queues ==
  \A w \in Workers :
    /\ \A k \in 1..Len(wqs[w]) : wqs[w][k] % N = w /\ wqs[w][k] \in Handed
    /\ \A k, l \in 1..Len(wqs[w]) : k < l => wqs[w][k] < wqs[w][l]

\* Of these only the one that line 68 is about to remove has run.
QueuedNotRun ==
  \A w \in Workers : \A k \in 1..Len(wqs[w]) :
    wqs[w][k] \in ready <=> pc[w] = "pop_back" /\ k = Len(wqs[w])

ReadyHanded == ready \subseteq Handed

\* No task is lost.
Kept == \A t \in Handed \ ready : \E w \in Workers : Contains(wqs[w], t)

RunInv == Queues /\ QueuedNotRun /\ ReadyHanded /\ Kept

USE ThreadPoolAssumption

-----------------------------------------------------------------------------
\* Line 38: the turn of a task is that of a worker.
LEMMA TurnIsWorker == \A t \in Nat : t % N \in Workers
  BY DEF Workers

\* The loops of main() stay in their bounds.
LEMMA LoopBound ==
  ASSUME NEW n \in Nat \ {0}, NEW k \in 0..n-1
  PROVE  /\ (k + 1) % n \in 0..n-1
         /\ k + 1 < n => (k + 1) % n = k + 1
         /\ k + 1 >= n => (k + 1) % n = 0
<1> DEFINE q == (k + 1) \div n
           r == (k + 1) % n
<1>0. k + 1 \in Nat /\ n \in Nat \ {0}
  OBVIOUS
<1>1. k + 1 = n * q + r /\ r \in 0..n-1 /\ q \in Nat
  BY <1>0
<1> HIDE DEF q, r
<1>2. q >= 1 => n * q >= n
  BY <1>1
<1>3. q = 0 => n * q = 0
  OBVIOUS
<1>4. k + 1 < n => r = k + 1
  BY <1>1, <1>2, <1>3
<1>5. ASSUME k + 1 >= n PROVE r = 0
  <2>1. q # 0
    BY <1>1, <1>3, <1>5
  <2>2. q >= 2 => n * q >= n + n
    BY <1>1
  <2>3. q = 1 => n * q = n
    OBVIOUS
  <2> QED
    BY <1>1, <1>5, <2>1, <2>2, <2>3
<1> QED
  BY <1>1, <1>4, <1>5 DEF r

\* push_back and pop_back of a queue of tasks.
LEMMA Pushed ==
  ASSUME NEW S, NEW s \in Seq(S), NEW e \in S
  PROVE  /\ Append(s, e) \in Seq(S) /\ Len(Append(s, e)) = Len(s) + 1
         /\ \A k \in 1..Len(s) : Append(s, e)[k] = s[k]
         /\ Append(s, e)[Len(s) + 1] = e
  OBVIOUS

LEMMA Popped ==
  ASSUME NEW S, NEW s \in Seq(S), s # <<>>
  PROVE  /\ Front(s) \in Seq(S) /\ Len(Front(s)) = Len(s) - 1
         /\ \A k \in 1..Len(s) - 1 : Front(s)[k] = s[k]
         /\ Len(s) >= 1 /\ Last(s) = s[Len(s)] /\ Last(s) \in S
<1>1. Len(s) \in Nat /\ Len(s) >= 1 /\ \A k \in 1..Len(s) : s[k] \in S
  OBVIOUS
<1>2. \A k \in 1..Len(s) - 1 : s[k] \in S
  BY <1>1
<1>3. /\ SubSeq(s, 1, Len(s) - 1) \in Seq(S)
      /\ Len(SubSeq(s, 1, Len(s) - 1)) = IF 1 <= Len(s) - 1 THEN Len(s) - 1 - 1 + 1 ELSE 0
      /\ \A k \in 1..Len(s) - 1 - 1 + 1 : SubSeq(s, 1, Len(s) - 1)[k] = s[1 + k - 1]
  BY <1>1, <1>2, SubSeqProperties
<1>4. Front(s) = SubSeq(s, 1, Len(s) - 1)
  BY DEF Front
<1>5. \A k \in 1..Len(s) - 1 : Front(s)[k] = s[k]
  BY <1>1, <1>3, <1>4
<1>6. Front(s) \in Seq(S)
  BY <1>3, <1>4
<1>7. Len(Front(s)) = Len(s) - 1
  <2> DEFINE n == Len(s)
             f == Len(Front(s))
  <2>1. f = IF 1 <= n - 1 THEN n - 1 - 1 + 1 ELSE 0
    BY <1>3, <1>4, Zenon
  <2>2. n \in Nat /\ n >= 1
    BY <1>1
  <2> HIDE DEF n, f
  <2>3. f = n - 1
    BY <2>1, <2>2
  <2> QED
    BY <2>3 DEF n, f
<1>8. Last(s) = s[Len(s)] /\ Last(s) \in S
  BY <1>1 DEF Last
<1> QED
  BY <1>1, <1>5, <1>6, <1>7, <1>8

-----------------------------------------------------------------------------
LEMMA SelectedWorker ==
  ASSUME Types, mpc \in Submitting
  PROVE  i \in Tasks /\ i \in Nat /\ Selected \in Workers
<1>1. i \in Tasks /\ i \in Nat
  BY DEF Types, Submitting, Tasks
<1> QED
  BY <1>1, TurnIsWorker DEF Selected

LEMMA WakeStart == Init => WakeInv
<1> SUFFICES ASSUME Init PROVE WakeInv
  OBVIOUS
<1>1. Types
  BY DEF Init, Types, Workers, Tasks, Submitting
<1>2. Mutex /\ StillEmpty /\ Busy /\ SubmitWakes
  BY DEF Init, Mutex, MainHolds, WorkerHolds, StillEmpty, Busy, SubmitWakes
<1> QED
  BY <1>1, <1>2 DEF WakeInv

LEMMA TypesKept ==
  ASSUME Types, Busy, Next
  PROVE  Types'
<1> USE DEF Types, MGoto, Submitting
<1>1. CASE SubmitLock
  BY <1>1 DEF SubmitLock, Lock
<1>2. CASE SubmitPush
  <2>1. i \in Tasks /\ Selected \in Workers
    BY <1>2, SelectedWorker DEF SubmitPush
  <2>2. Append(wqs[Selected], i) \in Seq(Tasks)
    BY <2>1
  <2> QED
    BY <1>2, <2>1, <2>2 DEF SubmitPush
<1>3. CASE SubmitNotify
  BY <1>3 DEF SubmitNotify, Awake
<1>4. CASE SubmitReturn
  <2>1. i \in 0..M-1
    BY <1>4 DEF SubmitReturn, Tasks, Workers
  <2>2. (i + 1) % M \in Tasks
    BY <2>1, LoopBound DEF Tasks
  <2> QED
    BY <1>4, <2>2 DEF SubmitReturn, Unlock
<1>5. CASE Get
  <2>1. i \in 0..M-1
    BY <1>5 DEF Get, Tasks, Workers
  <2>2. /\ (i + 1) % M \in Tasks
        /\ i + 1 >= M => (i + 1) % M = 0
    BY <2>1, LoopBound DEF Tasks
  <2>3. i + 1 < M \/ i + 1 >= M
    BY <2>1
  <2>4. 0 \in Workers
    BY DEF Workers
  <2> QED
    BY <1>5, <2>2, <2>3, <2>4 DEF Get
<1>6. CASE Stop
  BY <1>6 DEF Stop
<1>7. CASE StopNotify
  BY <1>7 DEF StopNotify, Awake
<1>8. CASE Join
  <2>1. i \in 0..N-1
    BY <1>8 DEF Join, Tasks, Workers
  <2>2. (i + 1) % N \in Workers
    BY <2>1, LoopBound DEF Workers
  <2> QED
    BY <1>8, <2>2 DEF Join
<1>9. ASSUME NEW w \in Workers, Worker(w) \/ WakeSpuriously(w)
      PROVE  Types'
  <2>1. CASE WorkerLock(w) \/ Check(w) \/ Block(w) \/ Start(w) \/ Again(w) \/ WakeSpuriously(w)
    BY <2>1 DEF WorkerLock, Check, Block, Start, Again, WakeSpuriously, Goto, Lock, Unlock
  <2>2. CASE Finish(w)
    <3>1. Last(wqs[w]) \in Tasks
      BY <2>2, Popped DEF Finish, Goto, Busy
    <3> QED
      BY <2>2, <3>1 DEF Finish, Goto
  <2>3. CASE PopBack(w)
    <3>1. Front(wqs[w]) \in Seq(Tasks)
      BY <2>3, Popped DEF PopBack, Goto, Busy
    <3> QED
      BY <2>3, <3>1 DEF PopBack, Goto
  <2> QED
    BY <1>9, <2>1, <2>2, <2>3 DEF Worker
<1> QED
  BY <1>1, <1>2, <1>3, <1>4, <1>5, <1>6, <1>7, <1>8, <1>9 DEF Next, MainThread, Returned, vars

\* What a step of main() or of a worker disturbs of the rest of WakeInv.
LEMMA MainKeeps ==
  ASSUME WakeInv, MainThread
  PROVE  (Mutex /\ StillEmpty /\ Busy /\ SubmitWakes)'
<1> USE DEF WakeInv, Types, Mutex, MainHolds, WorkerHolds, StillEmpty, Busy, SubmitWakes, MGoto, Selected
<1>1. CASE SubmitLock
  <2>1. Selected \in Workers
    BY <1>1, SelectedWorker DEF SubmitLock, Submitting
  <2> QED
    BY <1>1, <2>1 DEF SubmitLock, Lock
<1>2. CASE SubmitPush
  <2>1. Selected \in Workers /\ i \in Tasks
    BY <1>2, SelectedWorker DEF SubmitPush, Submitting
  <2>2. Append(wqs[Selected], i) # <<>>
    BY <2>1
  <2>3. \A w \in Workers : wqs'[w] = IF w = Selected THEN Append(wqs[w], i) ELSE wqs[w]
    BY <1>2, <2>1 DEF SubmitPush
  <2>4. ~ WorkerHolds(Selected)
    BY <1>2, <2>1 DEF SubmitPush
  <2> QED
    BY <1>2, <2>1, <2>2, <2>3, <2>4 DEF SubmitPush
<1>3. CASE SubmitNotify
  <2>1. Selected \in Workers
    BY <1>3, SelectedWorker DEF SubmitNotify, Submitting
  <2> QED
    BY <1>3, <2>1 DEF SubmitNotify, Awake
<1>4. CASE SubmitReturn
  <2>1. Selected \in Workers
    BY <1>4, SelectedWorker DEF SubmitReturn, Submitting
  <2> QED
    BY <1>4, <2>1 DEF SubmitReturn, Unlock
<1>5. CASE Get \/ Stop \/ Join
  BY <1>5 DEF Get, Stop, Join
<1>6. CASE StopNotify
  BY <1>6 DEF StopNotify, Awake
<1> QED
  BY <1>1, <1>2, <1>3, <1>4, <1>5, <1>6 DEF MainThread

LEMMA WorkerKeeps ==
  ASSUME WakeInv, NEW w \in Workers, Worker(w) \/ WakeSpuriously(w)
  PROVE  (Mutex /\ StillEmpty /\ Busy /\ SubmitWakes)'
<1> USE DEF WakeInv, Types, Mutex, MainHolds, WorkerHolds, StillEmpty, Busy, SubmitWakes, Goto, Selected
<1>1. CASE WorkerLock(w) \/ Check(w) \/ WakeSpuriously(w)
  BY <1>1 DEF WorkerLock, Check, MayRun, WakeSpuriously, Lock
<1>2. CASE Block(w) \/ Again(w)
  BY <1>2 DEF Block, Again, Unlock
<1>3. CASE Start(w) \/ Finish(w)
  BY <1>3 DEF Start, Finish
<1>4. CASE PopBack(w)
  BY <1>4 DEF PopBack
<1> QED
  BY <1>1, <1>2, <1>3, <1>4 DEF Worker

LEMMA WakeStep == WakeInv /\ [Next]_vars => WakeInv'
<1> SUFFICES ASSUME WakeInv, [Next]_vars PROVE WakeInv'
  OBVIOUS
<1>1. CASE Next
  <2>1. Types'
    BY <1>1, TypesKept DEF WakeInv
  <2>2. CASE Returned
    BY <2>2 DEF Returned, vars, WakeInv, Types, Mutex, MainHolds, WorkerHolds, Selected, StillEmpty, Busy, SubmitWakes
  <2> QED
    BY <1>1, <2>1, <2>2, MainKeeps, WorkerKeeps DEF Next, WakeInv
<1>2. CASE UNCHANGED vars
  BY <1>2 DEF vars, WakeInv, Types, Mutex, MainHolds, WorkerHolds, Selected, StillEmpty, Busy, SubmitWakes
<1> QED
  BY <1>1, <1>2

-----------------------------------------------------------------------------
(* No submission is slept through, for any number of workers and tasks.    *)
THEOREM WakesCorrect == Spec => []SubmitWakes
<1>1. WakeInv => SubmitWakes
  BY DEF WakeInv
<1> QED
  BY <1>1, WakeStart, WakeStep, PTL DEF Spec

(* Nobody moves a task while it runs. *)
THEOREM StaysPutCorrect == Spec => TaskStaysPut
<1> DEFINE Put == \A w \in Workers : pc[w] = "run" => wqs'[w] = wqs[w]
<1>1. ASSUME WakeInv, Next PROVE Put
  <2>1. CASE SubmitPush
    <3>1. Selected \in Workers /\ ~ WorkerHolds(Selected)
      BY <1>1, <2>1, SelectedWorker DEF SubmitPush, MGoto, WakeInv, Mutex, MainHolds, Submitting
    <3> QED
      BY <2>1, <3>1, <1>1 DEF SubmitPush, WorkerHolds, WakeInv, Types
  <2>2. CASE MainThread /\ ~ SubmitPush
    BY <2>2 DEF MainThread, SubmitLock, SubmitNotify, SubmitReturn, Get, Stop, StopNotify, Join
  <2>3. ASSUME NEW w \in Workers, PopBack(w) PROVE Put
    BY <1>1, <2>3 DEF PopBack, Goto, WakeInv, Types
  <2>4. ASSUME NEW w \in Workers, Worker(w) \/ WakeSpuriously(w), ~ PopBack(w) PROVE Put
    BY <2>4 DEF Worker, WakeSpuriously, WorkerLock, Check, Block, Start, Finish, Again
  <2> QED
    BY <1>1, <2>1, <2>2, <2>3, <2>4 DEF Next, Returned, vars
<1>2. WakeInv /\ [Next]_vars => [Put]_vars
  BY <1>1 DEF vars
<1> QED
  BY <1>2, WakeStart, WakeStep, PTL DEF Spec, TaskStaysPut

-----------------------------------------------------------------------------
LEMMA RunStart == Init => RunInv
<1> SUFFICES ASSUME Init PROVE RunInv
  OBVIOUS
<1>1. Queues /\ QueuedNotRun /\ ReadyHanded
  BY DEF Init, Queues, QueuedNotRun, ReadyHanded
<1>2. Handed = {}
  BY DEF Init, Handed, Tasks
<1> QED
  BY <1>1, <1>2 DEF RunInv, Kept

\* Steps that leave the queues, the results and what has been handed alone.
LEMMA RunStutters ==
  ASSUME RunInv, WakeInv, UNCHANGED <<wqs, ready>>,
         Handed' = Handed,
         \A w \in Workers : pc'[w] = "pop_back" <=> pc[w] = "pop_back"
  PROVE  RunInv'
<1>1. \A w \in Workers : \A k \in 1..Len(wqs[w]) : wqs[w][k] \in Tasks
  BY DEF WakeInv, Types
<1>2. Queues' /\ ReadyHanded'
  BY <1>1 DEF RunInv, Queues, ReadyHanded, WakeInv, Types
<1>3. QueuedNotRun'
  BY DEF RunInv, QueuedNotRun
<1>4. Kept'
  BY DEF RunInv, Kept
<1> QED
  BY <1>2, <1>3, <1>4 DEF RunInv

LEMMA PushKeeps ==
  ASSUME RunInv, WakeInv, SubmitPush
  PROVE  RunInv'
<1> DEFINE w == Selected
<1>1. i \in Tasks /\ i \in Nat /\ w \in Workers /\ mpc = "push" /\ mpc' = "notify" /\ i' = i
  BY SelectedWorker DEF SubmitPush, MGoto, Submitting, WakeInv
<1>2. pc[w] # "pop_back"
  BY <1>1 DEF WakeInv, Mutex, MainHolds, WorkerHolds
<1>3. /\ wqs'[w] = Append(wqs[w], i)
      /\ \A v \in Workers \ {w} : wqs'[v] = wqs[v]
  BY <1>1 DEF SubmitPush, WakeInv, Types
<1>4. \A t \in Tasks : (t \in Handed <=> t < i) /\ (t \in Handed' <=> t <= i)
  BY <1>1 DEF Handed
<1>5. i \notin ready
  BY <1>1, <1>4 DEF RunInv, ReadyHanded
<1>6. i % N = w
  BY DEF Selected
<1>7. \A v \in Workers : wqs[v] \in Seq(Tasks)
  BY DEF WakeInv, Types
<1>a. \A v \in Workers : \A k \in 1..Len(wqs[v]) : wqs[v][k] \in Tasks /\ wqs[v][k] < i
  BY <1>4, <1>7 DEF RunInv, Queues
<1>b. ready' = ready /\ pc' = pc
  BY DEF SubmitPush
<1> HIDE DEF w
<1> DEFINE n == Len(wqs[w])
<1>c. n \in Nat /\ Len(wqs'[w]) = n + 1
  BY <1>1, <1>3, <1>7, Pushed
<1>d. \A k \in 1..n : wqs'[w][k] = wqs[w][k]
  BY <1>1, <1>3, <1>7, Pushed
<1>e. wqs'[w][n + 1] = i
  BY <1>1, <1>3, <1>7, Pushed
<1>f. \A k \in 1..Len(wqs'[w]) : k \in 1..n \/ k = n + 1
  BY <1>c
<1>8. Queues'
  <2>1. ASSUME NEW v \in Workers, v # w
        PROVE  /\ \A k \in 1..Len(wqs'[v]) : wqs'[v][k] % N = v /\ wqs'[v][k] \in Handed'
               /\ \A k, l \in 1..Len(wqs'[v]) : k < l => wqs'[v][k] < wqs'[v][l]
    <3>1. wqs'[v] = wqs[v]
      BY <1>3, <2>1
    <3>2. \A k \in 1..Len(wqs[v]) : wqs[v][k] % N = v /\ wqs[v][k] \in Handed'
      <4> SUFFICES ASSUME NEW k \in 1..Len(wqs[v]) PROVE wqs[v][k] % N = v /\ wqs[v][k] \in Handed'
        OBVIOUS
      <4>1. wqs[v][k] \in Tasks /\ wqs[v][k] <= i
        BY <1>1, <1>a DEF Tasks
      <4>2. wqs[v][k] % N = v
        BY DEF RunInv, Queues
      <4> QED
        BY <4>1, <4>2, <1>4
    <3>3. \A k, l \in 1..Len(wqs[v]) : k < l => wqs[v][k] < wqs[v][l]
      BY DEF RunInv, Queues
    <3> QED
      BY <3>1, <3>2, <3>3
  <2>2. ASSUME NEW k \in 1..Len(wqs'[w])
        PROVE  wqs'[w][k] % N = w /\ wqs'[w][k] \in Handed'
    <3>1. CASE k \in 1..n
      <4>1. wqs[w][k] \in Tasks /\ wqs[w][k] <= i
        BY <1>1, <1>a, <3>1 DEF Tasks
      <4>2. wqs[w][k] % N = w
        BY <1>1, <3>1 DEF RunInv, Queues
      <4> QED
        BY <4>1, <4>2, <1>4, <1>d, <3>1
    <3>2. CASE k = n + 1
      BY <1>1, <1>4, <1>6, <1>e, <3>2
    <3> QED
      BY <3>1, <3>2, <1>f
  <2>3. ASSUME NEW k \in 1..Len(wqs'[w]), NEW l \in 1..Len(wqs'[w]), k < l
        PROVE  wqs'[w][k] < wqs'[w][l]
    <3>1. k \in 1..n
      BY <1>c, <2>3
    <3>2. CASE l \in 1..n
      <4>1. wqs[w][k] < wqs[w][l]
        BY <1>1, <2>3, <3>1, <3>2 DEF RunInv, Queues
      <4> QED
        BY <4>1, <1>d, <3>1, <3>2
    <3>3. CASE l = n + 1
      <4>1. wqs[w][k] < i
        BY <1>1, <1>a, <3>1
      <4> QED
        BY <4>1, <1>d, <1>e, <3>1, <3>3
    <3> QED
      BY <3>2, <3>3, <1>f
  <2> QED
    BY <2>1, <2>2, <2>3 DEF Queues, Workers
<1>9. QueuedNotRun'
  <2>1. ASSUME NEW v \in Workers, v # w, NEW k \in 1..Len(wqs'[v])
        PROVE  wqs'[v][k] \in ready' <=> pc'[v] = "pop_back" /\ k = Len(wqs'[v])
    <3>1. wqs'[v] = wqs[v]
      BY <1>3, <2>1
    <3> QED
      BY <2>1, <3>1, <1>b DEF RunInv, QueuedNotRun
  <2>2. ASSUME NEW k \in 1..Len(wqs'[w])
        PROVE  wqs'[w][k] \notin ready
    <3>1. CASE k \in 1..n
      BY <1>1, <1>2, <1>d, <3>1 DEF RunInv, QueuedNotRun
    <3> QED
      BY <1>5, <1>e, <1>f, <3>1
  <2> QED
    BY <2>1, <2>2, <1>2, <1>b DEF QueuedNotRun
<1>10. ReadyHanded'
  BY <1>1, <1>4, <1>b DEF RunInv, ReadyHanded, WakeInv, Types, Tasks
<1>11. Kept'
  <2> SUFFICES ASSUME NEW t \in Tasks, t <= i, t \notin ready
               PROVE  \E v \in Workers : Contains(wqs'[v], t)
    BY <1>1, <1>4, <1>b DEF Kept, Handed
  <2>1. CASE t = i
    <3>1. n + 1 \in 1..Len(wqs'[w])
      BY <1>c
    <3> QED
      BY <1>1, <1>e, <2>1, <3>1 DEF Contains
  <2>2. CASE t # i
    <3>1. PICK v \in Workers : Contains(wqs[v], t)
      BY <1>1, <1>4, <2>2 DEF RunInv, Kept, Tasks
    <3>2. CASE v # w
      BY <1>3, <3>1, <3>2
    <3>3. CASE v = w
      <4>1. PICK k \in 1..n : wqs[w][k] = t
        BY <3>1, <3>3 DEF Contains
      <4>2. k \in 1..Len(wqs'[w])
        BY <1>c
      <4> QED
        BY <1>1, <1>d, <4>1, <4>2 DEF Contains
    <3> QED
      BY <3>2, <3>3
  <2> QED
    BY <2>1, <2>2
<1> QED
  BY <1>8, <1>9, <1>10, <1>11 DEF RunInv

\* main()'s other steps hand out nothing and take nothing back.
LEMMA MainRuns ==
  ASSUME RunInv, WakeInv, MainThread
  PROVE  RunInv'
<1>1. CASE SubmitPush
  BY <1>1, PushKeeps
<1>2. CASE SubmitLock
  BY <1>2, RunStutters DEF SubmitLock, MGoto, Handed
<1>3. CASE SubmitNotify
  <2>1. \A w \in Workers : pc'[w] = "pop_back" <=> pc[w] = "pop_back"
    BY <1>3 DEF SubmitNotify, Awake, WakeInv, Types
  <2> QED
    BY <1>3, <2>1, RunStutters DEF SubmitNotify, MGoto, Handed
<1>4. CASE SubmitReturn
  <2>1. i \in 0..M-1 /\ mpc = "unlock"
    BY <1>4, SelectedWorker DEF SubmitReturn, MGoto, WakeInv, Submitting, Tasks
  <2>2. i + 1 < M => (i + 1) % M = i + 1
    BY <2>1, LoopBound
  <2>3. Handed = {t \in Tasks : t <= i}
    BY <2>1 DEF Handed
  <2>4. Handed' = {t \in Tasks : t <= i}
    <3>1. CASE i + 1 < M
      BY <1>4, <2>1, <2>2, <3>1 DEF SubmitReturn, MGoto, Handed, Tasks
    <3>2. CASE ~ (i + 1 < M)
      BY <1>4, <2>1, <3>2 DEF SubmitReturn, MGoto, Handed, Tasks
    <3> QED
      BY <3>1, <3>2
  <2> QED
    BY <1>4, <2>3, <2>4, RunStutters DEF SubmitReturn
<1>5. CASE Get \/ Stop \/ Join
  <2>1. Handed = Tasks /\ Handed' = Tasks /\ pc' = pc
    BY <1>5 DEF Get, Stop, Join, MGoto, Handed
  <2> QED
    BY <1>5, <2>1, RunStutters DEF Get, Stop, Join
<1>6. CASE StopNotify
  <2>1. \A w \in Workers : pc'[w] = "pop_back" <=> pc[w] = "pop_back"
    BY <1>6 DEF StopNotify, Awake, WakeInv, Types
  <2> QED
    BY <1>6, <2>1, RunStutters DEF StopNotify, MGoto, Handed
<1> QED
  BY <1>1, <1>2, <1>3, <1>4, <1>5, <1>6 DEF MainThread

\* Line 67: the task at the end of the queue has run, and is nowhere else.
LEMMA FinishKeeps ==
  ASSUME RunInv, WakeInv, NEW w \in Workers, Finish(w)
  PROVE  RunInv'
<1> DEFINE n == Len(wqs[w])
           t == wqs[w][n]
<1>1. n \in Nat /\ n >= 1 /\ t \in Tasks /\ ready' = ready \cup {t}
  <2>1. wqs[w] \in Seq(Tasks) /\ wqs[w] # <<>> /\ ready' = ready \cup {Last(wqs[w])}
    BY DEF Finish, Goto, WakeInv, Types, Busy
  <2>2. Len(wqs[w]) >= 1 /\ Last(wqs[w]) = wqs[w][Len(wqs[w])] /\ Last(wqs[w]) \in Tasks
    BY <2>1, Popped
  <2> QED
    BY <2>1, <2>2
<1>2. wqs' = wqs /\ Handed' = Handed
  BY DEF Finish, Handed
<1>3. pc[w] = "run" /\ pc'[w] = "pop_back" /\ \A v \in Workers \ {w} : pc'[v] = pc[v]
  BY DEF Finish, Goto, WakeInv, Types
<1>4. t % N = w /\ t \in Handed
  BY <1>1 DEF RunInv, Queues
<1> HIDE DEF t
<1>5. Queues' /\ ReadyHanded' /\ Kept'
  BY <1>1, <1>2, <1>4 DEF RunInv, Queues, ReadyHanded, Kept
<1>6. ASSUME NEW v \in Workers, NEW k \in 1..Len(wqs[v])
      PROVE  wqs[v][k] \in ready' <=> pc'[v] = "pop_back" /\ k = Len(wqs[v])
  <2>1. CASE v # w
    <3>1. wqs[v][k] # t
      BY <1>4, <2>1 DEF RunInv, Queues
    <3> QED
      BY <1>1, <1>3, <2>1, <3>1 DEF RunInv, QueuedNotRun
  <2>2. CASE v = w
    <3>1. wqs[w][k] \notin ready
      BY <1>3, <2>2 DEF RunInv, QueuedNotRun
    <3>2. CASE k = n
      BY <1>1, <1>3, <2>2, <3>2 DEF t
    <3>3. CASE k # n
      <4>1. k < n /\ n \in 1..n
        BY <1>1, <2>2, <3>3
      <4>2. wqs[w][k] \in Tasks
        BY <2>2 DEF WakeInv, Types
      <4>3. wqs[w][k] < t
        BY <4>1, <2>2 DEF RunInv, Queues, t
      <4>4. wqs[w][k] # t
        BY <4>2, <4>3, <1>1 DEF Tasks
      <4> QED
        BY <1>1, <2>2, <3>1, <3>3, <4>4
    <3> QED
      BY <3>2, <3>3
  <2> QED
    BY <2>1, <2>2
<1>7. QueuedNotRun'
  BY <1>2, <1>6 DEF QueuedNotRun
<1> QED
  BY <1>5, <1>7 DEF RunInv

\* Line 68: what is taken away has run.
LEMMA PopBackKeeps ==
  ASSUME RunInv, WakeInv, NEW w \in Workers, PopBack(w)
  PROVE  RunInv'
<1> DEFINE n == Len(wqs[w])
<1>1. /\ wqs[w] \in Seq(Tasks) /\ wqs[w] # <<>>
      /\ wqs'[w] = Front(wqs[w])
      /\ \A v \in Workers \ {w} : wqs'[v] = wqs[v]
  BY DEF PopBack, Goto, WakeInv, Types, Busy
<1>2. ready' = ready /\ Handed' = Handed
  BY DEF PopBack, Handed
<1>3. /\ pc[w] = "pop_back" /\ pc'[w] # "pop_back"
      /\ \A v \in Workers \ {w} : pc'[v] = pc[v]
  BY DEF PopBack, Goto, WakeInv, Types
<1>4. n \in Nat /\ n >= 1 /\ Len(wqs'[w]) = n - 1
  BY <1>1, Popped
<1>5. \A k \in 1..n - 1 : wqs'[w][k] = wqs[w][k]
  BY <1>1, Popped
<1>6. \A k \in 1..Len(wqs'[w]) : k \in 1..n - 1 /\ k \in 1..n /\ k # n
  BY <1>4
<1>7. Queues'
  <2>1. ASSUME NEW v \in Workers
        PROVE  /\ \A k \in 1..Len(wqs'[v]) : wqs'[v][k] % N = v /\ wqs'[v][k] \in Handed'
               /\ \A k, l \in 1..Len(wqs'[v]) : k < l => wqs'[v][k] < wqs'[v][l]
    <3>1. CASE v = w
      BY <1>2, <1>5, <1>6, <3>1 DEF RunInv, Queues
    <3>2. CASE v # w
      BY <1>1, <1>2, <3>2 DEF RunInv, Queues
    <3> QED
      BY <3>1, <3>2
  <2> QED
    BY <2>1 DEF Queues, Workers
<1>8. QueuedNotRun'
  <2>1. ASSUME NEW v \in Workers, NEW k \in 1..Len(wqs'[v])
        PROVE  wqs'[v][k] \in ready' <=> pc'[v] = "pop_back" /\ k = Len(wqs'[v])
    <3>1. CASE v = w
      BY <1>2, <1>3, <1>5, <1>6, <3>1 DEF RunInv, QueuedNotRun
    <3>2. CASE v # w
      BY <1>1, <1>2, <1>3, <3>2 DEF RunInv, QueuedNotRun
    <3> QED
      BY <3>1, <3>2
  <2> QED
    BY <2>1 DEF QueuedNotRun, Workers
<1>9. ReadyHanded'
  BY <1>2 DEF RunInv, ReadyHanded
<1>10. Kept'
  <2> SUFFICES ASSUME NEW t \in Handed \ ready
               PROVE  \E v \in Workers : Contains(wqs'[v], t)
    BY <1>2 DEF Kept
  <2>1. PICK v \in Workers : Contains(wqs[v], t)
    BY DEF RunInv, Kept
  <2>2. CASE v # w
    BY <1>1, <2>1, <2>2
  <2>3. CASE v = w
    <3>1. PICK k \in 1..n : wqs[w][k] = t
      BY <2>1, <2>3 DEF Contains
    <3>2. k # n
      BY <1>3, <3>1 DEF RunInv, QueuedNotRun
    <3>3. k \in 1..n - 1 /\ k \in 1..Len(wqs'[w])
      BY <1>4, <3>1, <3>2
    <3> QED
      BY <1>5, <3>1, <3>3 DEF Contains
  <2> QED
    BY <2>2, <2>3
<1> QED
  BY <1>7, <1>8, <1>9, <1>10 DEF RunInv

LEMMA RunStep == WakeInv /\ RunInv /\ [Next]_vars => RunInv'
<1> SUFFICES ASSUME WakeInv, RunInv, [Next]_vars PROVE RunInv'
  OBVIOUS
<1>1. CASE MainThread
  BY <1>1, MainRuns
<1>2. ASSUME NEW w \in Workers, Worker(w) \/ WakeSpuriously(w)
      PROVE  RunInv'
  <2>1. CASE Finish(w) \/ PopBack(w)
    BY <2>1, FinishKeeps, PopBackKeeps
  <2>2. CASE WorkerLock(w) \/ Check(w) \/ Block(w) \/ Start(w) \/ Again(w) \/ WakeSpuriously(w)
    <3>1. \A v \in Workers : pc'[v] = "pop_back" <=> pc[v] = "pop_back"
      BY <2>2 DEF WorkerLock, Check, Block, Start, Again, WakeSpuriously, Goto, WakeInv, Types
    <3>2. UNCHANGED <<wqs, ready, mpc, i>>
      BY <2>2 DEF WorkerLock, Check, Block, Start, Again, WakeSpuriously
    <3> QED
      BY <3>1, <3>2, RunStutters DEF Handed
  <2> QED
    BY <1>2, <2>1, <2>2 DEF Worker
<1>3. CASE UNCHANGED vars
  BY <1>3, RunStutters DEF vars, Handed
<1> QED
  BY <1>1, <1>2, <1>3 DEF Next, Returned

-----------------------------------------------------------------------------
(* Each task runs once and none is lost, for any number of workers and tasks. *)
THEOREM RunsCorrect == Spec => []RunsOnce
<1>1. WakeInv /\ RunInv => RunsOnce
  <2> SUFFICES ASSUME WakeInv, RunInv PROVE RunsOnce
    OBVIOUS
  <2>1. mpc \in {"get", "stop"} => Handed = Tasks
    BY DEF Handed
  <2> QED
    BY <2>1 DEF RunInv, QueuedNotRun, Kept, RunsOnce
<1>2. Init => WakeInv /\ RunInv
  BY WakeStart, RunStart
<1>3. WakeInv /\ RunInv /\ [Next]_vars => WakeInv' /\ RunInv'
  BY WakeStep, RunStep
<1> QED
  BY <1>1, <1>2, <1>3, PTL DEF Spec
=============================================================================
