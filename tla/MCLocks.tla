------------------------------ MODULE MCLocks ------------------------------
(***************************************************************************)
(* The locks: a behaviour runs the threads of fair_spinlock.cxx, of        *)
(* group_lock.cxx or of spinlock.cxx.                                      *)
(***************************************************************************)
EXTENDS Integers

CONSTANTS Threads, Loops,
          Wrap,            \* values of the ticket lock's ints
          FirstGroup, Unit \* the group lock's: the others are in group 2

VARIABLES program,
          seq, flag, count, f_pc, myseq, f_loaded, f_done,
          lk, cnt, g_pc, shadow, g_loaded, g_done,
          s_flag, s_cnt, s_pc, tmp, mpc, loops

fairVars == <<seq, flag, count, f_pc, myseq, f_loaded, f_done>>
groupVars == <<lk, cnt, g_pc, shadow, g_loaded, g_done>>
spinVars == <<s_flag, s_cnt, s_pc, tmp, mpc, loops>>
vars == <<program, fairVars, groupVars, spinVars>>

Group == [t \in Threads |-> IF t \in FirstGroup THEN 1 ELSE 2]

Tickets == INSTANCE FairSpinlock WITH pc <- f_pc, loaded <- f_loaded, done <- f_done
Groups == INSTANCE GroupLock WITH pc <- g_pc, loaded <- g_loaded, done <- g_done
Counter == INSTANCE Spinlock WITH flag <- s_flag, cnt <- s_cnt, pc <- s_pc

ASSUME Constants ==
  /\ Tickets!FairSpinlockAssumption /\ Groups!GroupLockAssumption
  /\ Counter!SpinlockAssumption

Zero == [t \in Threads |-> 0]
Start == [t \in Threads |-> "start"]
AllDone == [t \in Threads |-> Loops]

\* The threads of a program that does not run have nothing to do.
Init ==
  /\ program \in {"fair_spinlock", "group_lock", "spinlock"}
  /\ IF program = "fair_spinlock" THEN Tickets!Init
     ELSE /\ seq = 0 /\ flag = 0 /\ count = 0
          /\ f_pc = Start /\ myseq = Zero /\ f_loaded = Zero /\ f_done = AllDone
  /\ IF program = "group_lock" THEN Groups!Init
     ELSE /\ lk = 0 /\ cnt = 0
          /\ g_pc = Start /\ shadow = Zero /\ g_loaded = Zero /\ g_done = AllDone
  /\ Counter!Init /\ (program # "spinlock" => loops)

TicketStep == program = "fair_spinlock" /\ Tickets!Next
  /\ UNCHANGED <<program, groupVars, spinVars>>
GroupStep == program = "group_lock" /\ Groups!Next
  /\ UNCHANGED <<program, fairVars, spinVars>>
SpinStep == program = "spinlock" /\ Counter!Next
  /\ UNCHANGED <<program, fairVars, groupVars>>

Next == TicketStep \/ GroupStep \/ SpinStep

\* Nothing is enabled in the programs that do not run.
Spec ==
  /\ Init /\ [][Next]_vars
  /\ Tickets!Fairness /\ Groups!Fairness /\ Counter!Fairness

\* fair_spinlock: two threads are never inside, although its ints wrap around,
\* no increment is lost, and no more tickets are out than there are threads.
OneTicketServed == Tickets!TypeOK /\ Tickets!Exclusion /\ Tickets!NoLostIncrement

\* fair_spinlock: who draws a ticket first enters first.
FirstComeFirstServed == Tickets!FirstComeFirstServed

\* group_lock: the word is the group inside and its size, and the assertions
\* hold on words that may be stale.
WordExact == Groups!WordExact
AssertionsHold == Groups!AssertionsHold

\* group_lock: threads of a group are inside together, groups exclude each
\* other.
GroupSpec == Groups!GroupSpec

\* spinlock: one thread inside at a time, no increment lost, and main() prints
\* the number of threads.
SpinlockCounts ==
  /\ Counter!Types /\ Counter!Exclusion /\ Counter!CountsExact
  /\ Counter!PrintsAll

\* Nobody spins for ever and no release is lost: tickets are served, groups
\* take turns until all iterations are done, and main() of spinlock prints when
\* it gets past its loop.
EveryoneThrough == Tickets!EveryoneEnters /\ Groups!AllFinish /\ Counter!Prints
=============================================================================
