-------------------------------- MODULE RCU --------------------------------
(***************************************************************************)
(* answer/concurrency/rcu.cxx: generations of a value, a reference count   *)
(* per generation, readers that loop over lock, dereference and unlock,    *)
(* and the one writer of main() that assigns a new generation and waits    *)
(* for the readers of the older ones before it deletes them.               *)
(*                                                                         *)
(* Every access to an atomic is a step.  Generation g's object is g; what  *)
(* matters of it is whether it exists.                                     *)
(***************************************************************************)
EXTENDS Integers, FiniteSets

CONSTANTS Readers,         \* threads that read
          Updates,         \* updates by the writer: 10 in main()
          MAX_GENERATIONS  \* size of the arrays refcnt and data

\* rcu_assign_pointer() does not check that last_generation stays in the
\* arrays; main() makes one assignment more than the writer's updates.
ASSUME RCUAssumption ==
  /\ IsFiniteSet(Readers)
  /\ Updates \in Nat
  /\ MAX_GENERATIONS \in Nat
  /\ Updates + 1 <= MAX_GENERATIONS

VARIABLES last_generation, last_gc_genration,
          refcnt,     \* readers that counted themselves, per generation
          data,       \* state of the object each data[g] points to
          pc, current_generation,  \* per reader
          wpc         \* where the writer is

vars == <<last_generation, last_gc_genration, refcnt, data, pc,
          current_generation, wpc>>

Generations == 0..MAX_GENERATIONS-1

\* After the first rcu_assign_pointer of main(), line 71.
Init ==
  /\ last_generation = 1 /\ last_gc_genration = 0
  /\ refcnt = [g \in Generations |-> 0]
  /\ data = [g \in Generations |-> IF g = 0 THEN "live" ELSE "unset"]
  /\ pc = [r \in Readers |-> "start"]
  /\ current_generation = [r \in Readers |-> 0]
  /\ wpc = "assign"

Goto(r, from, to) == pc[r] = from /\ pc' = [pc EXCEPT ![r] = to]
WGoto(from, to) == wpc = from /\ wpc' = to

Add(r, n) == refcnt' = [refcnt EXCEPT ![current_generation[r]] = @ + n]

-----------------------------------------------------------------------------
(* The readers, lines 31-48 and 75-83 *)

\* Lines 32 and 36.
LoadGeneration(r) ==
  /\ Goto(r, "start", "count")
  /\ current_generation' = [current_generation EXCEPT ![r] = last_generation - 1]
  /\ UNCHANGED <<last_generation, last_gc_genration, refcnt, data, wpc>>

\* Lines 33 and 37.
CountIn(r) ==
  /\ Goto(r, "count", "recheck")
  /\ Add(r, 1)
  /\ UNCHANGED <<last_generation, last_gc_genration, data, current_generation, wpc>>

\* Mutant: the loop of lines 34-38 is left out.
StillCurrent_Assumed(r) == TRUE

StillCurrent(r) == current_generation[r] = last_generation - 1

\* Line 34: the second load.
Recheck(r) ==
  /\ Goto(r, "recheck", IF StillCurrent(r) THEN "locked" ELSE "undo")
  /\ UNCHANGED <<last_generation, last_gc_genration, refcnt, data,
                 current_generation, wpc>>

\* Mutants: line 36 is forgotten, line 35 is forgotten.
Undo_NoReload(r) ==
  /\ Goto(r, "undo", "count")
  /\ Add(r, -1)
  /\ UNCHANGED <<last_generation, last_gc_genration, data, current_generation, wpc>>

Undo_Forgotten(r) ==
  /\ Goto(r, "undo", "start")
  /\ UNCHANGED <<last_generation, last_gc_genration, refcnt, data,
                 current_generation, wpc>>

\* Line 35.
Undo(r) ==
  /\ Goto(r, "undo", "start")
  /\ Add(r, -1)
  /\ UNCHANGED <<last_generation, last_gc_genration, data, current_generation, wpc>>

\* Lines 47 and 79: data[generation], then the object it points to.
Dereference(r) ==
  /\ Goto(r, "locked", "read")
  /\ UNCHANGED <<last_generation, last_gc_genration, refcnt, data,
                 current_generation, wpc>>

ReadObject(r) ==
  /\ Goto(r, "read", "unlock")
  /\ UNCHANGED <<last_generation, last_gc_genration, refcnt, data,
                 current_generation, wpc>>

\* Line 43.
ReadUnlock(r) ==
  /\ Goto(r, "unlock", "start")
  /\ Add(r, -1)
  /\ UNCHANGED <<last_generation, last_gc_genration, data, current_generation, wpc>>

Reader(r) ==
  \/ LoadGeneration(r) \/ CountIn(r) \/ Recheck(r) \/ Undo(r)
  \/ Dereference(r) \/ ReadObject(r) \/ ReadUnlock(r)

-----------------------------------------------------------------------------
(* The writer, lines 51-65 and 89-93 *)

\* Line 63.
AssignData ==
  /\ last_generation <= Updates
  /\ WGoto("assign", "publish")
  /\ data' = [data EXCEPT ![last_generation] = "live"]
  /\ UNCHANGED <<last_generation, last_gc_genration, refcnt, pc, current_generation>>

\* Line 64.
Publish ==
  /\ WGoto("publish", "synchronize")
  /\ last_generation' = last_generation + 1
  /\ UNCHANGED <<last_gc_genration, refcnt, data, pc, current_generation>>

\* Mutant: one generation too few is reclaimed.
OldLeft_OneLess == last_gc_genration < last_generation - 2

\* Line 52.
OldLeft == last_gc_genration < last_generation - 1

Synchronize ==
  /\ WGoto("synchronize", IF OldLeft THEN "poll" ELSE "assign")
  /\ UNCHANGED <<last_generation, last_gc_genration, refcnt, data, pc,
                 current_generation>>

NoReaders(g) == refcnt[g] = 0

\* Line 53: the load that ends the loop; the others change nothing.
Poll ==
  /\ NoReaders(last_gc_genration)
  /\ WGoto("poll", "delete")
  /\ UNCHANGED <<last_generation, last_gc_genration, refcnt, data, pc,
                 current_generation>>

\* Lines 57-58.
Delete ==
  /\ WGoto("delete", "synchronize")
  /\ data' = [data EXCEPT ![last_gc_genration] = "deleted"]
  /\ last_gc_genration' = last_gc_genration + 1
  /\ UNCHANGED <<last_generation, refcnt, pc, current_generation>>

Writer == AssignData \/ Publish \/ Synchronize \/ Poll \/ Delete

Next == (\E r \in Readers : Reader(r)) \/ Writer

\* The scheduler keeps running every thread.
Fairness == WF_vars(Writer) /\ \A r \in Readers : WF_vars(Reader(r))

Spec == Init /\ [][Next]_vars /\ Fairness

-----------------------------------------------------------------------------
\* The readers that rcu_read_lock() has made safe.
Locked(r) == pc[r] \in {"locked", "read"}

\* The readers counted in refcnt[g].
Counted(g) ==
  {r \in Readers : /\ pc[r] \in {"recheck", "undo", "locked", "read", "unlock"}
                   /\ current_generation[r] = g}

\* Types; no count is ever negative and no index leaves the arrays.
TypeOK ==
  /\ last_generation \in 1..Updates+1
  /\ last_gc_genration \in 0..last_generation-1
  /\ refcnt \in [Generations -> Nat]
  /\ data \in [Generations -> {"unset", "live", "deleted"}]
  /\ pc \in [Readers -> {"start", "count", "recheck", "undo", "locked", "read", "unlock"}]
  /\ current_generation \in [Readers -> Generations]
  /\ wpc \in {"assign", "publish", "synchronize", "poll", "delete"}

\* Line 78 asserts that the pointer is set and line 79 reads the object: it
\* exists from lock to unlock, however many generations the writer has
\* assigned and deleted since the reader loaded last_generation.
NoUseAfterFree == \A r \in Readers : Locked(r) => data[current_generation[r]] = "live"

\* A count is the number of readers in it, also when readers chase a moving
\* last_generation: it neither leaks nor runs below zero.
CountsExact == \A g \in Generations : refcnt[g] = Cardinality(Counted(g))

\* When synchronize_rcu() returns, every older generation is deleted, and no
\* generation is deleted twice or before it is replaced.
Reclaimed ==
  /\ wpc = "assign" => last_gc_genration = last_generation - 1
  /\ \A g \in Generations :
       /\ g < last_gc_genration => data[g] = "deleted"
       /\ g \in last_gc_genration..last_generation-1 => data[g] = "live"
       /\ g > last_generation => data[g] = "unset"

\* The writer finishes its updates although the readers never stop.
WriterFinishes ==
  <>(wpc = "assign" /\ last_generation = Updates + 1 /\ last_gc_genration = Updates)

\* A reader that enters rcu_read_lock() gets a generation: the writer cannot
\* keep it in the loop of lines 34-38 for ever.
LockReturns == \A r \in Readers : pc[r] = "count" ~> Locked(r)
=============================================================================
