----------------------------- MODULE RCU_proofs -----------------------------
(***************************************************************************)
(* Proofs about RCU, for every number of readers and of updates that stays *)
(* within the arrays.                                                      *)
(***************************************************************************)
EXTENDS RCU, FiniteSetTheorems, TLAPS

USE RCUAssumption

\* A reader whose second load confirmed its generation holds back the writer:
\* the generation is not behind the one to delete, and once the writer has
\* seen a zero count it is not that one either.
Validated ==
  /\ \A r \in Readers : current_generation[r] <= last_generation - 1
  /\ \A r \in Readers : Locked(r) => last_gc_genration <= current_generation[r]
  /\ wpc = "delete" => \A r \in Readers : Locked(r) => current_generation[r] # last_gc_genration

\* Where the writer is says how far apart its two counters are.
WriterPhase ==
  /\ wpc \in {"assign", "publish"} => last_gc_genration = last_generation - 1
  /\ wpc \in {"poll", "delete"} => last_gc_genration < last_generation - 1
  /\ wpc = "publish" => last_generation <= Updates /\ data[last_generation] = "live"

IInv == TypeOK /\ CountsExact /\ Reclaimed /\ Validated /\ WriterPhase

LEMMA CountedFinite ==
  ASSUME NEW g
  PROVE  IsFiniteSet(Counted(g)) /\ Cardinality(Counted(g)) \in Nat
BY FS_Subset, FS_CardinalityType DEF Counted

LEMMA InitIInv == Init => IInv
<1> SUFFICES ASSUME Init PROVE IInv
  OBVIOUS
<1>1. CountsExact
  <2>1. \A g \in Generations : Counted(g) = {}
    BY DEF Init, Counted
  <2>2. QED
    BY <2>1, FS_EmptySet DEF Init, CountsExact
<1>2. QED
  BY <1>1 DEF Init, IInv, TypeOK, Reclaimed, Validated, WriterPhase, Locked, Generations

\* A reader joins the counted ones of its generation, or leaves them.
LEMMA CountUp ==
  ASSUME IInv, NEW r \in Readers, CountIn(r)
  PROVE  CountsExact'
<1> DEFINE h == current_generation[r]
<1>1. ASSUME NEW g \in Generations, g # h PROVE (refcnt[g] = Cardinality(Counted(g)))'
  <2>1. Counted(g)' = Counted(g)
    BY <1>1 DEF CountIn, Goto, Counted, IInv, TypeOK
  <2>2. QED
    BY <1>1, <2>1 DEF CountIn, Add, IInv, TypeOK, CountsExact
<1>2. /\ h \in Generations
      /\ Counted(h)' = Counted(h) \cup {r}
      /\ r \notin Counted(h)
  BY DEF CountIn, Goto, Counted, IInv, TypeOK
<1>3. (refcnt[h] = Cardinality(Counted(h)))'
  <2>1. Cardinality(Counted(h) \cup {r}) = Cardinality(Counted(h)) + 1
    BY <1>2, CountedFinite, FS_AddElement
  <2>2. refcnt'[h] = refcnt[h] + 1 /\ h' = h
    BY <1>2 DEF CountIn, Add, IInv, TypeOK
  <2>3. QED
    BY <1>2, <2>1, <2>2 DEF IInv, CountsExact
<1>4. QED
  BY <1>1, <1>3 DEF CountsExact, CountIn

LEMMA CountDown ==
  ASSUME IInv, NEW r \in Readers, Undo(r) \/ ReadUnlock(r)
  PROVE  CountsExact' /\ refcnt' \in [Generations -> Nat]
<1> DEFINE h == current_generation[r]
<1>0. UNCHANGED current_generation
  BY DEF Undo, ReadUnlock
<1>1. ASSUME NEW g \in Generations, g # h PROVE (refcnt[g] = Cardinality(Counted(g)))'
  <2>1. Counted(g)' = Counted(g)
    BY <1>1 DEF Undo, ReadUnlock, Goto, Counted, IInv, TypeOK
  <2>2. QED
    BY <1>1, <2>1 DEF Undo, ReadUnlock, Add, IInv, TypeOK, CountsExact
<1>2. /\ h \in Generations
      /\ Counted(h)' = Counted(h) \ {r}
      /\ r \in Counted(h)
  BY DEF Undo, ReadUnlock, Goto, Counted, IInv, TypeOK
<1>3. Cardinality(Counted(h) \ {r}) = Cardinality(Counted(h)) - 1
  BY <1>2, CountedFinite, FS_RemoveElement
<1>4. refcnt'[h] = refcnt[h] - 1 /\ refcnt[h] \in Nat
  BY <1>2 DEF Undo, ReadUnlock, Add, IInv, TypeOK
<1>5. (refcnt[h] = Cardinality(Counted(h)))'
  BY <1>0, <1>2, <1>3, <1>4 DEF IInv, CountsExact
<1>6. CountsExact'
  BY <1>0, <1>1, <1>5 DEF CountsExact
<1>7. refcnt'[h] \in Nat
  <2>1. IsFiniteSet(Counted(h) \ {r})
    BY <1>2, CountedFinite, FS_RemoveElement
  <2>2. Cardinality(Counted(h) \ {r}) \in Nat
    BY <2>1, FS_CardinalityType
  <2>3. QED
    BY <1>2, <1>3, <1>4, <2>2 DEF IInv, CountsExact
<1>8. refcnt' = [refcnt EXCEPT ![h] = @ - 1]
  BY DEF Undo, ReadUnlock, Add, IInv, TypeOK
<1>9. QED
  BY <1>6, <1>7, <1>8 DEF IInv, TypeOK

\* The other steps leave the counts and the counted readers alone.
LEMMA CountSame ==
  ASSUME IInv, UNCHANGED refcnt,
         \A g \in Generations : Counted(g)' = Counted(g)
  PROVE  CountsExact'
BY DEF IInv, CountsExact

LEMMA NextIInv == IInv /\ [Next]_vars => IInv'
<1> SUFFICES ASSUME IInv, [Next]_vars PROVE IInv'
  OBVIOUS
<1> USE DEF Goto, WGoto, Generations
<1>1. ASSUME NEW r \in Readers, LoadGeneration(r) PROVE IInv'
  <2>1. \A g \in Generations : Counted(g)' = Counted(g)
    BY <1>1 DEF LoadGeneration, Counted, IInv, TypeOK
  <2>2. CountsExact'
    BY <1>1, <2>1, CountSame DEF LoadGeneration
  <2>3. Validated'
    BY <1>1 DEF LoadGeneration, IInv, TypeOK, Validated, Locked
  <2>4. QED
    BY <1>1, <2>2, <2>3 DEF LoadGeneration, IInv, TypeOK, Reclaimed, WriterPhase
<1>2. ASSUME NEW r \in Readers, CountIn(r) PROVE IInv'
  <2>1. Validated'
    BY <1>2 DEF CountIn, IInv, TypeOK, Validated, Locked
  <2>2. refcnt' \in [Generations -> Nat]
    BY <1>2 DEF CountIn, Add, IInv, TypeOK
  <2>3. CountsExact'
    BY <1>2, CountUp
  <2>4. QED
    BY <1>2, <2>1, <2>2, <2>3 DEF CountIn, IInv, TypeOK, Reclaimed, WriterPhase
<1>3. ASSUME NEW r \in Readers, Recheck(r) PROVE IInv'
  <2>1. \A g \in Generations : Counted(g)' = Counted(g)
    BY <1>3 DEF Recheck, Counted, IInv, TypeOK
  <2>2. CountsExact'
    BY <1>3, <2>1, CountSame DEF Recheck
  <2>3. Validated'
    BY <1>3 DEF Recheck, StillCurrent, IInv, TypeOK, Validated, WriterPhase, Locked
  <2>4. QED
    BY <1>3, <2>2, <2>3 DEF Recheck, IInv, TypeOK, Reclaimed, WriterPhase
<1>4. ASSUME NEW r \in Readers, Undo(r) \/ ReadUnlock(r) PROVE IInv'
  <2>1. Validated'
    BY <1>4 DEF Undo, ReadUnlock, IInv, TypeOK, Validated, Locked
  <2>2. QED
    BY <1>4, <2>1, CountDown DEF Undo, ReadUnlock, IInv, TypeOK, Reclaimed, WriterPhase
<1>5. ASSUME NEW r \in Readers, Dereference(r) \/ ReadObject(r) PROVE IInv'
  <2>1. \A g \in Generations : Counted(g)' = Counted(g)
    BY <1>5 DEF Dereference, ReadObject, Counted, IInv, TypeOK
  <2>2. CountsExact'
    BY <1>5, <2>1, CountSame DEF Dereference, ReadObject
  <2>3. Validated'
    BY <1>5 DEF Dereference, ReadObject, IInv, TypeOK, Validated, Locked
  <2>4. QED
    BY <1>5, <2>2, <2>3 DEF Dereference, ReadObject, IInv, TypeOK, Reclaimed, WriterPhase
<1>6. ASSUME Writer PROVE IInv'
  <2>1. UNCHANGED <<refcnt, pc, current_generation>>
    BY <1>6 DEF Writer, AssignData, Publish, Synchronize, Poll, Delete
  <2>2. CountsExact'
    BY <2>1, CountSame DEF Counted
  <2>3. CASE AssignData
    BY <2>1, <2>2, <2>3 DEF AssignData, IInv, TypeOK, Reclaimed, Validated, WriterPhase, Locked
  <2>4. CASE Publish
    BY <2>1, <2>2, <2>4 DEF Publish, IInv, TypeOK, Reclaimed, Validated, WriterPhase, Locked
  <2>5. CASE Synchronize
    BY <2>1, <2>2, <2>5 DEF Synchronize, OldLeft, IInv, TypeOK, Reclaimed, Validated,
                            WriterPhase, Locked
  <2>6. CASE Poll
    <3>1. \A r \in Readers : Locked(r) => current_generation[r] # last_gc_genration
      <4>1. last_gc_genration \in Generations /\ Cardinality(Counted(last_gc_genration)) = 0
        BY <2>6 DEF Poll, NoReaders, IInv, TypeOK, CountsExact
      <4>2. Counted(last_gc_genration) = {}
        BY <4>1, CountedFinite, FS_EmptySet
      <4>3. QED
        BY <4>2 DEF Counted, Locked
    <3>2. QED
      BY <2>1, <2>2, <2>6, <3>1 DEF Poll, IInv, TypeOK, Reclaimed, Validated,
                                    WriterPhase, Locked
  <2>7. CASE Delete
    BY <2>1, <2>2, <2>7 DEF Delete, IInv, TypeOK, Reclaimed, Validated, WriterPhase, Locked
  <2>8. QED
    BY <1>6, <2>3, <2>4, <2>5, <2>6, <2>7 DEF Writer
<1>7. CASE UNCHANGED vars
  <2>1. \A g \in Generations : Counted(g)' = Counted(g)
    BY <1>7 DEF vars, Counted
  <2>2. CountsExact'
    BY <1>7, <2>1, CountSame DEF vars
  <2>3. QED
    BY <1>7, <2>2 DEF vars, IInv, TypeOK, Reclaimed, Validated, WriterPhase, Locked
<1>8. QED
  BY <1>1, <1>2, <1>3, <1>4, <1>5, <1>6, <1>7 DEF Next, Reader

THEOREM Invariance == Spec => []IInv
BY InitIInv, NextIInv, PTL DEF Spec

(* No count is negative and no index leaves the arrays. *)
THEOREM TypeCorrect == Spec => []TypeOK
<1>1. IInv => TypeOK
  BY DEF IInv
<1>2. QED
  BY <1>1, Invariance, PTL

(* Lines 77-79: what a reader dereferences between lock and unlock exists. *)
THEOREM ReadersCorrect == Spec => []NoUseAfterFree
<1>1. IInv => NoUseAfterFree
  BY DEF IInv, TypeOK, Reclaimed, Validated, NoUseAfterFree, Generations
<1>2. QED
  BY <1>1, Invariance, PTL

(* Lines 31-44: the counts are the numbers of readers. *)
THEOREM CountsCorrect == Spec => []CountsExact
<1>1. IInv => CountsExact
  BY DEF IInv
<1>2. QED
  BY <1>1, Invariance, PTL

(* Lines 51-60: every older generation is deleted, once. *)
THEOREM ReclaimCorrect == Spec => []Reclaimed
<1>1. IInv => Reclaimed
  BY DEF IInv
<1>2. QED
  BY <1>1, Invariance, PTL
=============================================================================
