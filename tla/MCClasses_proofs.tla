-------------------------- MODULE MCClasses_proofs --------------------------
(***************************************************************************)
(* What shared_ptr, weak_ptr, the sieve, the strings, priority_queue and   *)
(* linked_list promise, for every value of the constants: each section has *)
(* the inductive invariant of one class, a lemma for each of its           *)
(* operations, and its theorem.  A step of MCClasses is a step of that     *)
(* class or leaves it alone (the lemmas ...Steps).                         *)
(***************************************************************************)
EXTENDS MCClasses, FiniteSetTheorems, WellFoundedInduction, SequenceTheorems, TLAPS

-----------------------------------------------------------------------------
LEMMA SharedSteps == [Next]_vars => [Shared!Next]_Shared!vars
  BY DEF Next, vars, QueueStep, SharedStep, WeakStep, ListStep, StringStep, SieveStep,
         sharedVars, Shared!vars

-----------------------------------------------------------------------------
(* shared_ptr *)

SharedTypes ==
  /\ ptr \in [Handles -> Objects \cup {NoObject, Shared!Unborn}]
  /\ going \in [Handles -> Objects \cup {NoObject}]
  /\ p_pc \in [Handles -> {"idle", "release", "delete"}]
  /\ refcnt \in [Objects -> Int]
  /\ state \in [Objects -> {"new", "live", "deleted"}]
  /\ made \subseteq Objects /\ p_crashed \in BOOLEAN

\* The handles that refer to o, those whose operation lets it go, and those
\* that are about to delete it.
Holders(o) == {h \in Handles : ptr[h] = o}
Leaving(o) == {h \in Handles : going[h] = o /\ p_pc[h] = "release"}
Deleting(o) == {h \in Handles : going[h] = o /\ p_pc[h] = "delete"}

Resting == \A h \in Handles : p_pc[h] = "idle" => going[h] = NoObject

NewUnused ==
  \A o \in Objects : state[o] = "new" =>
    o \notin made /\ \A h \in Handles : ptr[h] # o /\ going[h] # o

Counted(o) == refcnt[o] = Cardinality(Holders(o)) + Cardinality(Leaving(o))

\* One handle deletes, when nobody refers to the object any more.
Lifetime(o) ==
  /\ Holders(o) # {} \/ Leaving(o) # {} => state[o] = "live" /\ Deleting(o) = {}
  /\ Deleting(o) # {} => state[o] = "live"
  /\ \A h, g \in Deleting(o) : h = g
  /\ state[o] = "live" /\ Holders(o) = {} /\ Leaving(o) = {} => Deleting(o) # {}

SharedInv ==
  /\ SharedTypes /\ Resting /\ NewUnused
  /\ \A o \in Objects \ made : Counted(o) /\ Lifetime(o)

LEMMA SharedLibrary ==
  /\ \A S : Shared!IsFiniteSet(S) <=> IsFiniteSet(S)
  /\ \A S : Shared!Cardinality(S) = Cardinality(S)
<1>1. \A S : Shared!IsFiniteSet(S) <=> IsFiniteSet(S)
  BY DEF Shared!IsFiniteSet, IsFiniteSet
<1>2. \A S : Shared!Cardinality(S) = Cardinality(S)
  BY DEF Shared!Cardinality, Cardinality
<1> QED
  BY <1>1, <1>2

LEMMA SharedConstants ==
  /\ NoObject \notin Objects /\ Shared!Unborn \notin Objects
  /\ IsFiniteSet(Handles)
  BY Constants, SharedLibrary DEF Constants, Shared!SharedPtrAssumption

LEMMA HandleSets ==
  ASSUME NEW o
  PROVE  /\ IsFiniteSet(Holders(o)) /\ IsFiniteSet(Leaving(o)) /\ IsFiniteSet(Deleting(o))
         /\ Cardinality(Holders(o)) \in Nat /\ Cardinality(Leaving(o)) \in Nat
         /\ Cardinality(Holders(o)) = 0 <=> Holders(o) = {}
         /\ Cardinality(Leaving(o)) = 0 <=> Leaving(o) = {}
<1>1. Holders(o) \in SUBSET Handles /\ Leaving(o) \in SUBSET Handles /\ Deleting(o) \in SUBSET Handles
  BY DEF Holders, Leaving, Deleting
<1>2. IsFiniteSet(Holders(o)) /\ IsFiniteSet(Leaving(o)) /\ IsFiniteSet(Deleting(o))
  BY <1>1, SharedConstants, FS_Subset
<1> QED
  BY <1>2, FS_CardinalityType, FS_EmptySet

LEMMA CardAdd ==
  ASSUME NEW S, IsFiniteSet(S), NEW x, x \notin S
  PROVE  Cardinality(S \cup {x}) = Cardinality(S) + 1
  BY FS_AddElement

LEMMA CardRemove ==
  ASSUME NEW S, IsFiniteSet(S), NEW x, x \in S
  PROVE  Cardinality(S \ {x}) = Cardinality(S) - 1
  BY FS_RemoveElement

\* A reference more.
LEMMA SharedNewInv ==
  ASSUME SharedInv, NEW h \in Handles, NEW b \in Objects, Shared!New(h, b) \/ Shared!MakeShared(h, b)
  PROVE  SharedInv'
<1> USE SharedConstants
<1>1. SharedTypes' 
  BY DEF SharedInv, SharedTypes, Shared!New, Shared!MakeShared, Shared!Uninitialised
<1>2. Resting'
  BY DEF SharedInv, SharedTypes, Resting, Shared!New, Shared!MakeShared
<1>3. NewUnused'
  BY DEF SharedInv, SharedTypes, NewUnused, Shared!New, Shared!MakeShared
<1>4. ASSUME NEW o \in Objects \ made' PROVE Counted(o)' /\ Lifetime(o)'
  <2>1. o \in Objects \ made
    BY DEF Shared!New, Shared!MakeShared
  <2>2. CASE o = b
    <3>1. Shared!New(h, b)
      BY <2>2 DEF Shared!MakeShared
    <3>2. Holders(o) = {} /\ Leaving(o) = {} /\ Deleting(o) = {}
      BY <2>2, <3>1 DEF SharedInv, NewUnused, Holders, Leaving, Deleting, Shared!New
    <3>3. Holders(o)' = {h} /\ Leaving(o)' = {} /\ Deleting(o)' = {}
      BY <2>2, <3>1, <3>2 DEF SharedInv, SharedTypes, Holders, Leaving, Deleting, Shared!New
    <3>4. refcnt'[o] = 1 /\ state'[o] = "live"
      BY <2>2, <3>1 DEF SharedInv, SharedTypes, Shared!New
    <3>5. Cardinality({h}) = 1 /\ Cardinality({}) = 0
      BY FS_Singleton, FS_EmptySet
    <3>6. Counted(o)'
      BY <3>3, <3>4, <3>5 DEF Counted
    <3> QED
      BY <3>3, <3>4, <3>6 DEF Lifetime
  <2>3. CASE o # b
    <3>1. Holders(o)' = Holders(o) /\ Leaving(o)' = Leaving(o) /\ Deleting(o)' = Deleting(o)
      BY <2>3 DEF SharedInv, SharedTypes, Holders, Leaving, Deleting, Shared!New, Shared!MakeShared, Shared!Idle
    <3>2. refcnt'[o] = refcnt[o] /\ state'[o] = state[o]
      BY <2>3 DEF SharedInv, SharedTypes, Shared!New, Shared!MakeShared
    <3> QED
      BY <2>1, <3>1, <3>2 DEF Counted, Lifetime, SharedInv
  <2> QED
    BY <2>2, <2>3
<1> QED
  BY <1>1, <1>2, <1>3, <1>4 DEF SharedInv

LEMMA SharedCrashInv ==
  ASSUME SharedInv, p_crashed' \in BOOLEAN, UNCHANGED <<ptr, going, p_pc, refcnt, state, made>>
  PROVE  SharedInv'
<1>1. SharedTypes' /\ Resting' /\ NewUnused'
  BY DEF SharedInv, SharedTypes, Resting, NewUnused
<1>2. ASSUME NEW o \in Objects \ made' PROVE Counted(o)' /\ Lifetime(o)'
  <2>1. Holders(o)' = Holders(o) /\ Leaving(o)' = Leaving(o) /\ Deleting(o)' = Deleting(o)
    BY DEF Holders, Leaving, Deleting
  <2>2. Counted(o) /\ Lifetime(o)
    BY DEF SharedInv
  <2> QED
    BY <2>1, <2>2 DEF Counted, Lifetime
<1> QED
  BY <1>1, <1>2 DEF SharedInv

\* A reference more, from a handle that had none.
LEMMA SharedCopyInv ==
  ASSUME SharedInv, NEW h \in Handles, NEW g \in Handles, Shared!Copy(h, g)
  PROVE  SharedInv'
<1> USE SharedConstants
<1>1. CASE ptr[g] = NoObject
  BY <1>1, SharedCrashInv DEF Shared!Crash, Shared!Copy
<1>2. CASE ptr[g] # NoObject
  <2> DEFINE b == ptr[g]
  <2>1. /\ b \in Objects /\ ptr[h] \notin Objects /\ ptr' = [ptr EXCEPT ![h] = b]
        /\ refcnt' = [refcnt EXCEPT ![b] = @ + 1]
        /\ UNCHANGED <<going, p_pc, state, made, p_crashed>>
    BY <1>2 DEF Shared!Copy, Shared!Alive, Shared!Idle, SharedInv, SharedTypes
  <2>2. g \in Holders(b) /\ state[b] # "new"
    BY <2>1 DEF Holders, SharedInv, NewUnused
  <2> HIDE DEF b
  <2>3. SharedTypes' /\ Resting' /\ NewUnused'
    BY <2>1, <2>2 DEF SharedInv, SharedTypes, Resting, NewUnused
  <2>4. ASSUME NEW o \in Objects \ made' PROVE Counted(o)' /\ Lifetime(o)'
    <3>1. Leaving(o)' = Leaving(o) /\ Deleting(o)' = Deleting(o) /\ state'[o] = state[o]
      BY <2>1 DEF Leaving, Deleting
    <3>2. Counted(o) /\ Lifetime(o)
      BY <2>1 DEF SharedInv
    <3>3. CASE o = b
      <4>1. Holders(o)' = Holders(o) \cup {h} /\ h \notin Holders(o) /\ Holders(o) # {}
        BY <2>1, <2>2, <3>3 DEF Holders, SharedInv, SharedTypes
      <4>2. Cardinality(Holders(o)') = Cardinality(Holders(o)) + 1
        BY <4>1, HandleSets, CardAdd
      <4>3. refcnt'[o] = refcnt[o] + 1 /\ refcnt[o] \in Int
        BY <2>1, <3>3 DEF SharedInv, SharedTypes
      <4>4. Counted(o)'
        BY <3>1, <3>2, <4>2, <4>3, HandleSets DEF Counted
      <4> QED
        BY <3>1, <3>2, <4>1, <4>4 DEF Lifetime
    <3>4. CASE o # b
      <4>1. Holders(o)' = Holders(o) /\ refcnt'[o] = refcnt[o]
        BY <2>1, <3>4 DEF Holders, SharedInv, SharedTypes
      <4> QED
        BY <3>1, <3>2, <4>1 DEF Counted, Lifetime
    <3> QED
      BY <3>3, <3>4
  <2> QED
    BY <2>3, <2>4 DEF SharedInv
<1> QED
  BY <1>1, <1>2

LEMMA CardSwap ==
  ASSUME NEW S, IsFiniteSet(S), NEW x, x \in S, NEW y, y \notin S
  PROVE  Cardinality((S \ {x}) \cup {y}) = Cardinality(S)
<1>1. IsFiniteSet(S \ {x}) /\ Cardinality(S \ {x}) = Cardinality(S) - 1
  BY FS_RemoveElement
<1>2. Cardinality((S \ {x}) \cup {y}) = Cardinality(S \ {x}) + 1
  BY <1>1, CardAdd
<1>3. Cardinality(S) \in Nat
  BY FS_CardinalityType
<1> QED
  BY <1>1, <1>2, <1>3

\* A handle that refers to something else from now on lets go what it had.
LEMMA SharedReplaceInv ==
  ASSUME SharedInv, NEW h \in Handles, Shared!Alive(h), NEW b \in Objects \cup {Shared!Unborn},
         Shared!Replace(h, b), UNCHANGED <<state, made, p_crashed>>,
         b \in Objects => Holders(b) # {} /\ refcnt' = [refcnt EXCEPT ![b] = @ + 1],
         b \notin Objects => refcnt' = refcnt
  PROVE  SharedInv'
<1> USE SharedConstants
<1> DEFINE a == ptr[h]
<1>1. /\ a \in Objects \cup {NoObject} /\ p_pc[h] = "idle" /\ going[h] = NoObject
      /\ ptr' = [ptr EXCEPT ![h] = b] /\ going' = [going EXCEPT ![h] = a]
      /\ p_pc' = [p_pc EXCEPT ![h] = "release"]
  BY DEF Shared!Replace, Shared!Alive, Shared!Idle, SharedInv, SharedTypes, Resting
<1>2. b \in Objects => state[b] # "new"
  BY DEF Holders, SharedInv, NewUnused
<1>3. a \in Objects => state[a] # "new"
  BY DEF SharedInv, NewUnused
<1> HIDE DEF a
<1>4. SharedTypes'
  BY <1>1 DEF SharedInv, SharedTypes
<1>5. Resting' /\ NewUnused'
  BY <1>1, <1>2, <1>3 DEF SharedInv, SharedTypes, Resting, NewUnused
<1>6. ASSUME NEW o \in Objects \ made' PROVE Counted(o)' /\ Lifetime(o)'
  <2>1. Deleting(o)' = Deleting(o) /\ state'[o] = state[o]
    BY <1>1 DEF Deleting, SharedInv, SharedTypes
  <2>2. Counted(o) /\ Lifetime(o) /\ refcnt[o] \in Int
    BY DEF SharedInv, SharedTypes
  <2>3. h \notin Leaving(o) /\ (h \in Holders(o) <=> o = a)
    BY <1>1 DEF Leaving, Holders, a
  <2>4. refcnt'[o] = refcnt[o] + IF o = b THEN 1 ELSE 0
    BY <2>2 DEF SharedInv, SharedTypes
  <2>5. Leaving(o)' = IF o = a THEN Leaving(o) \cup {h} ELSE Leaving(o)
    BY <1>1 DEF Leaving, SharedInv, SharedTypes
  <2>6. Holders(o)' = IF o = b THEN Holders(o) \cup {h} ELSE Holders(o) \ {h}
    BY <1>1 DEF Holders, SharedInv, SharedTypes
  <2>7. Cardinality(Leaving(o)') = Cardinality(Leaving(o)) + IF o = a THEN 1 ELSE 0
    BY <2>3, <2>5, HandleSets, CardAdd
  <2>8. Cardinality(Holders(o)')
          = Cardinality(Holders(o)) + (IF o = b THEN 1 ELSE 0) - IF o = a THEN 1 ELSE 0
    <3>1. CASE o = b /\ o = a
      <4>1. Holders(o)' = Holders(o)
        BY <2>3, <2>6, <3>1
      <4> QED
        BY <3>1, <4>1, HandleSets
    <3>2. CASE o = b /\ o # a
      BY <2>3, <2>6, <3>2, HandleSets, CardAdd
    <3>3. CASE o # b /\ o = a
      BY <2>3, <2>6, <3>3, HandleSets, CardRemove
    <3>4. CASE o # b /\ o # a
      <4>1. Holders(o)' = Holders(o)
        BY <2>3, <2>6, <3>4
      <4> QED
        BY <3>4, <4>1, HandleSets
    <3> QED
      BY <3>1, <3>2, <3>3, <3>4
  <2>9. Counted(o)'
    BY <2>2, <2>4, <2>7, <2>8, HandleSets DEF Counted
  <2>10. o = b => Holders(o) # {}
    OBVIOUS
  <2>11. Lifetime(o)'
    BY <2>1, <2>2, <2>3, <2>5, <2>6, <2>10 DEF Lifetime
  <2> QED
    BY <2>9, <2>11
<1> QED
  BY <1>4, <1>5, <1>6 DEF SharedInv

LEMMA SharedCopyAssignInv ==
  ASSUME SharedInv, NEW h \in Handles, NEW g \in Handles, Shared!CopyAssign(h, g)
  PROVE  SharedInv'
<1>1. CASE ptr[g] = NoObject
  BY <1>1, SharedCrashInv DEF Shared!Crash, Shared!CopyAssign
<1>2. CASE ptr[g] # NoObject
  <2>1. ptr[g] \in Objects /\ g \in Holders(ptr[g])
    BY <1>2 DEF Shared!CopyAssign, Shared!Alive, SharedInv, SharedTypes, Holders
  <2>2. /\ Shared!Alive(h) /\ Shared!Replace(h, ptr[g])
        /\ refcnt' = [refcnt EXCEPT ![ptr[g]] = @ + 1]
        /\ UNCHANGED <<state, made, p_crashed>>
    BY <1>2 DEF Shared!CopyAssign
  <2> QED
    BY <2>1, <2>2, SharedReplaceInv
<1> QED
  BY <1>1, <1>2

LEMMA SharedDestroyInv ==
  ASSUME SharedInv, NEW h \in Handles, Shared!Destroy(h)
  PROVE  SharedInv'
  BY SharedReplaceInv, SharedConstants DEF Shared!Destroy

\* The references that move go to a handle that had none.
LEMMA SharedMovedInv ==
  ASSUME SharedInv, NEW h \in Handles, NEW g \in Handles, ptr[h] \notin Objects, h # g,
         ptr' = [ptr EXCEPT ![h] = ptr[g], ![g] = NoObject],
         UNCHANGED <<going, p_pc, refcnt, state, made, p_crashed>>
  PROVE  SharedInv'
<1> USE SharedConstants
<1>1. SharedTypes'
  BY DEF SharedInv, SharedTypes
<1>2. Resting' /\ NewUnused'
  BY DEF SharedInv, SharedTypes, Resting, NewUnused
<1>3. ASSUME NEW o \in Objects \ made' PROVE Counted(o)' /\ Lifetime(o)'
  <2>1. Leaving(o)' = Leaving(o) /\ Deleting(o)' = Deleting(o)
    BY DEF Leaving, Deleting
  <2>2. Counted(o) /\ Lifetime(o)
    BY DEF SharedInv
  <2>3. h \notin Holders(o)
    BY DEF Holders
  <2>4. CASE g \in Holders(o)
    <3>1. Holders(o)' = (Holders(o) \ {g}) \cup {h}
      BY <2>4 DEF Holders, SharedInv, SharedTypes
    <3>2. Cardinality(Holders(o)') = Cardinality(Holders(o))
      BY <2>3, <2>4, <3>1, HandleSets, CardSwap
    <3> QED
      BY <2>1, <2>2, <2>4, <3>1, <3>2 DEF Counted, Lifetime
  <2>5. CASE g \notin Holders(o)
    <3>1. Holders(o)' = Holders(o)
      BY <2>3, <2>5 DEF Holders, SharedInv, SharedTypes
    <3> QED
      BY <2>1, <2>2, <3>1 DEF Counted, Lifetime
  <2> QED
    BY <2>4, <2>5
<1> QED
  BY <1>1, <1>2, <1>3 DEF SharedInv

LEMMA SharedMoveInv ==
  ASSUME SharedInv, NEW h \in Handles, NEW g \in Handles, Shared!Move(h, g)
  PROVE  SharedInv'
<1>1. ptr[h] \notin Objects /\ h # g
  BY SharedConstants DEF Shared!Move, Shared!Alive
<1> QED
  BY <1>1, SharedMovedInv DEF Shared!Move

LEMMA SharedDefaultInv ==
  ASSUME SharedInv, NEW h \in Handles, Shared!Default(h)
  PROVE  SharedInv'
<1> USE SharedConstants
<1>1. SharedTypes' /\ Resting' /\ NewUnused'
  BY DEF Shared!Default, SharedInv, SharedTypes, Resting, NewUnused
<1>2. ASSUME NEW o \in Objects \ made' PROVE Counted(o)' /\ Lifetime(o)'
  <2>1. Leaving(o)' = Leaving(o) /\ Deleting(o)' = Deleting(o) /\ Holders(o)' = Holders(o)
    BY DEF Leaving, Deleting, Holders, Shared!Default, SharedInv, SharedTypes
  <2> QED
    BY <2>1 DEF Shared!Default, Counted, Lifetime, SharedInv
<1> QED
  BY <1>1, <1>2 DEF SharedInv

LEMMA SharedMoveAssignInv ==
  ASSUME SharedInv, NEW h \in Handles, NEW g \in Handles, Shared!MoveAssign(h, g)
  PROVE  SharedInv'
<1> USE SharedConstants
<1> DEFINE a == ptr[h]
           b == ptr[g]
<1>1. /\ a \in Objects \cup {NoObject} /\ p_pc[h] = "idle" /\ going[h] = NoObject
      /\ b \in Objects \cup {NoObject}
      /\ ptr' = [ptr EXCEPT ![g] = NoObject, ![h] = b]
      /\ going' = [going EXCEPT ![h] = IF h = g THEN NoObject ELSE a]
      /\ p_pc' = [p_pc EXCEPT ![h] = "release"]
      /\ UNCHANGED <<refcnt, state, made, p_crashed>>
  BY DEF Shared!MoveAssign, Shared!Alive, Shared!Idle, SharedInv, SharedTypes, Resting
<1>2. (a \in Objects => state[a] # "new") /\ (b \in Objects => state[b] # "new")
  BY DEF SharedInv, NewUnused
<1>a. \A o \in Objects : (h \in Holders(o) <=> o = a) /\ (g \in Holders(o) <=> o = b)
  BY DEF Holders
<1>b. h = g => a = b
  OBVIOUS
<1> HIDE DEF a, b
<1>3. SharedTypes'
  BY <1>1 DEF SharedInv, SharedTypes
<1>4. Resting' /\ NewUnused'
  BY <1>1, <1>2 DEF SharedInv, SharedTypes, Resting, NewUnused
<1>5. ASSUME NEW o \in Objects \ made' PROVE Counted(o)' /\ Lifetime(o)'
  <2>1. Deleting(o)' = Deleting(o)
    BY <1>1 DEF Deleting, SharedInv, SharedTypes
  <2>2. Counted(o) /\ Lifetime(o) /\ refcnt'[o] = refcnt[o] /\ state'[o] = state[o]
    BY <1>1 DEF SharedInv, SharedTypes
  <2>3. h \notin Leaving(o)
    BY <1>1 DEF Leaving
  <2>4. Leaving(o)' = IF o = a /\ h # g THEN Leaving(o) \cup {h} ELSE Leaving(o)
    BY <1>1 DEF Leaving, SharedInv, SharedTypes
  <2>5. Holders(o)' = IF o = b THEN (Holders(o) \ {g}) \cup {h} ELSE Holders(o) \ {h}
    BY <1>1, <1>a DEF Holders, SharedInv, SharedTypes
  <2>6. CASE h = g \/ o \notin {a, b}
    <3>1. Holders(o)' = Holders(o) /\ Leaving(o)' = Leaving(o)
      BY <1>a, <1>b, <2>4, <2>5, <2>6
    <3> QED
      BY <2>1, <2>2, <3>1 DEF Counted, Lifetime
  <2>7. CASE h # g /\ o = a
    <3>1. h \in Holders(o) /\ Holders(o)' = Holders(o) \ {IF o = b THEN g ELSE h}
      BY <1>a, <2>5, <2>7
    <3>2. (IF o = b THEN g ELSE h) \in Holders(o)
      BY <1>a, <2>7
    <3>3. Cardinality(Holders(o)') = Cardinality(Holders(o)) - 1
      BY <3>1, <3>2, HandleSets, CardRemove
    <3>4. Leaving(o)' = Leaving(o) \cup {h}
      BY <2>4, <2>7
    <3>5. Cardinality(Leaving(o)') = Cardinality(Leaving(o)) + 1
      BY <2>3, <3>4, HandleSets, CardAdd
    <3>6. Counted(o)'
      BY <2>2, <3>3, <3>5, HandleSets DEF Counted
    <3> QED
      BY <2>1, <2>2, <3>1, <3>4, <3>6 DEF Lifetime
  <2>8. CASE h # g /\ o # a /\ o = b
    <3>1. h \notin Holders(o) /\ g \in Holders(o)
      BY <1>a, <2>8
    <3>2. Holders(o)' = (Holders(o) \ {g}) \cup {h} /\ Leaving(o)' = Leaving(o)
      BY <2>4, <2>5, <2>8
    <3>3. Cardinality(Holders(o)') = Cardinality(Holders(o))
      BY <3>1, <3>2, HandleSets, CardSwap
    <3> QED
      BY <2>1, <2>2, <3>1, <3>2, <3>3 DEF Counted, Lifetime
  <2> QED
    BY <2>6, <2>7, <2>8
<1> QED
  BY <1>3, <1>4, <1>5 DEF SharedInv

\* The handle that gives the last reference up, and no other, is to delete.
LEMMA SharedReleaseInv ==
  ASSUME SharedInv, NEW h \in Handles, Shared!Release(h)
  PROVE  SharedInv'
<1> USE SharedConstants
<1> DEFINE b == going[h]
<1>1. CASE b = NoObject
  BY <1>1, SharedCrashInv DEF Shared!Release, Shared!Crash
<1>2. CASE b # NoObject
  <2>1. /\ b \in Objects /\ p_pc[h] = "release"
        /\ p_pc' = [p_pc EXCEPT ![h] = IF refcnt[b] = 1 THEN "delete" ELSE "idle"]
        /\ refcnt' = [refcnt EXCEPT ![b] = @ - 1]
        /\ going' = [going EXCEPT ![h] = IF refcnt[b] = 1 THEN b ELSE NoObject]
        /\ UNCHANGED <<ptr, state, made, p_crashed>>
    BY <1>2 DEF Shared!Release, Shared!LastOne, SharedInv, SharedTypes
  <2>2. state[b] # "new"
    BY <2>1 DEF SharedInv, NewUnused
  <2>3. \A o \in Objects : h \in Leaving(o) <=> o = b
    BY <2>1 DEF Leaving
  <2>4. \A o \in Objects : h \notin Deleting(o)
    BY <2>1 DEF Deleting
  <2> HIDE DEF b
  <2>5. SharedTypes' /\ Resting' /\ NewUnused'
    BY <2>1, <2>2 DEF SharedInv, SharedTypes, Resting, NewUnused
  <2>6. ASSUME NEW o \in Objects \ made' PROVE Counted(o)' /\ Lifetime(o)'
    <3>1. Holders(o)' = Holders(o) /\ state'[o] = state[o]
      BY <2>1 DEF Holders
    <3>2. Counted(o) /\ Lifetime(o) /\ refcnt[o] \in Int
      BY <2>1 DEF SharedInv, SharedTypes
    <3>3. Leaving(o)' = Leaving(o) \ {h}
      BY <2>1, <2>3 DEF Leaving, SharedInv, SharedTypes
    <3>4. Deleting(o)' = IF o = b /\ refcnt[b] = 1 THEN Deleting(o) \cup {h} ELSE Deleting(o)
      BY <2>1, <2>4 DEF Deleting, SharedInv, SharedTypes
    <3>5. CASE o = b
      <4>1. h \in Leaving(o)
        BY <2>3, <3>5
      <4>2. Cardinality(Leaving(o)') = Cardinality(Leaving(o)) - 1
        BY <3>3, <4>1, HandleSets, CardRemove
      <4>3. refcnt'[o] = refcnt[o] - 1
        BY <2>1, <3>5 DEF SharedInv, SharedTypes
      <4>4. Counted(o)'
        BY <3>1, <3>2, <4>2, <4>3, HandleSets DEF Counted
      <4>5. refcnt'[o] = 0 <=> Holders(o)' = {} /\ Leaving(o)' = {}
        <5>1. /\ Cardinality(Holders(o)') \in Nat /\ Cardinality(Leaving(o)') \in Nat
              /\ Cardinality(Holders(o)') = 0 <=> Holders(o)' = {}
              /\ Cardinality(Leaving(o)') = 0 <=> Leaving(o)' = {}
          <6>1. IsFiniteSet(Holders(o)') /\ IsFiniteSet(Leaving(o)')
            BY <3>1, <3>3, HandleSets, FS_RemoveElement
          <6> QED
            BY <6>1, FS_CardinalityType, FS_EmptySet
        <5>2. refcnt'[o] = Cardinality(Holders(o)') + Cardinality(Leaving(o)')
          BY <4>4 DEF Counted
        <5> QED
          BY <5>1, <5>2
      <4>6. Deleting(o) = {} /\ state[o] = "live"
        BY <3>2, <4>1 DEF Lifetime
      <4>7. CASE refcnt[o] = 1
        <5>1. Deleting(o)' = {h} /\ Holders(o)' = {} /\ Leaving(o)' = {}
          BY <3>4, <3>5, <4>3, <4>5, <4>6, <4>7
        <5> QED
          BY <3>1, <4>4, <4>6, <5>1 DEF Lifetime
      <4>8. CASE refcnt[o] # 1
        <5>1. Deleting(o)' = {} /\ ~ (Holders(o)' = {} /\ Leaving(o)' = {})
          BY <3>2, <3>4, <3>5, <4>3, <4>5, <4>6, <4>8
        <5> QED
          BY <3>1, <4>4, <4>6, <5>1 DEF Lifetime
      <4> QED
        BY <4>7, <4>8
    <3>6. CASE o # b
      <4>1. Leaving(o)' = Leaving(o) /\ Deleting(o)' = Deleting(o)
        BY <2>3, <3>3, <3>4, <3>6
      <4>2. refcnt'[o] = refcnt[o]
        BY <2>1, <3>6 DEF SharedInv, SharedTypes
      <4> QED
        BY <3>1, <3>2, <4>1, <4>2 DEF Counted, Lifetime
    <3> QED
      BY <3>5, <3>6
  <2> QED
    BY <2>5, <2>6 DEF SharedInv
<1> QED
  BY <1>1, <1>2

LEMMA SharedDeleteInv ==
  ASSUME SharedInv, NEW h \in Handles, Shared!Delete(h)
  PROVE  SharedInv'
<1> USE SharedConstants
<1> DEFINE b == going[h]
<1>1. CASE b \in made
  BY <1>1, SharedCrashInv DEF Shared!Delete, Shared!Crash
<1>2. CASE b \notin made
  <2>1. /\ p_pc[h] = "delete" /\ state' = [state EXCEPT ![b] = "deleted"]
        /\ p_pc' = [p_pc EXCEPT ![h] = "idle"] /\ going' = [going EXCEPT ![h] = NoObject]
        /\ UNCHANGED <<ptr, refcnt, made, p_crashed>>
    BY <1>2 DEF Shared!Delete
  <2>2. \A o \in Objects : (h \in Deleting(o) <=> o = b) /\ h \notin Leaving(o)
    BY <2>1 DEF Deleting, Leaving
  <2> HIDE DEF b
  <2>3. SharedTypes'
    BY <2>1 DEF SharedInv, SharedTypes
  <2>4. Resting' /\ NewUnused'
    BY <2>1 DEF SharedInv, SharedTypes, Resting, NewUnused
  <2>5. ASSUME NEW o \in Objects \ made' PROVE Counted(o)' /\ Lifetime(o)'
    <3>1. Holders(o)' = Holders(o) /\ refcnt'[o] = refcnt[o] /\ Counted(o) /\ Lifetime(o)
      BY <2>1 DEF Holders, SharedInv
    <3>2. Leaving(o)' = Leaving(o)
      BY <2>1, <2>2 DEF Leaving, SharedInv, SharedTypes
    <3>3. Deleting(o)' = Deleting(o) \ {h}
      BY <2>1, <2>2 DEF Deleting, SharedInv, SharedTypes
    <3>4. state'[o] = IF o = b THEN "deleted" ELSE state[o]
      BY <2>1 DEF SharedInv, SharedTypes
    <3>5. Counted(o)'
      BY <3>1, <3>2 DEF Counted
    <3>6. CASE o = b
      <4>1. Deleting(o)' = {} /\ Holders(o) = {} /\ Leaving(o) = {}
        BY <2>2, <3>1, <3>3, <3>6 DEF Lifetime
      <4> QED
        BY <3>1, <3>2, <3>4, <3>5, <3>6, <4>1 DEF Lifetime
    <3>7. CASE o # b
      <4>1. Deleting(o)' = Deleting(o)
        BY <2>2, <3>3, <3>7
      <4> QED
        BY <3>1, <3>2, <3>4, <3>5, <3>7, <4>1 DEF Lifetime
    <3> QED
      BY <3>6, <3>7
  <2> QED
    BY <2>3, <2>4, <2>5 DEF SharedInv
<1> QED
  BY <1>1, <1>2

LEMMA SharedInductive == SharedInv /\ [Shared!Next]_Shared!vars => SharedInv'
<1> SUFFICES ASSUME SharedInv, [Shared!Next]_Shared!vars PROVE SharedInv'
  OBVIOUS
<1>1. CASE UNCHANGED Shared!vars
  BY <1>1, SharedCrashInv DEF Shared!vars, SharedInv, SharedTypes
<1>2. ASSUME NEW h \in Handles, NEW o \in Objects, Shared!New(h, o) \/ Shared!MakeShared(h, o)
      PROVE  SharedInv'
  BY <1>2, SharedNewInv
<1>3. ASSUME NEW h \in Handles, NEW g \in Handles,
             \/ Shared!Copy(h, g) \/ Shared!CopyAssign(h, g)
             \/ Shared!Move(h, g) \/ Shared!MoveAssign(h, g)
      PROVE  SharedInv'
  BY <1>3, SharedCopyInv, SharedCopyAssignInv, SharedMoveInv, SharedMoveAssignInv
<1>4. ASSUME NEW h \in Handles,
             \/ Shared!Default(h) \/ Shared!Destroy(h)
             \/ Shared!Release(h) \/ Shared!Delete(h)
      PROVE  SharedInv'
  BY <1>4, SharedDefaultInv, SharedDestroyInv, SharedReleaseInv, SharedDeleteInv
<1> QED
  BY <1>1, <1>2, <1>3, <1>4 DEF Shared!Next

LEMMA SharedStart == Shared!Init => SharedInv
<1> SUFFICES ASSUME Shared!Init PROVE SharedInv
  OBVIOUS
<1> USE SharedConstants
<1>1. SharedTypes
  <2>1. /\ ptr \in [Handles -> Objects \cup {NoObject, Shared!Unborn}]
        /\ going \in [Handles -> Objects \cup {NoObject}]
    BY DEF Shared!Init
  <2>2. p_pc \in [Handles -> {"idle", "release", "delete"}]
    BY DEF Shared!Init
  <2>3. /\ refcnt \in [Objects -> Int]
        /\ state \in [Objects -> {"new", "live", "deleted"}]
        /\ made \subseteq Objects
    BY DEF Shared!Init
  <2>4. p_crashed \in BOOLEAN
    BY DEF Shared!Init
  <2> QED
    BY <2>1, <2>2, <2>3, <2>4 DEF SharedTypes
<1>3. Resting /\ NewUnused
  BY DEF Shared!Init, Resting, NewUnused
<1>2. ASSUME NEW o \in Objects \ made PROVE Counted(o) /\ Lifetime(o)
  <2>1. Holders(o) = {} /\ Leaving(o) = {} /\ Deleting(o) = {}
    BY DEF Shared!Init, Holders, Leaving, Deleting
  <2>2. refcnt[o] = 0 /\ state[o] = "new" /\ Cardinality({}) = 0
    BY FS_EmptySet DEF Shared!Init
  <2> QED
    BY <2>1, <2>2 DEF Counted, Lifetime
<1> QED
  BY <1>1, <1>2, <1>3 DEF SharedInv

\* Tagging the elements of a set does not change their number.
LEMMA CardTagged ==
  ASSUME NEW S, IsFiniteSet(S), NEW tag
  PROVE  /\ IsFiniteSet({<<tag, x>> : x \in S})
         /\ Cardinality({<<tag, x>> : x \in S}) = Cardinality(S)
<1> DEFINE T == {<<tag, x>> : x \in S}
           f == [x \in S |-> <<tag, x>>]
<1>1. f \in [S -> T] /\ (\A x, y \in S : f[x] = f[y] => x = y) /\ \A t \in T : \E x \in S : f[x] = t
  OBVIOUS
<1>2. f \in Bijection(S, T)
  BY <1>1 DEF Bijection, Injection, Surjection, IsInjective
<1> QED
  BY <1>2, FS_Bijection DEF ExistsBijection

LEMMA CardDisjoint ==
  ASSUME NEW S, IsFiniteSet(S), NEW T, IsFiniteSet(T), S \cap T = {}
  PROVE  Cardinality(S \cup T) = Cardinality(S) + Cardinality(T)
<1>1. Cardinality(S) \in Nat /\ Cardinality(T) \in Nat /\ Cardinality({}) = 0
  BY FS_CardinalityType, FS_EmptySet
<1>2. Cardinality(S \cup T) = Cardinality(S) + Cardinality(T) - Cardinality(S \cap T)
  BY FS_Union
<1>3. Cardinality(S \cap T) = Cardinality({})
  BY Zenon
<1> QED
  BY <1>1, <1>2, <1>3

LEMMA SharedImplied == SharedInv => Shared!CountsExact /\ Shared!DeletedOnce
<1> SUFFICES ASSUME SharedInv, NEW o \in Objects \ made
             PROVE  /\ refcnt[o] = Cardinality(Shared!References(o))
                    /\ Shared!References(o) # {} => state[o] = "live"
                    /\ Cardinality(Deleting(o)) <= 1
                    /\ state[o] = "deleted" => \A h \in Handles : going[h] # o
                    /\ state[o] = "live" /\ Shared!References(o) = {} => Deleting(o) # {}
  <2>1. ASSUME NEW o \in Objects
        PROVE  Deleting(o) = {h \in Handles : p_pc[h] = "delete" /\ going[h] = o}
    BY DEF Deleting
  <2>2. Shared!CountsExact <=> \A o \in Objects \ made : refcnt[o] = Cardinality(Shared!References(o))
    BY SharedLibrary DEF Shared!CountsExact
  <2>3. ASSUME NEW o \in Objects
        PROVE  /\ Shared!Cardinality({h \in Handles : p_pc[h] = "delete" /\ going[h] = o})
                    = Cardinality(Deleting(o))
               /\ Deleting(o) # {} => \E h \in Handles : p_pc[h] = "delete" /\ going[h] = o
    BY <2>1, SharedLibrary
  <2> QED
    BY <2>2, <2>3 DEF Shared!DeletedOnce
<1>1. Counted(o) /\ Lifetime(o) /\ SharedTypes /\ Resting /\ o # NoObject
  BY SharedConstants DEF SharedInv
<1> DEFINE H == {<<"handle", h>> : h \in Holders(o)}
           L == {<<"going", h>> : h \in Leaving(o)}
<1>2. Shared!References(o) = H \cup L /\ H \cap L = {}
  BY DEF Shared!References, Holders, Leaving
<1>3. Cardinality(Shared!References(o)) = Cardinality(Holders(o)) + Cardinality(Leaving(o))
  <2>1. IsFiniteSet(Holders(o)) /\ IsFiniteSet(Leaving(o))
    BY HandleSets
  <2>2. IsFiniteSet(H) /\ Cardinality(H) = Cardinality(Holders(o))
    BY <2>1, CardTagged
  <2>3. IsFiniteSet(L) /\ Cardinality(L) = Cardinality(Leaving(o))
    BY <2>1, CardTagged
  <2> HIDE DEF H, L
  <2> QED
    BY <1>2, <2>2, <2>3, CardDisjoint
<1>4. Shared!References(o) = {} <=> Holders(o) = {} /\ Leaving(o) = {}
  BY <1>2
<1>5. Cardinality(Deleting(o)) <= 1
  <2>1. CASE Deleting(o) = {}
    BY <2>1, FS_EmptySet
  <2>2. ASSUME NEW h \in Deleting(o) PROVE Cardinality(Deleting(o)) <= 1
    <3>1. Deleting(o) = {h}
      BY <1>1 DEF Lifetime
    <3> QED
      BY <3>1, FS_Singleton
  <2> QED
    BY <2>1, <2>2
<1>6. state[o] = "deleted" => \A h \in Handles : going[h] # o
  BY <1>1 DEF Lifetime, Leaving, Deleting, SharedTypes, Resting
<1> QED
  BY <1>1, <1>3, <1>4, <1>5, <1>6 DEF Counted, Lifetime

\* shared_ptr: the count of a control block is the number of its references on
\* any interleaving of the destructors, and an object lives as long as they do
\* and is deleted once.
THEOREM SharedPtrCorrect == Spec => []SharedLifetimes
<1>1. Init => SharedInv
  BY SharedStart DEF Init
<1>2. SharedInv /\ [Next]_vars => SharedInv'
  BY SharedSteps, SharedInductive
<1>3. SharedInv => SharedLifetimes
  BY SharedImplied DEF SharedLifetimes
<1> QED
  BY <1>1, <1>2, <1>3, PTL DEF Spec

-----------------------------------------------------------------------------
LEMMA CardSubset ==
  ASSUME NEW H, IsFiniteSet(H), NEW S \in SUBSET H
  PROVE  IsFiniteSet(S) /\ Cardinality(S) \in Nat /\ (Cardinality(S) = 0 <=> S = {})
<1>1. IsFiniteSet(S)
  BY FS_Subset
<1> QED
  BY <1>1, FS_CardinalityType, FS_EmptySet

LEMMA WeakSteps == [Next]_vars => [Weak!Next]_Weak!vars
  BY DEF Next, vars, QueueStep, SharedStep, WeakStep, ListStep, StringStep, SieveStep,
         weakVars, Weak!vars, Weak!countVars,
         Weak!sharedVars, Weak!weakVars

(* weak_ptr *)

WeakTypes ==
  /\ use_count \in Int /\ weak_count \in Int
  /\ object \in {"new", "live", "deleted"} /\ block \in {"new", "live", "deleted"}
  /\ shared \in [SharedHandles -> {"unborn", "holding", "released", "empty"}]
  /\ dying \in [SharedHandles -> BOOLEAN]
  /\ spc \in [SharedHandles -> {"idle", "reset", "weak", "object"}]
  /\ weak \in [WeakHandles -> {"unborn", "set", "empty"}]
  /\ wpc \in [WeakHandles -> {"idle", "lock"}]
  /\ uc \in [WeakHandles -> Int]
  /\ w_crashed \in {"no", "null", "deleted"}

\* The handle that gave the last count up, before and after line 44.
Last == {s \in SharedHandles : spc[s] = "weak"}
Ender == {s \in SharedHandles : spc[s] = "object"}

WeakRoles ==
  /\ \A s \in SharedHandles :
       /\ shared[s] = "unborn" => spc[s] = "idle"
       /\ spc[s] = "reset" => shared[s] \in {"holding", "empty"}
       /\ spc[s] = "weak" => shared[s] = "holding"
       /\ spc[s] = "object" => shared[s] \in {"empty", "released"}
  /\ \A w \in WeakHandles : wpc[w] = "lock" => weak[w] = "set"

Beginning ==
  object = "new" =>
    /\ \A s \in SharedHandles : shared[s] = "unborn"
    /\ \A w \in WeakHandles : weak[w] = "unborn"

WeakCounts ==
  /\ use_count = Cardinality(Weak!Users)
  /\ weak_count = Cardinality(Weak!Watchers) + IF Weak!Users \cup Last # {} THEN 1 ELSE 0

\* One handle is the last, when no other uses the object, and ends it.
Ending ==
  /\ \A s, t \in Last \cup Ender : s = t
  /\ Weak!Users # {} => Last \cup Ender = {}
  /\ object = "live" <=> Weak!Users \cup Last \cup Ender # {}

BlockLives ==
  object # "new" => block = IF weak_count > 0 THEN "live" ELSE "deleted"

WeakRight ==
  WeakRoles /\ Beginning /\ WeakCounts /\ Ending /\ BlockLives /\ w_crashed # "deleted"

WeakInv == WeakTypes /\ (~ misused => WeakRight)

LEMMA WeakLibrary ==
  /\ \A S : Weak!IsFiniteSet(S) <=> IsFiniteSet(S)
  /\ \A S : Weak!Cardinality(S) = Cardinality(S)
<1>1. \A S : Weak!IsFiniteSet(S) <=> IsFiniteSet(S)
  BY DEF Weak!IsFiniteSet, IsFiniteSet
<1>2. \A S : Weak!Cardinality(S) = Cardinality(S)
  BY DEF Weak!Cardinality, Cardinality
<1> QED
  BY <1>1, <1>2

LEMMA WeakFinite == IsFiniteSet(SharedHandles) /\ IsFiniteSet(WeakHandles)
  BY Constants, WeakLibrary DEF Constants, Weak!WeakPtrAssumption

LEMMA WeakSets ==
  /\ IsFiniteSet(Weak!Users) /\ Cardinality(Weak!Users) \in Nat
  /\ Cardinality(Weak!Users) = 0 <=> Weak!Users = {}
  /\ IsFiniteSet(Weak!Watchers) /\ Cardinality(Weak!Watchers) \in Nat
  /\ Cardinality(Weak!Watchers) = 0 <=> Weak!Watchers = {}
<1>1. Weak!Users \in SUBSET SharedHandles /\ Weak!Watchers \in SUBSET WeakHandles
  BY DEF Weak!Users, Weak!Watchers
<1> QED
  BY <1>1, WeakFinite, CardSubset

\* Steps that count nobody in or out.
LEMMA WeakSame ==
  ASSUME WeakRight,
         Weak!Users' = Weak!Users, Weak!Watchers' = Weak!Watchers, Last' = Last, Ender' = Ender,
         UNCHANGED <<use_count, weak_count, object, block>>
  PROVE  WeakCounts' /\ Ending' /\ BlockLives'
<1>1. WeakCounts'
  BY DEF WeakRight, WeakCounts
<1>2. Ending'
  BY DEF WeakRight, Ending
<1>3. BlockLives'
  BY DEF WeakRight, BlockLives
<1> QED
  BY <1>1, <1>2, <1>3


\* Steps after which only the program's fate, or a loaded count, differs.
LEMMA WeakCalm ==
  ASSUME WeakInv, UNCHANGED <<use_count, weak_count, object, block, shared, dying, spc, weak>>,
         wpc' \in [WeakHandles -> {"idle", "lock"}], uc' \in [WeakHandles -> Int],
         \A w \in WeakHandles : wpc'[w] = "lock" => wpc[w] = "lock" \/ weak[w] = "set",
         w_crashed' \in {"no", "null", "deleted"},
         ~ misused' => ~ misused /\ w_crashed' # "deleted"
  PROVE  WeakInv'
<1>1. WeakTypes'
  BY DEF WeakInv, WeakTypes
<1>2. ASSUME ~ misused' PROVE WeakRight'
  <2>1. WeakRight
    BY <1>2 DEF WeakInv
  <2>2. /\ Weak!Users' = Weak!Users /\ Weak!Watchers' = Weak!Watchers
        /\ Last' = Last /\ Ender' = Ender
    BY DEF Weak!Users, Weak!Watchers, Last, Ender
  <2>3. WeakCounts' /\ Ending' /\ BlockLives'
    BY <2>1, <2>2, WeakSame
  <2>4. WeakRoles' /\ Beginning'
    BY <2>1 DEF WeakRight, WeakRoles, Beginning
  <2> QED
    BY <1>2, <2>3, <2>4 DEF WeakRight
<1> QED
  BY <1>1, <1>2 DEF WeakInv

\* A pointer is used that is not there.
LEMMA WeakCrashes ==
  ASSUME WeakInv, NEW how \in {"null", "deleted"}, Weak!Crash(how),
         ~ misused' => ~ misused /\ how = "null"
  PROVE  WeakInv'
<1>1. /\ UNCHANGED <<use_count, weak_count, object, block, shared, dying, spc, weak, wpc, uc>>
      /\ w_crashed' = how
  BY DEF Weak!Crash, Weak!countVars, Weak!sharedVars, Weak!weakVars
<1> QED
  BY <1>1, WeakCalm DEF WeakInv, WeakTypes

LEMMA WeakNewInv ==
  ASSUME WeakInv, NEW s \in SharedHandles, Weak!New(s)
  PROVE  WeakInv'
<1>1. /\ object = "new" /\ shared[s] = "unborn"
      /\ object' = "live" /\ block' = "live" /\ use_count' = 1 /\ weak_count' = 1
      /\ shared' = [shared EXCEPT ![s] = "holding"]
      /\ UNCHANGED <<dying, spc, weak, wpc, uc, w_crashed, misused>>
  BY DEF Weak!New, Weak!Become, Weak!weakVars
<1>2. WeakTypes'
  BY <1>1 DEF WeakInv, WeakTypes
<1>3. ASSUME ~ misused PROVE WeakRight'
  <2> USE <1>3 DEF WeakInv
  <2>1. \A t \in SharedHandles : shared[t] = "unborn" /\ spc[t] = "idle"
    BY <1>1 DEF WeakRight, Beginning, WeakRoles
  <2>2. \A w \in WeakHandles : weak[w] = "unborn"
    BY <1>1 DEF WeakRight, Beginning
  <2>3. Weak!Users' = {s} /\ Last' = {} /\ Ender' = {}
    BY <1>1, <2>1 DEF Weak!Users, Last, Ender, WeakTypes
  <2>4. Weak!Watchers' = {}
    BY <1>1, <2>2 DEF Weak!Watchers
  <2>5. Cardinality({s}) = 1 /\ Cardinality({}) = 0
    BY FS_Singleton, FS_EmptySet
  <2>6. Cardinality(Weak!Users') = 1 /\ Cardinality(Weak!Watchers') = 0
    BY <2>3, <2>4, <2>5
  <2>7. WeakCounts'
    BY <1>1, <2>3, <2>6 DEF WeakCounts
  <2>8. Ending'
    BY <1>1, <2>3 DEF Ending
  <2>9. BlockLives' /\ Beginning'
    BY <1>1 DEF BlockLives, Beginning
  <2>10. WeakRoles'
    BY <1>1, <2>1 DEF WeakRight, WeakRoles, WeakTypes
  <2> QED
    BY <1>1, <2>7, <2>8, <2>9, <2>10 DEF WeakRight
<1> QED
  BY <1>1, <1>2, <1>3 DEF WeakInv

LEMMA WeakResetStartInv ==
  ASSUME WeakInv, NEW s \in SharedHandles, Weak!ResetStart(s)
  PROVE  WeakInv'
<1>1. /\ spc[s] = "idle" /\ shared[s] # "unborn"
      /\ \E d \in BOOLEAN : dying' = [dying EXCEPT ![s] = d]
      /\ spc' = [spc EXCEPT ![s] = "reset"]
      /\ misused' = (misused \/ shared[s] = "released")
      /\ UNCHANGED <<use_count, weak_count, object, block, shared, weak, wpc, uc, w_crashed>>
  BY DEF Weak!ResetStart, Weak!Goto, Weak!countVars, Weak!weakVars
<1>2. WeakTypes'
  BY <1>1 DEF WeakInv, WeakTypes
<1>3. ASSUME ~ misused' PROVE WeakRight'
  <2>1. WeakRight /\ WeakTypes /\ shared[s] # "released"
    BY <1>1, <1>3 DEF WeakInv
  <2>2. /\ Weak!Users' = Weak!Users /\ Weak!Watchers' = Weak!Watchers
        /\ Last' = Last /\ Ender' = Ender
    BY <1>1, <2>1 DEF Weak!Users, Weak!Watchers, Last, Ender, WeakTypes
  <2>3. WeakCounts' /\ Ending' /\ BlockLives'
    BY <1>1, <2>1, <2>2, WeakSame
  <2>4. WeakRoles' /\ Beginning'
    BY <1>1, <2>1 DEF WeakRight, WeakRoles, Beginning, WeakTypes
  <2> QED
    BY <1>1, <2>1, <2>3, <2>4 DEF WeakRight
<1> QED
  BY <1>2, <1>3 DEF WeakInv

LEMMA WeakResetEmptyInv ==
  ASSUME WeakInv, NEW s \in SharedHandles, Weak!ResetEmpty(s)
  PROVE  WeakInv'
<1>1. /\ spc[s] = "reset" /\ shared[s] = "empty"
      /\ spc' = [spc EXCEPT ![s] = "idle"]
      /\ shared' = [shared EXCEPT ![s] = IF dying[s] THEN "unborn" ELSE "empty"]
      /\ dying' = [dying EXCEPT ![s] = FALSE]
      /\ UNCHANGED <<use_count, weak_count, object, block, weak, wpc, uc, w_crashed, misused>>
  BY DEF Weak!ResetEmpty, Weak!Return, Weak!Goto, Weak!Become, Weak!countVars, Weak!weakVars
<1>2. WeakTypes'
  BY <1>1 DEF WeakInv, WeakTypes
<1>3. ASSUME ~ misused' PROVE WeakRight'
  <2>1. WeakRight /\ WeakTypes
    BY <1>1, <1>3 DEF WeakInv
  <2>2. /\ Weak!Users' = Weak!Users /\ Weak!Watchers' = Weak!Watchers
        /\ Last' = Last /\ Ender' = Ender
    BY <1>1, <2>1 DEF Weak!Users, Weak!Watchers, Last, Ender, WeakTypes
  <2>3. WeakCounts' /\ Ending' /\ BlockLives'
    BY <1>1, <2>1, <2>2, WeakSame
  <2>4. WeakRoles' /\ Beginning'
    BY <1>1, <2>1 DEF WeakRight, WeakRoles, Beginning, WeakTypes
  <2> QED
    BY <1>1, <2>1, <2>3, <2>4 DEF WeakRight
<1> QED
  BY <1>2, <1>3 DEF WeakInv

\* A handle gives its count up, and the last one goes on.
LEMMA WeakResetUseInv ==
  ASSUME WeakInv, NEW s \in SharedHandles, Weak!ResetUse(s)
  PROVE  WeakInv'
<1>a. WeakTypes /\ spc[s] = "reset" /\ shared[s] \in {"holding", "released"} /\ misused' = misused
  BY DEF WeakInv, Weak!ResetUse
<1>b. ASSUME ~ misused
      PROVE  /\ s \in Weak!Users /\ use_count = Cardinality(Weak!Users) /\ use_count \in Nat \ {0}
             /\ WeakRight /\ weak_count \in Nat \ {0} /\ block = "live" /\ object = "live"
  <2>1. WeakRight
    BY <1>b DEF WeakInv
  <2>2. s \in Weak!Users
    BY <1>a, <2>1 DEF WeakRight, WeakRoles, Weak!Users
  <2>3. use_count = Cardinality(Weak!Users) /\ use_count \in Nat \ {0}
    BY <2>1, <2>2, WeakSets DEF WeakRight, WeakCounts
  <2>4. weak_count \in Nat \ {0}
    BY <2>1, <2>2, WeakSets DEF WeakRight, WeakCounts
  <2>5. object = "live"
    BY <2>1, <2>2 DEF WeakRight, Ending
  <2>6. block = "live"
    BY <2>1, <2>4, <2>5 DEF WeakRight, BlockLives
  <2> QED
    BY <2>1, <2>2, <2>3, <2>4, <2>5, <2>6
<1>1. CASE block # "live"
  BY <1>1, <1>a, <1>b, WeakCrashes DEF Weak!ResetUse, Weak!Used, WeakTypes
<1>2. CASE block = "live" /\ use_count = 1
  <2>1. /\ use_count' = use_count - 1 /\ spc' = [spc EXCEPT ![s] = "weak"]
        /\ UNCHANGED <<shared, dying, weak_count, object, block, weak, wpc, uc, w_crashed>>
    BY <1>2 DEF Weak!ResetUse, Weak!Used, Weak!LastUse, Weak!Goto, Weak!weakVars
  <2>2. WeakTypes'
    BY <1>a, <2>1 DEF WeakTypes
  <2>3. ASSUME ~ misused PROVE WeakRight'
    <3>1. WeakRight /\ s \in Weak!Users /\ Cardinality(Weak!Users) = 1
      BY <1>2, <1>b, <2>3
    <3>2. Weak!Users = {s}
      BY <3>1, WeakSets, FS_Singleton
    <3>3. Last = {} /\ Ender = {} /\ shared[s] = "holding"
      BY <3>1 DEF WeakRight, Ending, Weak!Users
    <3>4. Weak!Users' = {}
      BY <2>1, <3>2, <1>a DEF Weak!Users, WeakTypes
    <3>5. Last' = {s} /\ Ender' = {} /\ Weak!Watchers' = Weak!Watchers
      BY <2>1, <3>3, <1>a DEF Last, Ender, Weak!Watchers, WeakTypes
    <3>6. Cardinality({}) = 0
      BY FS_EmptySet
    <3>7. WeakCounts'
      BY <1>2, <2>1, <3>1, <3>4, <3>5, <3>6 DEF WeakRight, WeakCounts
    <3>8. Ending'
      BY <2>1, <3>4, <3>5, <1>b, <2>3 DEF Ending
    <3>9. BlockLives' /\ Beginning'
      BY <2>1, <3>1 DEF WeakRight, BlockLives, Beginning
    <3>10. WeakRoles'
      BY <2>1, <3>1, <3>3, <1>a DEF WeakRight, WeakRoles, WeakTypes
    <3> QED
      BY <2>1, <3>1, <3>7, <3>8, <3>9, <3>10 DEF WeakRight
  <2> QED
    BY <1>a, <2>2, <2>3 DEF WeakInv
<1>3. CASE block = "live" /\ use_count # 1
  <2>1. /\ use_count' = use_count - 1 /\ spc' = [spc EXCEPT ![s] = "idle"]
        /\ shared' = [shared EXCEPT ![s] = IF dying[s] THEN "unborn" ELSE "released"]
        /\ dying' = [dying EXCEPT ![s] = FALSE]
        /\ UNCHANGED <<weak_count, object, block, weak, wpc, uc, w_crashed>>
    BY <1>3 DEF Weak!ResetUse, Weak!Used, Weak!LastUse, Weak!Return, Weak!Goto, Weak!Become, Weak!weakVars
  <2>2. WeakTypes'
    BY <1>a, <2>1 DEF WeakTypes
  <2>3. ASSUME ~ misused PROVE WeakRight'
    <3>1. WeakRight /\ s \in Weak!Users /\ use_count = Cardinality(Weak!Users) /\ use_count \in Nat \ {0, 1}
      BY <1>3, <1>b, <2>3
    <3>2. Weak!Users' = Weak!Users \ {s}
      BY <2>1, <1>a DEF Weak!Users, WeakTypes
    <3>3. IsFiniteSet(Weak!Users \ {s}) /\ Cardinality(Weak!Users \ {s}) = use_count - 1
      BY <3>1, WeakSets, FS_RemoveElement
    <3>4. Weak!Users \ {s} # {}
      BY <3>1, <3>3, FS_EmptySet
    <3>5. Last' = Last /\ Ender' = Ender /\ Weak!Watchers' = Weak!Watchers
      BY <2>1, <1>a DEF Last, Ender, Weak!Watchers, WeakTypes
    <3>6. WeakCounts'
      BY <2>1, <3>1, <3>2, <3>3, <3>4, <3>5 DEF WeakRight, WeakCounts
    <3>7. Ending'
      BY <2>1, <3>1, <3>2, <3>4, <3>5 DEF WeakRight, Ending
    <3>8. BlockLives' /\ Beginning'
      BY <2>1, <3>1, <1>b, <2>3 DEF WeakRight, BlockLives, Beginning
    <3>9. WeakRoles'
      BY <2>1, <3>1, <1>a DEF WeakRight, WeakRoles, WeakTypes
    <3> QED
      BY <2>1, <3>1, <3>6, <3>7, <3>8, <3>9 DEF WeakRight
  <2> QED
    BY <1>a, <2>2, <2>3 DEF WeakInv
<1> QED
  BY <1>1, <1>2, <1>3

\* The block goes with the last weak count.
LEMMA WeakResetWeakInv ==
  ASSUME WeakInv, NEW s \in SharedHandles, Weak!ResetWeak(s)
  PROVE  WeakInv'
<1>a. WeakTypes /\ spc[s] = "weak" /\ misused' = misused
  BY DEF WeakInv, Weak!ResetWeak
<1>b. ASSUME ~ misused
      PROVE  /\ WeakRight /\ s \in Last /\ Weak!Users = {} /\ object = "live" /\ block = "live"
             /\ weak_count = Cardinality(Weak!Watchers) + 1
  <2>1. WeakRight /\ s \in Last
    BY <1>a, <1>b DEF WeakInv, Last
  <2>2. Weak!Users = {} /\ object = "live"
    BY <2>1 DEF WeakRight, Ending
  <2>3. weak_count = Cardinality(Weak!Watchers) + 1
    BY <2>1 DEF WeakRight, WeakCounts
  <2>4. block = "live"
    BY <2>1, <2>2, <2>3, WeakSets DEF WeakRight, BlockLives
  <2> QED
    BY <2>1, <2>2, <2>3, <2>4
<1>1. CASE block # "live"
  BY <1>1, <1>a, <1>b, WeakCrashes DEF Weak!ResetWeak, Weak!Used, WeakTypes
<1>2. CASE block = "live"
  <2>1. /\ weak_count' = weak_count - 1
        /\ block' = IF weak_count = 1 THEN "deleted" ELSE "live"
        /\ shared' = [shared EXCEPT ![s] = IF weak_count = 1 THEN "empty" ELSE "released"]
        /\ spc' = [spc EXCEPT ![s] = "object"]
        /\ UNCHANGED <<use_count, object, dying, weak, wpc, uc, w_crashed>>
    BY <1>2 DEF Weak!ResetWeak, Weak!Used, Weak!Become, Weak!Goto, Weak!weakVars
  <2>2. WeakTypes'
    BY <1>a, <2>1 DEF WeakTypes
  <2>3. ASSUME ~ misused PROVE WeakRight'
    <3> USE <1>b, <2>3
    <3>1. Last = {s} /\ Ender \subseteq {s}
      BY DEF WeakRight, Ending
    <3>2. Weak!Users' = {} /\ Weak!Watchers' = Weak!Watchers
      BY <2>1, <1>a DEF Weak!Users, Weak!Watchers, WeakTypes
    <3>3. Last' = {} /\ Ender' = {s}
      BY <2>1, <3>1, <1>a DEF Last, Ender, WeakTypes
    <3>a. Weak!Users' = Weak!Users /\ Weak!Users' \cup Last' = {}
      BY <3>2, <3>3
    <3>b. use_count' = Cardinality(Weak!Users')
      BY <2>1, <3>a DEF WeakRight, WeakCounts
    <3>c. weak_count' = Cardinality(Weak!Watchers')
      BY <2>1, <3>2, WeakSets
    <3>4. WeakCounts'
      BY <3>a, <3>b, <3>c, WeakSets, <3>2 DEF WeakCounts
    <3>5. Ending'
      BY <2>1, <3>2, <3>3 DEF Ending
    <3>6. BlockLives' /\ Beginning'
      BY <2>1, WeakSets DEF BlockLives, Beginning
    <3>7. WeakRoles'
      BY <2>1, <1>a DEF WeakRight, WeakRoles, WeakTypes
    <3> QED
      BY <2>1, <3>4, <3>5, <3>6, <3>7 DEF WeakRight
  <2> QED
    BY <1>a, <2>2, <2>3 DEF WeakInv
<1> QED
  BY <1>1, <1>2

LEMMA WeakResetObjectInv ==
  ASSUME WeakInv, NEW s \in SharedHandles, Weak!ResetObject(s)
  PROVE  WeakInv'
<1>1. /\ spc[s] = "object" /\ object' = "deleted"
      /\ spc' = [spc EXCEPT ![s] = "idle"]
      /\ shared' = [shared EXCEPT ![s] = IF dying[s] THEN "unborn" ELSE shared[s]]
      /\ dying' = [dying EXCEPT ![s] = FALSE]
      /\ UNCHANGED <<use_count, weak_count, block, weak, wpc, uc, w_crashed, misused>>
  BY DEF Weak!ResetObject, Weak!Return, Weak!Goto, Weak!Become, Weak!countVars, Weak!weakVars
<1>2. WeakTypes'
  BY <1>1 DEF WeakInv, WeakTypes
<1>3. ASSUME ~ misused PROVE WeakRight'
  <2>1. WeakRight /\ WeakTypes /\ s \in Ender
    BY <1>1, <1>3 DEF WeakInv, Ender
  <2>2. Weak!Users = {} /\ Last \cup Ender = {s} /\ object = "live"
    BY <2>1 DEF WeakRight, Ending
  <2>3. Last = {} /\ Ender = {s}
    BY <1>1, <2>2, <2>1 DEF Last
  <2>4. Weak!Users' = {} /\ Weak!Watchers' = Weak!Watchers
    BY <1>1, <2>1, <2>2 DEF Weak!Users, Weak!Watchers, WeakTypes, WeakRight, WeakRoles
  <2>5. Last' = {} /\ Ender' = {}
    BY <1>1, <2>1, <2>3 DEF Last, Ender, WeakTypes
  <2>6. WeakCounts'
    BY <1>1, <2>1, <2>2, <2>3, <2>4, <2>5 DEF WeakRight, WeakCounts
  <2>7. Ending'
    BY <1>1, <2>4, <2>5 DEF Ending
  <2>8. BlockLives' /\ Beginning'
    BY <1>1, <2>1, <2>2 DEF WeakRight, BlockLives, Beginning
  <2>9. WeakRoles'
    BY <1>1, <2>1 DEF WeakRight, WeakRoles, WeakTypes
  <2> QED
    BY <1>1, <2>1, <2>6, <2>7, <2>8, <2>9 DEF WeakRight
<1> QED
  BY <1>1, <1>2, <1>3 DEF WeakInv

\* What a weak handle that watches, or a shared one that uses the object, may
\* rely on.
LEMMA WeakHeld ==
  ASSUME WeakInv, ~ misused, Weak!Users \cup Weak!Watchers # {}
  PROVE  WeakRight /\ weak_count \in Nat \ {0} /\ block = "live" /\ object # "new"
<1>1. WeakRight
  BY DEF WeakInv
<1>2. weak_count \in Nat \ {0}
  <2>1. CASE Weak!Users # {}
    BY <1>1, <2>1, WeakSets DEF WeakRight, WeakCounts
  <2>2. CASE Weak!Watchers # {}
    BY <1>1, <2>2, WeakSets DEF WeakRight, WeakCounts
  <2> QED
    BY <2>1, <2>2
<1>3. object # "new"
  BY <1>1 DEF WeakRight, Beginning, Weak!Users, Weak!Watchers
<1>4. block = "live"
  BY <1>1, <1>2, <1>3 DEF WeakRight, BlockLives
<1> QED
  BY <1>1, <1>2, <1>3, <1>4

\* A weak handle more.
LEMMA WeakSetInv ==
  ASSUME WeakInv, NEW w \in WeakHandles, weak[w] = "unborn", block = "live",
         weak_count' = weak_count + 1, weak' = [weak EXCEPT ![w] = "set"],
         UNCHANGED <<use_count, object, block, shared, dying, spc, wpc, uc, w_crashed>>,
         ~ misused' => ~ misused /\ Weak!Users \cup Weak!Watchers # {}
  PROVE  WeakInv'
<1>1. WeakTypes /\ WeakTypes'
  BY DEF WeakInv, WeakTypes
<1>2. ASSUME ~ misused' PROVE WeakRight'
  <2>1. WeakRight /\ weak_count \in Nat \ {0} /\ object # "new"
    BY <1>2, WeakHeld
  <2>2. /\ Weak!Users' = Weak!Users /\ Last' = Last /\ Ender' = Ender
    BY DEF Weak!Users, Last, Ender
  <2>3. w \notin Weak!Watchers /\ Weak!Watchers' = Weak!Watchers \cup {w}
    BY <1>1 DEF Weak!Watchers, WeakTypes
  <2>4. Cardinality(Weak!Watchers') = Cardinality(Weak!Watchers) + 1
    BY <2>3, WeakSets, CardAdd
  <2>5. WeakCounts'
    BY <2>1, <2>2, <2>4, WeakSets DEF WeakRight, WeakCounts
  <2>6. Ending'
    BY <2>1, <2>2 DEF WeakRight, Ending
  <2>7. BlockLives' /\ Beginning'
    BY <2>1 DEF BlockLives, Beginning
  <2>8. WeakRoles'
    BY <1>1, <2>1 DEF WeakRight, WeakRoles, WeakTypes
  <2> QED
    BY <2>1, <2>5, <2>6, <2>7, <2>8 DEF WeakRight
<1> QED
  BY <1>1, <1>2 DEF WeakInv

LEMMA WeakOfInv ==
  ASSUME WeakInv, NEW w \in WeakHandles, NEW s \in SharedHandles, Weak!WeakOf(w, s)
  PROVE  WeakInv'
<1>1. /\ weak[w] = "unborn" /\ spc[s] = "idle" /\ shared[s] # "unborn"
      /\ misused' = (misused \/ shared[s] = "released")
  BY DEF Weak!WeakOf
<1>2. ASSUME ~ misused', shared[s] # "empty"
      PROVE  ~ misused /\ Weak!Users # {} /\ block = "live"
  <2>1. s \in Weak!Users /\ ~ misused
    BY <1>1, <1>2 DEF Weak!Users, WeakInv, WeakTypes
  <2> QED
    BY <2>1, WeakHeld
<1>3. CASE shared[s] = "empty"
  BY <1>1, <1>3, WeakCrashes DEF Weak!WeakOf
<1>4. CASE shared[s] # "empty" /\ block # "live"
  BY <1>2, <1>4, WeakCrashes DEF Weak!WeakOf, Weak!Used
<1>5. CASE shared[s] # "empty" /\ block = "live"
  <2>1. /\ weak_count' = weak_count + 1 /\ weak' = [weak EXCEPT ![w] = "set"]
        /\ UNCHANGED <<use_count, object, block, shared, dying, spc, wpc, uc, w_crashed>>
    BY <1>5 DEF Weak!WeakOf, Weak!Used, Weak!sharedVars
  <2> QED
    BY <1>1, <1>2, <1>5, <2>1, WeakSetInv
<1> QED
  BY <1>3, <1>4, <1>5

LEMMA WeakCopyInv ==
  ASSUME WeakInv, NEW w \in WeakHandles, NEW v \in WeakHandles, Weak!Copy(w, v)
  PROVE  WeakInv'
<1>1. weak[w] = "unborn" /\ weak[v] # "unborn" /\ misused' = misused
  BY DEF Weak!Copy
<1>2. ASSUME ~ misused, weak[v] # "empty"
      PROVE  Weak!Watchers # {} /\ block = "live"
  <2>1. v \in Weak!Watchers
    BY <1>1, <1>2 DEF Weak!Watchers, WeakInv, WeakTypes
  <2> QED
    BY <1>2, <2>1, WeakHeld
<1>3. CASE weak[v] = "empty"
  BY <1>1, <1>3, WeakCrashes DEF Weak!Copy
<1>4. CASE weak[v] # "empty" /\ block # "live"
  BY <1>1, <1>2, <1>4, WeakCrashes DEF Weak!Copy, Weak!Used
<1>5. CASE weak[v] # "empty" /\ block = "live"
  <2>1. /\ weak_count' = weak_count + 1 /\ weak' = [weak EXCEPT ![w] = "set"]
        /\ UNCHANGED <<use_count, object, block, shared, dying, spc, wpc, uc, w_crashed>>
    BY <1>5 DEF Weak!Copy, Weak!Used, Weak!sharedVars
  <2> QED
    BY <1>1, <1>2, <1>5, <2>1, WeakSetInv
<1> QED
  BY <1>3, <1>4, <1>5

LEMMA WeakMoveInv ==
  ASSUME WeakInv, NEW w \in WeakHandles, NEW v \in WeakHandles, Weak!Move(w, v)
  PROVE  WeakInv'
<1>1. /\ weak[w] = "unborn" /\ weak[v] # "unborn" /\ wpc[v] = "idle" /\ w # v
      /\ weak' = [weak EXCEPT ![w] = weak[v], ![v] = "empty"]
      /\ UNCHANGED <<use_count, weak_count, object, block, shared, dying, spc, wpc, uc,
                     w_crashed, misused>>
  BY DEF Weak!Move, Weak!countVars, Weak!sharedVars
<1>2. WeakTypes /\ WeakTypes'
  BY <1>1 DEF WeakInv, WeakTypes
<1>3. ASSUME ~ misused PROVE WeakRight'
  <2>1. WeakRight
    BY <1>3 DEF WeakInv
  <2>2. /\ Weak!Users' = Weak!Users /\ Last' = Last /\ Ender' = Ender
    BY <1>1 DEF Weak!Users, Last, Ender
  <2>3. Cardinality(Weak!Watchers') = Cardinality(Weak!Watchers)
    <3>1. CASE weak[v] = "set"
      <4>1. v \in Weak!Watchers /\ w \notin Weak!Watchers
        BY <1>1, <3>1 DEF Weak!Watchers
      <4>2. Weak!Watchers' = (Weak!Watchers \ {v}) \cup {w}
        BY <1>1, <1>2, <3>1 DEF Weak!Watchers, WeakTypes
      <4> QED
        BY <4>1, <4>2, WeakSets, CardSwap
    <3>2. CASE weak[v] # "set"
      <4>1. Weak!Watchers' = Weak!Watchers
        BY <1>1, <1>2, <3>2 DEF Weak!Watchers, WeakTypes
      <4> QED
        BY <4>1
    <3> QED
      BY <3>1, <3>2
  <2>4. WeakCounts'
    BY <1>1, <2>1, <2>2, <2>3 DEF WeakRight, WeakCounts
  <2>5. Ending'
    BY <1>1, <2>1, <2>2 DEF WeakRight, Ending
  <2>6. BlockLives' /\ Beginning'
    BY <1>1, <2>1 DEF WeakRight, BlockLives, Beginning
  <2>7. WeakRoles'
    BY <1>1, <1>2, <2>1 DEF WeakRight, WeakRoles, WeakTypes
  <2> QED
    BY <1>1, <2>1, <2>4, <2>5, <2>6, <2>7 DEF WeakRight
<1> QED
  BY <1>1, <1>2, <1>3 DEF WeakInv

LEMMA WeakDestroyInv ==
  ASSUME WeakInv, NEW w \in WeakHandles, Weak!Destroy(w)
  PROVE  WeakInv'
<1>1. weak[w] # "unborn" /\ wpc[w] = "idle" /\ misused' = misused /\ WeakTypes
  BY DEF Weak!Destroy, WeakInv
<1>2. ASSUME ~ misused, weak[w] # "empty"
      PROVE  /\ w \in Weak!Watchers /\ block = "live" /\ WeakRight /\ object # "new"
             /\ weak_count \in Nat \ {0}
  <2>1. w \in Weak!Watchers
    BY <1>1, <1>2 DEF Weak!Watchers, WeakTypes
  <2> QED
    BY <1>2, <2>1, WeakHeld
<1>3. CASE weak[w] = "empty"
  BY <1>1, <1>3, WeakCrashes DEF Weak!Destroy
<1>4. CASE weak[w] # "empty" /\ block # "live"
  BY <1>1, <1>2, <1>4, WeakCrashes DEF Weak!Destroy, Weak!Used
<1>5. CASE weak[w] # "empty" /\ block = "live"
  <2>1. /\ weak_count' = weak_count - 1
        /\ block' = IF weak_count = 1 THEN "deleted" ELSE "live"
        /\ weak' = [weak EXCEPT ![w] = "unborn"]
        /\ UNCHANGED <<use_count, object, shared, dying, spc, wpc, uc, w_crashed>>
    BY <1>5 DEF Weak!Destroy, Weak!Used, Weak!sharedVars
  <2>2. WeakTypes'
    BY <1>1, <2>1 DEF WeakTypes
  <2>3. ASSUME ~ misused PROVE WeakRight'
    <3> USE <1>2, <1>5, <2>3
    <3>1. /\ Weak!Users' = Weak!Users /\ Last' = Last /\ Ender' = Ender
      BY <2>1 DEF Weak!Users, Last, Ender
    <3>2. Weak!Watchers' = Weak!Watchers \ {w}
      BY <1>1, <2>1 DEF Weak!Watchers, WeakTypes
    <3>3. Cardinality(Weak!Watchers') = Cardinality(Weak!Watchers) - 1
      BY <3>2, WeakSets, CardRemove
    <3>4. WeakCounts'
      BY <2>1, <3>1, <3>3, WeakSets DEF WeakRight, WeakCounts
    <3>5. Ending'
      BY <2>1, <3>1 DEF WeakRight, Ending
    <3>6. BlockLives' /\ Beginning'
      BY <2>1 DEF BlockLives, Beginning
    <3>7. WeakRoles'
      BY <1>1, <2>1 DEF WeakRight, WeakRoles, WeakTypes
    <3> QED
      BY <2>1, <3>4, <3>5, <3>6, <3>7 DEF WeakRight
  <2> QED
    BY <1>1, <2>2, <2>3 DEF WeakInv
<1> QED
  BY <1>3, <1>4, <1>5

LEMMA WeakLockLoadInv ==
  ASSUME WeakInv, NEW w \in WeakHandles, Weak!LockLoad(w)
  PROVE  WeakInv'
<1>1. weak[w] # "unborn" /\ misused' = misused /\ WeakTypes
  BY DEF Weak!LockLoad, WeakInv
<1>2. ASSUME ~ misused, weak[w] # "empty" PROVE block = "live"
  <2>1. w \in Weak!Watchers
    BY <1>1, <1>2 DEF Weak!Watchers, WeakTypes
  <2> QED
    BY <1>2, <2>1, WeakHeld
<1>3. CASE weak[w] = "empty"
  BY <1>1, <1>3, WeakCrashes DEF Weak!LockLoad
<1>4. CASE weak[w] # "empty" /\ block # "live"
  BY <1>1, <1>2, <1>4, WeakCrashes DEF Weak!LockLoad, Weak!Used
<1>5. CASE weak[w] # "empty" /\ block = "live"
  <2>1. /\ uc' = [uc EXCEPT ![w] = use_count] /\ wpc' = [wpc EXCEPT ![w] = "lock"]
        /\ UNCHANGED <<use_count, weak_count, object, block, shared, dying, spc, weak, w_crashed>>
    BY <1>5 DEF Weak!LockLoad, Weak!Used, Weak!sharedVars, Weak!countVars
  <2>2. weak[w] = "set" /\ w_crashed \in {"no", "null", "deleted"}
    BY <1>1, <1>5 DEF WeakTypes
  <2>3. /\ wpc' \in [WeakHandles -> {"idle", "lock"}] /\ uc' \in [WeakHandles -> Int]
        /\ \A v \in WeakHandles : wpc'[v] = "lock" => wpc[v] = "lock" \/ weak[v] = "set"
    BY <1>1, <2>1, <2>2 DEF WeakTypes
  <2>4. ~ misused => w_crashed # "deleted"
    BY DEF WeakInv, WeakRight
  <2> QED
    BY <1>1, <2>1, <2>2, <2>3, <2>4, WeakCalm
<1> QED
  BY <1>3, <1>4, <1>5

LEMMA WeakLockRetryInv ==
  ASSUME WeakInv, NEW w \in WeakHandles, Weak!LockRetry(w)
  PROVE  WeakInv'
<1>1. wpc[w] = "lock" /\ misused' = misused /\ WeakTypes
  BY DEF Weak!LockRetry, WeakInv
<1>2. ASSUME ~ misused PROVE block = "live"
  <2>1. w \in Weak!Watchers
    BY <1>1, <1>2 DEF Weak!Watchers, WeakInv, WeakRight, WeakRoles
  <2> QED
    BY <1>2, <2>1, WeakHeld
<1>3. CASE block # "live"
  BY <1>1, <1>2, <1>3, WeakCrashes DEF Weak!LockRetry, Weak!Used
<1>4. CASE block = "live"
  <2>1. /\ uc' = [uc EXCEPT ![w] = use_count]
        /\ UNCHANGED <<use_count, weak_count, object, block, shared, dying, spc, weak, wpc, w_crashed>>
    BY <1>4 DEF Weak!LockRetry, Weak!Used, Weak!sharedVars, Weak!countVars
  <2>2. /\ wpc' \in [WeakHandles -> {"idle", "lock"}] /\ uc' \in [WeakHandles -> Int]
        /\ w_crashed' \in {"no", "null", "deleted"}
    BY <1>1, <2>1 DEF WeakTypes
  <2>3. ~ misused => w_crashed' # "deleted"
    BY <2>1 DEF WeakInv, WeakRight
  <2> QED
    BY <1>1, <2>1, <2>2, <2>3, WeakCalm
<1> QED
  BY <1>3, <1>4

\* lock() adds to a count that is not zero, which somebody holds.
LEMMA WeakLockTakeInv ==
  ASSUME WeakInv, NEW w \in WeakHandles, NEW s \in SharedHandles, Weak!LockTake(w, s)
  PROVE  WeakInv'
<1>1. /\ wpc[w] = "lock" /\ use_count # 0 /\ shared[s] = "unborn" /\ block = "live"
      /\ use_count' = use_count + 1
      /\ shared' = [shared EXCEPT ![s] = "holding"]
      /\ wpc' = [wpc EXCEPT ![w] = "idle"]
      /\ UNCHANGED <<weak_count, object, block, dying, spc, weak, uc, w_crashed, misused>>
  BY DEF Weak!LockTake, Weak!Used, Weak!Same, Weak!Become
<1>2. WeakTypes /\ WeakTypes'
  BY <1>1 DEF WeakInv, WeakTypes
<1>3. ASSUME ~ misused PROVE WeakRight'
  <2>1. WeakRight /\ spc[s] = "idle"
    BY <1>1, <1>3 DEF WeakInv, WeakRight, WeakRoles
  <2>2. Weak!Users # {}
    BY <1>1, <2>1, WeakSets DEF WeakRight, WeakCounts
  <2>3. s \notin Weak!Users /\ Weak!Users' = Weak!Users \cup {s}
    BY <1>1, <1>2, <2>1 DEF Weak!Users, WeakTypes
  <2>4. Cardinality(Weak!Users') = Cardinality(Weak!Users) + 1
    BY <2>3, WeakSets, CardAdd
  <2>5. Last' = Last /\ Ender' = Ender /\ Weak!Watchers' = Weak!Watchers
    BY <1>1 DEF Last, Ender, Weak!Watchers
  <2>6. WeakCounts'
    BY <1>1, <2>1, <2>2, <2>3, <2>4, <2>5 DEF WeakRight, WeakCounts
  <2>7. Ending'
    BY <1>1, <2>1, <2>2, <2>3, <2>5 DEF WeakRight, Ending
  <2>8. object # "new"
    BY <1>3, <2>2, WeakHeld
  <2>9. BlockLives' /\ Beginning'
    BY <1>1, <2>1, <2>8 DEF WeakRight, BlockLives, Beginning
  <2>10. WeakRoles'
    BY <1>1, <1>2, <2>1 DEF WeakRight, WeakRoles, WeakTypes
  <2> QED
    BY <1>1, <2>1, <2>6, <2>7, <2>9, <2>10 DEF WeakRight
<1> QED
  BY <1>1, <1>2, <1>3 DEF WeakInv

LEMMA WeakLockEmptyInv ==
  ASSUME WeakInv, NEW w \in WeakHandles, NEW s \in SharedHandles, Weak!LockEmpty(w, s)
  PROVE  WeakInv'
<1>1. /\ wpc[w] = "lock" /\ shared[s] = "unborn"
      /\ shared' = [shared EXCEPT ![s] = "empty"]
      /\ wpc' = [wpc EXCEPT ![w] = "idle"]
      /\ UNCHANGED <<use_count, weak_count, object, block, dying, spc, weak, uc, w_crashed, misused>>
  BY DEF Weak!LockEmpty, Weak!Become, Weak!countVars
<1>2. WeakTypes /\ WeakTypes'
  BY <1>1 DEF WeakInv, WeakTypes
<1>3. ASSUME ~ misused PROVE WeakRight'
  <2>1. WeakRight /\ spc[s] = "idle" /\ weak[w] = "set"
    BY <1>1, <1>3 DEF WeakInv, WeakRight, WeakRoles
  <2>2. object # "new"
    BY <2>1 DEF WeakRight, Beginning
  <2>3. /\ Weak!Users' = Weak!Users /\ Weak!Watchers' = Weak!Watchers
        /\ Last' = Last /\ Ender' = Ender
    BY <1>1, <1>2 DEF Weak!Users, Weak!Watchers, Last, Ender, WeakTypes
  <2>4. WeakCounts' /\ Ending' /\ BlockLives'
    BY <1>1, <2>1, <2>3, WeakSame
  <2>5. Beginning'
    BY <1>1, <2>2 DEF Beginning
  <2>6. WeakRoles'
    BY <1>1, <1>2, <2>1 DEF WeakRight, WeakRoles, WeakTypes
  <2> QED
    BY <1>1, <2>1, <2>4, <2>5, <2>6 DEF WeakRight
<1> QED
  BY <1>1, <1>2, <1>3 DEF WeakInv

LEMMA WeakInductive == WeakInv /\ [Weak!Next]_Weak!vars => WeakInv'
<1> SUFFICES ASSUME WeakInv, [Weak!Next]_Weak!vars PROVE WeakInv'
  OBVIOUS
<1>1. CASE UNCHANGED Weak!vars
  <2>1. UNCHANGED <<use_count, weak_count, object, block, shared, dying, spc, weak, wpc, uc,
                    w_crashed, misused>>
    BY <1>1 DEF Weak!vars, Weak!countVars, Weak!sharedVars, Weak!weakVars
  <2> QED
    BY <2>1, WeakCalm DEF WeakInv, WeakTypes, WeakRight
<1>2. ASSUME NEW s \in SharedHandles, Weak!Shared(s) PROVE WeakInv'
  BY <1>2, WeakNewInv, WeakResetStartInv, WeakResetEmptyInv, WeakResetUseInv, WeakResetWeakInv,
     WeakResetObjectInv DEF Weak!Shared
<1>3. ASSUME NEW w \in WeakHandles, Weak!Weak(w) PROVE WeakInv'
  BY <1>3, WeakOfInv, WeakLockTakeInv, WeakLockEmptyInv, WeakCopyInv, WeakMoveInv,
     WeakDestroyInv, WeakLockLoadInv, WeakLockRetryInv DEF Weak!Weak
<1> QED
  BY <1>1, <1>2, <1>3 DEF Weak!Next

LEMMA WeakStart == Weak!Init => WeakInv
<1> SUFFICES ASSUME Weak!Init PROVE WeakInv
  OBVIOUS
<1> USE DEF Weak!Init
<1>1. WeakTypes
  BY DEF WeakTypes
<1>2. Weak!Users = {} /\ Weak!Watchers = {} /\ Last = {} /\ Ender = {}
  BY DEF Weak!Users, Weak!Watchers, Last, Ender
<1>3. WeakCounts
  BY <1>2, FS_EmptySet DEF WeakCounts
<1>4. Ending /\ BlockLives /\ Beginning /\ WeakRoles
  BY <1>2 DEF Ending, BlockLives, Beginning, WeakRoles
<1> QED
  BY <1>1, <1>3, <1>4 DEF WeakInv, WeakRight

LEMMA WeakImplied == WeakInv => Weak!CountsExact /\ Weak!LifetimesRight /\ Weak!NothingLeaks
<1> SUFFICES ASSUME WeakInv, ~ misused
             PROVE  Weak!CountsExact /\ Weak!LifetimesRight /\ Weak!NothingLeaks
  BY DEF Weak!CountsExact, Weak!LifetimesRight, Weak!NothingLeaks
<1>1. WeakRight /\ WeakTypes
  BY DEF WeakInv
<1>2. Weak!CountsExact
  <2>1. Weak!Users \cup Last # {} <=> Weak!Users # {} \/ (\E s \in SharedHandles : spc[s] = "weak")
    BY DEF Last
  <2> QED
    BY <1>1, <2>1, WeakLibrary DEF Weak!CountsExact, WeakRight, WeakCounts
<1>3. Weak!LifetimesRight
  <2>1. Weak!Users # {} => object = "live"
    BY <1>1 DEF WeakRight, Ending
  <2>2. Weak!Users \cup Weak!Watchers # {} => block = "live"
    BY WeakHeld
  <2>3. w_crashed \in {"no", "null"}
    BY <1>1 DEF WeakRight, WeakTypes
  <2> QED
    BY <2>1, <2>2, <2>3 DEF Weak!LifetimesRight
<1>4. Weak!NothingLeaks
  <2>1. object = "live" /\ (\A s \in SharedHandles : spc[s] = "idle") => Weak!Users # {}
    BY <1>1 DEF WeakRight, Ending, Last, Ender
  <2>2. object # "new" /\ weak_count = 0 => block = "deleted"
    BY <1>1 DEF WeakRight, BlockLives
  <2> QED
    BY <2>1, <2>2 DEF Weak!NothingLeaks
<1> QED
  BY <1>2, <1>3, <1>4

\* weak_ptr: until a handle is used after its reset(), the two counts are those
\* of the handles, also while lock() races with the last reset(), and object
\* and block live as long as somebody counts on them and are deleted then.
THEOREM WeakPtrCorrect == Spec => []WeakLifetimes
<1>1. Init => WeakInv
  BY WeakStart DEF Init
<1>2. WeakInv /\ [Next]_vars => WeakInv'
  BY WeakSteps, WeakInductive
<1>3. WeakInv => WeakLifetimes
  BY WeakImplied DEF WeakLifetimes
<1> QED
  BY <1>1, <1>2, <1>3, PTL DEF Spec

-----------------------------------------------------------------------------
LEMMA SieveSteps == [Next]_vars => [Primes!Next]_Primes!vars
  BY DEF Next, vars, QueueStep, SharedStep, WeakStep, ListStep, StringStep, SieveStep,
         sieveVars, Primes!vars

SieveTypes ==
  /\ is_primes \in [0..N -> BOOLEAN] /\ is_primes[1] = FALSE
  /\ i \in 2..N+1 /\ j \in Nat
  /\ i_pc \in {"outer", "inner", "done"}

\* Only what is not prime is crossed out.
SieveSound == \A k \in 1..N : is_primes[k] \/ ~ Primes!Prime(k)

\* The products of d with numbers below m are crossed out.
Crossed(d, m) == \A k \in Nat : 2 <= k /\ k < m /\ d * k <= N => is_primes[d * k] = FALSE

SieveComplete == \A d \in 2..i-1 : \A m \in Nat : Crossed(d, m)

\* The inner loop is at a product of i, and those before are crossed out.
AtProduct ==
  /\ i_pc = "inner" => i <= N /\ \E m \in Nat : m >= 2 /\ j = i * m /\ Crossed(i, m)
  /\ i_pc = "done" => i > N

SieveInv == SieveTypes /\ SieveSound /\ SieveComplete /\ AtProduct

-----------------------------------------------------------------------------
LEMMA Associative == \A a, b, c \in Nat : (a * b) * c = a * (b * c)
  BY SMT

LEMMA Product == \A a, b \in Nat : a * b \in Nat
  BY SMT

LEMMA Monotone == \A a, b, c \in Nat : b <= c => a * b <= a * c
  BY SMT

LEMMA Greater == \A a, b \in Nat : a >= 2 /\ b >= 2 => a < a * b /\ b < a * b
  BY SMT

LEMMA Successor == \A a, b \in Nat : a * b + a = a * (b + 1) /\ a + a = a * 2
  BY SMT

\* A product is not a prime.
LEMMA ProductNotPrime ==
  ASSUME NEW a \in Nat, NEW b \in Nat, a >= 2, b >= 2
  PROVE  ~ Primes!Prime(a * b)
<1>1. a * b \in Nat /\ a \in 2..a * b /\ b \in 2..a * b
  BY Product, Greater
<1> QED
  BY <1>1 DEF Primes!Prime

LEMMA SieveStart ==
  ASSUME Primes!SieveAssumption, Primes!Init
  PROVE  SieveInv
<1> DEFINE first == [k \in 0..N |-> k # 1]
<1>a. N \in Nat \ {0} /\ 1 \in 0..N
  BY DEF Primes!SieveAssumption
<1>b. is_primes = first
  BY DEF Primes!Init
<1>c. first \in [0..N -> BOOLEAN] /\ ~ first[1] /\ \A k \in 0..N : first[k] <=> k # 1
  BY <1>a, Zenon
<1>d. first[1] = FALSE
  BY <1>a, <1>c, Zenon
<1> HIDE DEF first
<1>1. SieveTypes
  BY <1>a, <1>b, <1>c, <1>d DEF Primes!Init, SieveTypes
<1>2. SieveSound
  BY <1>a, <1>b, <1>c DEF SieveSound, Primes!Prime
<1>3. SieveComplete /\ AtProduct
  BY DEF Primes!SieveAssumption, Primes!Init, SieveComplete, AtProduct
<1> QED
  BY <1>1, <1>2, <1>3 DEF SieveInv

\* A number that is crossed out is a product of a smaller one, and so are its
\* products: those are crossed out.
LEMMA PassedOver ==
  ASSUME Primes!SieveAssumption, SieveInv, i <= N, is_primes[i] = FALSE
  PROVE  \A m \in Nat : Crossed(i, m)
<1>1. ~ Primes!Prime(i) /\ i \in Nat /\ i >= 2 /\ N \in Nat
  BY DEF Primes!SieveAssumption, SieveInv, SieveTypes, SieveSound
<1>2. PICK a, b \in 2..i : a * b = i
  BY <1>1 DEF Primes!Prime
<1>3. a \in 2..i-1
  BY <1>1, <1>2, Greater
<1> SUFFICES ASSUME NEW k \in Nat, 2 <= k, i * k <= N
             PROVE  is_primes[i * k] = FALSE
  BY DEF Crossed
<1>4. i * k = a * (b * k)
  BY <1>2, Associative
<1>5. b * k \in Nat /\ 2 <= b * k
  BY <1>1, <1>2, Product, Greater
<1>6. Crossed(a, b * k + 1)
  BY <1>3, <1>5 DEF SieveInv, SieveComplete
<1> QED
  BY <1>4, <1>5, <1>6 DEF Crossed

\* With i the numbers below i + 1 are dealt with.
LEMMA OneMore ==
  ASSUME Primes!SieveAssumption, SieveInv, \A m \in Nat : Crossed(i, m),
         i' = i + 1, UNCHANGED is_primes
  PROVE  SieveComplete'
<1>1. i \in Nat /\ i >= 2
  BY DEF Primes!SieveAssumption, SieveInv, SieveTypes
<1> SUFFICES ASSUME NEW d \in 2..i'-1, NEW m \in Nat
             PROVE  Crossed(d, m)'
  BY DEF SieveComplete
<1>2. Crossed(d, m)
  <2>1. CASE d = i
    BY <2>1
  <2>2. CASE d # i
    BY <1>1, <2>2 DEF SieveInv, SieveComplete
  <2> QED
    BY <2>1, <2>2
<1> QED
  BY <1>2 DEF Crossed

LEMMA SieveOuter ==
  ASSUME Primes!SieveAssumption, SieveInv, Primes!Outer
  PROVE  SieveInv'
<1>1. N \in Nat /\ i \in 2..N /\ UNCHANGED is_primes /\ is_primes[i] \in BOOLEAN
  BY DEF Primes!SieveAssumption, SieveInv, SieveTypes, Primes!Outer
<1>2. CASE is_primes[i]
  <2>1. i_pc' = "inner" /\ j' = i + i /\ i' = i
    BY <1>2 DEF Primes!Outer
  <2>2. SieveTypes' /\ SieveSound'
    BY <1>1, <2>1 DEF SieveInv, SieveTypes, SieveSound
  <2>3. SieveComplete'
    BY <1>1, <2>1 DEF SieveInv, SieveComplete, Crossed
  <2>4. Crossed(i, 2)'
    BY <1>1, <2>1 DEF Crossed
  <2>5. j' = i' * 2
    BY <1>1, <2>1, Successor
  <2>6. AtProduct'
    BY <1>1, <2>1, <2>4, <2>5 DEF AtProduct
  <2> QED
    BY <2>2, <2>3, <2>6 DEF SieveInv
<1>3. CASE ~ is_primes[i]
  <2>1. i' = i + 1 /\ j' = j /\ i_pc' = "outer"
    BY <1>3 DEF Primes!Outer
  <2>2. is_primes[i] = FALSE /\ i <= N
    BY <1>1, <1>3
  <2>3. \A m \in Nat : Crossed(i, m)
    BY <2>2, PassedOver
  <2>4. SieveComplete'
    BY <1>1, <2>1, <2>3, OneMore
  <2>5. SieveTypes' /\ SieveSound' /\ AtProduct'
    BY <1>1, <2>1 DEF SieveInv, SieveTypes, SieveSound, AtProduct
  <2> QED
    BY <2>4, <2>5 DEF SieveInv
<1> QED
  BY <1>2, <1>3

LEMMA SieveInner ==
  ASSUME Primes!SieveAssumption, SieveInv, Primes!Inner
  PROVE  SieveInv'
<1>1. N \in Nat \ {0} /\ i \in 2..N /\ i \in Nat /\ j \in Nat
  BY DEF Primes!SieveAssumption, SieveInv, SieveTypes, AtProduct, Primes!Inner
<1>2. PICK m \in Nat : m >= 2 /\ j = i * m /\ Crossed(i, m)
  BY DEF SieveInv, AtProduct, Primes!Inner
<1>3. CASE j <= N
  <2>1. is_primes' = [is_primes EXCEPT ![j] = FALSE] /\ j' = j + i /\ i' = i /\ i_pc' = "inner"
    BY <1>3 DEF Primes!Inner
  <2>2. is_primes \in [0..N -> BOOLEAN] /\ is_primes[1] = FALSE /\ j \in 0..N /\ 1 \in 0..N
    BY <1>1, <1>3 DEF SieveInv, SieveTypes
  <2>3. /\ is_primes'[j] = FALSE
        /\ \A k \in 0..N : is_primes[k] = FALSE => is_primes'[k] = FALSE
        /\ \A k \in 0..N : k # j => is_primes'[k] = is_primes[k]
    BY <2>1, <2>2
  <2>4. SieveTypes'
    BY <1>1, <2>1, <2>2, <2>3 DEF SieveInv, SieveTypes
  <2>5. ~ Primes!Prime(j)
    BY <1>1, <1>2, ProductNotPrime
  <2>6. SieveSound'
    BY <1>1, <2>3, <2>5 DEF SieveInv, SieveSound
  <2>7. ASSUME NEW d \in Nat, NEW n \in Nat, Crossed(d, n)
        PROVE  Crossed(d, n)'
    <3> SUFFICES ASSUME NEW k \in Nat, 2 <= k, k < n, d * k <= N
                 PROVE  is_primes'[d * k] = FALSE
      BY DEF Crossed
    <3>1. d * k \in 0..N
      BY <1>1, Product
    <3>2. is_primes[d * k] = FALSE
      BY <2>7 DEF Crossed
    <3> QED
      BY <2>3, <3>1, <3>2
  <2>8. SieveComplete'
    <3> SUFFICES ASSUME NEW d \in 2..i-1, NEW n \in Nat
                 PROVE  Crossed(d, n)'
      BY <2>1 DEF SieveComplete
    <3>1. d \in Nat /\ Crossed(d, n)
      BY <1>1 DEF SieveInv, SieveComplete
    <3> QED
      BY <2>7, <3>1
  <2>9. j' = i' * (m + 1)
    BY <1>1, <1>2, <2>1, Successor
  <2>10. Crossed(i, m + 1)'
    <3>1. \A k \in Nat : 2 <= k /\ k < m /\ i * k <= N => is_primes'[i * k] = FALSE
      BY <1>1, <1>2, <2>3, Product DEF Crossed
    <3> SUFFICES ASSUME NEW k \in Nat, 2 <= k, k < m + 1, i' * k <= N
                 PROVE  is_primes'[i' * k] = FALSE
      BY DEF Crossed
    <3>2. CASE k = m
      BY <1>2, <2>1, <2>3, <3>2
    <3>3. CASE k # m
      BY <2>1, <3>1, <3>3
    <3> QED
      BY <3>2, <3>3
  <2>11. AtProduct'
    BY <1>1, <1>2, <2>1, <2>9, <2>10 DEF AtProduct
  <2> QED
    BY <2>4, <2>6, <2>8, <2>11 DEF SieveInv
<1>4. CASE ~ (j <= N)
  <2>1. i' = i + 1 /\ i_pc' = "outer" /\ UNCHANGED <<is_primes, j>>
    BY <1>4 DEF Primes!Inner
  <2>2. ASSUME NEW n \in Nat
        PROVE  Crossed(i, n)
    <3> SUFFICES ASSUME NEW k \in Nat, 2 <= k, i * k <= N
                 PROVE  is_primes[i * k] = FALSE
      BY DEF Crossed
    <3>1. k < m
      BY <1>1, <1>2, <1>4, Monotone, Product
    <3> QED
      BY <1>2, <3>1 DEF Crossed
  <2>3. SieveComplete'
    BY <2>1, <2>2, OneMore
  <2>4. SieveTypes' /\ SieveSound' /\ AtProduct'
    BY <1>1, <2>1 DEF SieveInv, SieveTypes, SieveSound, AtProduct
  <2> QED
    BY <2>3, <2>4 DEF SieveInv
<1> QED
  BY <1>3, <1>4

LEMMA SieveInductive ==
  ASSUME Primes!SieveAssumption, SieveInv, [Primes!Next]_Primes!vars
  PROVE  SieveInv'
<1>1. CASE Primes!Return
  <2>1. SieveTypes'
    BY <1>1 DEF SieveInv, SieveTypes, Primes!Return
  <2>2. SieveSound' /\ SieveComplete' /\ AtProduct'
    BY <1>1 DEF SieveInv, SieveSound, SieveComplete, Crossed, AtProduct, Primes!Return
  <2> QED
    BY <2>1, <2>2 DEF SieveInv
<1>2. CASE UNCHANGED Primes!vars
  BY <1>2 DEF Primes!vars, SieveInv, SieveTypes, SieveSound, SieveComplete, Crossed, AtProduct
<1> QED
  BY <1>1, <1>2, SieveOuter, SieveInner DEF Primes!Next

\* What is not crossed out in the end has no divisor below i, and so none.
LEMMA SieveImplied ==
  ASSUME Primes!SieveAssumption, SieveInv
  PROVE  Primes!PrimesFound
<1> SUFFICES ASSUME NEW k \in 1..N
             PROVE  /\ Primes!Prime(k) => is_primes[k]
                    /\ i_pc = "done" /\ is_primes[k] => Primes!Prime(k)
  BY DEF Primes!PrimesFound
<1>1. N \in Nat /\ i \in Nat /\ is_primes[k] \in BOOLEAN
  BY DEF Primes!SieveAssumption, SieveInv, SieveTypes
<1>2. ASSUME i_pc = "done", is_primes[k]
      PROVE  Primes!Prime(k)
  <2>1. k > 1
    BY <1>1, <1>2 DEF SieveInv, SieveTypes
  <2>2. ASSUME NEW d \in 2..k, NEW m \in 2..k, d * m = k
        PROVE  FALSE
    <3>1. d \in 2..i-1 /\ m \in Nat /\ m + 1 \in Nat
      BY <1>1, <1>2 DEF SieveInv, AtProduct
    <3>2. Crossed(d, m + 1)
      BY <3>1 DEF SieveInv, SieveComplete
    <3> QED
      BY <1>1, <1>2, <2>2, <3>1, <3>2 DEF Crossed
  <2> QED
    BY <2>1, <2>2 DEF Primes!Prime
<1>3. ASSUME Primes!Prime(k)
      PROVE  is_primes[k]
  BY <1>3 DEF SieveInv, SieveSound
<1> QED
  BY <1>2, <1>3

\* get_primes<N>(), for every N: no prime is ever crossed out, and what is left
\* from 1 to N when the loops end is a prime.
THEOREM PrimesCorrect == Spec => []PrimesFound
<1>0. Primes!SieveAssumption
  BY Constants DEF Constants
<1>1. Init => SieveInv
  BY <1>0, SieveStart DEF Init
<1>2. SieveInv /\ [Next]_vars => SieveInv'
  BY <1>0, SieveInductive, SieveSteps
<1>3. SieveInv => PrimesFound
  BY <1>0, SieveImplied DEF PrimesFound
<1> QED
  BY <1>1, <1>2, <1>3, PTL DEF Spec

-----------------------------------------------------------------------------
(* string *)

LEMMA TextSteps == [Next]_vars => [Texts!Next]_Texts!vars
  BY DEF Next, vars, QueueStep, SharedStep, WeakStep, ListStep, StringStep, SieveStep,
         stringVars, Texts!vars

Layouts == {<<>>} \cup [chars : Seq(Chars)] \cup [high : Nat, size : Nat]

TextTypes ==
  /\ alive \subseteq Strings
  /\ low \in [Strings -> 0..255] /\ rest \in [Strings -> Layouts]
  /\ text \in [Strings -> Seq(Chars)]

\* The layout follows from the text t: the first byte is twice its size, with a
\* 1 added in the short layout.
ShortLayout(l, r, t) == Len(t) <= 23 /\ l = 2 * Len(t) + 1 /\ r = [chars |-> t]

LongLayout(l, r, t) ==
  /\ Len(t) > 23 /\ l = (2 * Len(t)) % 256
  /\ r = [high |-> (2 * Len(t)) \div 256, size |-> Len(t)]

Layout(l, r, t) == ShortLayout(l, r, t) \/ LongLayout(l, r, t)

TextInv == TextTypes /\ \A s \in alive : Layout(low[s], rest[s], text[s])

LEMMA WholeSeq == \A S : \A s \in Seq(S) : SubSeq(s, 1, Len(s)) = s /\ Len(s) \in Nat
  OBVIOUS

LEMMA EvenByte ==
  \A n \in Nat : /\ (2 * n) % 256 \in 0..255 /\ ((2 * n) % 256) % 2 = 0
                 /\ (2 * n) \div 256 \in Nat
                 /\ (2 * n + 1) % 2 = 1 /\ (2 * n + 1) \div 2 = n
                 /\ n <= 23 => (2 * n + 1) % 256 = 2 * n + 1
  BY SMT

LEMMA SmallByte ==
  \A n \in Nat : n <= 23 => 2 * n + 1 \in 0..255
  BY SMT

LEMMA SmallSum ==
  \A n, m \in Nat : n + m <= 23 => n <= 23 /\ ~ (n > 23) /\ m <= 23 /\ ~ (m > 23)
  BY SMT

\* What the code reads of a layout.
LEMMA ReadShort ==
  ASSUME NEW s \in Strings, text[s] \in Seq(Chars), ShortLayout(low[s], rest[s], text[s])
  PROVE  /\ Texts!use_short(s) /\ Texts!size(s) = Len(text[s])
         /\ rest[s].chars = text[s] /\ "chars" \in DOMAIN rest[s]
<1>1. PICK n \in Nat : n = Len(text[s])
  OBVIOUS
<1>2. Texts!use_short(s)
  <2>1. low[s] = 2 * n + 1
    BY <1>1 DEF ShortLayout
  <2> QED
    BY <2>1, EvenByte DEF Texts!use_short
<1>3. Texts!size(s) = Len(text[s])
  BY <1>1, <1>2, EvenByte DEF ShortLayout, Texts!size
<1> QED
  BY <1>2, <1>3 DEF ShortLayout

LEMMA ReadLong ==
  ASSUME NEW s \in Strings, text[s] \in Seq(Chars), LongLayout(low[s], rest[s], text[s])
  PROVE  /\ ~ Texts!use_short(s) /\ Texts!size(s) = Len(text[s])
         /\ "chars" \notin DOMAIN rest[s]
<1>1. PICK n \in Nat : n = Len(text[s])
  OBVIOUS
<1>2. ~ Texts!use_short(s)
  <2>1. low[s] = (2 * n) % 256
    BY <1>1 DEF LongLayout
  <2>2. low[s] % 2 = 0
    BY <2>1, EvenByte
  <2> QED
    BY <2>2 DEF Texts!use_short
<1>3. rest[s].size = Len(text[s]) /\ "chars" \notin DOMAIN rest[s]
  BY DEF LongLayout
<1> QED
  BY <1>2, <1>3 DEF Texts!size

LEMMA ReadSize ==
  ASSUME TextInv, NEW s \in alive
  PROVE  s \in Strings /\ text[s] \in Seq(Chars) /\ Texts!size(s) = Len(text[s])
<1>1. s \in Strings /\ text[s] \in Seq(Chars)
  BY DEF TextInv, TextTypes
<1> QED
  BY <1>1, ReadShort, ReadLong DEF TextInv, Layout

\* The layout of one string changes.
LEMMA TextSet ==
  ASSUME TextInv, NEW s \in Strings, NEW l \in 0..255, NEW r \in Layouts, NEW t \in Seq(Chars),
         low' = [low EXCEPT ![s] = l], rest' = [rest EXCEPT ![s] = r],
         text' = [text EXCEPT ![s] = t],
         alive' \subseteq alive \cup {s}, s \in alive' => Layout(l, r, t)
  PROVE  TextInv'
<1>1. TextTypes'
  BY DEF TextInv, TextTypes
<1>2. low'[s] = l /\ rest'[s] = r /\ text'[s] = t
  BY DEF TextInv, TextTypes
<1>3. ASSUME NEW u \in alive', u # s
      PROVE  u \in alive /\ low'[u] = low[u] /\ rest'[u] = rest[u] /\ text'[u] = text[u]
  BY <1>3 DEF TextInv, TextTypes
<1>4. ASSUME NEW u \in alive'
      PROVE  Layout(low'[u], rest'[u], text'[u])
  <2>1. CASE u = s
    BY <1>2, <2>1
  <2>2. CASE u # s
    BY <1>3, <2>2 DEF TextInv
  <2> QED
    BY <2>1, <2>2
<1> QED
  BY <1>1, <1>4 DEF TextInv, Layout, ShortLayout, LongLayout

LEMMA TextSame ==
  ASSUME TextInv, UNCHANGED <<alive, low, rest, text>>
  PROVE  TextInv'
<1>1. TextTypes'
  BY DEF TextInv, TextTypes
<1>2. \A s \in alive' : Layout(low'[s], rest'[s], text'[s])
  BY DEF TextInv
<1> QED
  BY <1>1, <1>2 DEF TextInv, Layout, ShortLayout, LongLayout

LEMMA TextConstruct ==
  ASSUME TextInv, NEW s \in Strings, NEW t \in Literals, Texts!Construct(s, t)
  PROVE  TextInv'
<1>1. t \in Seq(Chars) /\ Len(t) \in Nat
  BY Constants DEF Constants, Texts!ShortStringAssumption
<1>2. alive' \subseteq alive \cup {s} /\ text' = [text EXCEPT ![s] = t]
  BY DEF Texts!Construct
<1>3. CASE Len(t) <= 23
  <2>1. /\ low' = [low EXCEPT ![s] = 2 * Len(t) + 1]
        /\ rest' = [rest EXCEPT ![s] = [chars |-> t]]
    BY <1>1, <1>3, EvenByte DEF Texts!Construct, Texts!Limit, Texts!Set, Texts!ShortByte
  <2>2. 2 * Len(t) + 1 \in 0..255
    BY <1>1, <1>3, SmallByte
  <2>4. [chars |-> t] \in Layouts
    BY <1>1 DEF Layouts
  <2>3. Layout(2 * Len(t) + 1, [chars |-> t], t)
    BY <1>3 DEF Layout, ShortLayout
  <2> QED
    BY <1>1, <1>2, <2>1, <2>2, <2>3, <2>4, TextSet
<1>4. CASE ~ (Len(t) <= 23)
  <2> DEFINE long == [high |-> (2 * Len(t)) \div 256, size |-> Len(t)]
  <2>1. low' = [low EXCEPT ![s] = (2 * Len(t)) % 256] /\ rest' = [rest EXCEPT ![s] = long]
    BY <1>1, <1>4 DEF Texts!Construct, Texts!Limit, Texts!Set
  <2>2. (2 * Len(t)) % 256 \in 0..255 /\ long \in Layouts
    BY <1>1, EvenByte DEF Layouts
  <2>3. Layout((2 * Len(t)) % 256, long, t)
    BY <1>1, <1>4 DEF Layout, LongLayout
  <2> HIDE DEF long
  <2> QED
    BY <1>1, <1>2, <2>1, <2>2, <2>3, TextSet
<1> QED
  BY <1>3, <1>4

LEMMA TextWrite ==
  ASSUME TextInv, NEW s \in Strings, NEW k \in 1..Texts!size(s), NEW c \in Chars,
         Texts!Write(s, k, c)
  PROVE  TextInv'
<1> DEFINE new == [text[s] EXCEPT ![k] = c]
<1>1. s \in alive /\ UNCHANGED <<alive, low>> /\ text' = [text EXCEPT ![s] = new]
  BY DEF Texts!Write
<1>2. text[s] \in Seq(Chars) /\ k \in 1..Len(text[s])
  BY <1>1, ReadSize
<1>3. new \in Seq(Chars) /\ Len(new) = Len(text[s])
  BY <1>2
<1>4. low' = [low EXCEPT ![s] = low[s]] /\ low[s] \in 0..255
  BY <1>1 DEF TextInv, TextTypes
<1>5. CASE ShortLayout(low[s], rest[s], text[s])
  <2>1. rest' = [rest EXCEPT ![s] = [chars |-> new]]
    <3>1. rest' = [rest EXCEPT ![s] = [chars |-> [rest[s].chars EXCEPT ![k] = c]]]
      BY <1>2, <1>5, ReadShort DEF Texts!Write
    <3> QED
      BY <1>2, <1>5, <3>1, ReadShort
  <2> HIDE DEF new
  <2>2. [chars |-> new] \in Layouts /\ Layout(low[s], [chars |-> new], new)
    BY <1>3, <1>5 DEF Layouts, Layout, ShortLayout
  <2> QED
    BY <1>1, <1>3, <1>4, <2>1, <2>2, TextSet
<1>6. CASE LongLayout(low[s], rest[s], text[s])
  <2>1. rest' = rest
    BY <1>2, <1>6, ReadLong DEF Texts!Write
  <2> HIDE DEF new
  <2>2. rest' = [rest EXCEPT ![s] = rest[s]] /\ rest[s] \in Layouts
    BY <2>1 DEF TextInv, TextTypes
  <2>3. Layout(low[s], rest[s], new)
    BY <1>3, <1>6 DEF Layout, LongLayout
  <2> QED
    BY <1>1, <1>3, <1>4, <2>2, <2>3, TextSet
<1> QED
  BY <1>1, <1>5, <1>6 DEF TextInv, Layout

LEMMA TextAppend ==
  ASSUME TextInv, NEW s \in Strings, NEW t \in Strings, Texts!AppendTo(s, t)
  PROVE  TextInv'
<1>1. s \in alive /\ t \in alive /\ alive' = alive
  BY DEF Texts!AppendTo
<1>2. /\ Texts!size(s) = Len(text[s]) /\ text[s] \in Seq(Chars) /\ Len(text[s]) \in Nat
      /\ Texts!size(t) = Len(text[t]) /\ text[t] \in Seq(Chars) /\ Len(text[t]) \in Nat
  BY <1>1, ReadSize, WholeSeq
<1>3. CASE Len(text[s]) + Len(text[t]) <= 23
  <2> DEFINE new == text[s] \o text[t]
  <2>1. /\ ShortLayout(low[s], rest[s], text[s])
        /\ ShortLayout(low[t], rest[t], text[t])
    <3>1. ~ (Len(text[s]) > 23) /\ ~ (Len(text[t]) > 23)
      BY <1>2, <1>3, SmallSum
    <3> QED
      BY <1>1, <3>1 DEF TextInv, Layout, LongLayout
  <2>2. new \in Seq(Chars) /\ Len(new) = Len(text[s]) + Len(text[t])
    BY <1>2
  <2>3. /\ text' = [text EXCEPT ![s] = new]
        /\ low' = [low EXCEPT ![s] = (2 * (Len(text[s]) + Len(text[t])) + 1) % 256]
        /\ rest' = [rest EXCEPT ![s] =
             [chars |-> SubSeq(rest[s].chars, 1, Len(text[s])) \o
                        SubSeq(rest[t].chars, 1, Len(text[t]))]]
    BY <1>2, <1>3 DEF Texts!AppendTo, Texts!Limit, Texts!Set, Texts!ShortByte
  <2>4. /\ SubSeq(rest[s].chars, 1, Len(text[s])) = text[s]
        /\ SubSeq(rest[t].chars, 1, Len(text[t])) = text[t]
    BY <1>2, <2>1, ReadShort, WholeSeq
  <2>5. rest' = [rest EXCEPT ![s] = [chars |-> new]]
    BY <2>3, <2>4
  <2>6. PICK n \in Nat : n = Len(text[s]) + Len(text[t])
    <3>1. \A a, b \in Nat : a + b \in Nat
      BY SMT
    <3>2. Len(text[s]) + Len(text[t]) \in Nat
      BY <1>2, <3>1, Zenon
    <3> QED
      BY <3>2, Zenon
  <2> HIDE DEF new
  <2>7. Len(new) = n /\ n <= 23
    BY <1>3, <2>2, <2>6
  <2>8. low' = [low EXCEPT ![s] = 2 * n + 1]
    <3>1. low' = [low EXCEPT ![s] = (2 * n + 1) % 256]
      BY <2>3, <2>6
    <3> QED
      BY <2>7, <3>1, EvenByte
  <2>9. 2 * n + 1 \in 0..255
    BY <2>7, SmallByte
  <2>10. [chars |-> new] \in Layouts
    BY <2>2 DEF Layouts
  <2>11. Layout(2 * n + 1, [chars |-> new], new)
    BY <2>7 DEF Layout, ShortLayout
  <2> QED
    BY <1>1, <2>2, <2>3, <2>5, <2>8, <2>9, <2>10, <2>11, TextSet
<1>4. CASE ~ (Len(text[s]) + Len(text[t]) <= 23)
  <2>1. UNCHANGED <<low, rest, text>>
    BY <1>2, <1>4 DEF Texts!AppendTo, Texts!Limit
  <2> QED
    BY <1>1, <2>1, TextSame
<1> QED
  BY <1>3, <1>4

LEMMA TextDestroy ==
  ASSUME TextInv, NEW s \in Strings, Texts!Destroy(s)
  PROVE  TextInv'
<1>1. /\ alive' = alive \ {s} /\ low' = [low EXCEPT ![s] = 0]
      /\ rest' = [rest EXCEPT ![s] = <<>>] /\ text' = [text EXCEPT ![s] = <<>>]
  BY DEF Texts!Destroy, Texts!Set, Texts!unset
<1>2. <<>> \in Seq(Chars) /\ <<>> \in Layouts /\ 0 \in 0..255
  BY DEF Layouts
<1> QED
  BY <1>1, <1>2, TextSet

LEMMA TextInductive == TextInv /\ [Texts!Next]_Texts!vars => TextInv'
<1> SUFFICES ASSUME TextInv, [Texts!Next]_Texts!vars PROVE TextInv'
  OBVIOUS
<1>1. CASE UNCHANGED Texts!vars
  BY <1>1, TextSame DEF Texts!vars
<1>2. ASSUME NEW s \in alive \ failed, NEW k \in {1, Texts!size(s)} \ {0}, NEW c \in Chars,
             Texts!Write(s, k, c)
      PROVE  TextInv'
  <2>1. s \in Strings /\ k \in 1..Texts!size(s)
    BY <1>2 DEF TextInv, TextTypes, Texts!Write
  <2> QED
    BY <1>2, <2>1, TextWrite
<1>3. ASSUME NEW s \in alive \ failed, NEW t \in Strings, Texts!AppendTo(s, t)
      PROVE  TextInv'
  <2>1. s \in Strings
    BY DEF TextInv, TextTypes
  <2> QED
    BY <1>3, <2>1, TextAppend
<1> QED
  BY <1>1, <1>2, <1>3, TextConstruct, TextDestroy DEF Texts!Next

LEMMA TextStart == Texts!Init => TextInv
  BY DEF Texts!Init, TextInv, TextTypes, Texts!unset, Layouts

LEMMA TextImplied == TextInv => StringsRight
<1> SUFFICES ASSUME TextInv, NEW s \in alive
             PROVE  /\ Texts!use_short(s) <=> "chars" \in DOMAIN rest[s]
                    /\ s \notin failed =>
                         /\ Texts!size(s) = Len(text[s])
                         /\ Texts!use_short(s) =>
                              SubSeq(rest[s].chars, 1, Texts!size(s)) = text[s]
  BY DEF StringsRight, Texts!StringsRight
<1>1. s \in Strings /\ text[s] \in Seq(Chars)
  BY ReadSize
<1>2. CASE ShortLayout(low[s], rest[s], text[s])
  BY <1>1, <1>2, ReadShort, WholeSeq
<1>3. CASE LongLayout(low[s], rest[s], text[s])
  BY <1>1, <1>3, ReadLong
<1> QED
  BY <1>2, <1>3 DEF TextInv, Layout

\* string: whatever is constructed, written to and appended, the shared byte
\* tells a short string from a long one, size() is the number of characters,
\* and a short string holds them.
THEOREM StringCorrect == Spec => []StringsRight
<1>1. Init => TextInv
  BY TextStart DEF Init
<1>2. TextInv /\ [Next]_vars => TextInv'
  BY TextInductive, TextSteps
<1> QED
  BY <1>1, <1>2, TextImplied, PTL DEF Spec

-----------------------------------------------------------------------------
(* priority_queue *)

\* Instead of an induction: a set of numbers has a least element.
LEMMA Below == \A x, y \in Nat : x < y => <<x, y>> \in OpToRel(<, Nat)
  BY DEF OpToRel

LEMMA Least ==
  ASSUME NEW S, S \subseteq Nat, S # {}
  PROVE  \E x \in S : \A y \in S : x <= y
<1>1. PICK x \in S : \A y \in S : ~ (<<y, x>> \in OpToRel(<, Nat))
  BY NatLessThanWellFounded, WFMin
<1>2. ASSUME NEW y \in S
      PROVE  x <= y
  <2>1. x \in Nat /\ y \in Nat
    OBVIOUS
  <2>2. ~ (y < x)
    BY <1>1, <2>1, Below, Zenon
  <2> QED
    BY <2>1, <2>2
<1> QED
  BY <1>2

LEMMA QueueSteps == [Next]_vars => [Queue!Next]_Queue!vars
  BY DEF Next, vars, QueueStep, SharedStep, WeakStep, ListStep, StringStep, SieveStep,
         queueVars, Queue!vars

QueueInv == Queue!TypeOK /\ Queue!HeapOrder /\ (q_pc = "idle" => q_cur = 1)

LEMMA QueueConstants ==
  /\ Numbers \subseteq Int /\ MaxQueue \in Nat
  /\ \A S : Queue!Cardinality(S) = Cardinality(S)
<1>1. \A S : Queue!Cardinality(S) = Cardinality(S)
  BY DEF Queue!Cardinality, Cardinality
<1> QED
  BY Constants, <1>1 DEF Constants, Queue!PriorityQueueAssumption

LEMMA Parents ==
  ASSUME NEW k \in Nat, k >= 2
  PROVE  /\ Queue!Parent(k) \in Nat /\ 1 <= Queue!Parent(k) /\ Queue!Parent(k) < k
         /\ k = 2 * Queue!Parent(k) \/ k = 2 * Queue!Parent(k) + 1
  BY DEF Queue!Parent

LEMMA ContainerFacts ==
  ASSUME QueueInv
  PROVE  /\ container \in Seq(Numbers) /\ Len(container) \in Nat
         /\ DOMAIN container = 1..Len(container)
         /\ \A k \in 1..Len(container) : container[k] \in Numbers /\ container[k] \in Int
<1>1. container \in Seq(Numbers)
  BY DEF QueueInv, Queue!TypeOK
<1> QED
  BY <1>1, QueueConstants, LenProperties, ElementOfSeq

\* What swapping two places does.
LEMMA Swapped ==
  ASSUME NEW s \in Seq(Numbers), NEW a \in 1..Len(s), NEW b \in 1..Len(s), a # b
  PROVE  /\ Queue!Swap(s, a, b) \in Seq(Numbers) /\ Len(Queue!Swap(s, a, b)) = Len(s)
         /\ Queue!Swap(s, a, b)[a] = s[b] /\ Queue!Swap(s, a, b)[b] = s[a]
         /\ \A k \in 1..Len(s) : k # a /\ k # b => Queue!Swap(s, a, b)[k] = s[k]
<1>1. PICK t : t = Queue!Swap(s, a, b)
  OBVIOUS
<1>2. Len(s) \in Nat /\ s \in [1..Len(s) -> Numbers] /\ s[a] \in Numbers /\ s[b] \in Numbers
  BY LenProperties, ElementOfSeq
<1>3. t = [s EXCEPT ![a] = s[b], ![b] = s[a]]
  BY <1>1 DEF Queue!Swap
<1>4. t \in [1..Len(s) -> Numbers]
  BY <1>2, <1>3
<1>5. t \in Seq(Numbers)
  BY <1>2, <1>4, SeqDef
<1>6. Len(t) = Len(s)
  BY <1>2, <1>4, <1>5, LenProperties
<1>7. t[a] = s[b] /\ t[b] = s[a] /\ \A k \in 1..Len(s) : k # a /\ k # b => t[k] = s[k]
  BY <1>2, <1>3
<1> QED
  BY <1>1, <1>5, <1>6, <1>7

\* The heap: no value is above its parent.
LEMMA RootIsLargest ==
  ASSUME QueueInv, q_pc = "idle", NEW k \in 1..Len(container)
  PROVE  container[k] <= container[1]
<1> SUFFICES ASSUME ~ (container[k] <= container[1])
             PROVE  FALSE
  OBVIOUS
<1> DEFINE S == {l \in 1..Len(container) : ~ (container[l] <= container[1])}
<1>1. S \subseteq Nat /\ S # {}
  BY ContainerFacts
<1>2. PICK l \in S : \A m \in S : l <= m
  BY <1>1, Least
<1>3. l \in 1..Len(container) /\ ~ (container[l] <= container[1]) /\ 1 \in 1..Len(container)
  BY <1>2, ContainerFacts
<1>4. l >= 2 /\ l \in Nat
  BY <1>3, ContainerFacts
<1>5. PICK p : p = Queue!Parent(l)
  OBVIOUS
<1>6. p \in 1..Len(container) /\ p < l
  BY <1>3, <1>4, <1>5, Parents, ContainerFacts
<1>7. container[l] <= container[p]
  BY <1>3, <1>4, <1>5, ContainerFacts DEF QueueInv, Queue!HeapOrder
<1>8. p \notin S
  BY <1>2, <1>6, ContainerFacts
<1>9. container[p] <= container[1]
  BY <1>6, <1>8
<1> QED
  BY <1>3, <1>6, <1>7, <1>9, ContainerFacts

(* How often each value is in the container *)

At(s, v) == {k \in DOMAIN s : s[k] = v}
Items == Queue!Count(container)

LEMMA AtFinite ==
  ASSUME NEW s \in Seq(Numbers), NEW v
  PROVE  IsFiniteSet(At(s, v)) /\ Cardinality(At(s, v)) \in Nat
<1>1. At(s, v) \in SUBSET (1..Len(s)) /\ Len(s) \in Nat
  BY LenProperties DEF At
<1>2. IsFiniteSet(1..Len(s))
  BY <1>1, FS_Interval
<1>3. IsFiniteSet(At(s, v))
  BY <1>1, <1>2, FS_Subset
<1> QED
  BY <1>3, FS_CardinalityType

LEMMA CountIs == \A s : Queue!Count(s) = [v \in Numbers |-> Cardinality(At(s, v))]
  BY QueueConstants DEF Queue!Count, At

LEMMA CountSwapped ==
  ASSUME NEW s \in Seq(Numbers), NEW a \in 1..Len(s), NEW b \in 1..Len(s), a # b
  PROVE  Queue!Count(Queue!Swap(s, a, b)) = Queue!Count(s)
<1>1. PICK t : t = Queue!Swap(s, a, b)
  OBVIOUS
<1>2. /\ t \in Seq(Numbers) /\ Len(t) = Len(s) /\ t[a] = s[b] /\ t[b] = s[a]
      /\ \A k \in 1..Len(s) : k # a /\ k # b => t[k] = s[k]
  BY <1>1, Swapped
<1>3. DOMAIN s = 1..Len(s) /\ DOMAIN t = 1..Len(s)
  BY <1>2, LenProperties
<1>4. ASSUME NEW v \in Numbers
      PROVE  Cardinality(At(t, v)) = Cardinality(At(s, v))
  <2> DEFINE other(k) == IF k = a THEN b ELSE IF k = b THEN a ELSE k
             g == [k \in At(s, v) |-> other(k)]
  <2>1. \A k \in At(s, v) : other(k) \in At(t, v)
    BY <1>2, <1>3 DEF At
  <2>2. \A k \in At(t, v) : other(k) \in At(s, v) /\ other(other(k)) = k
    BY <1>2, <1>3 DEF At
  <2>3. \A k, l \in At(s, v) : other(k) = other(l) => k = l
    OBVIOUS
  <2>4. g \in [At(s, v) -> At(t, v)]
    BY <2>1
  <2>5. g \in Injection(At(s, v), At(t, v))
    BY <2>3, <2>4 DEF Injection, IsInjective
  <2>6. \A k \in At(t, v) : \E l \in At(s, v) : g[l] = k
    BY <2>2
  <2>7. g \in Bijection(At(s, v), At(t, v))
    BY <2>4, <2>5, <2>6 DEF Bijection, Surjection
  <2>8. ExistsBijection(At(s, v), At(t, v))
    BY <2>7 DEF ExistsBijection
  <2> QED
    BY <2>8, AtFinite, FS_Bijection
<1>5. Queue!Count(t) = Queue!Count(s)
  BY <1>4, CountIs
<1> QED
  BY <1>1, <1>5

LEMMA CountAppended ==
  ASSUME NEW s \in Seq(Numbers), NEW x \in Numbers
  PROVE  Queue!Count(Append(s, x)) = [Queue!Count(s) EXCEPT ![x] = @ + 1]
<1>1. PICK t : t = Append(s, x)
  OBVIOUS
<1>2. /\ t \in Seq(Numbers) /\ Len(t) = Len(s) + 1 /\ t[Len(s) + 1] = x
      /\ \A k \in 1..Len(s) : t[k] = s[k]
  BY <1>1, AppendProperties
<1>3. DOMAIN s = 1..Len(s) /\ DOMAIN t = 1..Len(t) /\ Len(s) \in Nat
  BY <1>2, LenProperties
<1>4. \A v \in Numbers : v # x => At(t, v) = At(s, v)
  BY <1>2, <1>3 DEF At
<1>5. At(t, x) = At(s, x) \cup {Len(s) + 1} /\ Len(s) + 1 \notin At(s, x)
  BY <1>2, <1>3 DEF At
<1>6. Cardinality(At(t, x)) = Cardinality(At(s, x)) + 1
  BY <1>5, AtFinite, FS_AddElement
<1>7. Queue!Count(t) = [Queue!Count(s) EXCEPT ![x] = @ + 1]
  BY <1>4, <1>6, CountIs
<1> QED
  BY <1>1, <1>7

\* Without its last place.
LEMMA CountCut ==
  ASSUME NEW s \in Seq(Numbers), s # <<>>
  PROVE  /\ s[Len(s)] \in Numbers
         /\ Queue!Count(SubSeq(s, 1, Len(s) - 1)) = [Queue!Count(s) EXCEPT ![s[Len(s)]] = @ - 1]
         /\ Queue!Count(s)[s[Len(s)]] > 0
<1>1. PICK n, t, x : n = Len(s) /\ t = SubSeq(s, 1, n - 1) /\ x = s[n]
  OBVIOUS
<1>2. n \in Nat /\ n >= 1 /\ DOMAIN s = 1..n /\ \A k \in 1..n : s[k] \in Numbers
  BY <1>1, LenProperties, ElementOfSeq, EmptySeq
<1>3. t \in Seq(Numbers) /\ Len(t) = n - 1 /\ \A k \in 1..(n - 1) : t[k] = s[k]
  <2>1. \A k \in 1..(n - 1) : s[k] \in Numbers
    BY <1>2
  <2>2. /\ t \in Seq(Numbers) /\ Len(t) = IF 1 <= n - 1 THEN n - 1 - 1 + 1 ELSE 0
        /\ \A k \in 1..(n - 1) - 1 + 1 : t[k] = s[1 + k - 1]
    BY <1>1, <1>2, <2>1, SubSeqProperties
  <2> QED
    BY <1>2, <2>2
<1>4. DOMAIN t = 1..(n - 1)
  BY <1>3, LenProperties
<1>5. \A v \in Numbers : v # x => At(t, v) = At(s, v)
  BY <1>1, <1>2, <1>3, <1>4 DEF At
<1>6. At(t, x) = At(s, x) \ {n} /\ n \in At(s, x) /\ x \in Numbers
  BY <1>1, <1>2, <1>3, <1>4 DEF At
<1>7. Cardinality(At(t, x)) = Cardinality(At(s, x)) - 1
  BY <1>6, AtFinite, FS_RemoveElement
<1>8. Queue!Count(t) = [Queue!Count(s) EXCEPT ![x] = @ - 1]
  BY <1>5, <1>7, CountIs
<1>9. Queue!Count(s)[x] > 0
  <2>1. Cardinality(At(s, x)) \in Nat /\ Cardinality(At(t, x)) \in Nat
    BY <1>3, AtFinite
  <2> QED
    BY <1>6, <1>7, <2>1, CountIs
<1> QED
  BY <1>1, <1>6, <1>8, <1>9

-----------------------------------------------------------------------------
\* How HeapOrder speaks of place k: it is in order with its parent, or exempt.
LEMMA OrderFacts ==
  ASSUME QueueInv, NEW k \in 1..Len(container), k >= 2
  PROVE  /\ \/ container[k] <= container[Queue!Parent(k)]
            \/ q_pc = "up" /\ k = q_cur
            \/ q_pc = "down" /\ Queue!Parent(k) = q_cur
         /\ Queue!Parent(k) = q_cur /\ q_cur > 1 => container[k] <= container[Queue!Parent(q_cur)]
  BY ContainerFacts DEF QueueInv, Queue!HeapOrder

LEMMA QueueUpInv ==
  ASSUME QueueInv, Queue!SiftUp
  PROVE  QueueInv' /\ Items' = Items
<1>1. /\ q_pc = "up" /\ q_cur \in 1..Len(container)
  BY ContainerFacts DEF Queue!SiftUp, QueueInv, Queue!TypeOK
<1>2. PICK c, p : c = q_cur /\ p = Queue!Parent(c)
  OBVIOUS
<1>3. CASE c > 1 /\ container[p] < container[c]
  <2>1. /\ p \in 1..Len(container) /\ p < c /\ p # c /\ (c = 2 * p \/ c = 2 * p + 1)
        /\ c \in 1..Len(container) /\ c >= 2
    BY <1>1, <1>2, <1>3, Parents, ContainerFacts
  <2>2. container' = Queue!Swap(container, p, c) /\ q_cur' = p /\ q_pc' = "up"
    BY <1>1, <1>2, <1>3 DEF Queue!SiftUp, Queue!f
  <2>3. PICK s, t : s = container /\ t = container'
    OBVIOUS
  <2>4. /\ s \in Seq(Numbers) /\ Len(s) \in Nat /\ \A k \in 1..Len(s) : s[k] \in Int
    BY <2>3, ContainerFacts
  <2>5. /\ t \in Seq(Numbers) /\ Len(t) = Len(s) /\ t[p] = s[c] /\ t[c] = s[p]
        /\ \A k \in 1..Len(s) : k # p /\ k # c => t[k] = s[k]
    <3>1. t = Queue!Swap(s, p, c) /\ p \in 1..Len(s) /\ c \in 1..Len(s) /\ p # c
      BY <2>1, <2>2, <2>3
    <3> QED
      BY <2>4, <3>1, Swapped
  <2>6. Items' = Items
    BY <2>1, <2>2, <2>3, <2>4, CountSwapped DEF Items
  <2>7. Queue!TypeOK'
    BY <1>1, <2>1, <2>2, <2>3, <2>4, <2>5 DEF QueueInv, Queue!TypeOK
  <2>8. ASSUME NEW k \in 1..Len(s), k >= 2
        PROVE  /\ t[k] <= t[Queue!Parent(k)] \/ k = p
               /\ Queue!Parent(k) = p /\ p > 1 => t[k] <= t[Queue!Parent(p)]
    <3>1. PICK q : q = Queue!Parent(k)
      OBVIOUS
    <3>2. q \in 1..Len(s) /\ q < k /\ k \in Int /\ (k = 2 * q \/ k = 2 * q + 1)
      BY <2>4, <2>8, <3>1, Parents
    <3>3. /\ s[k] <= s[q] \/ k = c
          /\ q = c => s[k] <= s[p]
      BY <1>1, <1>2, <2>1, <2>3, <2>8, <3>1, OrderFacts
    <3>4. s[p] < s[c] /\ s[p] \in Int /\ s[c] \in Int /\ s[k] \in Int /\ s[q] \in Int
      BY <1>3, <2>1, <2>3, <2>4, <3>2
    <3>5. t[k] <= t[q] \/ k = p
      <4>1. CASE k = c
        BY <1>2, <2>5, <3>1, <3>4, <4>1
      <4>2. CASE k # c /\ q = c
        BY <2>1, <2>5, <3>2, <3>3, <3>4, <4>2
      <4>3. CASE k # c /\ k # p /\ q = p
        BY <2>1, <2>5, <3>2, <3>3, <3>4, <4>3
      <4>4. CASE k # c /\ k # p /\ q # c /\ q # p
        BY <2>5, <3>2, <3>3, <4>4
      <4> QED
        BY <4>1, <4>2, <4>3, <4>4
    <3>6. ASSUME q = p, p > 1
          PROVE  t[k] <= t[Queue!Parent(p)]
      <4>1. PICK r : r = Queue!Parent(p)
        OBVIOUS
      <4>2. r \in 1..Len(s) /\ r < p /\ p >= 2
        <5>1. p \in Nat /\ p >= 2 /\ p \in 1..Len(s)
          BY <2>1, <2>3, <2>4, <3>6
        <5>2. r \in Nat /\ 1 <= r /\ r < p
          BY <4>1, <5>1, Parents
        <5> QED
          BY <2>4, <5>1, <5>2
      <4>3. s[p] <= s[r]
        BY <1>1, <1>2, <2>1, <2>3, <4>1, <4>2, OrderFacts
      <4>4. t[r] = s[r] /\ s[r] \in Int
        BY <2>1, <2>4, <2>5, <4>2
      <4>5. CASE k = c
        BY <2>5, <4>1, <4>3, <4>4, <4>5
      <4>6. CASE k # c
        BY <2>1, <2>5, <3>2, <3>3, <3>4, <3>6, <4>1, <4>3, <4>4, <4>6
      <4> QED
        BY <4>5, <4>6
    <3> QED
      BY <3>1, <3>5, <3>6
  <2>9. Queue!HeapOrder'
    BY <2>2, <2>3, <2>4, <2>5, <2>8 DEF Queue!HeapOrder, Queue!Parent
  <2> QED
    BY <2>2, <2>6, <2>7, <2>9 DEF QueueInv
<1>4. CASE ~ (c > 1 /\ container[p] < container[c])
  <2>1. q_pc' = "idle" /\ q_cur' = 1 /\ container' = container
    BY <1>1, <1>2, <1>4 DEF Queue!SiftUp, Queue!f
  <2>2. ASSUME NEW k \in 1..Len(container), k >= 2
        PROVE  container[k] <= container[Queue!Parent(k)]
    <3>1. container[k] <= container[Queue!Parent(k)] \/ k = c
      BY <1>1, <1>2, <2>2, OrderFacts
    <3>2. container[c] <= container[p] \/ c = 1
      <4>1. CASE c > 1
        <5>1. p \in 1..Len(container)
          BY <1>1, <1>2, <4>1, Parents, ContainerFacts
        <5> QED
          BY <1>1, <1>2, <1>4, <4>1, <5>1, ContainerFacts
      <4> QED
        BY <1>1, <1>2, <4>1, ContainerFacts
    <3> QED
      BY <1>2, <2>2, <3>1, <3>2
  <2>3. Queue!HeapOrder'
    BY <2>1, <2>2, ContainerFacts DEF Queue!HeapOrder, Queue!Parent
  <2>4. Queue!TypeOK'
    BY <2>1 DEF QueueInv, Queue!TypeOK
  <2> QED
    BY <2>1, <2>3, <2>4 DEF QueueInv, Items
<1> QED
  BY <1>3, <1>4

LEMMA QueuePushInv ==
  ASSUME QueueInv, NEW v \in Numbers, Queue!Push(v)
  PROVE  QueueInv' /\ Items' = [Items EXCEPT ![v] = @ + 1]
<1>1. PICK s, t : s = container /\ t = container'
  OBVIOUS
<1>2. /\ q_pc = "idle" /\ Len(s) < MaxQueue /\ t = Append(s, v)
      /\ q_pc' = "up" /\ q_cur' = Len(s) + 1
  BY <1>1 DEF Queue!Push
<1>3. s \in Seq(Numbers) /\ Len(s) \in Nat
  BY <1>1, ContainerFacts
<1>4. t \in Seq(Numbers) /\ Len(t) = Len(s) + 1 /\ \A k \in 1..Len(s) : t[k] = s[k]
  BY <1>2, <1>3, AppendProperties
<1>5. Items' = [Items EXCEPT ![v] = @ + 1]
  BY <1>1, <1>2, <1>3, CountAppended DEF Items
<1>6. Queue!TypeOK'
  BY <1>1, <1>2, <1>3, <1>4, QueueConstants DEF Queue!TypeOK
<1>7. ASSUME NEW k \in 1..Len(t), k >= 2
      PROVE  /\ t[k] <= t[Queue!Parent(k)] \/ k = Len(s) + 1
             /\ Queue!Parent(k) # Len(s) + 1
  <2>1. PICK q : q = Queue!Parent(k)
    OBVIOUS
  <2>2. q \in Nat /\ 1 <= q /\ q < k /\ k \in Nat
    BY <1>3, <1>4, <1>7, <2>1, Parents
  <2>3. CASE k \in 1..Len(s)
    <3>1. s[k] <= s[q]
      BY <1>1, <1>2, <1>7, <2>1, <2>3, OrderFacts
    <3> QED
      BY <1>3, <1>4, <2>1, <2>2, <2>3, <3>1
  <2>4. CASE k = Len(s) + 1
    BY <1>3, <1>4, <2>1, <2>2, <2>4
  <2> QED
    BY <1>3, <1>4, <2>3, <2>4
<1>8. Queue!HeapOrder'
  BY <1>1, <1>2, <1>3, <1>4, <1>7 DEF Queue!HeapOrder, Queue!Parent
<1> QED
  BY <1>2, <1>5, <1>6, <1>8 DEF QueueInv

LEMMA QueuePopInv ==
  ASSUME QueueInv, Queue!Pop
  PROVE  QueueInv' /\ Queue!Bag!Pop
<1>1. PICK s, n, u, t : s = container /\ n = Len(s) /\ t = container' /\ u = Queue!Swap(s, 1, n)
  OBVIOUS
<1>2. q_pc = "idle" /\ s # <<>> /\ t = SubSeq(u, 1, n - 1) /\ q_pc' = "down" /\ q_cur' = 1
  BY <1>1 DEF Queue!Pop
<1>3. s \in Seq(Numbers) /\ n \in Nat /\ n >= 1 /\ \A k \in 1..n : s[k] \in Numbers /\ s[k] \in Int
  BY <1>1, <1>2, ContainerFacts, EmptySeq
<1>4. /\ u \in Seq(Numbers) /\ Len(u) = n /\ u[n] = s[1] /\ Queue!Count(u) = Queue!Count(s)
      /\ \A k \in 2..(n - 1) : u[k] = s[k]
  <2>1. CASE n = 1
    <3>1. u = s
      BY <1>1, <1>3, <2>1 DEF Queue!Swap
    <3> QED
      BY <1>1, <1>3, <2>1, <3>1
  <2>2. CASE n # 1
    <3>1. 1 \in 1..Len(s) /\ n \in 1..Len(s) /\ 1 # n
      BY <1>1, <1>3, <2>2
    <3>2. PICK a, b : a = 1 /\ b = n
      OBVIOUS
    <3>3. u = Queue!Swap(s, a, b) /\ a \in 1..Len(s) /\ b \in 1..Len(s) /\ a # b
      BY <1>1, <3>1, <3>2
    <3>4. /\ u \in Seq(Numbers) /\ Len(u) = Len(s) /\ u[b] = s[a]
          /\ \A k \in 1..Len(s) : k # a /\ k # b => u[k] = s[k]
      BY <1>3, <3>3, Swapped
    <3>5. Queue!Count(u) = Queue!Count(s)
      BY <1>3, <3>3, CountSwapped
    <3> QED
      BY <1>1, <1>3, <3>2, <3>4, <3>5
  <2> QED
    BY <2>1, <2>2
<1>5. t \in Seq(Numbers) /\ Len(t) = n - 1 /\ \A k \in 1..(n - 1) : t[k] = u[k]
  <2>1. \A k \in 1..(n - 1) : u[k] \in Numbers
    BY <1>3, <1>4, ElementOfSeq
  <2>2. /\ t \in Seq(Numbers) /\ Len(t) = IF 1 <= n - 1 THEN n - 1 - 1 + 1 ELSE 0
        /\ \A k \in 1..(n - 1) - 1 + 1 : t[k] = u[1 + k - 1]
    BY <1>2, <1>3, <2>1, SubSeqProperties
  <2> QED
    BY <1>3, <2>2
<1>6. /\ Queue!Count(t) = [Queue!Count(s) EXCEPT ![s[1]] = @ - 1]
      /\ Queue!Count(s)[s[1]] > 0 /\ s[1] \in Numbers
  <2>1. u # <<>>
    BY <1>3, <1>4, EmptySeq
  <2>2. /\ u[Len(u)] \in Numbers
        /\ Queue!Count(SubSeq(u, 1, Len(u) - 1)) = [Queue!Count(u) EXCEPT ![u[Len(u)]] = @ - 1]
        /\ Queue!Count(u)[u[Len(u)]] > 0
    BY <1>4, <2>1, CountCut
  <2> QED
    BY <1>2, <1>4, <2>2
<1>7. ASSUME NEW w \in Numbers, Queue!Count(s)[w] > 0
      PROVE  w <= s[1]
  <2>1. Cardinality(At(s, w)) > 0
    BY <1>7, CountIs
  <2>2. At(s, w) # {}
    BY <2>1, FS_EmptySet
  <2>3. PICK k \in 1..n : s[k] = w
    BY <1>1, <2>2, ContainerFacts DEF At
  <2> QED
    BY <1>1, <1>2, <2>3, RootIsLargest
<1>8. Queue!Bag!Pop
  BY <1>1, <1>6, <1>7 DEF Queue!Bag!Pop
<1>9. Queue!TypeOK'
  <2>1. n <= MaxQueue
    BY <1>1 DEF QueueInv, Queue!TypeOK
  <2> QED
    BY <1>1, <1>2, <1>3, <1>5, <2>1, QueueConstants DEF Queue!TypeOK
<1>10. ASSUME NEW k \in 1..Len(t), k >= 2
       PROVE  t[k] <= t[Queue!Parent(k)] \/ Queue!Parent(k) = 1
  <2>1. PICK q : q = Queue!Parent(k)
    OBVIOUS
  <2>2. q \in Nat /\ 1 <= q /\ q < k /\ k \in 2..(n - 1)
    BY <1>3, <1>5, <1>10, <2>1, Parents
  <2>3. s[k] <= s[q]
    BY <1>1, <1>2, <1>3, <2>1, <2>2, OrderFacts
  <2> QED
    BY <1>3, <1>4, <1>5, <2>1, <2>2, <2>3
<1>11. Queue!HeapOrder'
  BY <1>1, <1>2, <1>3, <1>5, <1>10 DEF Queue!HeapOrder, Queue!Parent
<1> QED
  BY <1>2, <1>8, <1>9, <1>11 DEF QueueInv

\* The place that the hole moves to holds more than it and than its sibling.
LEMMA BestFacts ==
  ASSUME QueueInv, NEW c \in 1..Len(container)
  PROVE  /\ Queue!Best(c) \in {c, 2 * c, 2 * c + 1} /\ Queue!Best(c) \in 1..Len(container)
         /\ container[c] <= container[Queue!Best(c)]
         /\ Queue!Best(c) # c => container[c] < container[Queue!Best(c)]
         /\ \A k \in 1..Len(container) :
              k = 2 * c \/ k = 2 * c + 1 => container[k] <= container[Queue!Best(c)]
<1>1. PICK s, n, l, r : s = container /\ n = Len(s) /\ l = 2 * c /\ r = 2 * c + 1
  OBVIOUS
<1>2. /\ n \in Nat /\ c \in 1..n /\ l \in Nat /\ r \in Nat /\ l >= 2 /\ r >= 2 /\ c # l /\ c # r /\ l # r
      /\ \A k \in 1..n : s[k] \in Int
  BY <1>1, ContainerFacts
<1>3. PICK b : b = IF l <= n /\ s[c] < s[l] THEN l ELSE c
  OBVIOUS
<1>4. b \in 1..n /\ b \in {c, l} /\ s[c] <= s[b] /\ (b # c => s[c] < s[b]) /\ (l <= n => s[l] <= s[b])
  BY <1>2, <1>3
<1>5. PICK d : d = IF r <= n /\ s[b] < s[r] THEN r ELSE b
  OBVIOUS
<1>6. /\ d \in 1..n /\ d \in {c, l, r} /\ s[c] <= s[d] /\ (d # c => s[c] < s[d])
      /\ (l <= n => s[l] <= s[d]) /\ (r <= n => s[r] <= s[d])
  BY <1>2, <1>4, <1>5
<1>7. Queue!Best(c) = d
  BY <1>1, <1>3, <1>5 DEF Queue!Best, Queue!f
<1> QED
  BY <1>1, <1>2, <1>6, <1>7

LEMMA QueueDownInv ==
  ASSUME QueueInv, Queue!SiftDown
  PROVE  QueueInv' /\ Items' = Items
<1>1. q_pc = "down" /\ q_cur \in Nat /\ q_cur >= 1
  BY DEF Queue!SiftDown, QueueInv, Queue!TypeOK
<1>2. PICK c, b : c = q_cur /\ b = Queue!Best(c)
  OBVIOUS
<1>3. CASE c <= Len(container) /\ b # c
  <2>1. c \in 1..Len(container)
    BY <1>1, <1>2, <1>3, ContainerFacts
  <2>2. container' = Queue!Swap(container, c, b) /\ q_cur' = b /\ q_pc' = "down"
    BY <1>1, <1>2, <1>3 DEF Queue!SiftDown
  <2>3. PICK s, t : s = container /\ t = container'
    OBVIOUS
  <2>4. /\ s \in Seq(Numbers) /\ Len(s) \in Nat /\ \A k \in 1..Len(s) : s[k] \in Int
    BY <2>3, ContainerFacts
  <2>5. /\ b = 2 * c \/ b = 2 * c + 1
        /\ b \in 1..Len(s) /\ s[c] < s[b]
        /\ \A k \in 1..Len(s) : k = 2 * c \/ k = 2 * c + 1 => s[k] <= s[b]
    BY <1>2, <1>3, <2>1, <2>3, BestFacts
  <2>6. c \in 1..Len(s) /\ c < b /\ c # b
    BY <1>1, <1>2, <2>1, <2>3, <2>4, <2>5
  <2>7. /\ t \in Seq(Numbers) /\ Len(t) = Len(s) /\ t[c] = s[b] /\ t[b] = s[c]
        /\ \A k \in 1..Len(s) : k # c /\ k # b => t[k] = s[k]
    <3>1. t = Queue!Swap(s, c, b)
      BY <2>2, <2>3
    <3> QED
      BY <2>4, <2>5, <2>6, <3>1, Swapped
  <2>8. Items' = Items
    <3>1. Queue!Count(Queue!Swap(s, c, b)) = Queue!Count(s)
      BY <2>4, <2>5, <2>6, CountSwapped
    <3> QED
      BY <2>2, <2>3, <3>1 DEF Items
  <2>9. Queue!TypeOK'
    <3>1. Len(s) <= MaxQueue /\ b \in Nat \ {0}
      BY <2>3, <2>4, <2>5 DEF QueueInv, Queue!TypeOK
    <3> QED
      BY <2>2, <2>3, <2>7, <3>1 DEF Queue!TypeOK
  <2>10. ASSUME NEW k \in 1..Len(s), k >= 2
         PROVE  /\ t[k] <= t[Queue!Parent(k)] \/ Queue!Parent(k) = b
                /\ Queue!Parent(k) = b => t[k] <= t[Queue!Parent(b)]
    <3>1. PICK q : q = Queue!Parent(k)
      OBVIOUS
    <3>2. /\ q \in 1..Len(s) /\ q < k /\ k \in Int /\ (k = 2 * q \/ k = 2 * q + 1)
      BY <2>4, <2>10, <3>1, Parents
    <3>3. Queue!Parent(b) = c
      BY <2>5, <2>6, <2>4 DEF Queue!Parent
    <3>4. s[c] < s[b] /\ s[c] \in Int /\ s[b] \in Int /\ s[k] \in Int /\ s[q] \in Int
      BY <2>4, <2>5, <2>6, <3>2
    <3>5. /\ s[k] <= s[q] \/ q = c
          /\ q = c /\ c > 1 => s[k] <= s[Queue!Parent(c)]
      BY <1>1, <1>2, <2>3, <2>10, <3>1, OrderFacts
    <3>6. CASE q = b
      <4>1. k # c /\ k # b
        BY <2>4, <2>6, <3>2, <3>6
      <4>2. s[k] <= s[b]
        BY <2>6, <3>5, <3>6
      <4> QED
        BY <2>7, <3>1, <3>3, <3>6, <4>1, <4>2
    <3>7. CASE q # b /\ q = c
      <4>1. k # c /\ s[k] <= s[b]
        BY <2>5, <3>2, <3>7
      <4> QED
        BY <2>7, <3>1, <3>4, <3>7, <4>1
    <3>8. CASE q # b /\ q # c
      <4>1. k # b
        BY <3>1, <3>3, <3>8
      <4>2. t[q] = s[q] /\ s[k] <= s[q]
        BY <2>7, <3>2, <3>5, <3>8
      <4>3. CASE k = c
        <5>1. b >= 2 /\ Queue!Parent(b) = c /\ c > 1
          BY <2>4, <2>5, <2>6, <2>10, <3>3, <4>3
        <5>2. s[b] <= s[Queue!Parent(c)]
          BY <1>1, <1>2, <2>3, <2>5, <5>1, OrderFacts
        <5> QED
          BY <2>7, <3>1, <3>8, <4>2, <4>3, <5>2
      <4>4. CASE k # c
        BY <2>7, <3>1, <3>8, <4>1, <4>2, <4>4
      <4> QED
        BY <4>3, <4>4
    <3> QED
      BY <3>6, <3>7, <3>8
  <2>11. Queue!HeapOrder'
    BY <2>2, <2>3, <2>4, <2>7, <2>10 DEF Queue!HeapOrder, Queue!Parent
  <2> QED
    BY <2>2, <2>8, <2>9, <2>11 DEF QueueInv
<1>4. CASE ~ (c <= Len(container) /\ b # c)
  <2>1. q_pc' = "idle" /\ q_cur' = 1 /\ container' = container
    BY <1>1, <1>2, <1>4 DEF Queue!SiftDown
  <2>2. ASSUME NEW k \in 1..Len(container), k >= 2
        PROVE  container[k] <= container[Queue!Parent(k)]
    <3>1. PICK q : q = Queue!Parent(k)
      OBVIOUS
    <3>2. q \in 1..Len(container) /\ (k = 2 * q \/ k = 2 * q + 1)
      BY <2>2, <3>1, Parents, ContainerFacts
    <3>3. container[k] <= container[q] \/ q = c
      BY <1>1, <1>2, <2>2, <3>1, OrderFacts
    <3>4. CASE q = c
      <4>1. b = c
        BY <1>4, <3>2, <3>4, ContainerFacts
      <4>2. container[k] <= container[b]
        BY <1>2, <2>2, <3>2, <3>4, BestFacts
      <4> QED
        BY <3>1, <3>4, <4>1, <4>2
    <3> QED
      BY <3>1, <3>3, <3>4
  <2>3. Queue!HeapOrder'
    BY <2>1, <2>2, ContainerFacts DEF Queue!HeapOrder, Queue!Parent
  <2>4. Queue!TypeOK'
    BY <2>1 DEF QueueInv, Queue!TypeOK
  <2> QED
    BY <2>1, <2>3, <2>4 DEF QueueInv, Items
<1> QED
  BY <1>3, <1>4

LEMMA QueueStepInv ==
  ASSUME QueueInv, [Queue!Next]_Queue!vars
  PROVE  QueueInv' /\ [Queue!Bag!Next]_Items
<1>1. CASE Queue!Next
  <2>1. CASE \E v \in Numbers : Queue!Push(v)
    <3>1. PICK v \in Numbers : Queue!Push(v)
      BY <2>1
    <3>2. QueueInv' /\ Items' = [Items EXCEPT ![v] = @ + 1]
      BY <3>1, QueuePushInv
    <3>3. Queue!Bag!Push(v)
      BY <3>2 DEF Items, Queue!Bag!Push
    <3> QED
      BY <3>2, <3>3 DEF Queue!Bag!Next
  <2>2. CASE Queue!SiftUp
    BY <2>2, QueueUpInv
  <2>3. CASE Queue!Pop
    BY <2>3, QueuePopInv DEF Queue!Bag!Next
  <2>4. CASE Queue!SiftDown
    BY <2>4, QueueDownInv
  <2> QED
    BY <1>1, <2>1, <2>2, <2>3, <2>4 DEF Queue!Next
<1>2. CASE UNCHANGED Queue!vars
  BY <1>2 DEF Queue!vars, QueueInv, Queue!TypeOK, Queue!HeapOrder, Items
<1> QED
  BY <1>1, <1>2

LEMMA QueueStart == Queue!Init => QueueInv /\ Queue!Bag!Init
<1> SUFFICES ASSUME Queue!Init
             PROVE  QueueInv /\ Queue!Bag!Init
  OBVIOUS
<1>1. container = <<>> /\ q_pc = "idle" /\ q_cur = 1
  BY DEF Queue!Init
<1>2. <<>> \in Seq(Numbers) /\ Len(<<>>) = 0 /\ DOMAIN <<>> = {}
  BY EmptySeq, LenProperties
<1>3. \A v : At(<<>>, v) = {}
  BY <1>2 DEF At
<1>4. Queue!Count(container) = [v \in Numbers |-> 0]
  BY <1>1, <1>3, CountIs, FS_EmptySet
<1>5. QueueInv
  BY <1>1, <1>2, QueueConstants DEF QueueInv, Queue!TypeOK, Queue!HeapOrder
<1> QED
  BY <1>4, <1>5 DEF Queue!Bag!Init

LEMMA QueueImplied == QueueInv => Queue!TypeOK /\ Queue!HeapOrder /\ Queue!TopIsLargest
<1> SUFFICES ASSUME QueueInv
             PROVE  Queue!TopIsLargest
  BY DEF QueueInv
<1> QED
  BY RootIsLargest, ContainerFacts DEF Queue!TopIsLargest

\* priority_queue: the sifts change nothing of the bag of values, each pop()
\* takes a largest one, and between two calls top() is the one it will take;
\* the loops never leave the container and the heap is in order but for the
\* value that is on its way.
THEOREM PriorityQueueCorrect == Spec => QueueBagSpec
<1>1. Init => QueueInv /\ Queue!Bag!Init
  BY QueueStart DEF Init
<1>2. QueueInv /\ [Next]_vars => QueueInv' /\ [Queue!Bag!Next]_Items
  BY QueueSteps, QueueStepInv DEF Items
<1>3. QueueInv => (class = "queue" => Queue!TypeOK /\ Queue!HeapOrder /\ Queue!TopIsLargest)
  BY QueueImplied
<1> QED
  BY <1>1, <1>2, <1>3, PTL DEF Spec, Items, QueueBagSpec, Queue!BagSpec, Queue!Bag!Spec

-----------------------------------------------------------------------------
(* linked_list *)

LEMMA ListSteps == [Next]_vars => [Rings!Next]_Rings!vars
  BY DEF Next, vars, QueueStep, SharedStep, WeakStep, ListStep, StringStep, SieveStep,
         listVars, Rings!vars

LEMMA ListConstants == MaxNodes \in Nat /\ Rings!Nodes = 1..MaxNodes
  BY Constants DEF Constants, Rings!LinkedListAssumption, Rings!Nodes

\* f goes once around the ring of n + 1 nodes that starts at h, along nx, and
\* pv goes back.
Ring(f, n, h, nx, pv) ==
  /\ n \in 0..MaxNodes - 1 /\ f \in [0..n -> Rings!Nodes] /\ f[0] = h
  /\ \A a, b \in 0..n : f[a] = f[b] => a = b
  /\ nx[0] = 0 /\ pv[0] = 0
  /\ \A a \in 0..n : nx[f[a]] = IF a = n THEN h ELSE f[a + 1]
  /\ \A a \in 0..n : pv[f[a]] = IF a = 0 THEN f[n] ELSE f[a - 1]

On(f, n) == {f[a] : a \in 0..n}

LEMMA RingSame ==
  ASSUME NEW f, NEW n, NEW h, NEW nx, NEW pv, Ring(f, n, h, nx, pv),
         NEW ny, NEW py, ny[0] = 0, py[0] = 0,
         \A m \in On(f, n) : ny[m] = nx[m] /\ py[m] = pv[m]
  PROVE  Ring(f, n, h, ny, py)
<1>1. \A a \in 0..n : f[a] \in On(f, n)
  BY DEF On
<1> QED
  BY <1>1 DEF Ring

\* The walk of main() meets the ring's other nodes in their order.
LEMMA WalkIs ==
  ASSUME NEW f, NEW n, NEW h, NEW nx, NEW pv, Ring(f, n, h, nx, pv)
  PROVE  Rings!Walk(h, nx) = [k \in 1..n |-> f[k]]
<1> DEFINE E(g) == [k \in 0..MaxNodes |->
                      IF k = 0 THEN h ELSE IF nx[g[k - 1]] = h THEN 0 ELSE nx[g[k - 1]]]
           w == CHOOSE g : g = E(g)
           f0 == [k \in 0..MaxNodes |-> IF k <= n THEN f[k] ELSE 0]
<1>1. Rings!Walk(h, nx) = [k \in {m \in 1..MaxNodes : w[m] # 0} |-> w[k]]
  BY DEF Rings!Walk, Rings!null
<1>2. /\ n \in Nat /\ n < MaxNodes /\ MaxNodes \in Nat /\ h # 0 /\ nx[0] = 0 /\ f[0] = h
      /\ \A a \in 0..n : f[a] # 0 /\ (f[a] = h <=> a = 0)
      /\ \A a \in 0..n : nx[f[a]] = IF a = n THEN h ELSE f[a + 1]
  BY ListConstants DEF Ring
<1>3. f0 = E(f0)
  <2>1. ASSUME NEW k \in 0..MaxNodes
        PROVE  f0[k] = E(f0)[k]
    <3>1. CASE k = 0
      BY <1>2, <3>1
    <3>2. CASE k # 0 /\ k <= n
      <4>1. k - 1 \in 0..n /\ k - 1 # n /\ k \in 0..n /\ k - 1 \in 0..MaxNodes /\ k - 1 + 1 = k
        BY <1>2, <3>2
      <4>2. nx[f[k - 1]] = f[k] /\ f[k] # h
        BY <1>2, <3>2, <4>1
      <4> QED
        BY <3>2, <4>1, <4>2
    <3>3. CASE k = n + 1
      <4>1. k - 1 = n /\ k - 1 \in 0..MaxNodes /\ n \in 0..n /\ k # 0 /\ ~ (k <= n)
        BY <1>2, <3>3
      <4>2. nx[f[n]] = h
        BY <1>2, <4>1
      <4> QED
        BY <4>1, <4>2
    <3>4. CASE k > n + 1
      <4>1. k - 1 \in 0..MaxNodes /\ ~ (k - 1 <= n) /\ k # 0 /\ ~ (k <= n)
        BY <1>2, <3>4
      <4> QED
        BY <1>2, <4>1
    <3> QED
      BY <1>2, <3>1, <3>2, <3>3, <3>4
  <2> QED
    BY <2>1
<1>4. w = E(w)
  <2> HIDE DEF E, f0
  <2> QED
    BY <1>3, Zenon
<1>5. \A k \in 0..MaxNodes : w[k] = f0[k]
  <2> SUFFICES ASSUME NEW k \in 0..MaxNodes, w[k] # f0[k]
               PROVE  FALSE
    OBVIOUS
  <2> DEFINE S == {m \in 0..MaxNodes : w[m] # f0[m]}
  <2> HIDE DEF w, f0, E
  <2>1. S \subseteq Nat /\ S # {}
    BY <1>2
  <2>2. PICK m \in S : \A b \in S : m <= b
    <3> HIDE DEF S
    <3> QED
      BY <2>1, Least
  <2>3. m \in 0..MaxNodes /\ w[m] = E(w)[m] /\ f0[m] = E(f0)[m] /\ w[m] # f0[m]
    BY <1>3, <1>4, <2>2
  <2>4. m # 0
    BY <2>3 DEF E
  <2>5. m - 1 \in 0..MaxNodes /\ w[m - 1] = f0[m - 1]
    BY <1>2, <2>2, <2>3, <2>4
  <2> QED
    BY <2>3, <2>4, <2>5 DEF E
<1>6. {m \in 1..MaxNodes : w[m] # 0} = 1..n
  <2> HIDE DEF w
  <2> QED
    BY <1>2, <1>5
<1>7. \A k \in 1..n : w[k] = f[k]
  <2> HIDE DEF w
  <2> QED
    BY <1>2, <1>5
<1> HIDE DEF w
<1> QED
  BY <1>1, <1>6, <1>7

\* The way back is a ring as well.
Back(f, n) == [a \in 0..n |-> IF a = 0 THEN f[0] ELSE f[n + 1 - a]]

LEMMA BackRing ==
  ASSUME NEW f, NEW n, NEW h, NEW nx, NEW pv, Ring(f, n, h, nx, pv)
  PROVE  Ring(Back(f, n), n, h, pv, nx)
<1>1. /\ n \in Nat /\ n \in 0..MaxNodes - 1 /\ f[0] = h /\ nx[0] = 0 /\ pv[0] = 0
      /\ \A a \in 0..n : f[a] \in Rings!Nodes
      /\ \A a, b \in 0..n : f[a] = f[b] => a = b
      /\ \A a \in 0..n : nx[f[a]] = IF a = n THEN h ELSE f[a + 1]
      /\ \A a \in 0..n : pv[f[a]] = IF a = 0 THEN f[n] ELSE f[a - 1]
  BY ListConstants DEF Ring
<1>2. PICK g : g = Back(f, n)
  OBVIOUS
<1> DEFINE at(a) == IF a = 0 THEN 0 ELSE n + 1 - a
<1>3. \A a \in 0..n : g[a] = f[at(a)] /\ at(a) \in 0..n
  BY <1>1, <1>2 DEF Back
<1>4. g \in [0..n -> Rings!Nodes] /\ g[0] = h
  <2>1. \A a \in 0..n : g[a] \in Rings!Nodes
    BY <1>1, <1>3
  <2>2. g = [a \in 0..n |-> g[a]]
    BY <1>2 DEF Back
  <2> QED
    BY <1>1, <1>3, <2>1, <2>2
<1>5. \A a, b \in 0..n : g[a] = g[b] => a = b
  <2>1. \A a, b \in 0..n : at(a) = at(b) => a = b
    BY <1>1
  <2> HIDE DEF at
  <2> QED
    BY <1>1, <1>3, <2>1
<1>6. ASSUME NEW a \in 0..n
      PROVE  pv[g[a]] = IF a = n THEN h ELSE g[a + 1]
  <2>1. CASE a = 0
    BY <1>1, <1>3, <2>1
  <2>2. CASE a # 0
    <3>1. at(a) \in 0..n /\ at(a) # 0 /\ g[a] = f[at(a)]
      BY <1>1, <1>3, <2>2
    <3>2. pv[g[a]] = f[at(a) - 1]
      BY <1>1, <3>1
    <3>3. a # n => a + 1 \in 0..n /\ at(a + 1) = at(a) - 1 /\ g[a + 1] = f[at(a) - 1]
      BY <1>1, <1>3, <2>2
    <3>4. a = n => at(a) - 1 = 0
      BY <1>1, <2>2
    <3> QED
      BY <1>1, <3>2, <3>3, <3>4
  <2> QED
    BY <2>1, <2>2
<1>7. ASSUME NEW a \in 0..n
      PROVE  nx[g[a]] = IF a = 0 THEN g[n] ELSE g[a - 1]
  <2>1. CASE a = 0
    <3>1. nx[g[a]] = IF n = 0 THEN h ELSE f[1]
      BY <1>1, <1>3, <2>1
    <3>2. n # 0 => g[n] = f[1]
      BY <1>1, <1>3
    <3> QED
      BY <1>4, <2>1, <3>1, <3>2
  <2>2. CASE a # 0
    <3>1. at(a) \in 0..n /\ g[a] = f[at(a)]
      BY <1>1, <1>3, <2>2
    <3>2. nx[g[a]] = IF at(a) = n THEN h ELSE f[at(a) + 1]
      BY <1>1, <3>1
    <3>3. at(a) = n <=> a = 1
      BY <1>1, <2>2
    <3>4. a # 1 => a - 1 \in 0..n /\ at(a - 1) = at(a) + 1 /\ g[a - 1] = f[at(a) + 1]
      BY <1>1, <1>3, <2>2
    <3> QED
      BY <1>4, <2>2, <3>2, <3>3, <3>4
  <2> QED
    BY <2>1, <2>2
<1>8. Ring(g, n, h, pv, nx)
  BY <1>1, <1>4, <1>5, <1>6, <1>7 DEF Ring
<1> QED
  BY <1>2, <1>8

-----------------------------------------------------------------------------
\* The nodes of the list whose head is h.
RingNodes(h, nx) == IF h = 0 THEN {} ELSE {h} \cup Rings!Range(Rings!Walk(h, nx))

IsRing(h, nx, pv) == \E n \in Nat : \E f : Ring(f, n, h, nx, pv)

LEMMA RingNodesAre ==
  ASSUME NEW f, NEW n, NEW h, NEW nx, NEW pv, Ring(f, n, h, nx, pv)
  PROVE  RingNodes(h, nx) = On(f, n) /\ h # 0 /\ n \in Nat /\ On(f, n) \subseteq Rings!Nodes
<1>1. n \in Nat /\ f \in [0..n -> Rings!Nodes] /\ f[0] = h /\ h # 0 /\ 0..n = {0} \cup 1..n
  BY ListConstants DEF Ring
<1>2. Rings!Range([k \in 1..n |-> f[k]]) = {f[k] : k \in 1..n}
  BY DEF Rings!Range
<1>3. On(f, n) = {h} \cup {f[k] : k \in 1..n}
  BY <1>1 DEF On
<1> QED
  BY <1>1, <1>2, <1>3, WalkIs DEF RingNodes, On

Mine(l) == RingNodes(head[l], next)

\* What a node may hold; 0 if nothing has been pushed.
Datum == Elements \cup {0}

RingTypes ==
  /\ head \in [ListNames -> 0..MaxNodes] /\ data \in [0..MaxNodes -> Datum]
  /\ next \in [0..MaxNodes -> 0..MaxNodes] /\ prev \in [0..MaxNodes -> 0..MaxNodes]
  /\ next[0] = 0 /\ prev[0] = 0
  /\ live \subseteq Rings!Nodes /\ leaked \subseteq live

\* A list is a ring, and every node belongs to one list or is leaked.
RingsApart ==
  /\ \A l \in ListNames : head[l] # 0 => IsRing(head[l], next, prev)
  /\ \A l \in ListNames : Mine(l) \subseteq live \ leaked
  /\ \A l, k \in ListNames : l # k => Mine(l) \cap Mine(k) = {}
  /\ \A m \in live \ leaked : \E l \in ListNames : m \in Mine(l)

\* What is leaked keeps itself.
Orphans == \A m \in leaked : next[m] \in leaked /\ \E k \in leaked : next[k] = m

RingInv == RingTypes /\ RingsApart /\ Orphans

ListIs == [l \in ListNames |-> Rings!Contents(l)]

\* What is known of a list that is there.
LEMMA MineIs ==
  ASSUME RingInv, NEW l \in ListNames, head[l] # 0
  PROVE  \E n \in Nat : \E f : Ring(f, n, head[l], next, prev) /\ Mine(l) = On(f, n)
<1>1. PICK n, f : n \in Nat /\ Ring(f, n, head[l], next, prev)
  BY DEF RingInv, RingsApart, IsRing
<1> QED
  BY <1>1, RingNodesAre DEF Mine

LEMMA MineNext ==
  ASSUME RingInv, NEW l \in ListNames, NEW m \in Mine(l)
  PROVE  next[m] \in Mine(l) /\ \E k \in Mine(l) : next[k] = m
<1>1. head[l] # 0
  BY DEF Mine, RingNodes
<1>2. PICK n, f : n \in Nat /\ Ring(f, n, head[l], next, prev) /\ Mine(l) = On(f, n)
  BY <1>1, MineIs
<1>3. /\ f[0] = head[l] /\ \A a \in 0..n : next[f[a]] = IF a = n THEN f[0] ELSE f[a + 1]
  BY <1>2 DEF Ring
<1>4. PICK a \in 0..n : m = f[a]
  BY <1>2 DEF On
<1>5. next[m] \in Mine(l)
  <2>1. 0 \in 0..n /\ (a # n => a + 1 \in 0..n)
    BY <1>2, <1>4
  <2> QED
    BY <1>2, <1>3, <1>4, <2>1 DEF On
<1>6. \E k \in Mine(l) : next[k] = m
  <2>1. CASE a = 0
    <3>1. n \in 0..n /\ next[f[n]] = m
      BY <1>2, <1>3, <1>4, <2>1
    <3> QED
      BY <1>2, <3>1 DEF On
  <2>2. CASE a # 0
    <3>1. a - 1 \in 0..n /\ next[f[a - 1]] = m
      BY <1>2, <1>3, <1>4, <2>2
    <3> QED
      BY <1>2, <3>1 DEF On
  <2> QED
    BY <2>1, <2>2
<1> QED
  BY <1>5, <1>6

\* Every node is referred to, and by a node of its own list.
LEMMA Supported ==
  ASSUME RingInv, NEW m \in live
  PROVE  \E k \in live : next[k] = m
<1>1. CASE m \in leaked
  BY <1>1 DEF RingInv, RingTypes, Orphans
<1>2. CASE m \notin leaked
  <2>1. PICK l \in ListNames : m \in Mine(l)
    BY <1>2 DEF RingInv, RingsApart
  <2>2. Mine(l) \subseteq live
    BY DEF RingInv, RingsApart
  <2> QED
    BY <2>1, <2>2, MineNext
<1> QED
  BY <1>1, <1>2

LEMMA RefersWithin ==
  ASSUME RingInv, NEW l \in ListNames, NEW k \in live, next[k] \in Mine(l)
  PROVE  k \in Mine(l)
<1>1. k \notin leaked
  <2>1. next[k] \notin leaked
    BY DEF RingInv, RingsApart
  <2> QED
    BY <2>1 DEF RingInv, Orphans
<1>2. PICK o \in ListNames : k \in Mine(o)
  BY <1>1 DEF RingInv, RingsApart
<1>3. next[k] \in Mine(o)
  BY <1>2, MineNext
<1> QED
  BY <1>2, <1>3 DEF RingInv, RingsApart

\* What keeps itself is kept.
LEMMA AllKept ==
  ASSUME NEW ns, NEW nx, NEW hd, \A m \in ns : \E k \in ns : nx[k] = m
  PROVE  Rings!Kept(ns, nx, hd) = ns
<1>1. ns \subseteq Rings!Range(hd) \cup {nx[k] : k \in ns}
  OBVIOUS
<1> QED
  BY <1>1 DEF Rings!Kept

LEMMA OneGoes ==
  ASSUME NEW ns, NEW nx, NEW hd, NEW x \in ns, x \notin Rings!Range(hd),
         \A k \in ns : nx[k] # x,
         \A m \in ns \ {x} : \E k \in ns \ {x} : nx[k] = m
  PROVE  Rings!Kept(ns, nx, hd) = ns \ {x}
<1>1. ns \ {x} \subseteq Rings!Range(hd) \cup {nx[k] : k \in ns \ {x}}
  OBVIOUS
<1>2. ns \ {x} \in {S \in SUBSET ns : S \subseteq Rings!Range(hd) \cup {nx[k] : k \in S}}
  BY <1>1
<1>3. \A S \in SUBSET ns : S \subseteq Rings!Range(hd) \cup {nx[k] : k \in S} => x \notin S
  OBVIOUS
<1> QED
  BY <1>2, <1>3 DEF Rings!Kept

LEMMA NewNode ==
  ASSUME RingInv, Rings!Room
  PROVE  Rings!new \in Rings!Nodes \ live /\ Rings!new # 0
<1>1. Rings!Nodes \ live \subseteq Nat /\ Rings!Nodes \ live # {}
  BY ListConstants DEF Rings!Room
<1>2. \E x \in Rings!Nodes \ live : \A y \in Rings!Nodes \ live : x <= y
  BY <1>1, Least
<1>3. Rings!new \in Rings!Nodes \ live
  BY <1>2 DEF Rings!new, Rings!Min
<1> QED
  BY <1>3, ListConstants

-----------------------------------------------------------------------------
\* What a list that starts at h reads.
Text(h, nx, dt) ==
  IF h = 0 THEN <<>> ELSE [k \in DOMAIN Rings!Walk(h, nx) |-> dt[Rings!Walk(h, nx)[k]]]

LEMMA ContentsNow ==
  /\ \A l : Rings!Contents(l) = Text(head[l], next, data)
  /\ \A l : Rings!Contents(l)' = Text(head'[l], next', data')
  BY DEF Rings!Contents, Text, Rings!null

LEMMA TextIs ==
  ASSUME NEW f, NEW n, NEW h, NEW nx, NEW pv, Ring(f, n, h, nx, pv), NEW dt
  PROVE  Text(h, nx, dt) = [k \in 1..n |-> dt[f[k]]]
<1>1. h # 0
  BY RingNodesAre
<1>2. PICK w : w = Rings!Walk(h, nx)
  OBVIOUS
<1>3. w = [k \in 1..n |-> f[k]]
  BY <1>2, WalkIs
<1>4. DOMAIN w = 1..n /\ \A k \in 1..n : w[k] = f[k]
  BY <1>3
<1> QED
  BY <1>1, <1>2, <1>4 DEF Text

\* An operation on l leaves the others alone, takes what it adds from the
\* nodes that were free, and gives up what it does not leak.
LEMMA RingsStep ==
  ASSUME RingInv, NEW l \in ListNames, NEW D, RingTypes', Orphans',
         \A k \in ListNames \ {l} : head'[k] = head[k],
         \A m \in live \ Mine(l) : next'[m] = next[m] /\ prev'[m] = prev[m] /\ data'[m] = data[m],
         head'[l] # 0 => IsRing(head'[l], next', prev'),
         RingNodes(head'[l], next') = D,
         leaked \subseteq leaked', leaked' \subseteq leaked \cup Mine(l),
         D \cap leaked' = {}, D \cap (live \ Mine(l)) = {},
         live' = (live \ Mine(l)) \cup D \cup leaked'
  PROVE  RingInv' /\ \A k \in ListNames \ {l} : Rings!Contents(k)' = Rings!Contents(k)
<1>1. ASSUME NEW k \in ListNames \ {l}
      PROVE  /\ head'[k] # 0 => IsRing(head'[k], next', prev')
             /\ Mine(k)' = Mine(k) /\ Rings!Contents(k)' = Rings!Contents(k)
  <2>1. head'[k] = head[k] /\ Mine(k)' = RingNodes(head'[k], next')
    BY DEF Mine
  <2>2. CASE head[k] = 0
    BY <2>1, <2>2, ContentsNow DEF Mine, RingNodes, Text
  <2>3. CASE head[k] # 0
    <3>1. PICK n, f : n \in Nat /\ Ring(f, n, head[k], next, prev) /\ Mine(k) = On(f, n)
      BY <2>3, MineIs
    <3>2. Mine(k) \subseteq live \ Mine(l)
      BY DEF RingInv, RingsApart
    <3>3. next'[0] = 0 /\ prev'[0] = 0
      BY DEF RingTypes
    <3>4. Ring(f, n, head[k], next', prev')
      BY <3>1, <3>2, <3>3, RingSame
    <3>5. RingNodes(head[k], next') = On(f, n)
      BY <3>4, RingNodesAre
    <3>6. /\ Text(head[k], next, data) = [a \in 1..n |-> data[f[a]]]
          /\ Text(head[k], next', data') = [a \in 1..n |-> data'[f[a]]]
      BY <3>1, <3>4, TextIs
    <3>7. \A a \in 1..n : data'[f[a]] = data[f[a]]
      <4>1. \A a \in 1..n : f[a] \in On(f, n)
        BY DEF On
      <4> QED
        BY <3>1, <3>2, <4>1
    <3>8. Rings!Contents(k)' = Rings!Contents(k)
      BY <2>1, <3>6, <3>7, ContentsNow
    <3>9. IsRing(head[k], next', prev')
      BY <3>1, <3>4 DEF IsRing
    <3> QED
      BY <2>1, <3>1, <3>5, <3>8, <3>9
  <2> QED
    BY <2>2, <2>3
<1>2. Mine(l)' = D
  BY DEF Mine
<1>3. \A k \in ListNames \ {l} : Mine(k) \subseteq live \ leaked /\ Mine(k) \cap Mine(l) = {}
  BY DEF RingInv, RingsApart
<1>4. RingsApart'
  <2>1. \A k \in ListNames : head'[k] # 0 => IsRing(head'[k], next', prev')
    BY <1>1
  <2>2. \A k \in ListNames : Mine(k)' \subseteq live' \ leaked'
    BY <1>1, <1>2, <1>3
  <2>3. \A o, k \in ListNames : o # k => Mine(o)' \cap Mine(k)' = {}
    <3>1. \A k \in ListNames \ {l} : Mine(k)' \cap Mine(l)' = {}
      BY <1>1, <1>2, <1>3
    <3>2. \A o, k \in ListNames \ {l} : o # k => Mine(o)' \cap Mine(k)' = {}
      BY <1>1 DEF RingInv, RingsApart
    <3> QED
      BY <3>1, <3>2
  <2>4. \A m \in live' \ leaked' : \E k \in ListNames : m \in Mine(k)'
    <3> SUFFICES ASSUME NEW m \in live' \ leaked', m \notin D
                 PROVE  \E k \in ListNames : m \in Mine(k)'
      BY <1>2
    <3>1. m \in live \ leaked /\ m \notin Mine(l)
      OBVIOUS
    <3>2. PICK k \in ListNames : m \in Mine(k)
      BY <3>1 DEF RingInv, RingsApart
    <3> QED
      BY <1>1, <3>1, <3>2
  <2> QED
    BY <2>1, <2>2, <2>3, <2>4 DEF RingsApart
<1> QED
  BY <1>1, <1>4 DEF RingInv

-----------------------------------------------------------------------------
(* The operations *)

LEMMA ListChanges ==
  ASSUME NEW l \in ListNames, NEW s, Rings!Contents(l)' = s,
         \A k \in ListNames \ {l} : Rings!Contents(k)' = Rings!Contents(k)
  PROVE  ListIs' = [ListIs EXCEPT ![l] = s]
  BY DEF ListIs

\* Link leaves the nodes that stay with the links that they are given.
Links(nx, ns) == [m \in 0..MaxNodes |-> IF m \in ns THEN nx[m] ELSE 0]

LEMMA LinksAre ==
  ASSUME NEW ns \in SUBSET Rings!Nodes, NEW nx \in [0..MaxNodes -> 0..MaxNodes]
  PROVE  /\ Links(nx, ns) \in [0..MaxNodes -> 0..MaxNodes] /\ Links(nx, ns)[0] = 0
         /\ \A m \in ns : Links(nx, ns)[m] = nx[m]
  BY ListConstants DEF Links

LEMMA LinkIs ==
  ASSUME RingInv
  PROVE  \A ns, nx, pv : Rings!Link(ns, nx, pv) =>
            /\ live' = Rings!Kept(ns, nx, head')
            /\ next' = Links(nx, live') /\ prev' = Links(pv, live')
<1>1. DOMAIN next = 0..MaxNodes /\ DOMAIN prev = 0..MaxNodes
  BY DEF RingInv, RingTypes
<1> QED
  BY <1>1 DEF Rings!Link, Rings!null, Links

LEMMA ListConstructInv ==
  ASSUME RingInv, NEW l \in ListNames, Rings!Construct(l)
  PROVE  RingInv' /\ Rings!Store!Create(l)
<1>1. PICK x, nx, pv : /\ x = Rings!new /\ nx = [next EXCEPT ![x] = x]
                       /\ pv = [prev EXCEPT ![x] = x]
  OBVIOUS
<1>2. /\ head[l] = 0 /\ head' = [head EXCEPT ![l] = x] /\ Rings!Link(live \cup {x}, nx, pv)
      /\ data' = [data EXCEPT ![x] = 0] /\ leaked' = leaked
  BY <1>1 DEF Rings!Construct, Rings!null
<1>3. x \in 1..MaxNodes /\ x \notin live /\ x \in 0..MaxNodes /\ x # 0 /\ MaxNodes \in Nat
  BY <1>1, NewNode, ListConstants DEF Rings!Construct
<1>4. /\ live \subseteq 1..MaxNodes /\ leaked \subseteq live
      /\ next \in [0..MaxNodes -> 0..MaxNodes] /\ prev \in [0..MaxNodes -> 0..MaxNodes]
      /\ head \in [ListNames -> 0..MaxNodes] /\ data \in [0..MaxNodes -> Datum]
  BY ListConstants DEF RingInv, RingTypes
<1>5. /\ nx \in [0..MaxNodes -> 0..MaxNodes] /\ pv \in [0..MaxNodes -> 0..MaxNodes]
      /\ nx[x] = x /\ pv[x] = x
      /\ \A m \in live : nx[m] = next[m] /\ pv[m] = prev[m]
  <2>1. \A m \in live : m \in 0..MaxNodes /\ m # x
    BY <1>3, <1>4
  <2>2. nx \in [0..MaxNodes -> 0..MaxNodes] /\ nx[x] = x /\ \A m \in live : nx[m] = next[m]
    BY <1>1, <1>3, <1>4, <2>1
  <2>3. pv \in [0..MaxNodes -> 0..MaxNodes] /\ pv[x] = x /\ \A m \in live : pv[m] = prev[m]
    BY <1>1, <1>3, <1>4, <2>1
  <2> QED
    BY <2>2, <2>3
<1>6. PICK ns : ns = live \cup {x}
  OBVIOUS
<1>7. /\ live' = Rings!Kept(ns, nx, head')
         /\ next' = Links(nx, live') /\ prev' = Links(pv, live')
  BY <1>2, <1>6, LinkIs
<1>8. live' = ns /\ ns \in SUBSET Rings!Nodes
  <2>1. \A m \in ns : \E k \in ns : nx[k] = m
    BY <1>5, <1>6, Supported
  <2>2. Rings!Kept(ns, nx, head') = ns
    BY <2>1, AllKept
  <2> QED
    BY <1>3, <1>4, <1>6, <1>7, <2>2, ListConstants
<1>9. /\ next' \in [0..MaxNodes -> 0..MaxNodes] /\ prev' \in [0..MaxNodes -> 0..MaxNodes]
      /\ next'[0] = 0 /\ prev'[0] = 0
      /\ \A m \in ns : next'[m] = nx[m] /\ prev'[m] = pv[m]
  <2>1. nx \in [0..MaxNodes -> 0..MaxNodes] /\ pv \in [0..MaxNodes -> 0..MaxNodes]
    BY <1>5
  <2> QED
    BY <1>8, <1>7, <2>1, LinksAre
<1>10. Mine(l) = {}
  BY <1>2 DEF Mine, RingNodes
<1>11. RingTypes'
  BY <1>2, <1>3, <1>4, <1>8, <1>9, <1>6, ListConstants DEF RingTypes, Datum
<1>12. Orphans'
  <2>1. \A m \in leaked : next'[m] = next[m]
    BY <1>4, <1>5, <1>9, <1>6
  <2> QED
    BY <1>2, <2>1 DEF RingInv, Orphans
<1>13. PICK f : f = [a \in 0..0 |-> x]
  OBVIOUS
<1>14. head'[l] = x /\ Ring(f, 0, head'[l], next', prev') /\ On(f, 0) = {x}
  <2>1. head'[l] = x /\ \A a \in 0..0 : a = 0
    BY <1>2, <1>4
  <2>2. Ring(f, 0, x, next', prev')
    BY <1>3, <1>5, <1>9, <1>6, <1>13, <2>1, ListConstants DEF Ring
  <2>3. On(f, 0) = {x}
    BY <1>13, <2>1 DEF On
  <2> QED
    BY <2>1, <2>2, <2>3
<1>15. IsRing(head'[l], next', prev') /\ RingNodes(head'[l], next') = {x}
  <2>1. 0 \in Nat
    OBVIOUS
  <2>2. IsRing(head'[l], next', prev')
    BY <1>14, <2>1 DEF IsRing
  <2> QED
    BY <1>14, <2>2, RingNodesAre
<1>16. RingInv' /\ \A k \in ListNames \ {l} : Rings!Contents(k)' = Rings!Contents(k)
  <2>1. \A k \in ListNames \ {l} : head'[k] = head[k]
    BY <1>2, <1>4
  <2>2. \A m \in live \ Mine(l) : next'[m] = next[m] /\ prev'[m] = prev[m] /\ data'[m] = data[m]
    BY <1>2, <1>3, <1>4, <1>5, <1>9, <1>6
  <2>3. /\ leaked \subseteq leaked' /\ leaked' \subseteq leaked \cup Mine(l)
        /\ {x} \cap leaked' = {} /\ {x} \cap (live \ Mine(l)) = {}
        /\ live' = (live \ Mine(l)) \cup {x} \cup leaked'
    BY <1>2, <1>3, <1>4, <1>8, <1>10, <1>6
  <2> QED
    BY <1>11, <1>12, <1>15, <2>1, <2>2, <2>3, RingsStep
<1>17. Rings!Contents(l)' = <<>>
  <2>1. Rings!Contents(l)' = [k \in 1..0 |-> data'[f[k]]]
    BY <1>14, TextIs, ContentsNow
  <2> QED
    BY <2>1
<1>18. Rings!Alive' = Rings!Alive \cup {l} /\ l \notin Rings!Alive
  BY <1>2, <1>3, <1>4 DEF Rings!Alive, Rings!null
<1> QED
  BY <1>16, <1>17, <1>18, ListChanges DEF ListIs, Rings!Store!Create, Rings!Store!Begin

\* A free node leaves room for a longer ring.
LEMMA RingRoom ==
  ASSUME NEW f, NEW n, NEW h, NEW nx, NEW pv, Ring(f, n, h, nx, pv),
         NEW x \in Rings!Nodes, x \notin On(f, n)
  PROVE  n + 1 \in 0..MaxNodes - 1
<1> DEFINE e == [a \in 0..n + 1 |-> IF a = n + 1 THEN x ELSE f[a]]
<1>1. n \in Nat /\ n <= MaxNodes - 1 /\ MaxNodes \in Nat /\ Rings!Nodes = 1..MaxNodes
  BY ListConstants DEF Ring
<1>2. \A a \in 0..n : f[a] \in Rings!Nodes /\ f[a] # x /\ e[a] = f[a]
  BY <1>1 DEF Ring, On
<1>3. e[n + 1] = x /\ \A a \in 0..n + 1 : a \in 0..n \/ a = n + 1
  BY <1>1
<1>4. e \in [0..n + 1 -> Rings!Nodes]
  BY <1>2, <1>3
<1>5. \A a, b \in 0..n : e[a] = e[b] => a = b
  BY <1>2 DEF Ring
<1> HIDE DEF e
<1>6. \A a, b \in 0..n + 1 : e[a] = e[b] => a = b
  BY <1>2, <1>3, <1>5
<1>7. e \in Injection(0..n + 1, Rings!Nodes)
  BY <1>4, <1>6 DEF Injection, IsInjective
<1>8. Cardinality(0..n + 1) = n + 2 /\ IsFiniteSet(0..n + 1)
  BY <1>1, FS_Interval
<1>9. Cardinality(Rings!Nodes) = MaxNodes /\ IsFiniteSet(Rings!Nodes)
  BY <1>1, FS_Interval
<1>10. Cardinality(0..n + 1) <= Cardinality(Rings!Nodes)
  BY <1>7, <1>8, <1>9, FS_Injection
<1> QED
  BY <1>1, <1>8, <1>9, <1>10

\* What the operations on the list l know of its ring.
LEMMA RingFacts ==
  ASSUME NEW f, NEW n, NEW h, NEW nx, NEW pv, Ring(f, n, h, nx, pv)
  PROVE  /\ n \in Nat /\ n \in 0..MaxNodes - 1 /\ f[0] = h /\ f[n] \in On(f, n) /\ h \in On(f, n)
         /\ f = [a \in 0..n |-> f[a]] /\ pv[h] = f[n] /\ nx[f[n]] = h
         /\ \A a \in 0..n : f[a] \in On(f, n) /\ f[a] \in 1..MaxNodes
         /\ \A a, b \in 0..n : f[a] = f[b] => a = b
         /\ \A a \in 0..n : a # n => nx[f[a]] = f[a + 1]
         /\ \A a \in 0..n : a # 0 => pv[f[a]] = f[a - 1]
<1>1. n \in Nat /\ n \in 0..MaxNodes - 1 /\ 0 \in 0..n /\ n \in 0..n
  BY ListConstants DEF Ring
<1>2. \A a \in 0..n : f[a] \in On(f, n)
  BY DEF On
<1> QED
  BY <1>1, <1>2, ListConstants DEF Ring

\* A new node behind the last.
LEMMA RingLonger ==
  ASSUME NEW f, NEW n, NEW h, NEW nx, NEW pv, Ring(f, n, h, nx, pv),
         NEW x \in Rings!Nodes, x \notin On(f, n), NEW ny, NEW py,
         ny[0] = 0, py[0] = 0, ny[f[n]] = x, ny[x] = h, py[x] = f[n], py[h] = x,
         \A m \in On(f, n) : m # f[n] => ny[m] = nx[m],
         \A m \in On(f, n) : m # h => py[m] = pv[m]
  PROVE  \E g : /\ Ring(g, n + 1, h, ny, py) /\ On(g, n + 1) = On(f, n) \cup {x}
                /\ g[n + 1] = x /\ \A a \in 0..n : g[a] = f[a]
<1>1. n + 1 \in 0..MaxNodes - 1
  BY RingRoom
<1>2. /\ n \in Nat /\ f[0] = h /\ h \in On(f, n) /\ f[n] \in On(f, n)
      /\ \A a \in 0..n : f[a] \in On(f, n) /\ f[a] \in 1..MaxNodes
      /\ \A a, b \in 0..n : f[a] = f[b] => a = b
      /\ \A a \in 0..n : a # n => nx[f[a]] = f[a + 1]
      /\ \A a \in 0..n : a # 0 => pv[f[a]] = f[a - 1]
  BY RingFacts
<1>3. PICK g : g = [a \in 0..n + 1 |-> IF a = n + 1 THEN x ELSE f[a]]
  OBVIOUS
<1>4. /\ g[n + 1] = x /\ \A a \in 0..n : g[a] = f[a] /\ a # n + 1
      /\ \A a \in 0..n + 1 : a \in 0..n \/ a = n + 1
  BY <1>2, <1>3
<1>5. g \in [0..n + 1 -> Rings!Nodes] /\ g[0] = h
  <2>1. \A a \in 0..n + 1 : g[a] \in Rings!Nodes
    BY <1>2, <1>4, ListConstants
  <2>2. g[0] = f[0]
    BY <1>2, <1>4
  <2> QED
    BY <1>2, <1>3, <2>1, <2>2
<1>6. \A a, b \in 0..n + 1 : g[a] = g[b] => a = b
  BY <1>2, <1>4
<1>7. ASSUME NEW a \in 0..n + 1
      PROVE  ny[g[a]] = IF a = n + 1 THEN h ELSE g[a + 1]
  <2>1. CASE a = n + 1
    BY <1>4, <2>1
  <2>2. CASE a = n
    <3>1. a # n + 1 /\ g[a] = f[n] /\ g[a + 1] = x
      BY <1>2, <1>4, <2>2
    <3> QED
      BY <3>1
  <2>3. CASE a # n /\ a # n + 1
    <3>1. a \in 0..n /\ a + 1 \in 0..n /\ n \in 0..n
      BY <1>2, <2>3
    <3>2. f[a] # f[n] /\ ny[f[a]] = nx[f[a]] /\ nx[f[a]] = f[a + 1]
      BY <1>2, <2>3, <3>1
    <3> QED
      BY <1>4, <2>3, <3>1, <3>2
  <2> QED
    BY <2>1, <2>2, <2>3
<1>8. ASSUME NEW a \in 0..n + 1
      PROVE  py[g[a]] = IF a = 0 THEN g[n + 1] ELSE g[a - 1]
  <2>1. CASE a = 0
    BY <1>4, <1>5, <2>1
  <2>2. CASE a = n + 1
    <3>1. a # 0 /\ a - 1 = n /\ g[n] = f[n] /\ g[a] = x
      BY <1>2, <1>4, <2>2
    <3> QED
      BY <3>1
  <2>3. CASE a # 0 /\ a # n + 1
    <3>1. a \in 0..n /\ a - 1 \in 0..n /\ 0 \in 0..n
      BY <1>2, <2>3
    <3>2. f[a] # h /\ py[f[a]] = pv[f[a]] /\ pv[f[a]] = f[a - 1]
      BY <1>2, <2>3, <3>1
    <3> QED
      BY <1>4, <2>3, <3>1, <3>2
  <2> QED
    BY <2>1, <2>2, <2>3
<1>9. Ring(g, n + 1, h, ny, py)
  BY <1>1, <1>5, <1>6, <1>7, <1>8 DEF Ring
<1>10. On(g, n + 1) = On(f, n) \cup {x}
  <2>1. On(g, n + 1) \subseteq On(f, n) \cup {x}
    BY <1>2, <1>4 DEF On
  <2>2. \A a \in 0..n : a \in 0..n + 1
    BY <1>2
  <2>3. n + 1 \in 0..n + 1
    BY <1>2
  <2>4. On(f, n) \cup {x} \subseteq On(g, n + 1)
    BY <1>4, <2>2, <2>3 DEF On
  <2> QED
    BY <2>1, <2>4
<1> QED
  BY <1>4, <1>9, <1>10

\* Without the last node.
LEMMA RingShorter ==
  ASSUME NEW f, NEW n, NEW h, NEW nx, NEW pv, Ring(f, n, h, nx, pv), n # 0,
         NEW ny, NEW py,
         ny[0] = 0, py[0] = 0, ny[f[n - 1]] = h, py[h] = f[n - 1],
         \A m \in On(f, n) : m # f[n - 1] /\ m # f[n] => ny[m] = nx[m],
         \A m \in On(f, n) : m # h /\ m # f[n] => py[m] = pv[m]
  PROVE  \E g : /\ Ring(g, n - 1, h, ny, py) /\ On(g, n - 1) = On(f, n) \ {f[n]}
                /\ \A a \in 0..n - 1 : g[a] = f[a]
<1>1. /\ n \in Nat /\ n \in 0..MaxNodes - 1 /\ f[0] = h /\ h \in On(f, n) /\ f[n] \in On(f, n)
      /\ \A a \in 0..n : f[a] \in On(f, n) /\ f[a] \in 1..MaxNodes
      /\ \A a, b \in 0..n : f[a] = f[b] => a = b
      /\ \A a \in 0..n : a # n => nx[f[a]] = f[a + 1]
      /\ \A a \in 0..n : a # 0 => pv[f[a]] = f[a - 1]
  BY RingFacts
<1>2. PICK g : g = [a \in 0..n - 1 |-> f[a]]
  OBVIOUS
<1>3. n - 1 \in Nat /\ n - 1 \in 0..MaxNodes - 1 /\ \A a \in 0..n - 1 : a \in 0..n /\ a # n
  BY <1>1, ListConstants
<1>4. g \in [0..n - 1 -> Rings!Nodes] /\ g[0] = h /\ \A a \in 0..n - 1 : g[a] = f[a]
  BY <1>1, <1>2, <1>3, ListConstants
<1>5. \A a, b \in 0..n - 1 : g[a] = g[b] => a = b
  BY <1>1, <1>3, <1>4
<1>6. ASSUME NEW a \in 0..n - 1
      PROVE  ny[g[a]] = IF a = n - 1 THEN h ELSE g[a + 1]
  <2>1. CASE a = n - 1
    BY <1>4, <2>1
  <2>2. CASE a # n - 1
    <3>1. a \in 0..n /\ a # n /\ a + 1 \in 0..n - 1 /\ n - 1 \in 0..n /\ n \in 0..n
      BY <1>1, <1>3, <2>2
    <3>2. f[a] # f[n - 1] /\ f[a] # f[n] /\ f[a] \in On(f, n) /\ nx[f[a]] = f[a + 1]
      BY <1>1, <2>2, <3>1
    <3>3. ny[f[a]] = f[a + 1] /\ g[a] = f[a] /\ g[a + 1] = f[a + 1]
      BY <1>4, <3>1, <3>2
    <3> QED
      BY <2>2, <3>3
  <2> QED
    BY <2>1, <2>2
<1>7. ASSUME NEW a \in 0..n - 1
      PROVE  py[g[a]] = IF a = 0 THEN g[n - 1] ELSE g[a - 1]
  <2>1. CASE a = 0
    <3>1. g[n - 1] = f[n - 1]
      BY <1>3, <1>4
    <3> QED
      BY <1>4, <2>1, <3>1
  <2>2. CASE a # 0
    <3>1. a \in 0..n /\ a # n /\ a - 1 \in 0..n - 1 /\ 0 \in 0..n /\ n \in 0..n
      BY <1>1, <1>3, <2>2
    <3>2. f[a] # h /\ f[a] # f[n] /\ f[a] \in On(f, n) /\ pv[f[a]] = f[a - 1]
      BY <1>1, <2>2, <3>1
    <3>3. py[f[a]] = f[a - 1] /\ g[a] = f[a] /\ g[a - 1] = f[a - 1]
      BY <1>4, <3>1, <3>2
    <3> QED
      BY <2>2, <3>3
  <2> QED
    BY <2>1, <2>2
<1>8. Ring(g, n - 1, h, ny, py)
  BY <1>3, <1>4, <1>5, <1>6, <1>7 DEF Ring
<1>9. On(g, n - 1) = On(f, n) \ {f[n]}
  <2>1. n \in 0..n /\ \A a \in 0..n : a # n => a \in 0..n - 1
    BY <1>1
  <2>2. On(g, n - 1) \subseteq On(f, n) \ {f[n]}
    <3> SUFFICES ASSUME NEW a \in 0..n - 1
                 PROVE  g[a] \in On(f, n) \ {f[n]}
      BY DEF On
    <3>1. a \in 0..n /\ a # n /\ g[a] = f[a]
      BY <1>3, <1>4
    <3> QED
      BY <1>1, <2>1, <3>1
  <2>3. On(f, n) \ {f[n]} \subseteq On(g, n - 1)
    BY <1>4, <2>1 DEF On
  <2> QED
    BY <2>2, <2>3
<1> QED
  BY <1>4, <1>8, <1>9

LEMMA ListPushInv ==
  ASSUME RingInv, NEW l \in ListNames, NEW v \in Elements, Rings!PushBack(l, v)
  PROVE  RingInv' /\ Rings!Store!Push(l)
<1>1. PICK h, x, b, ns, nx, pv :
        /\ h = head[l] /\ x = Rings!new /\ b = prev[h] /\ ns = live \cup {x}
        /\ nx = [next EXCEPT ![b] = x, ![x] = h] /\ pv = [prev EXCEPT ![x] = b, ![h] = x]
  OBVIOUS
<1>2. /\ h # 0 /\ head' = head /\ leaked' = leaked /\ data' = [data EXCEPT ![x] = v]
      /\ live' = Rings!Kept(ns, nx, head')
      /\ next' = Links(nx, live') /\ prev' = Links(pv, live')
  <2>1. /\ h # 0 /\ head' = head /\ leaked' = leaked /\ data' = [data EXCEPT ![x] = v]
        /\ Rings!Link(ns, nx, pv)
    BY <1>1 DEF Rings!PushBack, Rings!null
  <2> QED
    BY <2>1, LinkIs
<1>3. PICK n, f : n \in Nat /\ Ring(f, n, h, next, prev) /\ Mine(l) = On(f, n)
  BY <1>1, <1>2, MineIs
<1>4. /\ f[0] = h /\ h \in On(f, n) /\ f[n] \in On(f, n) /\ f[n] = b /\ next[b] = h
  BY <1>1, <1>3, RingFacts
<1>5. On(f, n) \subseteq live \ leaked
  BY <1>3 DEF RingInv, RingsApart
<1>6. /\ x \in 1..MaxNodes /\ x \notin live /\ x \in 0..MaxNodes /\ x # 0 /\ MaxNodes \in Nat
      /\ Rings!Nodes = 1..MaxNodes
  BY <1>1, NewNode, ListConstants DEF Rings!PushBack
<1>7. /\ live \subseteq 1..MaxNodes /\ leaked \subseteq live
      /\ next \in [0..MaxNodes -> 0..MaxNodes] /\ prev \in [0..MaxNodes -> 0..MaxNodes]
      /\ next[0] = 0 /\ prev[0] = 0 /\ data \in [0..MaxNodes -> Datum]
  BY ListConstants DEF RingInv, RingTypes
<1>8. h \in 0..MaxNodes /\ b \in 0..MaxNodes /\ h # x /\ b # x /\ b # 0
  <2>1. h \in live /\ b \in live
    BY <1>4, <1>5
  <2>2. h \in 1..MaxNodes /\ b \in 1..MaxNodes
    BY <1>7, <2>1
  <2> QED
    BY <1>6, <2>1, <2>2
<1>9. \A m \in live : m \in 0..MaxNodes /\ m # x
  BY <1>6, <1>7
<1>10. /\ nx \in [0..MaxNodes -> 0..MaxNodes] /\ nx[b] = x /\ nx[x] = h
       /\ \A m \in live : m # b => nx[m] = next[m]
  BY <1>1, <1>6, <1>7, <1>8, <1>9
<1>11. /\ pv \in [0..MaxNodes -> 0..MaxNodes] /\ pv[h] = x /\ pv[x] = b
       /\ \A m \in live : m # h => pv[m] = prev[m]
  BY <1>1, <1>6, <1>7, <1>8, <1>9
<1>12. live' = ns /\ ns \in SUBSET Rings!Nodes
  <2>1. ASSUME NEW m \in ns
        PROVE  \E k \in ns : nx[k] = m
    <3>1. CASE m = x
      BY <1>1, <1>4, <1>5, <1>10, <3>1
    <3>2. CASE m = h
      BY <1>1, <1>10, <3>2
    <3>3. CASE m # x /\ m # h
      <4>1. PICK k \in live : next[k] = m
        BY <1>1, <3>3, Supported
      <4>2. k # b /\ k \in ns
        BY <1>1, <1>4, <3>3, <4>1
      <4> QED
        BY <1>10, <4>1, <4>2
    <3> QED
      BY <3>1, <3>2, <3>3
  <2>2. Rings!Kept(ns, nx, head') = ns
    BY <2>1, AllKept
  <2> QED
    BY <1>1, <1>2, <1>6, <1>7, <2>2
<1>13. /\ next' \in [0..MaxNodes -> 0..MaxNodes] /\ next'[0] = 0
       /\ \A m \in ns : next'[m] = nx[m]
  <2>1. nx \in [0..MaxNodes -> 0..MaxNodes] /\ next' = Links(nx, ns)
    BY <1>2, <1>10, <1>12
  <2> QED
    BY <1>12, <2>1, LinksAre
<1>14. /\ prev' \in [0..MaxNodes -> 0..MaxNodes] /\ prev'[0] = 0
       /\ \A m \in ns : prev'[m] = pv[m]
  <2>1. pv \in [0..MaxNodes -> 0..MaxNodes] /\ prev' = Links(pv, ns)
    BY <1>2, <1>11, <1>12
  <2> QED
    BY <1>12, <2>1, LinksAre
<1>15. \A m \in live : m \in ns /\ (m # b => next'[m] = next[m]) /\ (m # h => prev'[m] = prev[m])
  <2>1. live \subseteq ns
    BY <1>1
  <2> QED
    BY <1>10, <1>11, <1>13, <1>14, <2>1
<1>16. next'[b] = x /\ next'[x] = h /\ prev'[x] = b /\ prev'[h] = x
  BY <1>1, <1>4, <1>5, <1>10, <1>11, <1>13, <1>14
<1>17. PICK g : /\ Ring(g, n + 1, h, next', prev') /\ On(g, n + 1) = On(f, n) \cup {x}
                /\ g[n + 1] = x /\ \A a \in 0..n : g[a] = f[a]
  <2>1. PICK ny, py : ny = next' /\ py = prev'
    OBVIOUS
  <2>2. x \in Rings!Nodes /\ x \notin On(f, n)
    BY <1>5, <1>6
  <2>3. ny[0] = 0 /\ py[0] = 0 /\ ny[f[n]] = x /\ ny[x] = h /\ py[x] = f[n] /\ py[h] = x
    BY <1>4, <1>13, <1>14, <1>16, <2>1
  <2>4. \A m \in On(f, n) : m # f[n] => ny[m] = next[m]
    BY <1>4, <1>5, <1>15, <2>1
  <2>5. \A m \in On(f, n) : m # h => py[m] = prev[m]
    BY <1>5, <1>15, <2>1
  <2>6. \E g : /\ Ring(g, n + 1, h, ny, py) /\ On(g, n + 1) = On(f, n) \cup {x}
               /\ g[n + 1] = x /\ \A a \in 0..n : g[a] = f[a]
    BY <1>3, <2>2, <2>3, <2>4, <2>5, RingLonger
  <2> QED
    BY <2>1, <2>6
<1>18. RingTypes'
  <2>1. data' \in [0..MaxNodes -> Datum] /\ leaked' \subseteq live' /\ live' \subseteq Rings!Nodes
    BY <1>1, <1>2, <1>6, <1>7, <1>12, ListConstants DEF Datum
  <2>2. head' \in [ListNames -> 0..MaxNodes]
    BY <1>2 DEF RingInv, RingTypes
  <2> QED
    BY <1>13, <1>14, <2>1, <2>2 DEF RingTypes
<1>19. Orphans'
  <2>1. \A m \in leaked : next'[m] = next[m]
    BY <1>4, <1>5, <1>7, <1>15
  <2> QED
    BY <1>2, <2>1 DEF RingInv, Orphans
<1>20. RingInv' /\ \A k \in ListNames \ {l} : Rings!Contents(k)' = Rings!Contents(k)
  <2>1. PICK D : D = On(f, n) \cup {x}
    OBVIOUS
  <2>2. head'[l] = h /\ RingNodes(head'[l], next') = D /\ IsRing(head'[l], next', prev')
    <3>1. head'[l] = h /\ n + 1 \in Nat
      BY <1>1, <1>2, <1>3
    <3> QED
      BY <1>17, <2>1, <3>1, RingNodesAre DEF IsRing
  <2>3. \A k \in ListNames \ {l} : head'[k] = head[k]
    BY <1>2
  <2>4. \A m \in live \ Mine(l) : next'[m] = next[m] /\ prev'[m] = prev[m] /\ data'[m] = data[m]
    <3>1. \A m \in live : data'[m] = data[m]
      BY <1>2, <1>7, <1>9
    <3> QED
      BY <1>3, <1>4, <1>15, <3>1
  <2>5. /\ leaked \subseteq leaked' /\ leaked' \subseteq leaked \cup Mine(l)
        /\ D \cap leaked' = {} /\ D \cap (live \ Mine(l)) = {}
        /\ live' = (live \ Mine(l)) \cup D \cup leaked'
    BY <1>1, <1>2, <1>3, <1>5, <1>6, <1>7, <1>12, <2>1
  <2> QED
    BY <1>18, <1>19, <2>2, <2>3, <2>4, <2>5, RingsStep
<1>21. Rings!Contents(l)' = Append(Rings!Contents(l), v)
  <2>1. PICK s, t : s = Rings!Contents(l) /\ t = Rings!Contents(l)'
    OBVIOUS
  <2>2. s = [k \in 1..n |-> data[f[k]]]
    BY <1>1, <1>3, <2>1, TextIs, ContentsNow
  <2>3. t = [k \in 1..n + 1 |-> data'[g[k]]]
    <3>1. head'[l] = h
      BY <1>1, <1>2
    <3> QED
      BY <1>17, <2>1, <3>1, TextIs, ContentsNow
  <2>4. \A k \in 1..n : g[k] = f[k] /\ f[k] \in 0..MaxNodes /\ f[k] # x
    BY <1>3, <1>5, <1>6, <1>17, RingFacts
  <2>5. \A k \in 1..n : data'[g[k]] = data[f[k]] /\ data[f[k]] \in Datum
    BY <1>2, <1>7, <2>4
  <2>6. data'[g[n + 1]] = v
    BY <1>2, <1>6, <1>7, <1>17
  <2>7. s \in Seq(Datum) /\ Len(s) = n
    <3>1. s \in [1..n -> Datum]
      BY <2>2, <2>5
    <3>2. s \in Seq(Datum)
      BY <1>3, <3>1, SeqDef
    <3> QED
      BY <1>3, <2>2, <3>2, LenProperties
  <2>8. v \in Datum
    BY DEF Datum
  <2>9. /\ Append(s, v) \in Seq(Datum) /\ Len(Append(s, v)) = n + 1 /\ Append(s, v)[n + 1] = v
        /\ \A k \in 1..n : Append(s, v)[k] = s[k]
    BY <2>7, <2>8, AppendProperties
  <2>10. Append(s, v) = [k \in 1..n + 1 |-> Append(s, v)[k]]
    BY <2>9, LenProperties
  <2>11. ASSUME NEW k \in 1..n + 1
         PROVE  t[k] = Append(s, v)[k]
    <3>1. CASE k = n + 1
      BY <2>3, <2>6, <2>9, <3>1
    <3>2. CASE k # n + 1
      <4>1. k \in 1..n
        BY <1>3, <3>2
      <4> QED
        BY <2>2, <2>3, <2>5, <2>9, <4>1
    <3> QED
      BY <3>1, <3>2
  <2>12. t = [k \in 1..n + 1 |-> t[k]]
    BY <2>3
  <2> QED
    BY <2>1, <2>10, <2>11, <2>12
<1>22. Rings!Alive' = Rings!Alive /\ l \in Rings!Alive
  BY <1>1, <1>2 DEF Rings!Alive, Rings!null
<1>23. ListIs' = [ListIs EXCEPT ![l] = Append(ListIs[l], v)]
  <2>1. ListIs[l] = Rings!Contents(l)
    BY DEF ListIs
  <2> QED
    BY <1>20, <1>21, <2>1, ListChanges
<1> QED
  BY <1>20, <1>22, <1>23 DEF ListIs, Rings!Store!Push, Rings!Store!Change

LEMMA ListPopInv ==
  ASSUME RingInv, NEW l \in ListNames, Rings!PopBack(l)
  PROVE  RingInv' /\ Rings!Store!Pop(l)
<1>1. PICK h, b, c, nx, pv :
        /\ h = head[l] /\ b = prev[h] /\ c = prev[b]
        /\ nx = [next EXCEPT ![c] = h] /\ pv = [prev EXCEPT ![h] = c]
  OBVIOUS
<1>2. /\ h # 0 /\ b # h /\ head' = head /\ leaked' = leaked /\ data' = data
      /\ live' = Rings!Kept(live, nx, head')
      /\ next' = Links(nx, live') /\ prev' = Links(pv, live')
  <2>1. /\ h # 0 /\ b # h /\ head' = head /\ leaked' = leaked /\ data' = data
        /\ Rings!Link(live, nx, pv)
    BY <1>1 DEF Rings!PopBack, Rings!null
  <2> QED
    BY <2>1, LinkIs
<1>3. PICK n, f : n \in Nat /\ Ring(f, n, h, next, prev) /\ Mine(l) = On(f, n)
  BY <1>1, <1>2, MineIs
<1>4. /\ f[0] = h /\ h \in On(f, n) /\ b \in On(f, n) /\ f[n] = b /\ next[b] = h /\ n # 0
      /\ c = f[n - 1] /\ c \in On(f, n) /\ c # b /\ next[c] = b
  <2>1. f[0] = h /\ h \in On(f, n) /\ f[n] \in On(f, n) /\ f[n] = b /\ next[b] = h
    BY <1>1, <1>3, RingFacts
  <2>2. n # 0 /\ n \in 0..n /\ n - 1 \in 0..n /\ n - 1 # n /\ n - 1 + 1 = n
    BY <1>2, <1>3, <2>1
  <2>3. prev[f[n]] = f[n - 1] /\ next[f[n - 1]] = f[n] /\ f[n - 1] \in On(f, n) /\ f[n - 1] # f[n]
    <3>1. /\ \A a \in 0..n : f[a] \in On(f, n)
          /\ \A a, d \in 0..n : f[a] = f[d] => a = d
          /\ \A a \in 0..n : a # n => next[f[a]] = f[a + 1]
          /\ \A a \in 0..n : a # 0 => prev[f[a]] = f[a - 1]
      BY <1>3, RingFacts
    <3> QED
      BY <2>2, <3>1
  <2> QED
    BY <1>1, <2>1, <2>2, <2>3
<1>5. On(f, n) \subseteq live \ leaked
  BY <1>3 DEF RingInv, RingsApart
<1>6. /\ live \subseteq 1..MaxNodes /\ leaked \subseteq live /\ Rings!Nodes = 1..MaxNodes
      /\ next \in [0..MaxNodes -> 0..MaxNodes] /\ prev \in [0..MaxNodes -> 0..MaxNodes]
      /\ next[0] = 0 /\ prev[0] = 0 /\ MaxNodes \in Nat
  BY ListConstants DEF RingInv, RingTypes
<1>7. h \in 0..MaxNodes /\ b \in 0..MaxNodes /\ c \in 0..MaxNodes
  <2>1. h \in 1..MaxNodes /\ b \in 1..MaxNodes /\ c \in 1..MaxNodes
    BY <1>4, <1>5, <1>6
  <2> QED
    BY <1>6, <2>1
<1>8. \A m \in live : m \in 0..MaxNodes
  BY <1>6
<1>9. /\ nx \in [0..MaxNodes -> 0..MaxNodes] /\ nx[c] = h
      /\ \A m \in live : m # c => nx[m] = next[m]
  BY <1>1, <1>6, <1>7, <1>8
<1>10. /\ pv \in [0..MaxNodes -> 0..MaxNodes] /\ pv[h] = c
       /\ \A m \in live : m # h => pv[m] = prev[m]
  BY <1>1, <1>6, <1>7, <1>8
<1>11. PICK ns : ns = live \ {b}
  OBVIOUS
<1>12. live' = ns /\ ns \in SUBSET Rings!Nodes
  <2>1. b \in live
    BY <1>4, <1>5
  <2>2. b \notin Rings!Range(head')
    <3>1. ASSUME NEW k \in ListNames
          PROVE  head[k] # b
      <4>1. CASE k = l
        BY <1>1, <1>2, <4>1
      <4>2. CASE k # l
        <5>1. b \notin Mine(k)
          BY <1>3, <1>4, <4>2 DEF RingInv, RingsApart
        <5>2. b # 0
          BY <1>6, <2>1
        <5> QED
          BY <5>1, <5>2 DEF Mine, RingNodes
      <4> QED
        BY <4>1, <4>2
    <3>2. DOMAIN head = ListNames
      BY DEF RingInv, RingTypes
    <3> QED
      BY <1>2, <3>1, <3>2 DEF Rings!Range
  <2>3. ASSUME NEW k \in live
        PROVE  nx[k] # b
    <3>1. CASE k = c
      BY <1>2, <1>9, <3>1
    <3>2. CASE k # c
      <4> SUFFICES ASSUME next[k] = b
                   PROVE  FALSE
        BY <1>9, <3>2
      <4>1. k \in On(f, n)
        BY <1>3, <1>4, RefersWithin
      <4>2. PICK a \in 0..n : k = f[a]
        BY <4>1 DEF On
      <4>3. /\ \A d, e \in 0..n : f[d] = f[e] => d = e
            /\ next[f[a]] = IF a = n THEN h ELSE f[a + 1]
        BY <1>3 DEF Ring
      <4>4. a # n
        BY <1>2, <4>2, <4>3
      <4>5. a + 1 \in 0..n /\ n \in 0..n
        BY <1>3, <4>2, <4>4
      <4>6. a + 1 = n
        BY <1>4, <4>2, <4>3, <4>4, <4>5
      <4>7. a = n - 1
        BY <1>3, <4>2, <4>6
      <4> QED
        BY <1>4, <3>2, <4>2, <4>7
    <3> QED
      BY <3>1, <3>2
  <2>4. ASSUME NEW m \in live \ {b}
        PROVE  \E k \in live \ {b} : nx[k] = m
    <3>1. CASE m = h
      <4>1. c \in live \ {b}
        BY <1>4, <1>5
      <4> QED
        BY <1>9, <3>1, <4>1
    <3>2. CASE m # h
      <4>1. PICK k \in live : next[k] = m
        BY Supported
      <4>2. k # b /\ k # c
        BY <1>4, <2>4, <3>2, <4>1
      <4> QED
        BY <1>9, <4>1, <4>2
    <3> QED
      BY <3>1, <3>2
  <2>5. Rings!Kept(live, nx, head') = live \ {b}
    BY <2>1, <2>2, <2>3, <2>4, OneGoes
  <2> QED
    BY <1>2, <1>6, <1>11, <2>5
<1>13. /\ next' \in [0..MaxNodes -> 0..MaxNodes] /\ next'[0] = 0
       /\ \A m \in ns : next'[m] = nx[m]
  <2>1. nx \in [0..MaxNodes -> 0..MaxNodes] /\ next' = Links(nx, ns)
    BY <1>2, <1>9, <1>12
  <2> QED
    BY <1>12, <2>1, LinksAre
<1>14. /\ prev' \in [0..MaxNodes -> 0..MaxNodes] /\ prev'[0] = 0
       /\ \A m \in ns : prev'[m] = pv[m]
  <2>1. pv \in [0..MaxNodes -> 0..MaxNodes] /\ prev' = Links(pv, ns)
    BY <1>2, <1>10, <1>12
  <2> QED
    BY <1>12, <2>1, LinksAre
<1>15. \A m \in live : m # b => /\ m # c => next'[m] = next[m]
                                /\ m # h => prev'[m] = prev[m]
  BY <1>9, <1>10, <1>11, <1>13, <1>14
<1>16. next'[c] = h /\ prev'[h] = c
  <2>1. c \in ns /\ h \in ns
    BY <1>2, <1>4, <1>5, <1>11
  <2> QED
    BY <1>9, <1>10, <1>13, <1>14, <2>1
<1>17. PICK g : /\ Ring(g, n - 1, h, next', prev') /\ On(g, n - 1) = On(f, n) \ {b}
                /\ \A a \in 0..n - 1 : g[a] = f[a]
  <2>1. PICK ny, py : ny = next' /\ py = prev'
    OBVIOUS
  <2>2. ny[0] = 0 /\ py[0] = 0 /\ ny[f[n - 1]] = h /\ py[h] = f[n - 1]
    BY <1>4, <1>13, <1>14, <1>16, <2>1
  <2>3. \A m \in On(f, n) : m # f[n - 1] /\ m # f[n] => ny[m] = next[m]
    BY <1>4, <1>5, <1>15, <2>1
  <2>4. \A m \in On(f, n) : m # h /\ m # f[n] => py[m] = prev[m]
    BY <1>4, <1>5, <1>15, <2>1
  <2>5. n # 0
    BY <1>4
  <2>6. \E g : /\ Ring(g, n - 1, h, ny, py) /\ On(g, n - 1) = On(f, n) \ {f[n]}
               /\ \A a \in 0..n - 1 : g[a] = f[a]
    <3>1. Ring(f, n, h, next, prev)
      BY <1>3
    <3>2. ny[0] = 0
      BY <2>2
    <3>3. py[0] = 0
      BY <2>2
    <3>4. ny[f[n - 1]] = h
      BY <2>2
    <3>5. py[h] = f[n - 1]
      BY <2>2
    <3> QED
      BY <2>3, <2>4, <2>5, <3>1, <3>2, <3>3, <3>4, <3>5, RingShorter
  <2> QED
    BY <1>4, <2>1, <2>6
<1>18. RingTypes'
  <2>1. data' \in [0..MaxNodes -> Datum] /\ head' \in [ListNames -> 0..MaxNodes]
    BY <1>2 DEF RingInv, RingTypes
  <2>2. leaked' \subseteq live' /\ live' \subseteq Rings!Nodes
    BY <1>2, <1>4, <1>5, <1>6, <1>11, <1>12
  <2> QED
    BY <1>13, <1>14, <2>1, <2>2 DEF RingTypes
<1>19. Orphans'
  <2>1. \A m \in leaked : next'[m] = next[m]
    BY <1>4, <1>5, <1>6, <1>15
  <2> QED
    BY <1>2, <2>1 DEF RingInv, Orphans
<1>20. RingInv' /\ \A k \in ListNames \ {l} : Rings!Contents(k)' = Rings!Contents(k)
  <2>1. PICK D : D = On(f, n) \ {b}
    OBVIOUS
  <2>2. head'[l] = h /\ RingNodes(head'[l], next') = D /\ IsRing(head'[l], next', prev')
    <3>1. head'[l] = h /\ n - 1 \in Nat
      BY <1>1, <1>2, <1>3, <1>4
    <3> QED
      BY <1>17, <2>1, <3>1, RingNodesAre DEF IsRing
  <2>3. \A k \in ListNames \ {l} : head'[k] = head[k]
    BY <1>2
  <2>4. \A m \in live \ Mine(l) : next'[m] = next[m] /\ prev'[m] = prev[m] /\ data'[m] = data[m]
    BY <1>2, <1>3, <1>4, <1>15
  <2>5. /\ leaked \subseteq leaked' /\ leaked' \subseteq leaked \cup Mine(l)
        /\ D \cap leaked' = {} /\ D \cap (live \ Mine(l)) = {}
        /\ live' = (live \ Mine(l)) \cup D \cup leaked'
    BY <1>2, <1>3, <1>4, <1>5, <1>6, <1>11, <1>12, <2>1
  <2> QED
    BY <1>18, <1>19, <2>2, <2>3, <2>4, <2>5, RingsStep
<1>21. Rings!Contents(l) # <<>> /\ Rings!Contents(l)' = Rings!Store!Front(Rings!Contents(l))
  <2>1. PICK s, t : s = Rings!Contents(l) /\ t = Rings!Contents(l)'
    OBVIOUS
  <2>2. s = [k \in 1..n |-> data[f[k]]]
    BY <1>1, <1>3, <2>1, TextIs, ContentsNow
  <2>3. t = [k \in 1..n - 1 |-> data'[g[k]]]
    <3>1. head'[l] = h
      BY <1>1, <1>2
    <3> QED
      BY <1>17, <2>1, <3>1, TextIs, ContentsNow
  <2>4. \A k \in 1..n - 1 : g[k] = f[k]
    BY <1>3, <1>17
  <2>5. \A k \in 1..n : data[f[k]] \in Datum
    <3>1. \A k \in 1..n : f[k] \in 1..MaxNodes
      BY <1>3, RingFacts
    <3>2. data \in [0..MaxNodes -> Datum]
      BY DEF RingInv, RingTypes
    <3> QED
      BY <3>1, <3>2
  <2>6. s \in Seq(Datum) /\ Len(s) = n /\ s # <<>>
    <3>1. s \in [1..n -> Datum]
      BY <2>2, <2>5
    <3>2. s \in Seq(Datum)
      BY <1>3, <3>1, SeqDef
    <3>3. Len(s) = n
      BY <1>3, <2>2, <3>2, LenProperties
    <3> QED
      BY <1>4, <3>2, <3>3, EmptySeq
  <2>7. /\ SubSeq(s, 1, n - 1) \in Seq(Datum)
        /\ Len(SubSeq(s, 1, n - 1)) = IF 1 <= n - 1 THEN n - 1 - 1 + 1 ELSE 0
        /\ \A k \in 1..(n - 1) - 1 + 1 : SubSeq(s, 1, n - 1)[k] = s[1 + k - 1]
    <3>1. \A k \in 1..n - 1 : s[k] \in Datum
      BY <1>3, <2>2, <2>5
    <3> QED
      BY <1>3, <2>6, <3>1, SubSeqProperties
  <2>8. PICK u : u = SubSeq(s, 1, n - 1)
    OBVIOUS
  <2>9. u \in Seq(Datum) /\ Len(u) = n - 1 /\ \A k \in 1..n - 1 : u[k] = s[k]
    BY <1>3, <1>4, <2>7, <2>8
  <2>10. u = [k \in 1..n - 1 |-> u[k]]
    BY <2>9, LenProperties
  <2>11. ASSUME NEW k \in 1..n - 1
         PROVE  t[k] = u[k]
    <3>1. k \in 1..n
      BY <1>3
    <3>2. t[k] = data[f[k]]
      BY <1>2, <2>3, <2>4
    <3>3. s[k] = data[f[k]]
      BY <2>2, <3>1
    <3> QED
      BY <2>9, <3>2, <3>3
  <2>12. t = u
    BY <2>3, <2>10, <2>11
  <2> QED
    BY <2>1, <2>6, <2>8, <2>12 DEF Rings!Store!Front
<1>22. Rings!Alive' = Rings!Alive /\ l \in Rings!Alive
  BY <1>1, <1>2 DEF Rings!Alive, Rings!null
<1>23. ListIs' = [ListIs EXCEPT ![l] = Rings!Store!Front(ListIs[l])] /\ ListIs[l] # <<>>
  <2>1. ListIs[l] = Rings!Contents(l)
    BY DEF ListIs
  <2> QED
    BY <1>20, <1>21, <2>1, ListChanges
<1> QED
  BY <1>20, <1>22, <1>23 DEF ListIs, Rings!Store!Pop, Rings!Store!Change

LEMMA ListDestroyInv ==
  ASSUME RingInv, NEW l \in ListNames, Rings!Destroy(l)
  PROVE  RingInv' /\ Rings!Store!Destroy(l)
<1>1. /\ head[l] # 0 /\ head' = [head EXCEPT ![l] = 0] /\ data' = data
      /\ leaked' = leaked \cup Mine(l)
      /\ live' = Rings!Kept(live, next, head')
      /\ next' = Links(next, live') /\ prev' = Links(prev, live')
  <2>1. /\ head[l] # 0 /\ head' = [head EXCEPT ![l] = 0] /\ data' = data
        /\ leaked' = leaked \cup {head[l]} \cup Rings!Range(Rings!Walk(head[l], next))
        /\ Rings!Link(live, next, prev)
    BY DEF Rings!Destroy, Rings!null
  <2>2. Mine(l) = {head[l]} \cup Rings!Range(Rings!Walk(head[l], next))
    BY <2>1 DEF Mine, RingNodes
  <2>3. leaked' = leaked \cup Mine(l)
    BY <2>1, <2>2
  <2> QED
    BY <2>1, <2>3, LinkIs
<1>2. /\ next \in [0..MaxNodes -> 0..MaxNodes] /\ prev \in [0..MaxNodes -> 0..MaxNodes]
      /\ live \in SUBSET Rings!Nodes /\ leaked \subseteq live
      /\ head \in [ListNames -> 0..MaxNodes] /\ data \in [0..MaxNodes -> Datum]
  BY DEF RingInv, RingTypes
<1>3. live' = live
  BY <1>1, Supported, AllKept
<1>4. /\ next' \in [0..MaxNodes -> 0..MaxNodes] /\ next'[0] = 0
      /\ \A m \in live : next'[m] = next[m]
  BY <1>1, <1>2, <1>3, LinksAre
<1>5. /\ prev' \in [0..MaxNodes -> 0..MaxNodes] /\ prev'[0] = 0
      /\ \A m \in live : prev'[m] = prev[m]
  BY <1>1, <1>2, <1>3, LinksAre
<1>6. Mine(l) \subseteq live \ leaked
  BY DEF RingInv, RingsApart
<1>7. head'[l] = 0 /\ \A k \in ListNames \ {l} : head'[k] = head[k]
  BY <1>1, <1>2
<1>8. RingTypes'
  <2>1. head' \in [ListNames -> 0..MaxNodes]
    BY <1>1, <1>2, ListConstants
  <2>2. data' \in [0..MaxNodes -> Datum] /\ live' \subseteq Rings!Nodes /\ leaked' \subseteq live'
    BY <1>1, <1>2, <1>3, <1>6
  <2> QED
    BY <1>4, <1>5, <2>1, <2>2 DEF RingTypes
<1>9. Orphans'
  <2>1. ASSUME NEW m \in leaked \cup Mine(l)
        PROVE  next[m] \in leaked \cup Mine(l) /\ \E k \in leaked \cup Mine(l) : next[k] = m
    <3>1. CASE m \in leaked
      BY <3>1 DEF RingInv, Orphans
    <3>2. CASE m \in Mine(l)
      BY <3>2, MineNext
    <3> QED
      BY <3>1, <3>2
  <2>2. \A m \in leaked \cup Mine(l) : next'[m] = next[m]
    BY <1>2, <1>4, <1>6
  <2>3. ASSUME NEW m \in leaked'
        PROVE  next'[m] \in leaked' /\ \E k \in leaked' : next'[k] = m
    <3>1. m \in leaked \cup Mine(l)
      BY <1>1
    <3>2. next[m] \in leaked \cup Mine(l) /\ next'[m] = next[m]
      BY <2>1, <2>2, <3>1
    <3>3. PICK k \in leaked \cup Mine(l) : next[k] = m
      BY <2>1, <3>1
    <3>4. next'[k] = m
      BY <2>2, <3>3
    <3> QED
      BY <1>1, <3>2, <3>4
  <2> QED
    BY <2>3 DEF Orphans
<1>10. RingInv' /\ \A k \in ListNames \ {l} : Rings!Contents(k)' = Rings!Contents(k)
  <2>1. PICK D : D = {}
    OBVIOUS
  <2>2. RingNodes(head'[l], next') = D
    BY <1>7, <2>1 DEF RingNodes
  <2>3. \A m \in live \ Mine(l) : next'[m] = next[m] /\ prev'[m] = prev[m] /\ data'[m] = data[m]
    BY <1>1, <1>4, <1>5
  <2>4. /\ leaked \subseteq leaked' /\ leaked' \subseteq leaked \cup Mine(l)
        /\ D \cap leaked' = {} /\ D \cap (live \ Mine(l)) = {}
        /\ live' = (live \ Mine(l)) \cup D \cup leaked'
    BY <1>1, <1>2, <1>3, <1>6, <2>1
  <2> QED
    BY <1>7, <1>8, <1>9, <2>2, <2>3, <2>4, RingsStep
<1>11. Rings!Contents(l)' = <<>>
  BY <1>7, ContentsNow DEF Text
<1>12. Rings!Alive' = Rings!Alive \ {l} /\ l \in Rings!Alive
  BY <1>1, <1>7 DEF Rings!Alive, Rings!null
<1> QED
  BY <1>10, <1>11, <1>12, ListChanges DEF ListIs, Rings!Store!Destroy

LEMMA ListStepInv ==
  ASSUME RingInv, [Rings!Next]_Rings!vars
  PROVE  RingInv' /\ [Rings!Store!Next]_<<Rings!Alive, ListIs>>
<1>1. CASE Rings!Next
  <2>1. PICK l \in ListNames :
          \/ Rings!Construct(l) \/ (\E x \in Elements : Rings!PushBack(l, x))
          \/ Rings!PopBack(l) \/ Rings!Destroy(l)
    BY <1>1 DEF Rings!Next
  <2>2. CASE Rings!Construct(l)
    BY <2>2, ListConstructInv DEF Rings!Store!Next
  <2>3. CASE \E x \in Elements : Rings!PushBack(l, x)
    BY <2>3, ListPushInv DEF Rings!Store!Next
  <2>4. CASE Rings!PopBack(l)
    BY <2>4, ListPopInv DEF Rings!Store!Next
  <2>5. CASE Rings!Destroy(l)
    BY <2>5, ListDestroyInv DEF Rings!Store!Next
  <2> QED
    BY <2>1, <2>2, <2>3, <2>4, <2>5
<1>2. CASE UNCHANGED Rings!vars
  <2>1. /\ head' = head /\ next' = next /\ prev' = prev /\ data' = data
        /\ live' = live /\ leaked' = leaked
    BY <1>2 DEF Rings!vars
  <2>2. RingTypes' /\ Orphans'
    BY <2>1 DEF RingInv, RingTypes, Orphans
  <2>3. \A l : Mine(l)' = Mine(l) /\ Rings!Contents(l)' = Rings!Contents(l)
    BY <2>1, ContentsNow DEF Mine
  <2>4. RingsApart'
    BY <2>1, <2>3 DEF RingInv, RingsApart
  <2>5. ListIs' = ListIs /\ Rings!Alive' = Rings!Alive
    BY <2>1, <2>3 DEF ListIs, Rings!Alive
  <2> QED
    BY <2>2, <2>4, <2>5 DEF RingInv
<1> QED
  BY <1>1, <1>2

LEMMA ListStart == Rings!Init => RingInv /\ Rings!Store!Init
<1> SUFFICES ASSUME Rings!Init
             PROVE  RingInv /\ Rings!Store!Init
  OBVIOUS
<1>1. /\ head = [l \in ListNames |-> 0] /\ live = {} /\ leaked = {}
      /\ next = [m \in Rings!Nodes \cup {0} |-> 0] /\ prev = [m \in Rings!Nodes \cup {0} |-> 0]
      /\ data = [m \in Rings!Nodes \cup {0} |-> 0]
  BY DEF Rings!Init, Rings!NoLinks, Rings!null
<1>2. Rings!Nodes \cup {0} = 0..MaxNodes /\ 0 \in 0..MaxNodes
  BY ListConstants
<1>3. RingTypes
  BY <1>1, <1>2 DEF RingTypes, Datum
<1>4. \A l \in ListNames : head[l] = 0 /\ Mine(l) = {} /\ Rings!Contents(l) = <<>>
  BY <1>1, ContentsNow DEF Mine, RingNodes, Text
<1>5. RingsApart /\ Orphans
  BY <1>1, <1>4 DEF RingsApart, Orphans
<1>6. Rings!Alive = {} /\ ListIs = [l \in ListNames |-> <<>>]
  BY <1>4 DEF Rings!Alive, Rings!null, ListIs
<1> QED
  BY <1>3, <1>5, <1>6 DEF RingInv, ListIs, Rings!Store!Init

LEMMA ListImplied == RingInv => Rings!RingsRight
<1> SUFFICES ASSUME RingInv
             PROVE  Rings!RingsRight
  OBVIOUS
<1>1. \A l \in Rings!Alive : l \in ListNames /\ head[l] # 0
  BY DEF Rings!Alive, Rings!null
<1>2. \A l \in Rings!Alive : Mine(l) = {head[l]} \cup Rings!Range(Rings!Walk(head[l], next))
  BY <1>1 DEF Mine, RingNodes
<1>3. ASSUME NEW l \in Rings!Alive
      PROVE  Rings!Walk(head[l], prev) = Rings!Reverse(Rings!Walk(head[l], next))
  <2>1. PICK n, f : n \in Nat /\ Ring(f, n, head[l], next, prev)
    BY <1>1, MineIs
  <2>2. PICK s, t : s = Rings!Walk(head[l], next) /\ t = Rings!Walk(head[l], prev)
    OBVIOUS
  <2>3. s = [k \in 1..n |-> f[k]]
    BY <2>1, <2>2, WalkIs
  <2>4. PICK g : g = Back(f, n) /\ t = [k \in 1..n |-> g[k]]
    <3>1. PICK g : g = Back(f, n)
      OBVIOUS
    <3>2. Ring(g, n, head[l], prev, next)
      BY <2>1, <3>1, BackRing
    <3> QED
      BY <2>1, <2>2, <3>1, <3>2, WalkIs
  <2>5. \A k \in 1..n : g[k] = f[n + 1 - k]
    BY <2>4 DEF Back
  <2>6. s \in Seq(Rings!Nodes) /\ Len(s) = n
    <3>1. s \in [1..n -> Rings!Nodes]
      BY <2>1, <2>3, RingFacts, ListConstants
    <3>2. s \in Seq(Rings!Nodes)
      BY <2>1, <3>1, SeqDef
    <3> QED
      BY <2>1, <2>3, <3>2, LenProperties
  <2>7. Rings!Reverse(s) = [k \in 1..n |-> s[(n - k) + 1]]
    BY <2>6 DEF Rings!Reverse
  <2>8. ASSUME NEW k \in 1..n
        PROVE  t[k] = s[(n - k) + 1]
    <3>1. (n - k) + 1 \in 1..n /\ (n - k) + 1 = n + 1 - k
      BY <2>1
    <3> QED
      BY <2>3, <2>4, <2>5, <3>1
  <2>9. t = [k \in 1..n |-> t[k]]
    BY <2>4
  <2> QED
    BY <2>2, <2>7, <2>8, <2>9
<1>4. live = leaked \cup UNION {{head[l]} \cup Rings!Range(Rings!Walk(head[l], next)) :
                              l \in Rings!Alive}
  <2>1. \A l \in Rings!Alive : Mine(l) \subseteq live
    BY <1>1 DEF RingInv, RingsApart
  <2>2. leaked \subseteq live
    BY DEF RingInv, RingTypes
  <2>3. \A m \in live \ leaked : \E l \in Rings!Alive : m \in Mine(l)
    <3> SUFFICES ASSUME NEW m \in live \ leaked
                 PROVE  \E l \in Rings!Alive : m \in Mine(l)
      OBVIOUS
    <3>1. PICK l \in ListNames : m \in Mine(l)
      BY DEF RingInv, RingsApart
    <3>2. head[l] # 0
      BY <3>1 DEF Mine, RingNodes
    <3> QED
      BY <3>1, <3>2 DEF Rings!Alive, Rings!null
  <2> QED
    BY <1>2, <2>1, <2>2, <2>3
<1>5. \A l, k \in Rings!Alive :
         l # k => (Rings!Range(Rings!Walk(head[l], next)) \cup {head[l]})
                    \cap Rings!Range(Rings!Walk(head[k], next)) = {}
  <2>1. \A l, k \in Rings!Alive : l # k => Mine(l) \cap Mine(k) = {}
    BY <1>1 DEF RingInv, RingsApart
  <2> QED
    BY <1>2, <2>1
<1> QED
  BY <1>3, <1>4, <1>5 DEF Rings!RingsRight

\* linked_list: each list is a list of its own; read backward it is the same,
\* a node that is popped goes, no node is in two lists, and exactly the nodes
\* of lists that were destroyed stay behind.
THEOREM LinkedListCorrect == Spec => LinkedListSpec
<1>1. Init => RingInv /\ Rings!Store!Init
  BY ListStart DEF Init
<1>2. RingInv /\ [Next]_vars => RingInv' /\ [Rings!Store!Next]_Rings!Store!vars
  BY ListSteps, ListStepInv DEF ListIs, Rings!Store!vars
<1>3. RingInv => (class = "list" => Rings!RingsRight)
  BY ListImplied
<1> QED
  BY <1>1, <1>2, <1>3, PTL DEF Spec, LinkedListSpec, Rings!ListSpec, Rings!Store!Spec
=============================================================================
