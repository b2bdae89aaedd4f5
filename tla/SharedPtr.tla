----------------------------- MODULE SharedPtr -----------------------------
(***************************************************************************)
(* answer/mm/shared_ptr.cxx: handles that share an object, and a control   *)
(* block with the atomic count of them.  Different threads work with       *)
(* different handles; a handle another one is copied from stays as it is   *)
(* meanwhile.                                                              *)
(*                                                                         *)
(* An object and its control block have one name.  An operation that lets  *)
(* a reference go ends in the destructor of lines 68-76, whose fetch_sub   *)
(* is a step and whose deletes are another.                                *)
(***************************************************************************)
EXTENDS Integers, FiniteSets

CONSTANTS Handles, Objects, \* Objects: each is created once
          null              \* no object

Unborn == "unborn"

SharedPtrAssumption ==
  null \notin Objects /\ Unborn \notin Objects /\ IsFiniteSet(Handles)

Uninitialised == -1 \* what operator new leaves in memory, line 98

VARIABLES ptr,    \* data and cb of each handle, or Unborn
          going,  \* the reference a handle's operation lets go
          pc,     \* "idle", or the next step of that destructor
          refcnt, \* per object
          state,  \* "new", "live" or "deleted", per object
          made,   \* the objects of make_shared()
          crashed \* the program used a null or a garbage pointer

vars == <<ptr, going, pc, refcnt, state, made, crashed>>

Init ==
  /\ ptr = [h \in Handles |-> Unborn]
  /\ going = [h \in Handles |-> null]
  /\ pc = [h \in Handles |-> "idle"]
  /\ refcnt = [o \in Objects |-> 0]
  /\ state = [o \in Objects |-> "new"]
  /\ made = {} /\ crashed = FALSE

Idle(h) == pc[h] = "idle" /\ ~ crashed
Alive(h) == Idle(h) /\ ptr[h] # Unborn

\* Handle h refers to o from now on, and what it referred to goes.
Replace(h, o) ==
  /\ ptr' = [ptr EXCEPT ![h] = o]
  /\ going' = [going EXCEPT ![h] = ptr[h]]
  /\ pc' = [pc EXCEPT ![h] = "release"]

\* A null or garbage pointer is used: the program ends.
Crash == crashed' = TRUE /\ UNCHANGED <<ptr, going, pc, refcnt, state, made>>

-----------------------------------------------------------------------------
\* Lines 29-30.
New(h, o) ==
  /\ Idle(h) /\ ptr[h] = Unborn /\ state[o] = "new"
  /\ ptr' = [ptr EXCEPT ![h] = o]
  /\ refcnt' = [refcnt EXCEPT ![o] = 1]
  /\ state' = [state EXCEPT ![o] = "live"]
  /\ UNCHANGED <<going, pc, made, crashed>>

\* Lines 97-104: nobody constructs the control block, and its count is what
\* the memory holds.
MakeShared(h, o) ==
  /\ Idle(h) /\ ptr[h] = Unborn /\ state[o] = "new"
  /\ ptr' = [ptr EXCEPT ![h] = o]
  /\ \E n \in {Uninitialised, 1} : refcnt' = [refcnt EXCEPT ![o] = n]
  /\ state' = [state EXCEPT ![o] = "live"]
  /\ made' = made \cup {o}
  /\ UNCHANGED <<going, pc, crashed>>

\* Line 32.
Default(h) ==
  /\ Idle(h) /\ ptr[h] = Unborn
  /\ ptr' = [ptr EXCEPT ![h] = null]
  /\ UNCHANGED <<going, pc, refcnt, state, made, crashed>>

\* Lines 47-49.
Copy(h, g) ==
  /\ Idle(h) /\ ptr[h] = Unborn /\ Alive(g)
  /\ IF ptr[g] = null THEN Crash
     ELSE /\ ptr' = [ptr EXCEPT ![h] = ptr[g]]
          /\ refcnt' = [refcnt EXCEPT ![ptr[g]] = @ + 1]
          /\ UNCHANGED <<going, pc, state, made, crashed>>

\* Lines 51-55: also h = g.
CopyAssign(h, g) ==
  /\ Alive(h) /\ Alive(g)
  /\ IF ptr[g] = null THEN Crash
     ELSE /\ refcnt' = [refcnt EXCEPT ![ptr[g]] = @ + 1]
          /\ Replace(h, ptr[g])
          /\ UNCHANGED <<state, made, crashed>>

\* Lines 57-60.
Move(h, g) ==
  /\ Idle(h) /\ ptr[h] = Unborn /\ Alive(g)
  /\ ptr' = [ptr EXCEPT ![h] = ptr[g], ![g] = null]
  /\ UNCHANGED <<going, pc, refcnt, state, made, crashed>>

\* Lines 62-66: also h = g, when the temporary ends up empty.
MoveAssign(h, g) ==
  /\ Alive(h) /\ Alive(g)
  /\ ptr' = [ptr EXCEPT ![g] = null, ![h] = ptr[g]]
  /\ going' = [going EXCEPT ![h] = IF h = g THEN null ELSE ptr[h]]
  /\ pc' = [pc EXCEPT ![h] = "release"]
  /\ UNCHANGED <<refcnt, state, made, crashed>>

\* Line 68: a handle's own destructor begins.
Destroy(h) ==
  /\ Alive(h)
  /\ Replace(h, Unborn)
  /\ UNCHANGED <<refcnt, state, made, crashed>>

-----------------------------------------------------------------------------
\* Mutant: the object goes with the last reference but one.
LastOne_Early(o) == refcnt[o] <= 2

\* Line 70.
LastOne(o) == refcnt[o] = 1

\* Line 69: a handle without a control block has no count to decrement.
Release(h) ==
  /\ pc[h] = "release" /\ ~ crashed
  /\ LET o == going[h]
     IN  IF o = null THEN Crash
         ELSE /\ pc' = [pc EXCEPT ![h] = IF LastOne(o) THEN "delete" ELSE "idle"]
              /\ refcnt' = [refcnt EXCEPT ![o] = @ - 1]
              /\ going' = [going EXCEPT ![h] = IF LastOne(o) THEN o ELSE null]
              /\ UNCHANGED <<ptr, state, made, crashed>>

\* Lines 71-74: make_shared() constructs no deleter either, and what it
\* allocated is not what this deletes.
Delete(h) ==
  /\ pc[h] = "delete" /\ ~ crashed
  /\ IF going[h] \in made THEN Crash
     ELSE /\ state' = [state EXCEPT ![going[h]] = "deleted"]
          /\ pc' = [pc EXCEPT ![h] = "idle"]
          /\ going' = [going EXCEPT ![h] = null]
          /\ UNCHANGED <<ptr, refcnt, made, crashed>>

Next ==
  \/ \E h \in Handles, o \in Objects : New(h, o) \/ MakeShared(h, o)
  \/ \E h, g \in Handles : Copy(h, g) \/ CopyAssign(h, g) \/ Move(h, g) \/ MoveAssign(h, g)
  \/ \E h \in Handles : Default(h) \/ Destroy(h) \/ Release(h) \/ Delete(h)

Spec == Init /\ [][Next]_vars

-----------------------------------------------------------------------------
\* The references to o that are counted.
References(o) ==
  {<<"handle", h>> : h \in {k \in Handles : ptr[k] = o}}
    \cup {<<"going", h>> : h \in {k \in Handles : going[k] = o /\ pc[k] = "release"}}

\* The count of a control block that was constructed is the number of the
\* references, on any interleaving of the destructors.
CountsExact ==
  \A o \in Objects \ made : refcnt[o] = Cardinality(References(o))

\* An object lives as long as a reference to it, and is deleted once, by the
\* handle that gave the last one up.
DeletedOnce ==
  \A o \in Objects \ made :
    /\ References(o) # {} => state[o] = "live"
    /\ Cardinality({h \in Handles : pc[h] = "delete" /\ going[h] = o}) <= 1
    /\ state[o] = "deleted" => \A h \in Handles : going[h] # o
    /\ state[o] = "live" /\ References(o) = {} =>
         \E h \in Handles : pc[h] = "delete" /\ going[h] = o
=============================================================================
