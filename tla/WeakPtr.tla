------------------------------ MODULE WeakPtr ------------------------------
(***************************************************************************)
(* answer/mm/weak_ptr.cxx: an object with its control block, the handles   *)
(* that share it and the weak handles that watch it, in several threads:   *)
(* each handle belongs to one of them, and one that another is built from  *)
(* stays as it is meanwhile.  Every access to a count is a step.           *)
(***************************************************************************)
EXTENDS Integers, FiniteSets

CONSTANTS SharedHandles, WeakHandles,
          MaxReuse \* bound: how far below zero use_count is followed

WeakPtrAssumption ==
  IsFiniteSet(SharedHandles) /\ IsFiniteSet(WeakHandles) /\ MaxReuse \in Nat

VARIABLES use_count, weak_count,
          object, block, \* "new", "live" or "deleted": *ptr and *cb
          shared,  \* a shared handle: "unborn"; "holding", or "released" when
                   \* it has given its count up and cb is still set; "empty"
          dying,   \* its destructor runs reset()
          spc,     \* where its reset() is
          weak,    \* a weak handle: "unborn", "set", or "empty" after a move
          wpc, uc, \* where its lock() is, and the count lock() loaded
          crashed, \* a null pointer or a deleted block was used
          misused  \* history: a released handle was used again

countVars == <<use_count, weak_count>>
sharedVars == <<shared, dying, spc>>
weakVars == <<weak, wpc, uc>>
vars == <<countVars, object, block, sharedVars, weakVars, crashed, misused>>

Init ==
  /\ use_count = 0 /\ weak_count = 0
  /\ object = "new" /\ block = "new"
  /\ shared = [s \in SharedHandles |-> "unborn"]
  /\ dying = [s \in SharedHandles |-> FALSE]
  /\ spc = [s \in SharedHandles |-> "idle"]
  /\ weak = [w \in WeakHandles |-> "unborn"]
  /\ wpc = [w \in WeakHandles |-> "idle"]
  /\ uc = [w \in WeakHandles |-> 0]
  /\ crashed = "no" /\ misused = FALSE

Goto(s, to) == spc' = [spc EXCEPT ![s] = to]
Become(s, what) == shared' = [shared EXCEPT ![s] = what]

\* reset() returns; a destructor is over with it.
Return(s, what) ==
  /\ Goto(s, "idle")
  /\ Become(s, IF dying[s] THEN "unborn" ELSE what)
  /\ dying' = [dying EXCEPT ![s] = FALSE]

Crash(how) ==
  /\ crashed' = how
  /\ UNCHANGED <<countVars, object, block, sharedVars, weakVars>>

\* The block is used: what follows depends on whether it still exists.
Used == block = "live"

-----------------------------------------------------------------------------
(* shared_ptr *)

\* Line 30.
New(s) ==
  /\ object = "new" /\ shared[s] = "unborn"
  /\ object' = "live" /\ block' = "live"
  /\ use_count' = 1 /\ weak_count' = 1
  /\ Become(s, "holding")
  /\ UNCHANGED <<dying, spc, weakVars, crashed, misused>>

\* Lines 34 and 52: reset() is called by the client or by the destructor.
ResetStart(s) ==
  /\ spc[s] = "idle" /\ shared[s] # "unborn"
  /\ shared[s] = "released" => use_count + MaxReuse > 0
  /\ \E d \in BOOLEAN : dying' = [dying EXCEPT ![s] = d]
  /\ Goto(s, "reset")
  /\ misused' = (misused \/ shared[s] = "released")
  /\ UNCHANGED <<countVars, object, block, shared, weakVars, crashed>>

\* Lines 35-38.
ResetEmpty(s) ==
  /\ spc[s] = "reset" /\ shared[s] = "empty"
  /\ Return(s, "empty")
  /\ UNCHANGED <<countVars, object, block, weakVars, crashed, misused>>

LastUse == use_count = 1

\* Line 40.
ResetUse(s) ==
  /\ spc[s] = "reset" /\ shared[s] \in {"holding", "released"}
  /\ UNCHANGED misused
  /\ IF ~ Used THEN Crash("deleted")
     ELSE /\ use_count' = use_count - 1
          /\ IF LastUse THEN Goto(s, "weak") /\ UNCHANGED <<shared, dying>>
             ELSE Return(s, "released")
          /\ UNCHANGED <<weak_count, object, block, weakVars, crashed>>

\* Lines 41-45.
ResetWeak(s) ==
  /\ spc[s] = "weak"
  /\ UNCHANGED misused
  /\ IF ~ Used THEN Crash("deleted")
     ELSE /\ weak_count' = weak_count - 1
          /\ block' = IF weak_count = 1 THEN "deleted" ELSE "live"
          /\ Become(s, IF weak_count = 1 THEN "empty" ELSE "released")
          /\ Goto(s, "object")
          /\ UNCHANGED <<use_count, object, dying, weakVars, crashed>>

\* Lines 47-48.
ResetObject(s) ==
  /\ spc[s] = "object"
  /\ object' = "deleted"
  /\ Return(s, shared[s])
  /\ UNCHANGED <<countVars, block, weakVars, crashed, misused>>

-----------------------------------------------------------------------------
(* weak_ptr *)

\* Lines 61-63.
WeakOf(w, s) ==
  /\ weak[w] = "unborn" /\ spc[s] = "idle" /\ shared[s] # "unborn"
  /\ misused' = (misused \/ shared[s] = "released")
  /\ IF shared[s] = "empty" THEN Crash("null")
     ELSE IF ~ Used THEN Crash("deleted")
     ELSE /\ weak_count' = weak_count + 1
          /\ weak' = [weak EXCEPT ![w] = "set"]
          /\ UNCHANGED <<use_count, object, block, sharedVars, wpc, uc, crashed>>

\* Lines 87-89.
Copy(w, v) ==
  /\ weak[w] = "unborn" /\ weak[v] # "unborn" /\ wpc[v] = "idle"
  /\ UNCHANGED misused
  /\ IF weak[v] = "empty" THEN Crash("null")
     ELSE IF ~ Used THEN Crash("deleted")
     ELSE /\ weak_count' = weak_count + 1
          /\ weak' = [weak EXCEPT ![w] = "set"]
          /\ UNCHANGED <<use_count, object, block, sharedVars, wpc, uc, crashed>>

\* Lines 90-93.
Move(w, v) ==
  /\ weak[w] = "unborn" /\ weak[v] # "unborn" /\ wpc[v] = "idle"
  /\ weak' = [weak EXCEPT ![w] = weak[v], ![v] = "empty"]
  /\ UNCHANGED <<countVars, object, block, sharedVars, wpc, uc, crashed, misused>>

\* Lines 79-85.
Destroy(w) ==
  /\ weak[w] # "unborn" /\ wpc[w] = "idle"
  /\ UNCHANGED misused
  /\ IF weak[w] = "empty" THEN Crash("null")
     ELSE IF ~ Used THEN Crash("deleted")
     ELSE /\ weak_count' = weak_count - 1
          /\ block' = IF weak_count = 1 THEN "deleted" ELSE "live"
          /\ weak' = [weak EXCEPT ![w] = "unborn"]
          /\ UNCHANGED <<use_count, object, sharedVars, wpc, uc, crashed>>

\* Line 70.
LockLoad(w) ==
  /\ weak[w] # "unborn" /\ wpc[w] = "idle"
  /\ UNCHANGED misused
  /\ IF weak[w] = "empty" THEN Crash("null")
     ELSE IF ~ Used THEN Crash("deleted")
     ELSE /\ uc' = [uc EXCEPT ![w] = use_count]
          /\ wpc' = [wpc EXCEPT ![w] = "lock"]
          /\ UNCHANGED <<countVars, object, block, sharedVars, weak, crashed>>

\* Mutant: the count is stored without a comparison.
Same_Assumed(w) == TRUE

Same(w) == use_count = uc[w]

\* Line 71: the compare_exchange succeeds and line 73 makes the handle.
LockTake(w, s) ==
  /\ wpc[w] = "lock" /\ uc[w] # 0 /\ shared[s] = "unborn"
  /\ Used /\ Same(w)
  /\ use_count' = uc[w] + 1
  /\ Become(s, "holding")
  /\ wpc' = [wpc EXCEPT ![w] = "idle"]
  /\ UNCHANGED <<weak_count, object, block, dying, spc, weak, uc, crashed, misused>>

\* Line 71: it fails, also spuriously, and loads the count again.
LockRetry(w) ==
  /\ wpc[w] = "lock" /\ uc[w] # 0
  /\ UNCHANGED misused
  /\ IF ~ Used THEN Crash("deleted")
     ELSE /\ uc' = [uc EXCEPT ![w] = use_count]
          /\ UNCHANGED <<countVars, object, block, sharedVars, weak, wpc, crashed>>

\* Lines 75 and 28: the object is gone.
LockEmpty(w, s) ==
  /\ wpc[w] = "lock" /\ uc[w] = 0 /\ shared[s] = "unborn"
  /\ Become(s, "empty")
  /\ wpc' = [wpc EXCEPT ![w] = "idle"]
  /\ UNCHANGED <<countVars, object, block, dying, spc, weak, uc, crashed, misused>>

Shared(s) ==
  New(s) \/ ResetStart(s) \/ ResetEmpty(s) \/ ResetUse(s) \/ ResetWeak(s) \/ ResetObject(s)

Weak(w) ==
  \/ \E s \in SharedHandles : WeakOf(w, s) \/ LockTake(w, s) \/ LockEmpty(w, s)
  \/ \E v \in WeakHandles : Copy(w, v) \/ Move(w, v)
  \/ Destroy(w) \/ LockLoad(w) \/ LockRetry(w)

Next == crashed = "no" /\ ((\E s \in SharedHandles : Shared(s)) \/ (\E w \in WeakHandles : Weak(w)))

Spec == Init /\ [][Next]_vars

-----------------------------------------------------------------------------
\* The shared handles that are counted in use_count.
Users == {s \in SharedHandles : shared[s] = "holding" /\ spc[s] # "weak"}
Watchers == {w \in WeakHandles : weak[w] = "set"}

\* While no handle is used after its reset(), the counts are those of the
\* handles, and the shared ones together count once in weak_count.
CountsExact ==
  ~ misused /\ object # "new" =>
    /\ use_count = Cardinality(Users)
    /\ weak_count = Cardinality(Watchers)
         + (IF Users # {} \/ (\E s \in SharedHandles : spc[s] = "weak") THEN 1 ELSE 0)

\* Until then the object lives as long as a handle uses it, also one that
\* lock() got in a race with the last reset(), the block as long as a handle
\* watches it, and neither is used afterwards.
LifetimesRight ==
  ~ misused =>
    /\ Users # {} => object = "live"
    /\ Users \cup Watchers # {} => block = "live"
    /\ crashed \in {"no", "null"}

\* Until then both are deleted when nothing refers to them any more: the object
\* once its last user's reset() has returned, the block with the last handle
\* that counts on it, a weak one (line 82) or that reset() (line 43).
NothingLeaks ==
  ~ misused =>
    /\ object = "live" /\ (\A s \in SharedHandles : spc[s] = "idle") => Users # {}
    /\ object # "new" /\ weak_count = 0 => block = "deleted"

\* Lines 112-118: test_case2() resets a handle while a weak one watches, and
\* leaves the scope of both; no destructor uses the deleted control block.
DestructorsSafe == crashed = "deleted" => \A s \in SharedHandles : ~ dying[s]
=============================================================================
