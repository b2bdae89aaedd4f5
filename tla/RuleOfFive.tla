----------------------------- MODULE RuleOfFive -----------------------------
(***************************************************************************)
(* answer/oop/ro5.cxx: objects of class base own an array and an open      *)
(* file, those of class derived another of each; constructors may throw    *)
(* half way.                                                               *)
(*                                                                         *)
(* The members of derived that move (lines 127-143) do not compile, since  *)
(* line 129 copies a file_raii, and are not modelled.  The elements of an  *)
(* array are one value, data.  Opening fails also when the process has no  *)
(* descriptor left, and new[] when a constructor of T throws or when there *)
(* is no memory.  What T may throw is chosen once, as for a T that the     *)
(* templates are used with.                                                *)
(***************************************************************************)
EXTENDS Integers, FiniteSets, FiniteSetsExt

CONSTANTS Objects,
          Files,    \* paths that can be opened
          Counts, Data,
          MaxFiles, MaxBlocks \* what the process may have

RuleOfFiveAssumption ==
  /\ IsFiniteSet(Objects) /\ Counts \subseteq Nat /\ 0 \in Data
  /\ MaxFiles \in Nat /\ MaxBlocks \in Nat /\ "closed" \notin Files

null == 0
Free == [count |-> -1, data |-> 0]

VARIABLES escapes, \* operations of T that may throw what nobody handles:
                   \* "constructor", something that is no std::exception;
                   \* "assignment", anything
          file,  \* path of each descriptor, or "closed"
          block, \* the arrays: how many elements, and their data
          obj,   \* the objects; those that are not there have kind "none"
          lost,  \* what nobody owns any more: <<descriptor, array>>
          value  \* history: the data each object was given

vars == <<escapes, file, block, obj, lost, value>>

None == [kind |-> "none", path |-> "", count |-> 0, fd |-> -1, ptr |-> null,
         up |-> null, dfd |-> -1, assigned |-> FALSE]

Init ==
  /\ escapes \in SUBSET {"constructor", "assignment"}
  /\ file = [f \in 1..MaxFiles |-> "closed"] /\ block = [b \in 1..MaxBlocks |-> Free]
  /\ obj = [o \in Objects |-> None] /\ lost = {}
  /\ value = [o \in Objects |-> 0]

Now == [file |-> file, block |-> block]
Put(w) == file' = w.file /\ block' = w.block

\* open(), also of line 92, and new: the possible outcomes, none if it fails.
Open(w, p) ==
  LET closed == {f \in 1..MaxFiles : w.file[f] = "closed"}
  IN  IF p \notin Files \/ closed = {} THEN {}
      ELSE {[fd |-> Min(closed), w |-> [w EXCEPT !.file[Min(closed)] = p]]}

New(w, n) ==
  LET unused == {b \in 1..MaxBlocks : w.block[b] = Free}
  IN  IF unused = {} THEN {}
      ELSE {[ptr |-> Min(unused),
             w |-> [w EXCEPT !.block[Min(unused)] = [count |-> n, data |-> 0]]]}

\* Lines 22-25; what unique_ptr and file_raii destroy (line 101), too.
cleanup(w, fd, ptr) ==
  [file |-> [f \in 1..MaxFiles |-> IF f = fd THEN "closed" ELSE w.file[f]],
   block |-> [b \in 1..MaxBlocks |-> IF b = ptr THEN Free ELSE w.block[b]]]

Failed(w) == [ok |-> FALSE, w |-> w, fd |-> -1, ptr |-> null]

\* Line 32 passes what an element throws in line 31 when it is no
\* std::exception: new[] gives the array back, the file stays open.
Uncaught(f, n) ==
  IF n > 0 /\ "constructor" \in escapes
  THEN {[Failed(f.w) EXCEPT !.fd = f.fd] : a \in New(f.w, n)} ELSE {}

\* Mutant: the handler of lines 32-35 throws without a cleanup().
init_NoCleanup(w, p, n) ==
  LET opened == Open(w, p)
  IN  IF opened = {} THEN {Failed(w)}
      ELSE UNION {{Failed(f.w)} \cup Uncaught(f, n) \cup
                  {[ok |-> TRUE, w |-> a.w, fd |-> f.fd, ptr |-> a.ptr] : a \in New(f.w, n)}
                  : f \in opened}

\* Lines 27-36: the outcomes of init().
init(w, p, n) ==
  LET opened == Open(w, p)
  IN  IF opened = {} THEN {Failed(cleanup(w, -1, null))}
      ELSE UNION {{Failed(cleanup(f.w, f.fd, null))} \cup Uncaught(f, n) \cup
                  {[ok |-> TRUE, w |-> a.w, fd |-> f.fd, ptr |-> a.ptr] : a \in New(f.w, n)}
                  : f \in opened}

Base(p, n, r) ==
  [None EXCEPT !.kind = "base", !.path = p, !.count = n, !.fd = r.fd, !.ptr = r.ptr]

Plain(o) == obj[o].kind = "base"

\* A constructor of base throws: there is no object whose destructor would
\* destroy what was not cleaned up.
Throw(r) ==
  /\ Put(r.w)
  /\ lost' = IF r.fd = -1 THEN lost ELSE lost \cup {<<r.fd, r.ptr>>}
  /\ UNCHANGED <<obj, value>>

-----------------------------------------------------------------------------
\* Lines 39-42.
Construct(o, p, n) ==
  /\ obj[o] = None
  /\ \E r \in init(Now, p, n) :
       IF ~ r.ok THEN Throw(r)
       ELSE /\ Put(r.w)
            /\ obj' = [obj EXCEPT ![o] = Base(p, n, r)]
            /\ UNCHANGED <<lost, value>>

\* Lines 117-120: base, up and fd, in that order; when one throws those before
\* it are destroyed.
ConstructDerived(o, p, n, q) ==
  /\ obj[o] = None
  /\ \E r \in init(Now, p, n) :
       IF ~ r.ok THEN Throw(r)
       ELSE /\ \/ Put(cleanup(r.w, r.fd, r.ptr)) /\ UNCHANGED obj
               \/ \E u \in New(r.w, 1) :
                    IF Open(u.w, q) = {}
                    THEN Put(cleanup(cleanup(u.w, -1, u.ptr), r.fd, r.ptr)) /\ UNCHANGED obj
                    ELSE \E f \in Open(u.w, q) :
                           /\ Put(f.w)
                           /\ obj' = [obj EXCEPT ![o] = [Base(p, n, r) EXCEPT
                                        !.kind = "derived", !.up = u.ptr, !.dfd = f.fd]]
            /\ UNCHANGED <<lost, value>>

\* Lines 48-51: the outcomes of the copy constructor.  When an element throws
\* in line 50 the object is not there yet, and nothing destroys what it has.
Copied(s) ==
  LET copy(r) == [r EXCEPT !.w.block[r.ptr].data = block[obj[s].ptr].data]
      torn(r) == IF "assignment" \in escapes THEN {[r EXCEPT !.ok = FALSE]} ELSE {}
  IN  UNION {IF r.ok /\ obj[s].count > 0 THEN {copy(r)} \cup torn(r) ELSE {r}
             : r \in init(Now, obj[s].path, obj[s].count)}

Copy(o, s) ==
  /\ obj[o] = None /\ Plain(s)
  /\ \E r \in Copied(s) :
       IF ~ r.ok THEN Throw(r)
       ELSE /\ Put(r.w)
            /\ obj' = [obj EXCEPT ![o] = Base(obj[s].path, obj[s].count, r)]
            /\ value' = [value EXCEPT ![o] = value[s]]
            /\ UNCHANGED lost

\* Lines 78-83, as seen by a: line 79 swaps file_path with itself.
Swapped(a, b) ==
  [a EXCEPT !.count = b.count, !.fd = b.fd, !.ptr = b.ptr, !.assigned = TRUE]

\* Lines 53-57: a copy is swapped with the object, and dies with what it had.
CopyAssign(o, s) ==
  /\ Plain(o) /\ Plain(s)
  /\ \E r \in Copied(s) :
       IF ~ r.ok THEN Throw(r)
       ELSE /\ Put(cleanup(r.w, obj[o].fd, obj[o].ptr))
            /\ obj' = [obj EXCEPT ![o] = Swapped(obj[o], Base("", obj[s].count, r))]
            /\ value' = [value EXCEPT ![o] = value[s]]
            /\ UNCHANGED lost

\* Lines 63-65 and the string that was moved from.
Emptied == [None EXCEPT !.kind = "base"]

\* Lines 59-66.
Move(o, s) ==
  /\ obj[o] = None /\ Plain(s)
  /\ obj' = [obj EXCEPT ![o] = obj[s], ![s] = Emptied]
  /\ value' = [value EXCEPT ![o] = value[s], ![s] = 0]
  /\ UNCHANGED <<file, block, lost>>

\* Lines 68-72: also o = s, which loses the path.
MoveAssign(o, s) ==
  /\ Plain(o) /\ Plain(s)
  /\ LET emptied == [obj EXCEPT ![s] = Emptied]
     IN  /\ obj' = [emptied EXCEPT ![o] = Swapped(@, obj[s])]
         /\ Put(cleanup(Now, emptied[o].fd, emptied[o].ptr))
  /\ value' = [value EXCEPT ![s] = 0, ![o] = value[s]]
  /\ UNCHANGED lost

\* Lines 44-46.
Write(o, d) ==
  /\ obj[o].ptr # null
  /\ block' = [block EXCEPT ![obj[o].ptr].data = d]
  /\ value' = [value EXCEPT ![o] = d]
  /\ UNCHANGED <<file, obj, lost>>

\* Lines 100-102, up, and 74-76.
Destroy(o) ==
  /\ obj[o] # None
  /\ Put(cleanup(cleanup(Now, obj[o].dfd, obj[o].up), obj[o].fd, obj[o].ptr))
  /\ obj' = [obj EXCEPT ![o] = None]
  /\ value' = [value EXCEPT ![o] = 0]
  /\ UNCHANGED lost

Next == UNCHANGED escapes /\ \E o \in Objects :
  \/ \E p \in Files \cup {"missing"}, n \in Counts :
       Construct(o, p, n) \/ \E q \in Files \cup {"missing"} : ConstructDerived(o, p, n, q)
  \/ \E s \in Objects : Copy(o, s) \/ CopyAssign(o, s) \/ Move(o, s) \/ MoveAssign(o, s)
  \/ (\E d \in Data : Write(o, d)) \/ Destroy(o)

Spec == Init /\ [][Next]_vars

-----------------------------------------------------------------------------
\* Every open file and every array has one owner, whatever threw on the way,
\* but for what was lost, and only an exception that nobody handles loses
\* anything: one of a constructor, in line 31, the file, and one of an
\* assignment, in line 50, the array, too.
ResourcesOwned ==
  LET owners(x, members) == {e \in Objects \X members : obj[e[1]][e[2]] = x}
      lostAt(x, k) == {l \in lost : l[k] = x}
      one(x, members, k) == Cardinality(owners(x, members)) + Cardinality(lostAt(x, k)) = 1
      unowned(x, members, k) == owners(x, members) = {} /\ lostAt(x, k) = {}
  IN  /\ \A f \in 1..MaxFiles : IF file[f] = "closed" THEN unowned(f, {"fd", "dfd"}, 1)
                                ELSE one(f, {"fd", "dfd"}, 1)
      /\ \A b \in 1..MaxBlocks : IF block[b] = Free THEN unowned(b, {"ptr", "up"}, 2)
                                 ELSE one(b, {"ptr", "up"}, 2)
      /\ \A l \in lost : (IF l[2] = null THEN "constructor" ELSE "assignment") \in escapes

\* Every object has its own data, as many elements as it believes, and, unless
\* it was assigned to, the file of its path: an operation that throws changes
\* none of it.
ObjectsIntact == \A o \in Objects :
  LET a == obj[o]
  IN  /\ IF a.ptr = null THEN a.count = 0 /\ a.fd = -1
         ELSE /\ block[a.ptr].count = a.count
              /\ a.count > 0 => block[a.ptr].data = value[o]
      /\ a.fd # -1 /\ ~ a.assigned => file[a.fd] = a.path
=============================================================================
