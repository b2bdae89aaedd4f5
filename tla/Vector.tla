------------------------------- MODULE Vector -------------------------------
(***************************************************************************)
(* answer/stl/vector.cxx: vectors that own a buffer each, double it when   *)
(* it is full, copy it, and hand it over when they are moved.              *)
(*                                                                         *)
(* A vector is its buffer and its size; end - begin is the length of the   *)
(* buffer.  Elements may have a destructor (destructors): then it matters  *)
(* that lines 33-35 and 124 destroy some that are destroyed again, or are  *)
(* assigned to, later (dead).  In the tests they have none.                *)
(***************************************************************************)
EXTENDS Integers, Sequences, FiniteSets

CONSTANTS Vectors, Values,
          Capacity, \* template parameter
          MaxSize   \* bound: no push_back() to a vector of this size

VectorAssumption ==
  /\ IsFiniteSet(Vectors) /\ Capacity \in Nat \ {0} /\ MaxSize \in Nat
  /\ Values \subseteq Nat \ {0}

null == 0
default == 0
Buffers == 1..Cardinality(Vectors) + 1

VARIABLES alive,  \* the vectors that exist
          begin, size,
          heap,   \* contents of the buffers, where what lies beyond the last element
          \* is never read and counts as default; that of null is empty
          owned,  \* the buffers that exist
          destructors,
          dead,   \* the destroyed elements of each buffer
          broken  \* "overflow", "freed" or "dead": what is not there was used

vars == <<alive, begin, size, heap, owned, destructors, dead, broken>>

Init ==
  /\ alive = {} /\ owned = {} /\ broken = "no"
  /\ begin = [v \in Vectors |-> null] /\ size = [v \in Vectors |-> 0]
  /\ heap = [b \in Buffers \cup {null} |-> <<>>]
  /\ destructors \in BOOLEAN /\ dead = [b \in Buffers \cup {null} |-> {}]

capacity(v) == Len(heap[begin[v]])
Contents(v) == SubSeq(heap[begin[v]], 1, size[v])
Full(v) == size[v] = capacity(v)

\* The elements s at the beginning of n of them.
Padded(s, n) == [k \in 1..n |-> IF k <= Len(s) THEN s[k] ELSE default]

Put(v, buffer, n) ==
  /\ begin' = [begin EXCEPT ![v] = buffer]
  /\ size' = [size EXCEPT ![v] = n]

\* delete[] begin, which destroys every element.
Delete(v) ==
  /\ heap' = [heap EXCEPT ![begin[v]] = <<>>]
  /\ dead' = [dead EXCEPT ![begin[v]] = {}]
  /\ owned' = owned \ {begin[v]}

\* v gets a new buffer with n elements of s; what it had is deleted.
PutNew(v, s, n) ==
  LET new == CHOOSE b \in Buffers : b \notin owned
  IN  /\ heap' = [heap EXCEPT ![begin[v]] = <<>>, ![new] = s]
      /\ dead' = [dead EXCEPT ![begin[v]] = {}]
      /\ owned' = (owned \cup {new}) \ {begin[v]}
      /\ Put(v, new, n)

Create(v) == v \notin alive /\ alive' = alive \cup {v}

Break(how) == broken' = how /\ UNCHANGED <<alive, begin, size, heap, owned, dead>>

\* Lines 32-45 and 161-163: the destructor destroys the elements, and delete[]
\* all of them again.
Doomed(v) == destructors /\ (size[v] > 0 \/ dead[begin[v]] # {})

-----------------------------------------------------------------------------
\* Line 90.
Construct(v) ==
  /\ Create(v)
  /\ PutNew(v, Padded(<<>>, Capacity), 0)
  /\ UNCHANGED <<destructors, broken>>

\* Lines 17-30: the buffer that grow() makes.
Grown(v) == Padded(Contents(v), 2 * capacity(v))

\* Lines 106-114 and 116-120: a buffer of no elements, which a moved vector
\* and its copies have, does not grow, and line 29 deletes the old one.
\* emplace_back() makes an element where push_back() assigns to one.
Push(v, x, emplace) ==
  /\ v \in alive /\ size[v] < MaxSize
  /\ LET n == size[v] + 1
     IN  CASE Full(v) /\ capacity(v) = 0 -> Break("overflow")
           [] Full(v) /\ capacity(v) # 0 ->
                IF dead[begin[v]] # {} THEN Break("dead")
                ELSE PutNew(v, [Grown(v) EXCEPT ![n] = x], n) /\ UNCHANGED <<alive, broken>>
           [] ~ Full(v) ->
                IF n \in dead[begin[v]] /\ ~ emplace THEN Break("dead")
                ELSE /\ heap' = [heap EXCEPT ![begin[v]] = [@ EXCEPT ![n] = x]]
                     /\ dead' = [dead EXCEPT ![begin[v]] = @ \ {n}]
                     /\ Put(v, begin[v], n)
                     /\ UNCHANGED <<alive, owned, broken>>
  /\ UNCHANGED destructors

\* The same with a reference to an element of the vector itself: grow() deletes
\* it before it is read.
PushOwn(v, k, emplace) ==
  /\ v \in alive /\ k <= size[v] /\ size[v] < MaxSize
  /\ IF Full(v) THEN Break("freed") /\ UNCHANGED destructors
     ELSE Push(v, Contents(v)[k], emplace)

\* Lines 122-126: last is one beyond the last element, and beyond the buffer
\* when it is full.
PopBack(v) ==
  /\ v \in alive /\ size[v] > 0
  /\ IF destructors /\ (Full(v) \/ size[v] + 1 \in dead[begin[v]]) THEN Break("dead")
     ELSE /\ Put(v, begin[v], size[v] - 1)
          /\ dead' = IF destructors THEN [dead EXCEPT ![begin[v]] = @ \cup {size[v] + 1}] ELSE dead
          /\ heap' = [heap EXCEPT ![begin[v]] = [@ EXCEPT ![size[v]] = default]]
          /\ UNCHANGED <<alive, owned, broken>>
  /\ UNCHANGED destructors

\* Lines 128-135.
Copy(v, w) ==
  /\ w \in alive /\ Create(v)
  /\ PutNew(v, Padded(Contents(w), capacity(w)), size[w])
  /\ UNCHANGED <<destructors, broken>>

\* What line 139 destroys, line 141 assigns to, or copies when v = w.
Reuse(v, w, n) ==
  IF destructors /\ (1..size[v] \cup dead[begin[v]]) \cap 1..size[w] # {}
  THEN Break("dead")
  ELSE /\ heap' = [heap EXCEPT ![begin[v]] = Padded(Contents(w), Len(@))]
       /\ dead' = IF destructors THEN [dead EXCEPT ![begin[v]] = @ \cup 1..size[v]] ELSE dead
       /\ Put(v, begin[v], n)
       /\ UNCHANGED <<owned, broken>>

\* Mutant: line 143 is forgotten.
CopyAssign_SameSize(v, w) ==
  /\ v \in alive /\ w \in alive
  /\ IF size[w] <= capacity(v) THEN Reuse(v, w, size[v])
     ELSE IF Doomed(v) THEN Break("dead")
     ELSE PutNew(v, Padded(Contents(w), capacity(w)), size[w]) /\ UNCHANGED broken
  /\ UNCHANGED <<alive, destructors>>

\* Lines 137-149: the elements are copied into the buffer if they fit, also
\* when v = w, and v is swapped with a copy otherwise.
CopyAssign(v, w) ==
  /\ v \in alive /\ w \in alive
  /\ IF size[w] <= capacity(v) THEN Reuse(v, w, size[w])
     ELSE IF Doomed(v) THEN Break("dead")
     ELSE PutNew(v, Padded(Contents(w), capacity(w)), size[w]) /\ UNCHANGED broken
  /\ UNCHANGED <<alive, destructors>>

\* Lines 151-153.
Move(v, w) ==
  /\ w \in alive /\ Create(v)
  /\ begin' = [begin EXCEPT ![v] = begin[w], ![w] = null]
  /\ size' = [size EXCEPT ![v] = size[w], ![w] = 0]
  /\ UNCHANGED <<heap, owned, dead, destructors, broken>>

\* Lines 155-159: also v = w, which changes nothing.
MoveAssign(v, w) ==
  /\ v \in alive /\ w \in alive
  /\ IF v # w /\ Doomed(v) THEN Break("dead")
     ELSE /\ begin' = [begin EXCEPT ![w] = null, ![v] = begin[w]]
          /\ size' = [size EXCEPT ![w] = 0, ![v] = size[w]]
          /\ IF v = w THEN UNCHANGED <<heap, owned, dead>> ELSE Delete(v)
          /\ UNCHANGED <<alive, broken>>
  /\ UNCHANGED destructors

\* Lines 161-165.
Destroy(v) ==
  /\ v \in alive
  /\ IF Doomed(v) THEN Break("dead")
     ELSE alive' = alive \ {v} /\ Put(v, null, 0) /\ Delete(v) /\ UNCHANGED broken
  /\ UNCHANGED destructors

Next == broken = "no" /\ \E v \in Vectors :
  \/ Construct(v) \/ PopBack(v) \/ Destroy(v)
  \/ \E x \in Values, emplace \in BOOLEAN : Push(v, x, emplace)
  \/ \E k \in 1..MaxSize, emplace \in BOOLEAN : PushOwn(v, k, emplace)
  \/ \E w \in Vectors : Copy(v, w) \/ CopyAssign(v, w) \/ Move(v, w) \/ MoveAssign(v, w)

Spec == Init /\ [][Next]_vars

-----------------------------------------------------------------------------
\* A buffer belongs to one vector: none is deleted twice, and none is lost.
BuffersOwned ==
  LET of(v) == {begin[v]} \ {null}
  IN  /\ owned = UNION {of(v) : v \in alive}
      /\ \A v, w \in alive : v # w => of(v) \cap of(w) = {}

\* No element of a vector is dead, also when there are destructors: what is
\* dead lies beyond the last, or between two uses of the vector.
ElementsAlive ==
  broken = "no" => \A v \in alive : dead[begin[v]] \cap 1..size[v] = {}

\* Each vector is a list of its own, through growth, copies and moves.
Lists == INSTANCE ListStore WITH list <- [v \in Vectors |-> Contents(v)]

ListSpec == Lists!Spec
=============================================================================
