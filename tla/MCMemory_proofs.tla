-------------------------- MODULE MCMemory_proofs --------------------------
(***************************************************************************)
(* What the rule of five, the object pool, the vector and the archive      *)
(* promise, for every value of the constants: the inductive invariant of   *)
(* each, a lemma for each of its operations, and its theorem.              *)
(***************************************************************************)
EXTENDS MCMemory, FiniteSetTheorems, WellFoundedInduction, SequenceTheorems, TLAPS

-----------------------------------------------------------------------------
(* Least elements: instead of induction *)

LEMMA Below == \A x, y \in Nat : x < y => <<x, y>> \in OpToRel(<, Nat)
  BY DEF OpToRel

LEMMA Least ==
  ASSUME NEW S, S \subseteq Nat, S # {}
  PROVE  \E x \in S : \A y \in S : x <= y
<1>1. PICK x \in S : \A y \in S : ~ (<<y, x>> \in OpToRel(<, Nat))
  BY NatLessThanWellFounded, WFMin
<1>2. ASSUME NEW y \in S
      PROVE  x <= y
  <2>1. x \in Nat /\ y \in Nat
    OBVIOUS
  <2>2. ~ (y < x)
    BY <1>1, <2>1, Below, Zenon
  <2> QED
    BY <2>1, <2>2
<1> QED
  BY <1>2

-----------------------------------------------------------------------------
(* ro5 *)

LEMMA OwnerSteps == [Next]_vars => [Owners!Next]_Owners!vars
  BY DEF Next, vars, PoolStep, VectorStep, OwnerStep, ArchiveStep, ownerVars, Owners!vars

\* Each member of U has one owner: an object in a, an object in b, or a lost
\* pair whose k-th component it is.  An object without one has none.
Partition(a, b, L, k, U, none) ==
  /\ a \in [Owned -> U \cup {none}] /\ b \in [Owned -> U \cup {none}] /\ none \notin U
  /\ \A l \in L : l[k] \in U
  /\ \A o, q \in Owned : a[o] # none /\ a[o] = a[q] => o = q
  /\ \A o, q \in Owned : b[o] # none /\ b[o] = b[q] => o = q
  /\ \A o, q \in Owned : a[o] # none => a[o] # b[q]
  /\ \A l \in L, o \in Owned : l[k] # a[o] /\ l[k] # b[o]
  /\ \A l, m \in L : l[k] = m[k] => l = m
  /\ \A x \in U : (\E o \in Owned : a[o] = x) \/ (\E o \in Owned : b[o] = x) \/ \E l \in L : l[k] = x

\* What may happen to a partition.
LEMMA PartitionSwap ==
  ASSUME NEW a, NEW b, NEW L, NEW k, NEW U, NEW none, Partition(a, b, L, k, U, none)
  PROVE  Partition(b, a, L, k, U, none)
  BY DEF Partition

LEMMA PartitionAcquire ==
  ASSUME NEW a, NEW b, NEW L, NEW k, NEW U, NEW none, Partition(a, b, L, k, U, none),
         NEW o \in Owned, a[o] = none, NEW x, x \notin U, x # none
  PROVE  Partition([a EXCEPT ![o] = x], b, L, k, U \cup {x}, none)
<1> DEFINE c == [a EXCEPT ![o] = x]
<1>1. /\ c \in [Owned -> U \cup {x} \cup {none}] /\ b \in [Owned -> U \cup {x} \cup {none}]
      /\ c[o] = x /\ \A q \in Owned : q # o => c[q] = a[q]
  BY DEF Partition
<1> HIDE DEF c
<1>2. \A l \in L : l[k] \in U \cup {x}
  BY DEF Partition
<1>3. \A p, q \in Owned : c[p] # none /\ c[p] = c[q] => p = q
  BY <1>1 DEF Partition
<1>4. \A p, q \in Owned : c[p] # none => c[p] # b[q]
  BY <1>1 DEF Partition
<1>5. \A l \in L, q \in Owned : l[k] # c[q] /\ l[k] # b[q]
  BY <1>1 DEF Partition
<1>6. ASSUME NEW y \in U \cup {x}
      PROVE  (\E q \in Owned : c[q] = y) \/ (\E q \in Owned : b[q] = y) \/ \E l \in L : l[k] = y
  <2>1. CASE y = x
    BY <1>1, <2>1
  <2>2. CASE y # x
    <3>1. y \in U /\ y # none
      BY <2>2 DEF Partition
    <3>2. \A q \in Owned : a[q] = y => c[q] = y
      BY <1>1, <3>1
    <3> QED
      BY <3>1, <3>2 DEF Partition
  <2> QED
    BY <2>1, <2>2
<1> QED
  BY <1>1, <1>2, <1>3, <1>4, <1>5, <1>6 DEF Partition, c

LEMMA PartitionRelease ==
  ASSUME NEW a, NEW b, NEW L, NEW k, NEW U, NEW none, Partition(a, b, L, k, U, none),
         NEW o \in Owned
  PROVE  Partition([a EXCEPT ![o] = none], b, L, k, U \ {a[o]}, none)
<1> DEFINE c == [a EXCEPT ![o] = none]
<1>1. /\ c \in [Owned -> (U \ {a[o]}) \cup {none}] /\ b \in [Owned -> (U \ {a[o]}) \cup {none}]
  BY DEF Partition
<1>2. c[o] = none /\ \A q \in Owned : q # o => c[q] = a[q]
  BY DEF Partition
<1> HIDE DEF c
<1>3. \A l \in L : l[k] \in U \ {a[o]}
  BY DEF Partition
<1>4. /\ \A p, q \in Owned : c[p] # none /\ c[p] = c[q] => p = q
      /\ \A p, q \in Owned : c[p] # none => c[p] # b[q]
  BY <1>2 DEF Partition
<1>5. \A l \in L, q \in Owned : l[k] # c[q] /\ l[k] # b[q]
  BY <1>2, <1>3 DEF Partition
<1>6. ASSUME NEW y \in U \ {a[o]}
      PROVE  (\E q \in Owned : c[q] = y) \/ (\E q \in Owned : b[q] = y) \/ \E l \in L : l[k] = y
  <2>1. \A q \in Owned : a[q] = y => c[q] = y
    BY <1>2
  <2> QED
    BY <2>1 DEF Partition
<1> QED
  BY <1>1, <1>3, <1>4, <1>5, <1>6 DEF Partition, c

LEMMA PartitionMove ==
  ASSUME NEW a, NEW b, NEW L, NEW k, NEW U, NEW none, Partition(a, b, L, k, U, none),
         NEW o \in Owned, NEW s \in Owned, o # s, a[o] = none
  PROVE  Partition([a EXCEPT ![s] = none, ![o] = a[s]], b, L, k, U, none)
<1> DEFINE c == [a EXCEPT ![s] = none, ![o] = a[s]]
<1>1. /\ c \in [Owned -> U \cup {none}]
      /\ c[o] = a[s] /\ c[s] = none /\ \A q \in Owned \ {o, s} : c[q] = a[q]
  BY DEF Partition
<1> HIDE DEF c
<1>2. \A p, q \in Owned : c[p] # none /\ c[p] = c[q] => p = q
  BY <1>1 DEF Partition
<1>3. \A p, q \in Owned : c[p] # none => c[p] # b[q]
  BY <1>1 DEF Partition
<1>4. \A l \in L, q \in Owned : l[k] # c[q] /\ l[k] # b[q]
  BY <1>1 DEF Partition
<1>5. ASSUME NEW y \in U
      PROVE  (\E q \in Owned : c[q] = y) \/ (\E q \in Owned : b[q] = y) \/ \E l \in L : l[k] = y
  <2>1. \A q \in Owned : a[q] = y => \E p \in Owned : c[p] = y
    BY <1>1 DEF Partition
  <2> QED
    BY <2>1 DEF Partition
<1> QED
  BY <1>1, <1>2, <1>3, <1>4, <1>5 DEF Partition, c

LEMMA PartitionLose ==
  ASSUME NEW a, NEW b, NEW L, NEW k, NEW U, NEW none, Partition(a, b, L, k, U, none),
         NEW l, l[k] \notin U, l[k] # none
  PROVE  Partition(a, b, L \cup {l}, k, U \cup {l[k]}, none)
<1>1. /\ a \in [Owned -> U \cup {l[k]} \cup {none}] /\ b \in [Owned -> U \cup {l[k]} \cup {none}]
      /\ none \notin U \cup {l[k]}
  BY DEF Partition
<1>2. \A m \in L \cup {l} : m[k] \in U \cup {l[k]}
  BY DEF Partition
<1>3. \A m \in L \cup {l}, q \in Owned : m[k] # a[q] /\ m[k] # b[q]
  BY DEF Partition
<1>4. \A m, n \in L \cup {l} : m[k] = n[k] => m = n
  BY DEF Partition
<1>5. \A y \in U \cup {l[k]} :
        (\E q \in Owned : a[q] = y) \/ (\E q \in Owned : b[q] = y) \/ \E m \in L \cup {l} : m[k] = y
  BY DEF Partition
<1> QED
  BY <1>1, <1>2, <1>3, <1>4, <1>5 DEF Partition
-----------------------------------------------------------------------------
Arrays == [count : Int, data : Data]
World == [file : [1..MaxFiles -> Files \cup {"closed"}], block : [1..MaxBlocks -> Arrays]]
Things == [kind : {"none", "base", "derived"}, path : Files \cup {"missing", ""}, count : Nat,
           fd : 1..MaxFiles \cup {-1}, ptr : 0..MaxBlocks, up : 0..MaxBlocks,
           dfd : 1..MaxFiles \cup {-1}, assigned : BOOLEAN]

OwnerTypes ==
  /\ file \in [1..MaxFiles -> Files \cup {"closed"}] /\ block \in [1..MaxBlocks -> Arrays]
  /\ obj \in [Owned -> Things] /\ value \in [Owned -> Data]

FdOf == [o \in Owned |-> obj[o].fd]
DfdOf == [o \in Owned |-> obj[o].dfd]
PtrOf == [o \in Owned |-> obj[o].ptr]
UpOf == [o \in Owned |-> obj[o].up]
Opened == {f \in 1..MaxFiles : file[f] # "closed"}
Taken == {b \in 1..MaxBlocks : block[b] # Owners!Free}

\* A file may be lost alone.
LostArrays == {l \in lost : l[2] # 0}

LEMMA SameLost == lost' = lost => LostArrays' = LostArrays
  BY DEF LostArrays

Intact(a, v) ==
  /\ IF a.ptr = 0 THEN a.count = 0 /\ a.fd = -1
     ELSE /\ block[a.ptr].count = a.count
          /\ a.count > 0 => block[a.ptr].data = v
  /\ a.fd # -1 /\ ~ a.assigned => file[a.fd] = a.path

\* What is not there has nothing, and what is not derived none of its members.
Bare(a, v) ==
  /\ a.kind = "none" => v = 0 /\ a.fd = -1 /\ a.ptr = 0
  /\ a.kind # "derived" => a.up = 0 /\ a.dfd = -1

OwnerInv ==
  /\ OwnerTypes
  /\ Partition(FdOf, DfdOf, lost, 1, Opened, -1)
  /\ Partition(PtrOf, UpOf, LostArrays, 2, Taken, 0)
  /\ \A o \in Owned : Intact(obj[o], value[o]) /\ Bare(obj[o], value[o])

LEMMA OwnerConstants ==
  /\ Counts \subseteq Nat /\ 0 \in Data /\ MaxFiles \in Nat /\ MaxBlocks \in Nat
  /\ "closed" \notin Files
  BY Constants DEF Constants, Owners!RuleOfFiveAssumption

LEMMA MinIsIn ==
  ASSUME NEW S, S \subseteq Nat, S # {}
  PROVE  Owners!Min(S) \in S
  BY Least DEF Owners!Min

\* open() and new take what is not in use.
GotFile(f, w, p) ==
  /\ p \in Files /\ f.fd \in 1..MaxFiles /\ w.file[f.fd] = "closed"
  /\ f.w \in World
  /\ f.w.file = [w.file EXCEPT ![f.fd] = p] /\ f.w.block = w.block
GotArray(a, w, n) ==
  /\ a.ptr \in 1..MaxBlocks /\ w.block[a.ptr] = Owners!Free
  /\ a.w \in World /\ a.w.file = w.file
  /\ a.w.block = [w.block EXCEPT ![a.ptr] = [count |-> n, data |-> 0]]

LEMMA OpenFacts ==
  ASSUME NEW w \in World, NEW p, NEW f \in Owners!Open(w, p)
  PROVE  GotFile(f, w, p)
<1> DEFINE closed == {x \in 1..MaxFiles : w.file[x] = "closed"}
<1>1. /\ p \in Files /\ closed # {}
      /\ f = [fd |-> Owners!Min(closed), w |-> [w EXCEPT !.file[Owners!Min(closed)] = p]]
  BY DEF Owners!Open
<1>2. Owners!Min(closed) \in closed
  BY <1>1, MinIsIn, OwnerConstants
<1> HIDE DEF closed
<1>3. PICK m \in closed : m = Owners!Min(closed)
  BY <1>2
<1>4. m \in 1..MaxFiles /\ w.file[m] = "closed"
  BY DEF closed
<1>5. f.fd = m /\ f.w = [w EXCEPT !.file[m] = p]
  BY <1>1, <1>3
<1>6. f.w \in World /\ f.w.file = [w.file EXCEPT ![m] = p] /\ f.w.block = w.block
  BY <1>1, <1>4, <1>5 DEF World
<1> QED
  BY <1>1, <1>4, <1>5, <1>6 DEF GotFile

LEMMA NewFacts ==
  ASSUME NEW w \in World, NEW n \in Nat, NEW a \in Owners!New(w, n)
  PROVE  GotArray(a, w, n)
<1> DEFINE unused == {x \in 1..MaxBlocks : w.block[x] = Owners!Free}
<1>1. /\ unused # {}
      /\ a = [ptr |-> Owners!Min(unused),
              w |-> [w EXCEPT !.block[Owners!Min(unused)] = [count |-> n, data |-> 0]]]
  BY DEF Owners!New
<1>2. Owners!Min(unused) \in unused
  BY <1>1, MinIsIn, OwnerConstants
<1> HIDE DEF unused
<1>3. PICK m \in unused : m = Owners!Min(unused)
  BY <1>2
<1>4. m \in 1..MaxBlocks /\ w.block[m] = Owners!Free
  BY DEF unused
<1>5. a.ptr = m /\ a.w = [w EXCEPT !.block[m] = [count |-> n, data |-> 0]]
  BY <1>1, <1>3
<1> DEFINE new == [count |-> n, data |-> 0]
<1>7. new \in Arrays
  BY OwnerConstants DEF Arrays
<1> HIDE DEF new
<1>6. a.w \in World /\ a.w.file = w.file /\ a.w.block = [w.block EXCEPT ![m] = new]
  <2>1. w = [file |-> w.file, block |-> w.block] /\ w.block \in [1..MaxBlocks -> Arrays]
    BY DEF World
  <2>2. a.w = [file |-> w.file, block |-> [w.block EXCEPT ![m] = new]]
    <3>1. a.w = [w EXCEPT !.block[m] = new]
      BY <1>5 DEF new
    <3> QED
      BY <2>1, <3>1
  <2> QED
    BY <1>4, <1>7, <2>1, <2>2 DEF World
<1> QED
  BY <1>4, <1>5, <1>6 DEF new, GotArray

LEMMA SameWorld ==
  ASSUME NEW w \in World, NEW c \in World,
         \A f \in 1..MaxFiles : c.file[f] = w.file[f],
         \A b \in 1..MaxBlocks : c.block[b] = w.block[b]
  PROVE  c = w
<1> DEFINE F == 1..MaxFiles
           B == 1..MaxBlocks
<1>1. /\ w.file \in [F -> Files \cup {"closed"}] /\ w.block \in [B -> Arrays]
      /\ c.file \in [F -> Files \cup {"closed"}] /\ c.block \in [B -> Arrays]
      /\ w = [file |-> w.file, block |-> w.block] /\ c = [file |-> c.file, block |-> c.block]
  BY DEF World
<1>2. /\ \A f \in F : c.file[f] = w.file[f]
      /\ \A b \in B : c.block[b] = w.block[b]
  OBVIOUS
<1> HIDE DEF F, B
<1>3. c.file = w.file
  BY <1>1, <1>2
<1>4. c.block = w.block
  BY <1>1, <1>2
<1> QED
  BY <1>1, <1>3, <1>4, Zenon

Cleaned(c, w, fd, mem) ==
  /\ c \in World
  /\ \A f \in 1..MaxFiles : c.file[f] = IF f = fd THEN "closed" ELSE w.file[f]
  /\ \A b \in 1..MaxBlocks : c.block[b] = IF b = mem THEN Owners!Free ELSE w.block[b]

LEMMA CleanupFacts ==
  ASSUME NEW w, w.file \in [1..MaxFiles -> Files \cup {"closed"}],
         w.block \in [1..MaxBlocks -> Arrays], NEW fd, NEW mem
  PROVE  Cleaned(Owners!cleanup(w, fd, mem), w, fd, mem)
  BY OwnerConstants DEF Cleaned, Owners!cleanup, Owners!Free, World, Arrays

LEMMA WorldFields ==
  ASSUME NEW w \in World
  PROVE  w.file \in [1..MaxFiles -> Files \cup {"closed"}] /\ w.block \in [1..MaxBlocks -> Arrays]
  BY DEF World

\* init() gets a file and an array, or nothing, or leaves a file open.
InitOk(r, w, p, n) ==
  /\ r.ok /\ p \in Files /\ r.fd \in 1..MaxFiles /\ w.file[r.fd] = "closed"
  /\ r.ptr \in 1..MaxBlocks /\ w.block[r.ptr] = Owners!Free
  /\ r.w.file = [w.file EXCEPT ![r.fd] = p]
  /\ r.w.block = [w.block EXCEPT ![r.ptr] = [count |-> n, data |-> 0]]
InitFailed(r, w) == ~ r.ok /\ r.fd = -1 /\ r.ptr = 0 /\ r.w = w
InitLeaks(r, w, p) ==
  /\ ~ r.ok /\ p \in Files /\ r.fd \in 1..MaxFiles /\ w.file[r.fd] = "closed" /\ r.ptr = 0
  /\ r.w.file = [w.file EXCEPT ![r.fd] = p] /\ r.w.block = w.block
  /\ "constructor" \in escapes

LEMMA InitFacts ==
  ASSUME NEW w \in World, NEW p, NEW n \in Nat, NEW r \in Owners!init(w, p, n)
  PROVE  r.w \in World /\ r = [ok |-> r.ok, w |-> r.w, fd |-> r.fd, ptr |-> r.ptr]
         /\ (InitOk(r, w, p, n) \/ InitFailed(r, w) \/ InitLeaks(r, w, p))
<1>1. CASE Owners!Open(w, p) = {}
  <2>1. r = Owners!Failed(Owners!cleanup(w, -1, 0))
    BY <1>1 DEF Owners!init, Owners!null
  <2>2. Owners!cleanup(w, -1, 0) = w
    <3>0. PICK c : c = Owners!cleanup(w, -1, 0)
      OBVIOUS
    <3>1. Cleaned(c, w, -1, 0)
      BY <3>0, CleanupFacts, WorldFields
    <3>2. /\ \A x \in 1..MaxFiles : c.file[x] = w.file[x]
          /\ \A x \in 1..MaxBlocks : c.block[x] = w.block[x]
      BY <3>1, OwnerConstants DEF Cleaned
    <3>3. c \in World
      BY <3>1 DEF Cleaned
    <3> QED
      BY <3>0, <3>2, <3>3, SameWorld
  <2> QED
    BY <2>1, <2>2 DEF Owners!Failed, Owners!null, InitFailed
<1>2. CASE Owners!Open(w, p) # {}
  <2>1. PICK f \in Owners!Open(w, p) :
          \/ r = Owners!Failed(Owners!cleanup(f.w, f.fd, 0))
          \/ r \in Owners!Uncaught(f, n)
          \/ \E a \in Owners!New(f.w, n) : r = [ok |-> TRUE, w |-> a.w, fd |-> f.fd, ptr |-> a.ptr]
    BY <1>2 DEF Owners!init, Owners!null
  <2>2. /\ p \in Files /\ f.fd \in 1..MaxFiles /\ w.file[f.fd] = "closed"
        /\ f.w \in World
        /\ f.w.file = [w.file EXCEPT ![f.fd] = p] /\ f.w.block = w.block
    BY OpenFacts, Zenon DEF GotFile
  <2>3. CASE r = Owners!Failed(Owners!cleanup(f.w, f.fd, 0))
    <3>0. PICK c : c = Owners!cleanup(f.w, f.fd, 0)
      OBVIOUS
    <3>1. Cleaned(c, f.w, f.fd, 0)
      BY <2>2, <3>0, CleanupFacts, WorldFields
    <3>2. \A x \in 1..MaxFiles : c.file[x] = w.file[x]
      BY <2>2, <3>1 DEF World, Cleaned
    <3>3. \A x \in 1..MaxBlocks : c.block[x] = w.block[x]
      BY <2>2, <3>1, OwnerConstants DEF Cleaned
    <3>4. c = w
      BY <3>1, <3>2, <3>3, SameWorld DEF Cleaned
    <3> QED
      BY <2>3, <3>0, <3>4 DEF Owners!Failed, Owners!null, InitFailed
  <2>4. CASE \E a \in Owners!New(f.w, n) :
               r = [ok |-> TRUE, w |-> a.w, fd |-> f.fd, ptr |-> a.ptr]
    <3>1. PICK a \in Owners!New(f.w, n) : r = [ok |-> TRUE, w |-> a.w, fd |-> f.fd, ptr |-> a.ptr]
      BY <2>4
    <3>2. /\ a.ptr \in 1..MaxBlocks /\ f.w.block[a.ptr] = Owners!Free
          /\ a.w \in World /\ a.w.file = f.w.file
          /\ a.w.block = [f.w.block EXCEPT ![a.ptr] = [count |-> n, data |-> 0]]
      <4>1. GotArray(a, f.w, n)
        BY <2>2, NewFacts
      <4> QED
        BY <4>1 DEF GotArray
    <3> QED
      BY <2>2, <3>1, <3>2 DEF InitOk
  <2>5. CASE r \in Owners!Uncaught(f, n)
    <3>1. r = [Owners!Failed(f.w) EXCEPT !.fd = f.fd] /\ "constructor" \in escapes
      BY <2>5 DEF Owners!Uncaught
    <3>2. PICK fd, v : fd = f.fd /\ v = f.w
      OBVIOUS
    <3>3. r = [ok |-> FALSE, w |-> v, fd |-> fd, ptr |-> 0]
      BY <3>1, <3>2 DEF Owners!Failed, Owners!null
    <3> QED
      BY <2>2, <3>1, <3>2, <3>3 DEF InitLeaks
  <2> QED
    BY <2>1, <2>3, <2>4, <2>5
<1> QED
  BY <1>1, <1>2
-----------------------------------------------------------------------------
LEMMA PartitionReplace ==
  ASSUME NEW a, NEW b, NEW L, NEW k, NEW U, NEW none, Partition(a, b, L, k, U, none),
         NEW o \in Owned, NEW x, x \notin U, x # none
  PROVE  Partition([a EXCEPT ![o] = x], b, L, k, (U \ {a[o]}) \cup {x}, none)
<1> DEFINE c == [a EXCEPT ![o] = none]
<1>1. Partition(c, b, L, k, U \ {a[o]}, none)
  BY PartitionRelease
<1>2. c[o] = none /\ [c EXCEPT ![o] = x] = [a EXCEPT ![o] = x]
  BY DEF Partition
<1> HIDE DEF c
<1>3. x \notin U \ {a[o]}
  OBVIOUS
<1>4. Partition([c EXCEPT ![o] = x], b, L, k, (U \ {a[o]}) \cup {x}, none)
  BY <1>1, <1>2, <1>3, PartitionAcquire
<1> QED
  BY <1>2, <1>4

\* What an object has is in use, and no other object has it.
LEMMA Had ==
  ASSUME OwnerInv, NEW q \in Owned
  PROVE  /\ obj[q].fd # -1 => obj[q].fd \in 1..MaxFiles /\ file[obj[q].fd] # "closed"
         /\ obj[q].ptr # 0 => obj[q].ptr \in 1..MaxBlocks /\ block[obj[q].ptr] # Owners!Free
         /\ \A o \in Owned : obj[q].fd # -1 => /\ obj[q].fd = obj[o].fd => o = q
                                               /\ obj[q].fd # obj[o].dfd
         /\ \A o \in Owned : obj[q].ptr # 0 => /\ obj[q].ptr = obj[o].ptr => o = q
                                               /\ obj[q].ptr # obj[o].up
<1>1. /\ FdOf[q] \in Opened \cup {-1}
      /\ \A o \in Owned : FdOf[q] # -1 => (FdOf[q] = FdOf[o] => q = o) /\ FdOf[q] # DfdOf[o]
  BY DEF OwnerInv, Partition
<1>2. /\ PtrOf[q] \in Taken \cup {0}
      /\ \A o \in Owned : PtrOf[q] # 0 => (PtrOf[q] = PtrOf[o] => q = o) /\ PtrOf[q] # UpOf[o]
  BY DEF OwnerInv, Partition
<1>3. \A o \in Owned : /\ FdOf[o] = obj[o].fd /\ DfdOf[o] = obj[o].dfd
                       /\ PtrOf[o] = obj[o].ptr /\ UpOf[o] = obj[o].up
  BY DEF FdOf, DfdOf, PtrOf, UpOf
<1> QED
  BY <1>1, <1>2, <1>3 DEF Opened, Taken

LEMMA IntactElsewhere ==
  ASSUME OwnerInv, NEW q \in Owned, obj'[q] = obj[q], value'[q] = value[q],
         obj[q].ptr # 0 => block'[obj[q].ptr] = block[obj[q].ptr],
         obj[q].fd # -1 => file'[obj[q].fd] = file[obj[q].fd]
  PROVE  Intact(obj[q], value[q])' /\ Bare(obj[q], value[q])'
  BY DEF OwnerInv, Intact, Bare

LEMMA FieldsSet ==
  ASSUME NEW o \in Owned, \A q \in Owned : q # o => obj'[q] = obj[q]
  PROVE  /\ FdOf' = [FdOf EXCEPT ![o] = obj'[o].fd] /\ PtrOf' = [PtrOf EXCEPT ![o] = obj'[o].ptr]
         /\ obj'[o].dfd = obj[o].dfd => DfdOf' = DfdOf
         /\ obj'[o].up = obj[o].up => UpOf' = UpOf
         /\ DfdOf' = [DfdOf EXCEPT ![o] = obj'[o].dfd] /\ UpOf' = [UpOf EXCEPT ![o] = obj'[o].up]
<1>1. FdOf' = [FdOf EXCEPT ![o] = obj'[o].fd]
  BY DEF FdOf
<1>2. PtrOf' = [PtrOf EXCEPT ![o] = obj'[o].ptr]
  BY DEF PtrOf
<1>3. DfdOf' = [DfdOf EXCEPT ![o] = obj'[o].dfd] /\ (obj'[o].dfd = obj[o].dfd => DfdOf' = DfdOf)
  BY DEF DfdOf
<1>4. UpOf' = [UpOf EXCEPT ![o] = obj'[o].up] /\ (obj'[o].up = obj[o].up => UpOf' = UpOf)
  BY DEF UpOf
<1> QED
  BY <1>1, <1>2, <1>3, <1>4

LEMMA FieldsMoved ==
  ASSUME NEW o \in Owned, NEW s \in Owned, o # s,
         \A q \in Owned : q # o /\ q # s => obj'[q] = obj[q]
  PROVE  /\ obj'[s].fd = -1 /\ obj'[o].fd = obj[s].fd =>
              FdOf' = [[FdOf EXCEPT ![o] = -1] EXCEPT ![s] = -1, ![o] = obj[s].fd]
         /\ obj'[s].ptr = 0 /\ obj'[o].ptr = obj[s].ptr =>
              PtrOf' = [[PtrOf EXCEPT ![o] = 0] EXCEPT ![s] = 0, ![o] = obj[s].ptr]
         /\ obj'[o].dfd = obj[o].dfd /\ obj'[s].dfd = obj[s].dfd => DfdOf' = DfdOf
         /\ obj'[o].up = obj[o].up /\ obj'[s].up = obj[s].up => UpOf' = UpOf
<1>1. obj'[s].fd = -1 /\ obj'[o].fd = obj[s].fd =>
        FdOf' = [[FdOf EXCEPT ![o] = -1] EXCEPT ![s] = -1, ![o] = obj[s].fd]
  BY DEF FdOf
<1>2. obj'[s].ptr = 0 /\ obj'[o].ptr = obj[s].ptr =>
        PtrOf' = [[PtrOf EXCEPT ![o] = 0] EXCEPT ![s] = 0, ![o] = obj[s].ptr]
  BY DEF PtrOf
<1>3. obj'[o].dfd = obj[o].dfd /\ obj'[s].dfd = obj[s].dfd => DfdOf' = DfdOf
  BY DEF DfdOf
<1>4. obj'[o].up = obj[o].up /\ obj'[s].up = obj[s].up => UpOf' = UpOf
  BY DEF UpOf
<1> QED
  BY <1>1, <1>2, <1>3, <1>4

LEMMA OwnerSame ==
  ASSUME OwnerInv, UNCHANGED <<file, block, obj, lost, value>>
  PROVE  OwnerInv'
<1>1. OwnerTypes'
  BY DEF OwnerInv, OwnerTypes
<1>2. /\ UNCHANGED <<FdOf, DfdOf, PtrOf, UpOf, Opened, Taken, lost, LostArrays>>
  BY DEF FdOf, DfdOf, PtrOf, UpOf, Opened, Taken, LostArrays
<1>3. /\ Partition(FdOf, DfdOf, lost, 1, Opened, -1)'
      /\ Partition(PtrOf, UpOf, LostArrays, 2, Taken, 0)'
  BY <1>2 DEF OwnerInv
<1>4. \A o \in Owned : Intact(obj[o], value[o])' /\ Bare(obj[o], value[o])'
  BY IntactElsewhere
<1> QED
  BY <1>1, <1>3, <1>4 DEF OwnerInv

\* What the operations do: a file, or an array, takes the place of the one that
\* is gone, and an object changes.
Reopened(gone, fd, p) ==
  /\ file' \in [1..MaxFiles -> Files \cup {"closed"}]
  /\ \A f \in 1..MaxFiles :
       file'[f] = IF f = gone THEN "closed" ELSE IF f = fd THEN p ELSE file[f]

Reused(gone, b, x) ==
  /\ block' \in [1..MaxBlocks -> Arrays]
  /\ \A c \in 1..MaxBlocks :
       block'[c] = IF c = gone THEN Owners!Free ELSE IF c = b THEN x ELSE block[c]

Becomes(o, a, v) == obj' = [obj EXCEPT ![o] = a] /\ value' = [value EXCEPT ![o] = v]

\* An object that is not derived gives up what it has for a new file and a new
\* array.
Replaces(o, a, fd, p, b, x, v) ==
  /\ obj[o].kind # "derived" /\ file[fd] = "closed" /\ block[b] = Owners!Free
  /\ x # Owners!Free /\ x.count = a.count /\ (a.count > 0 => x.data = v)
  /\ a.kind = "base" /\ a.fd = fd /\ a.ptr = b /\ a.up = 0 /\ a.dfd = -1
  /\ a.assigned \/ a.path = p
  /\ Reopened(obj[o].fd, fd, p) /\ Reused(obj[o].ptr, b, x) /\ Becomes(o, a, v)
  /\ lost' = lost

LEMMA OwnerReplace ==
  ASSUME OwnerInv, NEW o \in Owned, NEW a \in Things, NEW fd \in 1..MaxFiles, NEW p \in Files,
         NEW b \in 1..MaxBlocks, NEW x \in Arrays, NEW v \in Data,
         Replaces(o, a, fd, p, b, x, v)
  PROVE  OwnerInv'
<1> USE DEF Replaces
<1>0. /\ file' \in [1..MaxFiles -> Files \cup {"closed"}]
      /\ \A f \in 1..MaxFiles :
           file'[f] = IF f = obj[o].fd THEN "closed" ELSE IF f = fd THEN p ELSE file[f]
      /\ block' \in [1..MaxBlocks -> Arrays]
      /\ \A c \in 1..MaxBlocks :
           block'[c] = IF c = obj[o].ptr THEN Owners!Free ELSE IF c = b THEN x ELSE block[c]
      /\ obj' = [obj EXCEPT ![o] = a] /\ value' = [value EXCEPT ![o] = v]
  BY DEF Reopened, Reused, Becomes
<1>1. OwnerTypes'
  BY <1>0 DEF OwnerInv, OwnerTypes
<1>2. /\ obj'[o] = a /\ value'[o] = v
      /\ \A q \in Owned : q # o => obj'[q] = obj[q] /\ value'[q] = value[q]
  BY <1>0 DEF OwnerInv, OwnerTypes
<1>3. obj[o].up = 0 /\ obj[o].dfd = -1
  BY DEF OwnerInv, Bare
<1>4. fd # -1 /\ fd # obj[o].fd /\ b # 0 /\ b # obj[o].ptr /\ p # "closed"
  BY Had, OwnerConstants
<1>5. Partition(FdOf, DfdOf, lost, 1, Opened, -1)'
  <2>1. Partition([FdOf EXCEPT ![o] = fd], DfdOf, lost, 1, (Opened \ {FdOf[o]}) \cup {fd}, -1)
    <3>1. fd \notin Opened
      BY DEF Opened
    <3> QED
      BY <1>4, <3>1, PartitionReplace DEF OwnerInv
  <2>2. FdOf' = [FdOf EXCEPT ![o] = fd] /\ DfdOf' = DfdOf
    BY <1>2, <1>3, FieldsSet
  <2>3. Opened' = (Opened \ {FdOf[o]}) \cup {fd}
    BY <1>0, <1>4 DEF Opened, FdOf
  <2> QED
    BY <2>1, <2>2, <2>3
<1>6. Partition(PtrOf, UpOf, LostArrays, 2, Taken, 0)'
  <2>1. Partition([PtrOf EXCEPT ![o] = b], UpOf, LostArrays, 2, (Taken \ {PtrOf[o]}) \cup {b}, 0)
    <3>1. b \notin Taken
      BY DEF Taken
    <3> QED
      BY <1>4, <3>1, PartitionReplace DEF OwnerInv
  <2>2. PtrOf' = [PtrOf EXCEPT ![o] = b] /\ UpOf' = UpOf
    BY <1>2, <1>3, FieldsSet
  <2>3. Taken' = (Taken \ {PtrOf[o]}) \cup {b}
    BY <1>0, <1>4 DEF Taken, PtrOf
  <2> QED
    BY <2>1, <2>2, <2>3, SameLost
<1>7. Intact(obj[o], value[o])' /\ Bare(obj[o], value[o])'
  <2>1. block'[b] = x /\ file'[fd] = p
    BY <1>0, <1>4
  <2> QED
    BY <1>2, <1>4, <2>1 DEF Intact, Bare
<1>8. ASSUME NEW q \in Owned, q # o
      PROVE  Intact(obj[q], value[q])' /\ Bare(obj[q], value[q])'
  <2>1. obj[q].ptr # 0 => block'[obj[q].ptr] = block[obj[q].ptr]
    BY <1>0, <1>8, Had
  <2>2. obj[q].fd # -1 => file'[obj[q].fd] = file[obj[q].fd]
    BY <1>0, <1>8, Had
  <2> QED
    BY <1>2, <1>8, <2>1, <2>2, IntactElsewhere
<1> QED
  BY <1>1, <1>5, <1>6, <1>7, <1>8 DEF OwnerInv

Derives(o, a, fd, g, p, q, b, c, x, y) ==
  /\ obj[o].kind = "none" /\ g # fd /\ file[fd] = "closed" /\ file[g] = "closed"
  /\ c # b /\ block[b] = Owners!Free /\ block[c] = Owners!Free
  /\ x # Owners!Free /\ x.count = a.count /\ x.data = 0 /\ y # Owners!Free
  /\ a.kind = "derived" /\ a.fd = fd /\ a.ptr = b /\ a.up = c /\ a.dfd = g /\ a.path = p
  /\ file' = [[file EXCEPT ![fd] = p] EXCEPT ![g] = q]
  /\ block' = [[block EXCEPT ![b] = x] EXCEPT ![c] = y]
  /\ obj' = [obj EXCEPT ![o] = a] /\ UNCHANGED <<lost, value>>

LEMMA OwnerDerive ==
  ASSUME OwnerInv, NEW o \in Owned, NEW a \in Things,
         NEW fd \in 1..MaxFiles, NEW g \in 1..MaxFiles, NEW p \in Files, NEW q \in Files,
         NEW b \in 1..MaxBlocks, NEW c \in 1..MaxBlocks, NEW x \in Arrays, NEW y \in Arrays,
         Derives(o, a, fd, g, p, q, b, c, x, y)
  PROVE  OwnerInv'
<1> USE DEF Derives
<1>0. /\ file' \in [1..MaxFiles -> Files \cup {"closed"}] /\ block' \in [1..MaxBlocks -> Arrays]
      /\ \A f \in 1..MaxFiles :
           file'[f] = IF f = fd THEN p ELSE IF f = g THEN q ELSE file[f]
      /\ \A d \in 1..MaxBlocks :
           block'[d] = IF d = b THEN x ELSE IF d = c THEN y ELSE block[d]
  BY DEF OwnerInv, OwnerTypes
<1>1. OwnerTypes'
  BY <1>0 DEF OwnerInv, OwnerTypes
<1>2. obj'[o] = a /\ \A r \in Owned : r # o => obj'[r] = obj[r]
  BY DEF OwnerInv, OwnerTypes
<1>3. obj[o].fd = -1 /\ obj[o].ptr = 0 /\ obj[o].up = 0 /\ obj[o].dfd = -1 /\ value[o] = 0
  BY DEF OwnerInv, Bare
<1>4. fd # -1 /\ g # -1 /\ b # 0 /\ c # 0 /\ p # "closed" /\ q # "closed"
  BY OwnerConstants
<1>5. FdOf[o] = -1 /\ DfdOf[o] = -1 /\ PtrOf[o] = 0 /\ UpOf[o] = 0
  BY <1>3 DEF FdOf, DfdOf, PtrOf, UpOf
<1>6. Partition(FdOf, DfdOf, lost, 1, Opened, -1)'
  <2>1. fd \notin Opened /\ g \notin Opened \cup {fd}
    BY DEF Opened
  <2> DEFINE F == [FdOf EXCEPT ![o] = fd]
             G == [DfdOf EXCEPT ![o] = g]
  <2>2. Partition(F, DfdOf, lost, 1, Opened \cup {fd}, -1)
    BY <1>4, <1>5, <2>1, PartitionAcquire DEF OwnerInv
  <2> HIDE DEF F
  <2>3. Partition(G, F, lost, 1, (Opened \cup {fd}) \cup {g}, -1)
    BY <1>4, <1>5, <2>1, <2>2, PartitionSwap, PartitionAcquire
  <2>4. Partition(F, G, lost, 1, (Opened \cup {fd}) \cup {g}, -1)
    BY <2>3, PartitionSwap
  <2>5. FdOf' = F /\ DfdOf' = G
    BY <1>2, FieldsSet DEF F
  <2>6. Opened' = (Opened \cup {fd}) \cup {g}
    BY <1>0, <1>4 DEF Opened
  <2> QED
    BY <2>4, <2>5, <2>6
<1>7. Partition(PtrOf, UpOf, LostArrays, 2, Taken, 0)'
  <2>1. b \notin Taken /\ c \notin Taken \cup {b}
    BY DEF Taken
  <2> DEFINE F == [PtrOf EXCEPT ![o] = b]
             G == [UpOf EXCEPT ![o] = c]
  <2>2. Partition(F, UpOf, LostArrays, 2, Taken \cup {b}, 0)
    BY <1>4, <1>5, <2>1, PartitionAcquire DEF OwnerInv
  <2> HIDE DEF F
  <2>3. Partition(G, F, LostArrays, 2, (Taken \cup {b}) \cup {c}, 0)
    BY <1>4, <1>5, <2>1, <2>2, PartitionSwap, PartitionAcquire
  <2>4. Partition(F, G, LostArrays, 2, (Taken \cup {b}) \cup {c}, 0)
    BY <2>3, PartitionSwap
  <2>5. PtrOf' = F /\ UpOf' = G
    BY <1>2, FieldsSet DEF F
  <2>6. Taken' = (Taken \cup {b}) \cup {c}
    BY <1>0, <1>4 DEF Taken
  <2> QED
    BY <2>4, <2>5, <2>6, SameLost
<1>8. Intact(obj[o], value[o])' /\ Bare(obj[o], value[o])'
  <2>1. block'[b] = x /\ file'[fd] = p
    BY <1>0
  <2> QED
    BY <1>2, <1>3, <1>4, <2>1 DEF Intact, Bare
<1>9. ASSUME NEW r \in Owned, r # o
      PROVE  Intact(obj[r], value[r])' /\ Bare(obj[r], value[r])'
  <2>1. obj[r].ptr # 0 => block'[obj[r].ptr] = block[obj[r].ptr]
    BY <1>0, Had
  <2>2. obj[r].fd # -1 => file'[obj[r].fd] = file[obj[r].fd]
    BY <1>0, Had
  <2> QED
    BY <1>2, <1>9, <2>1, <2>2, IntactElsewhere
<1> QED
  BY <1>1, <1>6, <1>7, <1>8, <1>9 DEF OwnerInv

\* An array is lost with a file.
Loses(fd, p, b, x) ==
  /\ file[fd] = "closed" /\ block[b] = Owners!Free /\ x # Owners!Free
  /\ file' = [file EXCEPT ![fd] = p] /\ block' = [block EXCEPT ![b] = x]
  /\ lost' = lost \cup {<<fd, b>>} /\ UNCHANGED <<obj, value>>

LEMMA OwnerLose ==
  ASSUME OwnerInv, NEW fd \in 1..MaxFiles, NEW p \in Files, NEW b \in 1..MaxBlocks, NEW x \in Arrays,
         Loses(fd, p, b, x)
  PROVE  OwnerInv'
<1> USE DEF Loses
<1>1. OwnerTypes'
  BY DEF OwnerInv, OwnerTypes
<1>2. /\ \A f \in 1..MaxFiles : file'[f] = IF f = fd THEN p ELSE file[f]
      /\ \A d \in 1..MaxBlocks : block'[d] = IF d = b THEN x ELSE block[d]
  BY DEF OwnerInv, OwnerTypes
<1>3. fd # -1 /\ b # 0 /\ p # "closed" /\ <<fd, b>>[1] = fd /\ <<fd, b>>[2] = b
  BY OwnerConstants
<1>4. UNCHANGED <<FdOf, DfdOf, PtrOf, UpOf>>
  BY DEF FdOf, DfdOf, PtrOf, UpOf
<1>5. PICK l : l = <<fd, b>>
  OBVIOUS
<1>6. l[1] = fd /\ l[2] = b /\ lost' = lost \cup {l}
  BY <1>3, <1>5
<1>7. Opened' = Opened \cup {l[1]} /\ l[1] \notin Opened /\ l[1] # -1
  BY <1>2, <1>3, <1>6 DEF Opened
<1>8. Taken' = Taken \cup {l[2]} /\ l[2] \notin Taken /\ l[2] # 0
  BY <1>2, <1>3, <1>6 DEF Taken
<1>9. Partition(FdOf, DfdOf, lost \cup {l}, 1, Opened \cup {l[1]}, -1)
  BY <1>7, PartitionLose DEF OwnerInv
<1>10. Partition(PtrOf, UpOf, LostArrays \cup {l}, 2, Taken \cup {l[2]}, 0)
  BY <1>8, PartitionLose DEF OwnerInv
<1>11. LostArrays' = LostArrays \cup {l}
  BY <1>6, <1>8 DEF LostArrays
<1>12. ASSUME NEW q \in Owned
       PROVE  Intact(obj[q], value[q])' /\ Bare(obj[q], value[q])'
  <2>1. obj[q].ptr # 0 => block'[obj[q].ptr] = block[obj[q].ptr]
    BY <1>2, Had
  <2>2. obj[q].fd # -1 => file'[obj[q].fd] = file[obj[q].fd]
    BY <1>2, Had
  <2> QED
    BY <2>1, <2>2, IntactElsewhere
<1> QED
  BY <1>1, <1>4, <1>6, <1>7, <1>8, <1>9, <1>10, <1>11, <1>12 DEF OwnerInv

\* A file is lost alone.
LosesFile(fd, p) ==
  /\ file[fd] = "closed" /\ file' = [file EXCEPT ![fd] = p]
  /\ lost' = lost \cup {<<fd, 0>>} /\ UNCHANGED <<block, obj, value>>

LEMMA OwnerLoseFile ==
  ASSUME OwnerInv, NEW fd \in 1..MaxFiles, NEW p \in Files, LosesFile(fd, p)
  PROVE  OwnerInv'
<1> USE DEF LosesFile
<1>1. OwnerTypes'
  BY DEF OwnerInv, OwnerTypes
<1>2. \A f \in 1..MaxFiles : file'[f] = IF f = fd THEN p ELSE file[f]
  BY DEF OwnerInv, OwnerTypes
<1>3. fd # -1 /\ p # "closed" /\ <<fd, 0>>[1] = fd /\ <<fd, 0>>[2] = 0
  BY OwnerConstants
<1>4. UNCHANGED <<FdOf, DfdOf, PtrOf, UpOf, Taken>>
  BY DEF FdOf, DfdOf, PtrOf, UpOf, Taken
<1>5. PICK l : l = <<fd, 0>>
  OBVIOUS
<1>6. l[1] = fd /\ l[2] = 0 /\ lost' = lost \cup {l}
  BY <1>3, <1>5
<1>7. Opened' = Opened \cup {l[1]} /\ l[1] \notin Opened /\ l[1] # -1
  BY <1>2, <1>3, <1>6 DEF Opened
<1>8. Partition(FdOf, DfdOf, lost \cup {l}, 1, Opened \cup {l[1]}, -1)
  BY <1>7, PartitionLose DEF OwnerInv
<1>9. LostArrays' = LostArrays
  BY <1>6 DEF LostArrays
<1>10. ASSUME NEW q \in Owned
       PROVE  Intact(obj[q], value[q])' /\ Bare(obj[q], value[q])'
  <2>1. obj[q].fd # -1 => file'[obj[q].fd] = file[obj[q].fd]
    BY <1>2, Had
  <2> QED
    BY <2>1, IntactElsewhere
<1>11. /\ Partition(FdOf, DfdOf, lost, 1, Opened, -1)'
       /\ Partition(PtrOf, UpOf, LostArrays, 2, Taken, 0)'
  BY <1>4, <1>6, <1>7, <1>8, <1>9 DEF OwnerInv
<1> QED
  BY <1>1, <1>10, <1>11 DEF OwnerInv

\* o gives up what it has for what s has.
TakesOver(o, s, a) ==
  /\ o # s /\ obj[o].kind # "derived" /\ obj[s].kind = "base"
  /\ file' \in [1..MaxFiles -> Files \cup {"closed"}]
  /\ \A f \in 1..MaxFiles : file'[f] = IF f = obj[o].fd THEN "closed" ELSE file[f]
  /\ block' \in [1..MaxBlocks -> Arrays]
  /\ \A c \in 1..MaxBlocks : block'[c] = IF c = obj[o].ptr THEN Owners!Free ELSE block[c]
  /\ a.kind = "base" /\ a.fd = obj[s].fd /\ a.ptr = obj[s].ptr
  /\ a.count = obj[s].count /\ a.up = 0 /\ a.dfd = -1
  /\ a.assigned \/ (a.path = obj[s].path /\ ~ obj[s].assigned)
  /\ obj' = [obj EXCEPT ![s] = Owners!Emptied, ![o] = a]
  /\ value' = [value EXCEPT ![s] = 0, ![o] = value[s]] /\ lost' = lost

LEMMA OwnerMoved ==
  ASSUME OwnerInv, NEW o \in Owned, NEW s \in Owned, NEW a \in Things, TakesOver(o, s, a)
  PROVE  OwnerInv'
<1> USE DEF TakesOver
<1> DEFINE e == Owners!Emptied
<1>0. /\ e \in Things /\ e.kind = "base" /\ e.fd = -1 /\ e.ptr = 0 /\ e.count = 0
      /\ e.up = 0 /\ e.dfd = -1
  BY OwnerConstants DEF Owners!Emptied, Owners!None, Owners!null, Things
<1>a. obj' = [obj EXCEPT ![s] = e, ![o] = a]
  OBVIOUS
<1> HIDE DEF e
<1>1. OwnerTypes'
  BY <1>0, <1>a, OwnerConstants DEF OwnerInv, OwnerTypes
<1>2. /\ obj'[o] = a /\ obj'[s] = e /\ value'[o] = value[s] /\ value'[s] = 0
      /\ \A q \in Owned : q # o /\ q # s => obj'[q] = obj[q] /\ value'[q] = value[q]
  BY <1>a DEF OwnerInv, OwnerTypes
<1>3. obj[o].up = 0 /\ obj[o].dfd = -1 /\ obj[s].up = 0 /\ obj[s].dfd = -1
  BY DEF OwnerInv, Bare
<1>b. /\ obj'[s].fd = -1 /\ obj'[o].fd = obj[s].fd /\ obj'[s].ptr = 0 /\ obj'[o].ptr = obj[s].ptr
      /\ obj'[o].dfd = obj[o].dfd /\ obj'[s].dfd = obj[s].dfd
      /\ obj'[o].up = obj[o].up /\ obj'[s].up = obj[s].up
  BY <1>0, <1>2, <1>3
<1>c. /\ FdOf' = [[FdOf EXCEPT ![o] = -1] EXCEPT ![s] = -1, ![o] = obj[s].fd]
      /\ PtrOf' = [[PtrOf EXCEPT ![o] = 0] EXCEPT ![s] = 0, ![o] = obj[s].ptr]
      /\ DfdOf' = DfdOf /\ UpOf' = UpOf
  <2>1. \A q \in Owned : q # o /\ q # s => obj'[q] = obj[q]
    BY <1>2, Zenon
  <2> QED
    BY <1>b, <2>1, FieldsMoved, ZenonT(30)
<1>4. Partition(FdOf, DfdOf, lost, 1, Opened, -1)'
  <2> DEFINE F == [FdOf EXCEPT ![o] = -1]
  <2>1. Partition(F, DfdOf, lost, 1, Opened \ {FdOf[o]}, -1)
    BY PartitionRelease DEF OwnerInv
  <2>2. F[o] = -1 /\ F[s] = obj[s].fd
    BY DEF FdOf
  <2>3. [F EXCEPT ![s] = -1, ![o] = F[s]] = FdOf'
    BY <1>c, <2>2, Zenon
  <2> HIDE DEF F
  <2>4. Partition([F EXCEPT ![s] = -1, ![o] = F[s]], DfdOf, lost, 1, Opened \ {FdOf[o]}, -1)
    BY <2>1, <2>2, PartitionMove
  <2>5. DfdOf' = DfdOf
    BY <1>c
  <2>6. Opened' = Opened \ {FdOf[o]}
    BY DEF Opened, FdOf
  <2> QED
    BY <2>3, <2>4, <2>5, <2>6
<1>5. Partition(PtrOf, UpOf, LostArrays, 2, Taken, 0)'
  <2> DEFINE F == [PtrOf EXCEPT ![o] = 0]
  <2>1. Partition(F, UpOf, LostArrays, 2, Taken \ {PtrOf[o]}, 0)
    BY PartitionRelease DEF OwnerInv
  <2>2. F[o] = 0 /\ F[s] = obj[s].ptr
    BY DEF PtrOf
  <2>3. [F EXCEPT ![s] = 0, ![o] = F[s]] = PtrOf'
    BY <1>c, <2>2, Zenon
  <2> HIDE DEF F
  <2>4. Partition([F EXCEPT ![s] = 0, ![o] = F[s]], UpOf, LostArrays, 2, Taken \ {PtrOf[o]}, 0)
    BY <2>1, <2>2, PartitionMove
  <2>5. UpOf' = UpOf
    BY <1>c
  <2>6. Taken' = Taken \ {PtrOf[o]}
    BY DEF Taken, PtrOf
  <2> QED
    BY <2>3, <2>4, <2>5, <2>6, SameLost
<1>6. ASSUME NEW q \in Owned, q # o
      PROVE  /\ obj[q].ptr # 0 => block'[obj[q].ptr] = block[obj[q].ptr]
             /\ obj[q].fd # -1 => file'[obj[q].fd] = file[obj[q].fd]
  BY <1>6, Had
<1>7. Intact(obj[o], value[o])' /\ Bare(obj[o], value[o])'
  <2>1. Intact(obj[s], value[s])
    BY DEF OwnerInv
  <2> QED
    BY <1>2, <1>6, <2>1 DEF Intact, Bare
<1>8. Intact(obj[s], value[s])' /\ Bare(obj[s], value[s])'
  BY <1>0, <1>2 DEF Intact, Bare
<1>9. ASSUME NEW q \in Owned, q # o, q # s
      PROVE  Intact(obj[q], value[q])' /\ Bare(obj[q], value[q])'
  BY <1>2, <1>6, <1>9, IntactElsewhere
<1> QED
  BY <1>1, <1>4, <1>5, <1>7, <1>8, <1>9 DEF OwnerInv

\* o keeps what it has, and forgets its path.
LEMMA OwnerAssignedSelf ==
  ASSUME OwnerInv, NEW o \in Owned, obj[o].kind = "base",
         NEW a \in Things, a.kind = "base", a.fd = obj[o].fd, a.ptr = obj[o].ptr,
         a.count = obj[o].count, a.up = 0, a.dfd = -1, a.assigned,
         obj' = [obj EXCEPT ![o] = a], UNCHANGED <<file, block, lost, value>>
  PROVE  OwnerInv'
<1>1. OwnerTypes'
  BY DEF OwnerInv, OwnerTypes
<1>2. obj'[o] = a /\ \A q \in Owned : q # o => obj'[q] = obj[q]
  BY DEF OwnerInv, OwnerTypes
<1>3. obj[o].up = 0 /\ obj[o].dfd = -1
  BY DEF OwnerInv, Bare
<1>4. obj'[o].fd = obj[o].fd /\ obj'[o].ptr = obj[o].ptr
  BY <1>2
<1>5. FdOf' = FdOf
  BY <1>2, <1>4 DEF FdOf
<1>6. PtrOf' = PtrOf
  BY <1>2, <1>4 DEF PtrOf
<1>7. DfdOf' = DfdOf /\ UpOf' = UpOf
  <2>1. obj'[o].dfd = obj[o].dfd /\ obj'[o].up = obj[o].up
    BY <1>2, <1>3
  <2>2. \A q \in Owned : q # o => obj'[q] = obj[q]
    BY <1>2
  <2> QED
    BY <2>1, <2>2, FieldsSet, Zenon
<1>8. Opened' = Opened /\ Taken' = Taken
  BY DEF Opened, Taken
<1>9. Intact(obj[o], value[o])' /\ Bare(obj[o], value[o])'
  <2>1. Intact(obj[o], value[o])
    BY DEF OwnerInv
  <2> QED
    BY <1>2, <2>1 DEF Intact, Bare
<1>10. ASSUME NEW q \in Owned, q # o
       PROVE  Intact(obj[q], value[q])' /\ Bare(obj[q], value[q])'
  BY <1>2, <1>10, IntactElsewhere
<1>11. /\ Partition(FdOf, DfdOf, lost, 1, Opened, -1)'
       /\ Partition(PtrOf, UpOf, LostArrays, 2, Taken, 0)'
  BY <1>5, <1>6, <1>7, <1>8, SameLost DEF OwnerInv
<1> QED
  BY <1>1, <1>9, <1>10, <1>11 DEF OwnerInv

LEMMA OwnerWrites ==
  ASSUME OwnerInv, NEW o \in Owned, NEW d \in Data, Owners!Write(o, d)
  PROVE  OwnerInv'
<1> DEFINE b == obj[o].ptr
<1>1. /\ b # 0 /\ block' = [block EXCEPT ![b].data = d]
      /\ value' = [value EXCEPT ![o] = d] /\ UNCHANGED <<file, obj, lost>>
  BY DEF Owners!Write, Owners!null
<1>2. b \in 1..MaxBlocks /\ \A q \in Owned : q # o => obj[q].ptr # b
  BY <1>1, Had
<1>3. block[b].count \in Nat
  BY <1>1 DEF OwnerInv, OwnerTypes, Things, Intact
<1> HIDE DEF b
<1>4. /\ block' \in [1..MaxBlocks -> Arrays]
      /\ block'[b].count = block[b].count /\ block'[b].data = d
      /\ \A c \in 1..MaxBlocks : c # b => block'[c] = block[c]
  BY <1>1, <1>2 DEF OwnerInv, OwnerTypes, Arrays
<1>5. OwnerTypes'
  BY <1>1, <1>4 DEF OwnerInv, OwnerTypes
<1>6. UNCHANGED <<FdOf, DfdOf, PtrOf, UpOf, Opened>>
  BY <1>1 DEF FdOf, DfdOf, PtrOf, UpOf, Opened
<1>7. Taken' = Taken
  <2>1. block[b] # Owners!Free /\ block'[b] # Owners!Free
    BY <1>3, <1>4 DEF Owners!Free
  <2> QED
    BY <1>4, <2>1 DEF Taken
<1>8. /\ Partition(FdOf, DfdOf, lost, 1, Opened, -1)'
      /\ Partition(PtrOf, UpOf, LostArrays, 2, Taken, 0)'
  BY <1>1, <1>6, <1>7, SameLost DEF OwnerInv
<1>9. ASSUME NEW q \in Owned, q # o
      PROVE  Intact(obj[q], value[q])' /\ Bare(obj[q], value[q])'
  <2>1. obj[q].ptr # 0 => block'[obj[q].ptr] = block[obj[q].ptr]
    BY <1>2, <1>4, <1>9, Had
  <2>2. value'[q] = value[q]
    BY <1>1, <1>9 DEF OwnerInv, OwnerTypes
  <2> QED
    BY <1>1, <2>1, <2>2, IntactElsewhere
<1>10. Intact(obj[o], value[o])' /\ Bare(obj[o], value[o])'
  <2>1. Intact(obj[o], value[o]) /\ Bare(obj[o], value[o]) /\ obj[o].ptr = b /\ value'[o] = d
    BY <1>1 DEF OwnerInv, OwnerTypes, b
  <2> QED
    BY <1>1, <1>4, <2>1 DEF Intact, Bare
<1> QED
  BY <1>5, <1>8, <1>9, <1>10 DEF OwnerInv

LEMMA ThingIn ==
  ASSUME NEW k \in {"none", "base", "derived"}, NEW p \in Files \cup {"missing", ""}, NEW n \in Nat,
         NEW fd \in 1..MaxFiles \cup {-1}, NEW mem \in 0..MaxBlocks, NEW up \in 0..MaxBlocks,
         NEW dfd \in 1..MaxFiles \cup {-1}, NEW g \in BOOLEAN
  PROVE  [kind |-> k, path |-> p, count |-> n, fd |-> fd, ptr |-> mem,
          up |-> up, dfd |-> dfd, assigned |-> g] \in Things
  BY DEF Things

LEMMA NoneFacts ==
  /\ Owners!None \in Things /\ Owners!None.kind = "none" /\ Owners!None.fd = -1
  /\ Owners!None.ptr = 0 /\ Owners!None.count = 0 /\ Owners!None.up = 0 /\ Owners!None.dfd = -1
<1>1. Owners!None = [kind |-> "none", path |-> "", count |-> 0, fd |-> -1, ptr |-> 0,
                     up |-> 0, dfd |-> -1, assigned |-> FALSE]
  BY DEF Owners!None, Owners!null
<1>2. Owners!None \in Things
  <2>1. /\ "none" \in {"none", "base", "derived"} /\ "" \in Files \cup {"missing", ""}
        /\ 0 \in Nat /\ -1 \in 1..MaxFiles \cup {-1} /\ 0 \in 0..MaxBlocks /\ FALSE \in BOOLEAN
    BY OwnerConstants
  <2> QED
    BY <1>1, <2>1, ThingIn, Zenon
<1> QED
  BY <1>1, <1>2

LEMMA OwnerDestroys ==
  ASSUME OwnerInv, NEW o \in Owned, 
         file' \in [1..MaxFiles -> Files \cup {"closed"}],
         \A f \in 1..MaxFiles :
           file'[f] = IF f = obj[o].fd \/ f = obj[o].dfd THEN "closed" ELSE file[f],
         block' \in [1..MaxBlocks -> Arrays],
         \A c \in 1..MaxBlocks :
           block'[c] = IF c = obj[o].ptr \/ c = obj[o].up THEN Owners!Free ELSE block[c],
         obj' = [obj EXCEPT ![o] = Owners!None],
         value' = [value EXCEPT ![o] = 0], lost' = lost
  PROVE  OwnerInv'
<1>0. PICK e : /\ e = Owners!None
               /\ e \in Things /\ e.kind = "none" /\ e.fd = -1 /\ e.ptr = 0 /\ e.count = 0
               /\ e.up = 0 /\ e.dfd = -1
  BY NoneFacts
<1>a. obj' = [obj EXCEPT ![o] = e]
  BY <1>0
<1>1. OwnerTypes'
  BY <1>0, <1>a, OwnerConstants DEF OwnerInv, OwnerTypes
<1>2. /\ obj'[o] = e /\ value'[o] = 0
      /\ \A q \in Owned : q # o => obj'[q] = obj[q] /\ value'[q] = value[q]
  BY <1>a DEF OwnerInv, OwnerTypes
<1>3. /\ FdOf' = [FdOf EXCEPT ![o] = -1] /\ PtrOf' = [PtrOf EXCEPT ![o] = 0]
      /\ DfdOf' = [DfdOf EXCEPT ![o] = -1] /\ UpOf' = [UpOf EXCEPT ![o] = 0]
  BY <1>0, <1>2, FieldsSet
<1>4. Partition(FdOf, DfdOf, lost, 1, Opened, -1)'
  <2> DEFINE F == [FdOf EXCEPT ![o] = -1]
             G == [DfdOf EXCEPT ![o] = -1]
             U == Opened \ {FdOf[o]}
  <2>1. Partition(F, DfdOf, lost, 1, U, -1)
    BY PartitionRelease DEF OwnerInv
  <2> HIDE DEF F, U
  <2>2. Partition(F, G, lost, 1, U \ {DfdOf[o]}, -1)
    BY <2>1, PartitionSwap, PartitionRelease
  <2>3. Opened' = U \ {DfdOf[o]}
    BY DEF Opened, FdOf, DfdOf, U
  <2> QED
    BY <1>3, <2>2, <2>3 DEF F
<1>5. Partition(PtrOf, UpOf, LostArrays, 2, Taken, 0)'
  <2> DEFINE F == [PtrOf EXCEPT ![o] = 0]
             G == [UpOf EXCEPT ![o] = 0]
             U == Taken \ {PtrOf[o]}
  <2>1. Partition(F, UpOf, LostArrays, 2, U, 0)
    BY PartitionRelease DEF OwnerInv
  <2> HIDE DEF F, U
  <2>2. Partition(F, G, LostArrays, 2, U \ {UpOf[o]}, 0)
    BY <2>1, PartitionSwap, PartitionRelease
  <2>3. Taken' = U \ {UpOf[o]}
    BY DEF Taken, PtrOf, UpOf, U
  <2> QED
    BY <1>3, <2>2, <2>3, SameLost DEF F
<1>6. Intact(obj[o], value[o])' /\ Bare(obj[o], value[o])'
  BY <1>0, <1>2 DEF Intact, Bare
<1>7. ASSUME NEW q \in Owned, q # o
      PROVE  Intact(obj[q], value[q])' /\ Bare(obj[q], value[q])'
  <2>1. obj[q].ptr # 0 => block'[obj[q].ptr] = block[obj[q].ptr]
    BY <1>7, Had
  <2>2. obj[q].fd # -1 => file'[obj[q].fd] = file[obj[q].fd]
    BY <1>7, Had
  <2> QED
    BY <1>2, <1>7, <2>1, <2>2, IntactElsewhere
<1> QED
  BY <1>1, <1>4, <1>5, <1>6, <1>7 DEF OwnerInv
-----------------------------------------------------------------------------
LEMMA NowFacts ==
  ASSUME OwnerInv
  PROVE  Owners!Now \in World /\ Owners!Now.file = file /\ Owners!Now.block = block
  BY DEF OwnerInv, OwnerTypes, World, Owners!Now

LEMMA InBlocks == 0 \in 0..MaxBlocks /\ \A c \in 1..MaxBlocks : c \in 0..MaxBlocks
  BY OwnerConstants

\* a is a base, or a derived with the members u and g.
IsBase(a, p, n, fd, c) ==
  a = [kind |-> "base", path |-> p, count |-> n, fd |-> fd, ptr |-> c,
       up |-> 0, dfd |-> -1, assigned |-> FALSE]
BaseFields(a, p, n, fd, c) ==
  /\ a \in Things /\ a.kind = "base" /\ a.path = p /\ a.count = n /\ a.fd = fd
  /\ a.ptr = c /\ a.up = 0 /\ a.dfd = -1

LEMMA BaseThing ==
  ASSUME NEW p \in Files \cup {"missing", ""}, NEW n \in Nat,
         NEW fd \in 1..MaxFiles, NEW c \in 1..MaxBlocks, NEW a, IsBase(a, p, n, fd, c)
  PROVE  BaseFields(a, p, n, fd, c)
<1>1. /\ "base" \in {"none", "base", "derived"} /\ FALSE \in BOOLEAN
      /\ fd \in 1..MaxFiles \cup {-1} /\ -1 \in 1..MaxFiles \cup {-1}
  OBVIOUS
<1>2. c \in 0..MaxBlocks /\ 0 \in 0..MaxBlocks
  BY InBlocks, Zenon
<1>3. a \in Things
  BY <1>1, <1>2, ThingIn, Zenon DEF IsBase
<1> QED
  BY <1>3 DEF IsBase, BaseFields

LEMMA BaseFacts ==
  ASSUME NEW p \in Files \cup {"missing", ""}, NEW n \in Nat,
         NEW r, r.fd \in 1..MaxFiles, r.ptr \in 1..MaxBlocks
  PROVE  /\ IsBase(Owners!Base(p, n, r), p, n, r.fd, r.ptr)
         /\ BaseFields(Owners!Base(p, n, r), p, n, r.fd, r.ptr)
<1>1. PICK fd \in 1..MaxFiles, c \in 1..MaxBlocks : fd = r.fd /\ c = r.ptr
  OBVIOUS
<1>2. PICK a : a = Owners!Base(p, n, r)
  OBVIOUS
<1>3. IsBase(a, p, n, fd, c)
  BY <1>1, <1>2 DEF Owners!Base, Owners!None, Owners!null, IsBase
<1>4. BaseFields(a, p, n, fd, c)
  BY <1>3, BaseThing, Zenon
<1> QED
  BY <1>1, <1>2, <1>3, <1>4, Zenon

\* A file of path p and the array x were got.
Got(r, p, x) ==
  /\ p \in Files /\ r.fd \in 1..MaxFiles /\ file[r.fd] = "closed"
  /\ r.ptr \in 1..MaxBlocks /\ block[r.ptr] = Owners!Free
  /\ r.w.file = [file EXCEPT ![r.fd] = p] /\ r.w.block = [block EXCEPT ![r.ptr] = x]
  /\ x \in Arrays /\ x.count \in Nat

\* What is left when a constructor of base throws.
Thrown(r, p) ==
  /\ ~ r.ok
  /\ \/ r.fd = -1 /\ r.w = Owners!Now
     \/ InitLeaks(r, Owners!Now, p)
     \/ "assignment" \in escapes /\ \E x : Got(r, p, x)

\* T may have thrown what lost l.
Escaped(l) == (IF l[2] = 0 THEN "constructor" ELSE "assignment") \in escapes
Losing == lost' = lost \/ \E l : lost' = lost \cup {l} /\ Escaped(l)

LEMMA InitThrown ==
  ASSUME OwnerInv, NEW p, NEW n \in Nat, NEW r \in Owners!init(Owners!Now, p, n)
  PROVE  r.w \in World /\ IF r.ok THEN InitOk(r, Owners!Now, p, n) ELSE Thrown(r, p)
<1>1. PICK w : w = Owners!Now
  OBVIOUS
<1>2. r.w \in World /\ (InitOk(r, w, p, n) \/ InitFailed(r, w) \/ InitLeaks(r, w, p))
  BY <1>1, NowFacts, InitFacts
<1> QED
  BY <1>1, <1>2 DEF InitOk, InitFailed, InitLeaks, Thrown

LEMMA OwnerThrow ==
  ASSUME OwnerInv, NEW r, NEW p, Thrown(r, p), Owners!Throw(r)
  PROVE  OwnerInv' /\ Losing
<1>1. /\ file' = r.w.file /\ block' = r.w.block /\ UNCHANGED <<obj, value>>
      /\ lost' = IF r.fd = -1 THEN lost ELSE lost \cup {<<r.fd, r.ptr>>}
  BY DEF Owners!Throw, Owners!Put
<1>2. CASE r.fd = -1 /\ r.w = Owners!Now
  <2>1. lost' = lost
    BY <1>1, <1>2
  <2> QED
    BY <1>1, <1>2, <2>1, NowFacts, OwnerSame DEF Losing
<1>3. CASE InitLeaks(r, Owners!Now, p)
  <2>1. PICK fd \in 1..MaxFiles : fd = r.fd
    BY <1>3 DEF InitLeaks
  <2>2. p \in Files /\ file[fd] = "closed" /\ file' = [file EXCEPT ![fd] = p] /\ block' = block
    BY <1>1, <1>3, <2>1, NowFacts DEF InitLeaks
  <2>3. lost' = lost \cup {<<fd, 0>>} /\ Escaped(<<fd, 0>>)
    BY <1>1, <1>3, <2>1, OwnerConstants DEF InitLeaks, Escaped
  <2>4. LosesFile(fd, p)
    BY <1>1, <2>2, <2>3 DEF LosesFile
  <2> QED
    BY <2>2, <2>3, <2>4, OwnerLoseFile DEF Losing
<1>4. CASE "assignment" \in escapes /\ \E x : Got(r, p, x)
  <2>1. PICK x : Got(r, p, x)
    BY <1>4
  <2>2. PICK fd \in 1..MaxFiles : fd = r.fd
    BY <2>1 DEF Got
  <2>3. PICK b \in 1..MaxBlocks : b = r.ptr
    BY <2>1 DEF Got
  <2>4. /\ p \in Files /\ file[fd] = "closed" /\ block[b] = Owners!Free /\ x \in Arrays
        /\ file' = [file EXCEPT ![fd] = p] /\ block' = [block EXCEPT ![b] = x]
    BY <1>1, <2>1, <2>2, <2>3 DEF Got
  <2>5. lost' = lost \cup {<<fd, b>>} /\ Escaped(<<fd, b>>)
    BY <1>1, <1>4, <2>2, <2>3, OwnerConstants DEF Escaped
  <2>6. x # Owners!Free
    BY <2>1 DEF Got, Owners!Free
  <2>7. Loses(fd, p, b, x)
    BY <1>1, <2>4, <2>5, <2>6 DEF Loses
  <2> QED
    BY <2>4, <2>5, <2>7, OwnerLose DEF Losing
<1> QED
  BY <1>2, <1>3, <1>4 DEF Thrown

LEMMA OwnerConstruct ==
  ASSUME OwnerInv, NEW o \in Owned, NEW p \in Files \cup {"missing"}, NEW n \in Counts,
         Owners!Construct(o, p, n)
  PROVE  OwnerInv'
<1>1. PICK r \in Owners!init(Owners!Now, p, n) :
        IF ~ r.ok THEN Owners!Throw(r)
        ELSE /\ Owners!Put(r.w)
             /\ obj' = [obj EXCEPT ![o] = Owners!Base(p, n, r)]
             /\ UNCHANGED <<lost, value>>
  BY DEF Owners!Construct
<1>2. obj[o] = Owners!None
  BY DEF Owners!Construct
<1>3. n \in Nat
  BY OwnerConstants
<1>4. IF r.ok THEN InitOk(r, Owners!Now, p, n) ELSE Thrown(r, p)
  BY <1>3, InitThrown
<1>5. CASE ~ r.ok
  BY <1>1, <1>5, <1>4, OwnerThrow
<1>6. CASE r.ok
  <2>0. InitOk(r, Owners!Now, p, n) /\ file' = r.w.file /\ block' = r.w.block
    BY <1>1, <1>6, <1>4 DEF Owners!Put
  <2>a. UNCHANGED <<lost, value>> /\ obj' = [obj EXCEPT ![o] = Owners!Base(p, n, r)]
    BY <1>1, <1>6
  <2>1. /\ r.ok /\ p \in Files /\ r.fd \in 1..MaxFiles /\ file[r.fd] = "closed"
        /\ r.ptr \in 1..MaxBlocks /\ block[r.ptr] = Owners!Free
        /\ file' = [file EXCEPT ![r.fd] = p]
        /\ block' = [block EXCEPT ![r.ptr] = [count |-> n, data |-> 0]]
    BY <2>0, NowFacts DEF InitOk
  <2> DEFINE a == Owners!Base(p, n, r)
             x == [count |-> n, data |-> 0]
  <2>2. /\ a \in Things /\ a.kind = "base" /\ a.path = p /\ a.count = n /\ a.fd = r.fd
        /\ a.ptr = r.ptr /\ a.up = 0 /\ a.dfd = -1
    <3>1. p \in Files \cup {"missing", ""}
      OBVIOUS
    <3>2. BaseFields(a, p, n, r.fd, r.ptr)
      BY <1>3, <2>1, <3>1, BaseFacts, Zenon
    <3> HIDE DEF a
    <3> QED
      BY <3>2 DEF BaseFields
  <2>3. x \in Arrays /\ x # Owners!Free /\ x.count = n /\ x.data = 0
    BY <1>3, OwnerConstants DEF Arrays, Owners!Free
  <2>4. obj' = [obj EXCEPT ![o] = a] /\ block' = [block EXCEPT ![r.ptr] = x]
    BY <2>1, <2>a
  <2> HIDE DEF a, x
  <2>5. obj[o].kind = "none" /\ obj[o].fd = -1 /\ obj[o].ptr = 0 /\ value[o] = 0
    BY <1>2, NoneFacts DEF OwnerInv, Bare
  <2>6. Becomes(o, a, 0) /\ 0 \in Data
    BY <2>a, <2>4, <2>5, OwnerConstants DEF OwnerInv, OwnerTypes, Becomes
  <2>7. Reopened(obj[o].fd, r.fd, p)
    BY <2>1, <2>5 DEF OwnerInv, OwnerTypes, Reopened
  <2>8. Reused(obj[o].ptr, r.ptr, x)
    <3>1. \A c \in 1..MaxBlocks : c # 0
      BY OwnerConstants
    <3> QED
      BY <2>3, <2>4, <2>5, <3>1 DEF OwnerInv, OwnerTypes, Reused
  <2>9. obj[o].kind # "derived" /\ x.count = a.count /\ (a.count > 0 => x.data = 0)
    BY <2>2, <2>3, <2>5
  <2> QED
    <3>1. Replaces(o, a, r.fd, p, r.ptr, x, 0)
      BY <2>a, <2>1, <2>2, <2>3, <2>6, <2>7, <2>8, <2>9 DEF Replaces
    <3> QED
      BY <2>1, <2>2, <2>3, <2>6, <3>1, OwnerReplace
<1> QED
  BY <1>5, <1>6

\* What cleanup() leaves of what was got.
LEMMA InitUndone ==
  ASSUME NEW w \in World, NEW p, NEW n \in Nat, NEW r, r.w \in World, InitOk(r, w, p, n),
         NEW c, c = Owners!cleanup(r.w, r.fd, r.ptr)
  PROVE  c = w
<1>1. Cleaned(c, r.w, r.fd, r.ptr)
  BY CleanupFacts, WorldFields
<1>2. /\ w.file \in [1..MaxFiles -> Files \cup {"closed"}] /\ w.block \in [1..MaxBlocks -> Arrays]
  BY DEF World
<1>3. \A x \in 1..MaxFiles : c.file[x] = w.file[x]
  BY <1>1, <1>2 DEF Cleaned, InitOk
<1>4. \A x \in 1..MaxBlocks : c.block[x] = w.block[x]
  BY <1>1, <1>2 DEF Cleaned, InitOk
<1> QED
  BY <1>1, <1>3, <1>4, SameWorld DEF Cleaned

LEMMA NewUndone ==
  ASSUME NEW w \in World, NEW u \in Owners!New(w, 1),
         NEW c, c = Owners!cleanup(u.w, -1, u.ptr)
  PROVE  c = w
<1>1. /\ u.ptr \in 1..MaxBlocks /\ w.block[u.ptr] = Owners!Free
      /\ u.w \in World /\ u.w.file = w.file
      /\ u.w.block = [w.block EXCEPT ![u.ptr] = [count |-> 1, data |-> 0]]
  <2>1. GotArray(u, w, 1)
    BY NewFacts
  <2> QED
    BY <2>1 DEF GotArray
<1>2. Cleaned(c, u.w, -1, u.ptr)
  BY <1>1, CleanupFacts, WorldFields
<1>3. /\ w.file \in [1..MaxFiles -> Files \cup {"closed"}] /\ w.block \in [1..MaxBlocks -> Arrays]
  BY DEF World
<1>4. \A x \in 1..MaxFiles : c.file[x] = w.file[x]
  BY <1>1, <1>2, <1>3, OwnerConstants DEF Cleaned
<1>5. \A x \in 1..MaxBlocks : c.block[x] = w.block[x]
  BY <1>1, <1>2, <1>3 DEF Cleaned
<1> QED
  BY <1>2, <1>4, <1>5, SameWorld DEF Cleaned

LEMMA OwnerNothing ==
  ASSUME OwnerInv, NEW w, w = Owners!Now, Owners!Put(w), UNCHANGED <<obj, lost, value>>
  PROVE  OwnerInv'
<1>1. w.file = file /\ w.block = block
  BY NowFacts
<1>2. UNCHANGED <<file, block>>
  BY <1>1 DEF Owners!Put
<1> QED
  BY <1>2, OwnerSame

LEMMA OwnerConstructDerived ==
  ASSUME OwnerInv, NEW o \in Owned, NEW p \in Files \cup {"missing"}, NEW n \in Counts,
         NEW q \in Files \cup {"missing"}, Owners!ConstructDerived(o, p, n, q)
  PROVE  OwnerInv'
<1>0. PICK w : w = Owners!Now
  OBVIOUS
<1>1. PICK r \in Owners!init(w, p, n) :
        IF ~ r.ok THEN Owners!Throw(r)
        ELSE /\ \/ Owners!Put(Owners!cleanup(r.w, r.fd, r.ptr)) /\ UNCHANGED obj
                \/ \E u \in Owners!New(r.w, 1) :
                     IF Owners!Open(u.w, q) = {}
                     THEN /\ Owners!Put(Owners!cleanup(Owners!cleanup(u.w, -1, u.ptr), r.fd, r.ptr))
                          /\ UNCHANGED obj
                     ELSE \E f \in Owners!Open(u.w, q) :
                            /\ Owners!Put(f.w)
                            /\ obj' = [obj EXCEPT ![o] = [Owners!Base(p, n, r) EXCEPT
                                         !.kind = "derived", !.up = u.ptr, !.dfd = f.fd]]
             /\ UNCHANGED <<lost, value>>
  BY <1>0 DEF Owners!ConstructDerived
<1>2. obj[o] = Owners!None
  BY DEF Owners!ConstructDerived
<1>3. n \in Nat
  BY OwnerConstants
<1>4. w \in World /\ w.file = file /\ w.block = block
  BY <1>0, NowFacts
<1>5. r.w \in World /\ IF r.ok THEN InitOk(r, w, p, n) ELSE Thrown(r, p)
  BY <1>0, <1>3, InitThrown
<1>6. CASE ~ r.ok
  BY <1>1, <1>5, <1>6, OwnerThrow
<1>7. CASE r.ok
  <2>0. InitOk(r, w, p, n) /\ UNCHANGED <<lost, value>>
    BY <1>1, <1>5, <1>7
  <2>1. r.ok /\ Owners!cleanup(r.w, r.fd, r.ptr) = w
    BY <1>3, <1>4, <1>5, <1>7, <2>0, InitUndone
  <2>2. CASE Owners!Put(Owners!cleanup(r.w, r.fd, r.ptr)) /\ UNCHANGED obj
    BY <1>0, <2>0, <2>1, <2>2, OwnerNothing
  <2>3. CASE \E u \in Owners!New(r.w, 1) :
               IF Owners!Open(u.w, q) = {}
               THEN /\ Owners!Put(Owners!cleanup(Owners!cleanup(u.w, -1, u.ptr), r.fd, r.ptr))
                    /\ UNCHANGED obj
               ELSE \E f \in Owners!Open(u.w, q) :
                      /\ Owners!Put(f.w)
                      /\ obj' = [obj EXCEPT ![o] = [Owners!Base(p, n, r) EXCEPT
                                   !.kind = "derived", !.up = u.ptr, !.dfd = f.fd]]
    <3>1. PICK u \in Owners!New(r.w, 1) :
            IF Owners!Open(u.w, q) = {}
            THEN /\ Owners!Put(Owners!cleanup(Owners!cleanup(u.w, -1, u.ptr), r.fd, r.ptr))
                 /\ UNCHANGED obj
            ELSE \E f \in Owners!Open(u.w, q) :
                   /\ Owners!Put(f.w)
                   /\ obj' = [obj EXCEPT ![o] = [Owners!Base(p, n, r) EXCEPT
                                !.kind = "derived", !.up = u.ptr, !.dfd = f.fd]]
      BY <2>3
    <3>2. CASE Owners!Open(u.w, q) = {}
      <4>1. Owners!cleanup(u.w, -1, u.ptr) = r.w
        BY <1>5, NewUndone
      <4>2. Owners!Put(w) /\ UNCHANGED obj
        BY <2>1, <3>1, <3>2, <4>1
      <4> QED
        BY <1>0, <2>0, <4>2, OwnerNothing
    <3>3. CASE Owners!Open(u.w, q) # {}
      <4>1. PICK f \in Owners!Open(u.w, q) :
              /\ Owners!Put(f.w)
              /\ obj' = [obj EXCEPT ![o] = [Owners!Base(p, n, r) EXCEPT
                           !.kind = "derived", !.up = u.ptr, !.dfd = f.fd]]
        BY <3>1, <3>3
      <4>2. PICK x : x = [count |-> n, data |-> 0]
        OBVIOUS
      <4>3. PICK y : y = [count |-> 1, data |-> 0]
        OBVIOUS
      <4>4. /\ p \in Files /\ r.fd \in 1..MaxFiles /\ file[r.fd] = "closed"
            /\ r.ptr \in 1..MaxBlocks /\ block[r.ptr] = Owners!Free
            /\ r.w.file = [file EXCEPT ![r.fd] = p]
            /\ r.w.block = [block EXCEPT ![r.ptr] = x]
        BY <1>4, <2>0, <4>2 DEF InitOk
      <4>5. /\ u.ptr \in 1..MaxBlocks /\ r.w.block[u.ptr] = Owners!Free
            /\ u.w \in World /\ u.w.file = r.w.file
            /\ u.w.block = [r.w.block EXCEPT ![u.ptr] = y]
        <5>1. GotArray(u, r.w, 1)
          BY <1>5, NewFacts
        <5> QED
          BY <4>3, <5>1 DEF GotArray
      <4>6. /\ q \in Files /\ f.fd \in 1..MaxFiles /\ u.w.file[f.fd] = "closed"
            /\ f.w.file = [u.w.file EXCEPT ![f.fd] = q] /\ f.w.block = u.w.block
        <5>1. GotFile(f, u.w, q)
          BY <4>5, OpenFacts, Zenon
        <5> QED
          BY <5>1 DEF GotFile
      <4>7. /\ x \in Arrays /\ x # Owners!Free /\ x.count = n /\ x.data = 0
            /\ y \in Arrays /\ y # Owners!Free
        BY <1>3, <4>2, <4>3, OwnerConstants DEF Arrays, Owners!Free
      <4>8. u.ptr # r.ptr /\ block[u.ptr] = Owners!Free
        BY <4>4, <4>5, <4>7 DEF OwnerInv, OwnerTypes
      <4>9. f.fd # r.fd /\ file[f.fd] = "closed"
        BY <4>4, <4>5, <4>6, OwnerConstants DEF OwnerInv, OwnerTypes
      <4>10. /\ file' = [[file EXCEPT ![r.fd] = p] EXCEPT ![f.fd] = q]
             /\ block' = [[block EXCEPT ![r.ptr] = x] EXCEPT ![u.ptr] = y]
        BY <4>1, <4>4, <4>5, <4>6 DEF Owners!Put
      <4>11. PICK a : a = [Owners!Base(p, n, r) EXCEPT
                            !.kind = "derived", !.up = u.ptr, !.dfd = f.fd]
        OBVIOUS
      <4>12. /\ a \in Things /\ a.kind = "derived" /\ a.path = p /\ a.count = n /\ a.fd = r.fd
             /\ a.ptr = r.ptr /\ a.up = u.ptr /\ a.dfd = f.fd
        <5>1. p \in Files \cup {"missing", ""}
          OBVIOUS
        <5>2. PICK e : e = Owners!Base(p, n, r)
          OBVIOUS
        <5>3. IsBase(e, p, n, r.fd, r.ptr)
          BY <1>3, <4>4, <5>1, <5>2, BaseFacts, Zenon
        <5>7. PICK fd, c, h, g : fd = r.fd /\ c = r.ptr /\ h = u.ptr /\ g = f.fd
          OBVIOUS
        <5>4. a = [kind |-> "derived", path |-> p, count |-> n, fd |-> r.fd, ptr |-> r.ptr,
                   up |-> u.ptr, dfd |-> f.fd, assigned |-> FALSE]
          <6>1. e = [kind |-> "base", path |-> p, count |-> n, fd |-> fd, ptr |-> c,
                     up |-> 0, dfd |-> -1, assigned |-> FALSE]
            BY <5>3, <5>7 DEF IsBase
          <6>2. a = [e EXCEPT !.kind = "derived", !.up = h, !.dfd = g]
            BY <4>11, <5>2, <5>7
          <6>3. a = [kind |-> "derived", path |-> p, count |-> n, fd |-> fd, ptr |-> c,
                     up |-> h, dfd |-> g, assigned |-> FALSE]
            BY <6>1, <6>2
          <6> QED
            BY <5>7, <6>3, Zenon
        <5>5. /\ "derived" \in {"none", "base", "derived"}
              /\ r.fd \in 1..MaxFiles \cup {-1} /\ f.fd \in 1..MaxFiles \cup {-1}
              /\ r.ptr \in 0..MaxBlocks /\ u.ptr \in 0..MaxBlocks /\ FALSE \in BOOLEAN
          BY <4>4, <4>5, <4>6, OwnerConstants
        <5>6. a \in Things
          BY <1>3, <5>1, <5>4, <5>5, ThingIn, Zenon
        <5> QED
          BY <5>4, <5>6
      <4>13. obj[o].kind = "none" /\ obj' = [obj EXCEPT ![o] = a]
        BY <1>2, <4>1, <4>11, NoneFacts
      <4> QED
        <5>1. Derives(o, a, r.fd, f.fd, p, q, r.ptr, u.ptr, x, y)
          BY <2>0, <4>4, <4>6, <4>7, <4>8, <4>9, <4>10, <4>12, <4>13 DEF Derives
        <5> QED
          BY <4>4, <4>5, <4>6, <4>7, <4>12, <5>1, OwnerDerive
    <3> QED
      BY <3>2, <3>3
  <2> QED
    BY <1>1, <2>1, <2>2, <2>3
<1> QED
  BY <1>6, <1>7

\* What a copy of s is, or leaves.
CopyOk(r, s) ==
  /\ r.ok
  /\ \E x : /\ Got(r, obj[s].path, x) /\ x.count = obj[s].count
            /\ obj[s].count > 0 => x.data = value[s]
CopyFailed(r, s) == Thrown(r, obj[s].path)

LEMMA CopiedFacts ==
  ASSUME OwnerInv, NEW s \in Owned, Owners!Plain(s), NEW r \in Owners!Copied(s)
  PROVE  CopyOk(r, s) \/ CopyFailed(r, s)
<1>0. PICK w : w = Owners!Now
  OBVIOUS
<1>1. PICK p : p = obj[s].path
  OBVIOUS
<1>2. PICK n \in Nat : n = obj[s].count
  BY DEF OwnerInv, OwnerTypes, Things
<1>3. PICK d : d = block[obj[s].ptr].data
  OBVIOUS
<1>4. PICK i0 \in Owners!init(w, p, n) :
        \/ i0.ok /\ n > 0 /\ r = [i0 EXCEPT !.w.block[i0.ptr].data = d]
        \/ i0.ok /\ n > 0 /\ r = [i0 EXCEPT !.ok = FALSE] /\ "assignment" \in escapes
        \/ ~ (i0.ok /\ n > 0) /\ r = i0
  BY <1>0, <1>1, <1>2, <1>3 DEF Owners!Copied
<1>5. w \in World /\ w.file = file /\ w.block = block
  BY <1>0, NowFacts
<1>6. /\ i0.w \in World /\ i0 = [ok |-> i0.ok, w |-> i0.w, fd |-> i0.fd, ptr |-> i0.ptr]
      /\ IF i0.ok THEN InitOk(i0, w, p, n) ELSE Thrown(i0, p)
  BY <1>0, <1>5, InitFacts, InitThrown
<1>7. CASE ~ i0.ok
  BY <1>1, <1>4, <1>6, <1>7 DEF CopyFailed
<1>8. CASE i0.ok
  <2>8. InitOk(i0, w, p, n)
    BY <1>6, <1>8
  <2>1. PICK x : x = [count |-> n, data |-> 0]
    OBVIOUS
  <2>2. x \in Arrays /\ x.count = n
    BY <2>1, OwnerConstants DEF Arrays
  <2>3. Got(i0, p, x)
    BY <1>5, <2>8, <2>1, <2>2 DEF InitOk, Got
  <2>4. CASE r = i0 /\ ~ (n > 0)
    <3>1. i0.ok
      BY <2>8 DEF InitOk
    <3> QED
      BY <1>1, <1>2, <2>2, <2>3, <2>4, <3>1 DEF CopyOk
  <2>5. CASE n > 0 /\ r = [i0 EXCEPT !.ok = FALSE] /\ "assignment" \in escapes
    <3>1. ~ r.ok /\ r.fd = i0.fd /\ r.ptr = i0.ptr /\ r.w = i0.w
      BY <1>6, <2>5
    <3>2. Got(r, p, x)
      BY <2>3, <3>1 DEF Got
    <3> QED
      BY <1>1, <2>5, <3>1, <3>2 DEF CopyFailed, Thrown
  <2>6. CASE n > 0 /\ r = [i0 EXCEPT !.w.block[i0.ptr].data = d]
    <3>1. d = value[s] /\ d \in Data
      <4>1. Intact(obj[s], value[s]) /\ value[s] \in Data
        BY DEF OwnerInv, OwnerTypes
      <4>2. obj[s].count > 0 /\ obj[s].count # 0
        BY <1>2, <2>6
      <4> QED
        BY <1>3, <4>1, <4>2 DEF Intact
    <3>2. PICK y : y = [count |-> n, data |-> d]
      OBVIOUS
    <3>3. y \in Arrays /\ y.count = n /\ y.data = d
      BY <3>1, <3>2 DEF Arrays
    <3>4. i0.w = [file |-> i0.w.file, block |-> i0.w.block]
      BY <1>6 DEF World
    <3>5. /\ i0.ptr \in 1..MaxBlocks /\ i0.w.block = [block EXCEPT ![i0.ptr] = x]
          /\ i0.w.block[i0.ptr] = x
      BY <2>3 DEF Got, OwnerInv, OwnerTypes
    <3>6. r = [ok |-> i0.ok, w |-> [file |-> i0.w.file, block |-> [i0.w.block EXCEPT ![i0.ptr] = y]],
               fd |-> i0.fd, ptr |-> i0.ptr]
      <4>1. [x EXCEPT !.data = d] = y
        BY <2>1, <3>2
      <4>2. PICK a, b, c, e, f : a = i0.ok /\ b = i0.w.file /\ c = i0.w.block /\ e = i0.fd /\ f = i0.ptr
        OBVIOUS
      <4>3. i0 = [ok |-> a, w |-> [file |-> b, block |-> c], fd |-> e, ptr |-> f]
        BY <1>6, <3>4, <4>2
      <4>4. r = [i0 EXCEPT !.w.block[f].data = d] /\ c[f] = x
        BY <2>6, <3>5, <4>2
      <4>5. r = [ok |-> a, w |-> [file |-> b, block |-> [c EXCEPT ![f] = [x EXCEPT !.data = d]]],
                 fd |-> e, ptr |-> f]
        BY <4>3, <4>4
      <4> QED
        BY <4>1, <4>2, <4>5
    <3>7. [i0.w.block EXCEPT ![i0.ptr] = y] = [block EXCEPT ![i0.ptr] = y]
      BY <3>5
    <3>8. i0.ok
      BY <2>8 DEF InitOk
    <3>9. r.ok /\ r.fd = i0.fd /\ r.ptr = i0.ptr /\ r.w.file = i0.w.file
          /\ r.w.block = [block EXCEPT ![i0.ptr] = y]
      BY <3>6, <3>7, <3>8
    <3>10. Got(r, p, y)
      BY <2>3, <3>3, <3>9 DEF Got
    <3> QED
      BY <1>1, <1>2, <3>1, <3>3, <3>9, <3>10 DEF CopyOk
  <2>7. i0.ok
    BY <2>8 DEF InitOk
  <2> QED
    BY <1>4, <2>4, <2>5, <2>6, <2>7
<1> QED
  BY <1>7, <1>8

LEMMA OwnerCopy ==
  ASSUME OwnerInv, NEW o \in Owned, NEW s \in Owned, Owners!Copy(o, s)
  PROVE  OwnerInv'
<1>1. PICK r \in Owners!Copied(s) :
        IF ~ r.ok THEN Owners!Throw(r)
        ELSE /\ Owners!Put(r.w)
             /\ obj' = [obj EXCEPT ![o] = Owners!Base(obj[s].path, obj[s].count, r)]
             /\ value' = [value EXCEPT ![o] = value[s]]
             /\ UNCHANGED lost
  BY DEF Owners!Copy
<1>2. obj[o] = Owners!None /\ Owners!Plain(s)
  BY DEF Owners!Copy
<1>3. CASE CopyFailed(r, s)
  BY <1>1, <1>3, OwnerThrow DEF CopyFailed, Thrown
<1>4. CASE CopyOk(r, s)
  <2>1. PICK x : /\ Got(r, obj[s].path, x) /\ x.count = obj[s].count
                 /\ obj[s].count > 0 => x.data = value[s]
    BY <1>4 DEF CopyOk
  <2>2. PICK p : p = obj[s].path
    OBVIOUS
  <2>3. PICK n \in Nat : n = obj[s].count
    BY DEF OwnerInv, OwnerTypes, Things
  <2>4. PICK a : a = Owners!Base(p, n, r)
    OBVIOUS
  <2>5. PICK v \in Data : v = value[s]
    BY DEF OwnerInv, OwnerTypes
  <2>6. /\ file' = r.w.file /\ block' = r.w.block /\ obj' = [obj EXCEPT ![o] = a]
        /\ value' = [value EXCEPT ![o] = v] /\ lost' = lost
    BY <1>1, <1>4, <2>2, <2>3, <2>4, <2>5 DEF CopyOk, Owners!Put
  <2>7. /\ p \in Files /\ r.fd \in 1..MaxFiles /\ file[r.fd] = "closed"
        /\ r.ptr \in 1..MaxBlocks /\ block[r.ptr] = Owners!Free
        /\ file' = [file EXCEPT ![r.fd] = p] /\ block' = [block EXCEPT ![r.ptr] = x]
        /\ x \in Arrays /\ x.count = n
    BY <2>1, <2>2, <2>3, <2>6 DEF Got
  <2>8. p \in Files \cup {"missing", ""}
    BY <2>7
  <2>9. /\ a \in Things /\ a.kind = "base" /\ a.path = p /\ a.count = n /\ a.fd = r.fd
        /\ a.ptr = r.ptr /\ a.up = 0 /\ a.dfd = -1
    <3>1. r.fd \in 1..MaxFiles /\ r.ptr \in 1..MaxBlocks
      BY <2>7
    <3>2. BaseFields(a, p, n, r.fd, r.ptr)
      BY <2>4, <2>8, <3>1, BaseFacts, Zenon
    <3> QED
      BY <3>2 DEF BaseFields
  <2>10. obj[o].kind = "none" /\ obj[o].fd = -1 /\ obj[o].ptr = 0
    BY <1>2, NoneFacts
  <2>11. Reopened(obj[o].fd, r.fd, p)
    BY <2>7, <2>10, OwnerConstants DEF OwnerInv, OwnerTypes, Reopened
  <2>12. Reused(obj[o].ptr, r.ptr, x)
    <3>1. \A c \in 1..MaxBlocks : c # 0
      BY OwnerConstants
    <3> QED
      BY <2>7, <2>10, <3>1 DEF OwnerInv, OwnerTypes, Reused
  <2>13. Becomes(o, a, v)
    BY <2>6 DEF Becomes
  <2>14. obj[o].kind # "derived" /\ x # Owners!Free /\ x.count = a.count
    BY <2>7, <2>9, <2>10, <2>3 DEF Owners!Free
  <2>15. a.count > 0 => x.data = v
    BY <2>1, <2>3, <2>5, <2>9
  <2> QED
    <3>1. Replaces(o, a, r.fd, p, r.ptr, x, v)
      BY <2>6, <2>7, <2>9, <2>11, <2>12, <2>13, <2>14, <2>15 DEF Replaces
    <3> QED
      BY <2>7, <2>9, <3>1, OwnerReplace
<1> QED
  BY <1>2, <1>3, <1>4, CopiedFacts

\* c is a with another count, file and array.
IsSwapped(c, a, n, fd, mem) == c = [a EXCEPT !.count = n, !.fd = fd, !.ptr = mem, !.assigned = TRUE]
SwappedFields(c, a, n, fd, mem) ==
  /\ c \in Things /\ c.kind = a.kind /\ c.count = n /\ c.fd = fd /\ c.ptr = mem
  /\ c.up = a.up /\ c.dfd = a.dfd /\ c.assigned

LEMMA SwappedThing ==
  ASSUME NEW a \in Things, NEW n \in Nat, NEW fd \in 1..MaxFiles \cup {-1}, NEW mem \in 0..MaxBlocks,
         NEW c, IsSwapped(c, a, n, fd, mem)
  PROVE  SwappedFields(c, a, n, fd, mem)
<1>1. c \in Things
  BY DEF Things, IsSwapped
<1>2. /\ c.kind = a.kind /\ c.count = n /\ c.fd = fd /\ c.ptr = mem
      /\ c.up = a.up /\ c.dfd = a.dfd
  BY DEF Things, IsSwapped
<1>3. c.assigned
  BY DEF Things, IsSwapped
<1> QED
  BY <1>1, <1>2, <1>3 DEF SwappedFields

LEMMA SwappedFacts ==
  ASSUME NEW a \in Things, NEW n \in Nat, NEW fd \in 1..MaxFiles \cup {-1}, NEW mem \in 0..MaxBlocks,
         NEW b, b.count = n, b.fd = fd, b.ptr = mem, NEW c, c = Owners!Swapped(a, b)
  PROVE  /\ c \in Things /\ c.kind = a.kind /\ c.count = n /\ c.fd = fd /\ c.ptr = mem
         /\ c.up = a.up /\ c.dfd = a.dfd /\ c.assigned
<1>1. IsSwapped(c, a, n, fd, mem)
  BY DEF Owners!Swapped, IsSwapped
<1>2. SwappedFields(c, a, n, fd, mem)
  BY <1>1, SwappedThing
<1> QED
  BY <1>2 DEF SwappedFields

LEMMA OwnerCopyAssign ==
  ASSUME OwnerInv, NEW o \in Owned, NEW s \in Owned, Owners!CopyAssign(o, s)
  PROVE  OwnerInv'
<1>1. PICK r \in Owners!Copied(s) :
        IF ~ r.ok THEN Owners!Throw(r)
        ELSE /\ Owners!Put(Owners!cleanup(r.w, obj[o].fd, obj[o].ptr))
             /\ obj' = [obj EXCEPT ![o] = Owners!Swapped(obj[o], Owners!Base("", obj[s].count, r))]
             /\ value' = [value EXCEPT ![o] = value[s]]
             /\ UNCHANGED lost
  BY DEF Owners!CopyAssign
<1>2. Owners!Plain(o) /\ Owners!Plain(s)
  BY DEF Owners!CopyAssign
<1>3. CASE CopyFailed(r, s)
  BY <1>1, <1>3, OwnerThrow DEF CopyFailed, Thrown
<1>4. CASE CopyOk(r, s)
  <2>1. PICK x : /\ Got(r, obj[s].path, x) /\ x.count = obj[s].count
                 /\ obj[s].count > 0 => x.data = value[s]
    BY <1>4 DEF CopyOk
  <2>2. PICK p : p = obj[s].path
    OBVIOUS
  <2>3. PICK n \in Nat : n = obj[s].count
    BY DEF OwnerInv, OwnerTypes, Things
  <2>4. PICK e : e = Owners!Base("", n, r)
    OBVIOUS
  <2>5. PICK a : a = Owners!Swapped(obj[o], e)
    OBVIOUS
  <2>6. PICK v \in Data : v = value[s]
    BY DEF OwnerInv, OwnerTypes
  <2>7. PICK c : c = Owners!cleanup(r.w, obj[o].fd, obj[o].ptr)
    OBVIOUS
  <2>8. /\ file' = c.file /\ block' = c.block /\ obj' = [obj EXCEPT ![o] = a]
        /\ value' = [value EXCEPT ![o] = v] /\ lost' = lost
    BY <1>1, <1>4, <2>3, <2>4, <2>5, <2>6, <2>7 DEF CopyOk, Owners!Put
  <2>9. /\ p \in Files /\ r.fd \in 1..MaxFiles /\ file[r.fd] = "closed"
        /\ r.ptr \in 1..MaxBlocks /\ block[r.ptr] = Owners!Free
        /\ r.w.file = [file EXCEPT ![r.fd] = p] /\ r.w.block = [block EXCEPT ![r.ptr] = x]
        /\ x \in Arrays /\ x.count = n
    BY <2>1, <2>2, <2>3 DEF Got
  <2>10. /\ e.kind = "base" /\ e.count = n /\ e.fd = r.fd /\ e.ptr = r.ptr
    <3>1. "" \in Files \cup {"missing", ""} /\ r.fd \in 1..MaxFiles /\ r.ptr \in 1..MaxBlocks
      BY <2>9
    <3>2. BaseFields(e, "", n, r.fd, r.ptr)
      BY <2>4, <3>1, BaseFacts, Zenon
    <3> QED
      BY <3>2 DEF BaseFields
  <2>11. obj[o] \in Things /\ obj[o].kind = "base" /\ obj[o].up = 0 /\ obj[o].dfd = -1
    BY <1>2 DEF OwnerInv, OwnerTypes, Bare, Owners!Plain
  <2>12. /\ a \in Things /\ a.kind = "base" /\ a.count = n /\ a.fd = r.fd
         /\ a.ptr = r.ptr /\ a.up = 0 /\ a.dfd = -1 /\ a.assigned
    <3>1. r.fd \in 1..MaxFiles \cup {-1} /\ r.ptr \in 0..MaxBlocks
      BY <2>9, OwnerConstants
    <3> QED
      BY <2>5, <2>10, <2>11, <3>1, SwappedFacts
  <2>13. /\ r.w.file \in [1..MaxFiles -> Files \cup {"closed"}]
         /\ r.w.block \in [1..MaxBlocks -> Arrays]
    BY <2>9 DEF OwnerInv, OwnerTypes
  <2>14. Cleaned(c, r.w, obj[o].fd, obj[o].ptr)
    BY <2>7, <2>13, CleanupFacts
  <2>15. /\ c.file \in [1..MaxFiles -> Files \cup {"closed"}] /\ c.block \in [1..MaxBlocks -> Arrays]
    BY <2>14 DEF Cleaned, World
  <2>16. Reopened(obj[o].fd, r.fd, p)
    BY <2>8, <2>9, <2>14, <2>15 DEF Cleaned, OwnerInv, OwnerTypes, Reopened
  <2>17. Reused(obj[o].ptr, r.ptr, x)
    BY <2>8, <2>9, <2>14, <2>15 DEF Cleaned, OwnerInv, OwnerTypes, Reused
  <2>18. Becomes(o, a, v)
    BY <2>8 DEF Becomes
  <2>19. obj[o].kind # "derived" /\ x # Owners!Free /\ x.count = a.count
    BY <2>9, <2>11, <2>12, <2>3 DEF Owners!Free
  <2>20. a.count > 0 => x.data = v
    BY <2>1, <2>3, <2>6, <2>12
  <2> QED
    <3>1. Replaces(o, a, r.fd, p, r.ptr, x, v)
      BY <2>8, <2>9, <2>12, <2>16, <2>17, <2>18, <2>19, <2>20 DEF Replaces
    <3> QED
      BY <2>9, <2>12, <3>1, OwnerReplace
<1> QED
  BY <1>2, <1>3, <1>4, CopiedFacts

LEMMA OwnerMove ==
  ASSUME OwnerInv, NEW o \in Owned, NEW s \in Owned, Owners!Move(o, s)
  PROVE  OwnerInv'
<1>1. /\ obj[o] = Owners!None /\ Owners!Plain(s)
      /\ obj' = [obj EXCEPT ![o] = obj[s], ![s] = Owners!Emptied]
      /\ value' = [value EXCEPT ![o] = value[s], ![s] = 0]
      /\ UNCHANGED <<file, block, lost>>
  BY DEF Owners!Move
<1>2. obj[o].kind = "none" /\ obj[o].fd = -1 /\ obj[o].ptr = 0 /\ obj[s].kind = "base"
  BY <1>1, NoneFacts DEF Owners!Plain
<1>3. o # s
  BY <1>2
<1>4. PICK a \in Things : a = obj[s]
  BY DEF OwnerInv, OwnerTypes
<1>5. a.up = 0 /\ a.dfd = -1 /\ a.kind = "base"
  BY <1>2, <1>4 DEF OwnerInv, Bare
<1>6. /\ obj' = [obj EXCEPT ![s] = Owners!Emptied, ![o] = a]
      /\ value' = [value EXCEPT ![s] = 0, ![o] = value[s]]
  <2>1. PICK e : e = Owners!Emptied
    OBVIOUS
  <2>2. obj' = [obj EXCEPT ![o] = a, ![s] = e]
    BY <1>1, <1>4, <2>1
  <2>3. obj' = [obj EXCEPT ![s] = e, ![o] = a]
    BY <1>3, <2>2
  <2>4. value' = [value EXCEPT ![s] = 0, ![o] = value[s]]
    BY <1>1, <1>3
  <2> QED
    BY <2>1, <2>3, <2>4
<1>7. /\ file' \in [1..MaxFiles -> Files \cup {"closed"}] /\ block' \in [1..MaxBlocks -> Arrays]
      /\ \A f \in 1..MaxFiles : file'[f] = IF f = obj[o].fd THEN "closed" ELSE file[f]
      /\ \A c \in 1..MaxBlocks : block'[c] = IF c = obj[o].ptr THEN Owners!Free ELSE block[c]
  BY <1>1, <1>2, OwnerConstants DEF OwnerInv, OwnerTypes
<1> QED
  <2>1. TakesOver(o, s, a)
    BY <1>1, <1>2, <1>3, <1>4, <1>5, <1>6, <1>7 DEF TakesOver
  <2> QED
    BY <1>4, <2>1, OwnerMoved

LEMMA OwnerMoveAssign ==
  ASSUME OwnerInv, NEW o \in Owned, NEW s \in Owned, Owners!MoveAssign(o, s)
  PROVE  OwnerInv'
<1> DEFINE emptied == [obj EXCEPT ![s] = Owners!Emptied]
<1>1. /\ obj[o].kind = "base" /\ obj[s].kind = "base"
      /\ obj' = [emptied EXCEPT ![o] = Owners!Swapped(emptied[o], obj[s])]
      /\ Owners!Put(Owners!cleanup(Owners!Now, emptied[o].fd, emptied[o].ptr))
      /\ value' = [value EXCEPT ![s] = 0, ![o] = value[s]] /\ lost' = lost
  BY DEF Owners!MoveAssign, Owners!Plain
<1>2. PICK c : c = Owners!cleanup(Owners!Now, emptied[o].fd, emptied[o].ptr)
  OBVIOUS
<1>3. Cleaned(c, Owners!Now, emptied[o].fd, emptied[o].ptr)
  BY <1>2, CleanupFacts, NowFacts, WorldFields
<1>4. file' = c.file /\ block' = c.block /\ c \in World
  BY <1>1, <1>2, <1>3 DEF Owners!Put, Cleaned
<1>5. /\ file' \in [1..MaxFiles -> Files \cup {"closed"}] /\ block' \in [1..MaxBlocks -> Arrays]
  BY <1>4, WorldFields
<1>6. /\ \A f \in 1..MaxFiles : file'[f] = IF f = emptied[o].fd THEN "closed" ELSE file[f]
      /\ \A b \in 1..MaxBlocks : block'[b] = IF b = emptied[o].ptr THEN Owners!Free ELSE block[b]
  BY <1>3, <1>4, NowFacts DEF Cleaned
<1>7. PICK n \in Nat : n = obj[s].count
  BY DEF OwnerInv, OwnerTypes, Things
<1>8. obj[s].fd \in 1..MaxFiles \cup {-1} /\ obj[s].ptr \in 0..MaxBlocks
  BY DEF OwnerInv, OwnerTypes, Things
<1>9. PICK e : e = Owners!Emptied
  OBVIOUS
<1>10. /\ e \in Things /\ e.kind = "base" /\ e.fd = -1 /\ e.ptr = 0 /\ e.up = 0 /\ e.dfd = -1
  <2>1. e = [kind |-> "base", path |-> "", count |-> 0, fd |-> -1, ptr |-> 0,
             up |-> 0, dfd |-> -1, assigned |-> FALSE]
    BY <1>9 DEF Owners!Emptied, Owners!None, Owners!null
  <2>2. /\ "base" \in {"none", "base", "derived"} /\ "" \in Files \cup {"missing", ""}
        /\ 0 \in Nat /\ -1 \in 1..MaxFiles \cup {-1} /\ 0 \in 0..MaxBlocks /\ FALSE \in BOOLEAN
    BY OwnerConstants
  <2>3. e \in Things
    BY <2>1, <2>2, ThingIn, Zenon
  <2> QED
    BY <2>1, <2>3
<1>11. /\ obj[o] \in Things /\ obj[o].up = 0 /\ obj[o].dfd = -1
  BY <1>1 DEF OwnerInv, OwnerTypes, Bare
<1>12. CASE o # s
  <2>1. emptied[o] = obj[o]
    BY <1>12
  <2>5. /\ \A f \in 1..MaxFiles : file'[f] = IF f = obj[o].fd THEN "closed" ELSE file[f]
        /\ \A b \in 1..MaxBlocks : block'[b] = IF b = obj[o].ptr THEN Owners!Free ELSE block[b]
    BY <1>6, <2>1
  <2>2. PICK a : a = Owners!Swapped(obj[o], obj[s])
    OBVIOUS
  <2>3. /\ a \in Things /\ a.kind = "base" /\ a.count = obj[s].count /\ a.fd = obj[s].fd
        /\ a.ptr = obj[s].ptr /\ a.up = 0 /\ a.dfd = -1 /\ a.assigned
    BY <1>1, <1>7, <1>8, <1>11, <2>2, SwappedFacts
  <2>4. obj' = [obj EXCEPT ![s] = Owners!Emptied, ![o] = a]
    BY <1>1, <2>1, <2>2
  <2> QED
    <3>1. TakesOver(o, s, a)
      BY <1>1, <1>5, <1>12, <2>3, <2>4, <2>5 DEF TakesOver
    <3> QED
      BY <2>3, <3>1, OwnerMoved
<1>13. CASE o = s
  <2>1. emptied[o] = e
    BY <1>9, <1>13 DEF OwnerInv, OwnerTypes
  <2>2. PICK a : a = Owners!Swapped(e, obj[s])
    OBVIOUS
  <2>3. /\ a \in Things /\ a.kind = "base" /\ a.count = obj[o].count /\ a.fd = obj[o].fd
        /\ a.ptr = obj[o].ptr /\ a.up = 0 /\ a.dfd = -1 /\ a.assigned
    BY <1>7, <1>8, <1>10, <1>13, <2>2, SwappedFacts
  <2>4. obj' = [obj EXCEPT ![o] = a]
    BY <1>1, <1>13, <2>1, <2>2
  <2>5. /\ \A f \in 1..MaxFiles : c.file[f] = Owners!Now.file[f]
        /\ \A b \in 1..MaxBlocks : c.block[b] = Owners!Now.block[b]
    BY <1>3, <1>10, <2>1, OwnerConstants DEF Cleaned
  <2>6. UNCHANGED <<file, block>>
    BY <1>4, <2>5, NowFacts, SameWorld
  <2>7. value' = value
    BY <1>1, <1>13 DEF OwnerInv, OwnerTypes
  <2> QED
    BY <1>1, <2>3, <2>4, <2>6, <2>7, OwnerAssignedSelf
<1> QED
  BY <1>12, <1>13

LEMMA OwnerDestroy ==
  ASSUME OwnerInv, NEW o \in Owned, Owners!Destroy(o)
  PROVE  OwnerInv'
<1> DEFINE c == Owners!cleanup(Owners!Now, obj[o].dfd, obj[o].up)
           d == Owners!cleanup(c, obj[o].fd, obj[o].ptr)
<1>1. /\ file' = d.file /\ block' = d.block /\ obj' = [obj EXCEPT ![o] = Owners!None]
      /\ value' = [value EXCEPT ![o] = 0] /\ lost' = lost
  BY DEF Owners!Destroy, Owners!Put
<1>2. Cleaned(c, Owners!Now, obj[o].dfd, obj[o].up)
  BY CleanupFacts, NowFacts, WorldFields
<1> HIDE DEF c
<1>3. c \in World
  BY <1>2 DEF Cleaned
<1>4. Cleaned(d, c, obj[o].fd, obj[o].ptr)
  BY <1>3, CleanupFacts, WorldFields
<1> HIDE DEF d
<1>5. /\ file' \in [1..MaxFiles -> Files \cup {"closed"}] /\ block' \in [1..MaxBlocks -> Arrays]
  BY <1>1, <1>4, WorldFields DEF Cleaned
<1>6. /\ \A f \in 1..MaxFiles :
           file'[f] = IF f = obj[o].fd \/ f = obj[o].dfd THEN "closed" ELSE file[f]
      /\ \A b \in 1..MaxBlocks :
           block'[b] = IF b = obj[o].ptr \/ b = obj[o].up THEN Owners!Free ELSE block[b]
  BY <1>1, <1>2, <1>4, NowFacts DEF Cleaned
<1> QED
  BY <1>1, <1>5, <1>6, OwnerDestroys

LEMMA OwnerKeeps ==
  ASSUME OwnerInv, Owners!Next
  PROVE  OwnerInv'
<1>1. PICK o \in Owned :
        \/ \E p \in Files \cup {"missing"}, n \in Counts :
             \/ Owners!Construct(o, p, n)
             \/ \E q \in Files \cup {"missing"} : Owners!ConstructDerived(o, p, n, q)
        \/ \E s \in Owned : \/ Owners!Copy(o, s) \/ Owners!CopyAssign(o, s)
                            \/ Owners!Move(o, s) \/ Owners!MoveAssign(o, s)
        \/ (\E d \in Data : Owners!Write(o, d)) \/ Owners!Destroy(o)
  BY DEF Owners!Next
<1>2. CASE \E p \in Files \cup {"missing"}, n \in Counts :
             \/ Owners!Construct(o, p, n)
             \/ \E q \in Files \cup {"missing"} : Owners!ConstructDerived(o, p, n, q)
  BY <1>2, OwnerConstruct, OwnerConstructDerived
<1>3. CASE \E s \in Owned : \/ Owners!Copy(o, s) \/ Owners!CopyAssign(o, s)
                           \/ Owners!Move(o, s) \/ Owners!MoveAssign(o, s)
  BY <1>3, OwnerCopy, OwnerCopyAssign, OwnerMove, OwnerMoveAssign
<1>4. CASE (\E d \in Data : Owners!Write(o, d)) \/ Owners!Destroy(o)
  BY <1>4, OwnerWrites, OwnerDestroy
<1> QED
  BY <1>1, <1>2, <1>3, <1>4

\* Only what T may throw loses anything.
Rightly == \A l \in lost : Escaped(l)

LEMMA OwnerLosses ==
  ASSUME OwnerInv, Owners!Next
  PROVE  Losing
<1>1. PICK o \in Owned :
        \/ \E p \in Files \cup {"missing"}, n \in Counts :
             \/ Owners!Construct(o, p, n)
             \/ \E q \in Files \cup {"missing"} : Owners!ConstructDerived(o, p, n, q)
        \/ \E s \in Owned : \/ Owners!Copy(o, s) \/ Owners!CopyAssign(o, s)
                            \/ Owners!Move(o, s) \/ Owners!MoveAssign(o, s)
        \/ (\E d \in Data : Owners!Write(o, d)) \/ Owners!Destroy(o)
  BY DEF Owners!Next
<1>2. ASSUME NEW p \in Files \cup {"missing"}, NEW n \in Counts,
             \/ Owners!Construct(o, p, n)
             \/ \E q \in Files \cup {"missing"} : Owners!ConstructDerived(o, p, n, q)
      PROVE  Losing
  <2>1. PICK r \in Owners!init(Owners!Now, p, n) :
          IF ~ r.ok THEN Owners!Throw(r) ELSE lost' = lost
    BY <1>2 DEF Owners!Construct, Owners!ConstructDerived
  <2>2. ~ r.ok => Thrown(r, p)
    BY InitThrown, OwnerConstants
  <2> QED
    BY <2>1, <2>2, OwnerThrow DEF Losing
<1>3. ASSUME NEW s \in Owned, Owners!Copy(o, s) \/ Owners!CopyAssign(o, s)
      PROVE  Losing
  <2>1. PICK r \in Owners!Copied(s) : IF ~ r.ok THEN Owners!Throw(r) ELSE lost' = lost
    BY <1>3 DEF Owners!Copy, Owners!CopyAssign
  <2>2. Owners!Plain(s)
    BY <1>3 DEF Owners!Copy, Owners!CopyAssign
  <2>3. ~ r.ok => Thrown(r, obj[s].path)
    BY <2>2, CopiedFacts DEF CopyOk, CopyFailed
  <2> QED
    BY <2>1, <2>3, OwnerThrow DEF Losing
<1>4. CASE \/ \E s \in Owned : Owners!Move(o, s) \/ Owners!MoveAssign(o, s)
           \/ (\E d \in Data : Owners!Write(o, d)) \/ Owners!Destroy(o)
  BY <1>4 DEF Owners!Move, Owners!MoveAssign, Owners!Write, Owners!Destroy, Losing
<1> QED
  BY <1>1, <1>2, <1>3, <1>4

LEMMA RightlyKept == OwnerInv /\ Rightly /\ [Next]_vars => Rightly'
<1> SUFFICES ASSUME OwnerInv, Rightly, [Owners!Next]_Owners!vars
             PROVE  Rightly'
  BY OwnerSteps
<1>1. escapes' = escapes
  BY DEF Owners!Next, Owners!vars
<1>2. Losing
  BY OwnerLosses DEF Owners!vars, Losing
<1> QED
  BY <1>1, <1>2 DEF Rightly, Losing, Escaped

LEMMA OwnerInductive == OwnerInv /\ [Next]_vars => OwnerInv'
<1> SUFFICES ASSUME OwnerInv, [Owners!Next]_Owners!vars
             PROVE  OwnerInv'
  BY OwnerSteps
<1>1. CASE Owners!Next
  BY <1>1, OwnerKeeps
<1>2. CASE UNCHANGED Owners!vars
  BY <1>2, OwnerSame DEF Owners!vars
<1> QED
  BY <1>1, <1>2

LEMMA OwnerStart == Init => OwnerInv
<1> SUFFICES ASSUME Owners!Init
             PROVE  OwnerInv
  BY DEF Init
<1>0. PICK e : /\ e = Owners!None
               /\ e \in Things /\ e.kind = "none" /\ e.fd = -1 /\ e.ptr = 0 /\ e.count = 0
               /\ e.up = 0 /\ e.dfd = -1
  BY NoneFacts
<1>1. /\ file = [f \in 1..MaxFiles |-> "closed"] /\ block = [b \in 1..MaxBlocks |-> Owners!Free]
      /\ obj = [o \in Owned |-> e] /\ lost = {} /\ value = [o \in Owned |-> 0]
  BY <1>0 DEF Owners!Init
<1>2. Owners!Free \in Arrays
  BY OwnerConstants DEF Owners!Free, Arrays
<1>3. OwnerTypes
  BY <1>0, <1>1, <1>2, OwnerConstants DEF OwnerTypes
<1>4. /\ FdOf = [o \in Owned |-> -1] /\ DfdOf = [o \in Owned |-> -1]
      /\ PtrOf = [o \in Owned |-> 0] /\ UpOf = [o \in Owned |-> 0]
  BY <1>0, <1>1 DEF FdOf, DfdOf, PtrOf, UpOf
<1>5. Opened = {} /\ Taken = {}
  BY <1>1 DEF Opened, Taken
<1>6. Partition(FdOf, DfdOf, lost, 1, Opened, -1)
  BY <1>1, <1>4, <1>5 DEF Partition
<1>7. Partition(PtrOf, UpOf, LostArrays, 2, Taken, 0)
  BY <1>1, <1>4, <1>5 DEF Partition, LostArrays
<1>8. \A o \in Owned : Intact(obj[o], value[o]) /\ Bare(obj[o], value[o])
  BY <1>0, <1>1 DEF Intact, Bare
<1> QED
  BY <1>3, <1>6, <1>7, <1>8 DEF OwnerInv
-----------------------------------------------------------------------------
\* E has the owners of x, m or n of an object, and M those that lost it.
OwnersOf(x, a, b, m, n, E) ==
  /\ E \subseteq Owned \X {m, n}
  /\ \A o \in Owned : (<<o, m>> \in E <=> a[o] = x) /\ (<<o, n>> \in E <=> b[o] = x)
LostAt(x, L, k, M) == M = {l \in L : l[k] = x}
OneIn(E, M) == (\E e : E = {e} /\ M = {}) \/ (\E l : E = {} /\ M = {l})

LEMMA OneOwner ==
  ASSUME NEW a, NEW b, NEW L, NEW k, NEW U, NEW none, Partition(a, b, L, k, U, none),
         NEW x, x # none, NEW m, NEW n, m # n,
         NEW E, OwnersOf(x, a, b, m, n, E), NEW M, LostAt(x, L, k, M)
  PROVE  IF x \in U THEN OneIn(E, M) ELSE E = {} /\ M = {}
<1> USE DEF OwnersOf, LostAt, OneIn
<1>1. ASSUME NEW e \in E
      PROVE  \E o \in Owned : (e = <<o, m>> /\ a[o] = x) \/ (e = <<o, n>> /\ b[o] = x)
  <2>1. PICK o \in Owned, i0 \in {m, n} : e = <<o, i0>>
    OBVIOUS
  <2> QED
    BY <2>1
<1>2. CASE x \notin U
  <2>1. \A o \in Owned : a[o] # x /\ b[o] # x
    BY <1>2 DEF Partition
  <2>2. M = {}
    BY <1>2 DEF Partition
  <2> QED
    BY <1>1, <1>2, <2>1, <2>2
<1>3. ASSUME NEW o \in Owned, a[o] = x
      PROVE  E = {<<o, m>>} /\ M = {}
  <2>1. \A q \in Owned : (a[q] = x => q = o) /\ b[q] # x
    BY <1>3 DEF Partition
  <2>2. M = {}
    BY <1>3 DEF Partition
  <2>3. <<o, m>> \in E
    BY <1>3
  <2> QED
    BY <1>1, <2>1, <2>2, <2>3
<1>4. ASSUME NEW o \in Owned, b[o] = x
      PROVE  E = {<<o, n>>} /\ M = {}
  <2>1. \A q \in Owned : (b[q] = x => q = o) /\ a[q] # x
    BY <1>4 DEF Partition
  <2>2. M = {}
    BY <1>4 DEF Partition
  <2>3. <<o, n>> \in E
    BY <1>4
  <2> QED
    BY <1>1, <2>1, <2>2, <2>3
<1>5. ASSUME NEW l \in L, l[k] = x
      PROVE  E = {} /\ M = {l}
  <2>1. \A o \in Owned : a[o] # x /\ b[o] # x
    BY <1>5 DEF Partition
  <2>2. M = {l}
    BY <1>5 DEF Partition
  <2> QED
    BY <1>1, <2>1, <2>2
<1>6. CASE x \in U
  BY <1>3, <1>4, <1>5, <1>6 DEF Partition
<1> QED
  BY <1>2, <1>6

LEMMA OneCounted ==
  ASSUME NEW E, NEW M, OneIn(E, M)
  PROVE  Owners!Cardinality(E) + Owners!Cardinality(M) = 1
<1>1. \A S : Owners!Cardinality(S) = Cardinality(S)
  BY DEF Owners!Cardinality, Cardinality
<1>2. Cardinality({}) = 0
  BY FS_EmptySet
<1>3. \A e : Cardinality({e}) = 1
  BY FS_Singleton
<1>4. ASSUME NEW e, E = {e}, M = {}
      PROVE  Owners!Cardinality(E) + Owners!Cardinality(M) = 1
  BY <1>1, <1>2, <1>3, <1>4
<1>5. ASSUME NEW l, E = {}, M = {l}
      PROVE  Owners!Cardinality(E) + Owners!Cardinality(M) = 1
  BY <1>1, <1>2, <1>3, <1>5
<1> QED
  BY <1>4, <1>5 DEF OneIn

LEMMA OwnerImplied == OwnerInv /\ Rightly => ResourcesOwned
<1> SUFFICES ASSUME OwnerInv, Rightly
             PROVE  Owners!ResourcesOwned /\ Owners!ObjectsIntact
  BY DEF ResourcesOwned
<1> DEFINE owners(x, members) == {e \in Owned \X members : obj[e[1]][e[2]] = x}
           lostAt(x, k) == {l \in lost : l[k] = x}
           one(x, members, k) ==
             Owners!Cardinality(owners(x, members)) + Owners!Cardinality(lostAt(x, k)) = 1
           unowned(x, members, k) == owners(x, members) = {} /\ lostAt(x, k) = {}
<1>1. ASSUME NEW f \in 1..MaxFiles
      PROVE  IF file[f] = "closed" THEN unowned(f, {"fd", "dfd"}, 1) ELSE one(f, {"fd", "dfd"}, 1)
  <2> DEFINE E == owners(f, {"fd", "dfd"})
             M == lostAt(f, 1)
  <2>1. "fd" # "dfd" /\ f # -1
    BY OwnerConstants
  <2>2. OwnersOf(f, FdOf, DfdOf, "fd", "dfd", E)
    BY DEF FdOf, DfdOf, OwnersOf
  <2>3. Partition(FdOf, DfdOf, lost, 1, Opened, -1) /\ LostAt(f, lost, 1, M)
    BY DEF OwnerInv, LostAt
  <2>4. f \in Opened <=> file[f] # "closed"
    BY DEF Opened
  <2> HIDE DEF E, M
  <2>5. IF f \in Opened THEN OneIn(E, M) ELSE E = {} /\ M = {}
    BY <2>1, <2>2, <2>3, OneOwner
  <2>6. f \in Opened => Owners!Cardinality(E) + Owners!Cardinality(M) = 1
    BY <2>5, OneCounted
  <2> QED
    BY <2>4, <2>5, <2>6 DEF E, M
<1>2. ASSUME NEW b \in 1..MaxBlocks
      PROVE  IF block[b] = Owners!Free THEN unowned(b, {"ptr", "up"}, 2)
             ELSE one(b, {"ptr", "up"}, 2)
  <2> DEFINE E == owners(b, {"ptr", "up"})
             M == lostAt(b, 2)
  <2>1. "ptr" # "up" /\ b # 0
    BY OwnerConstants
  <2>2. OwnersOf(b, PtrOf, UpOf, "ptr", "up", E)
    BY DEF PtrOf, UpOf, OwnersOf
  <2>3. Partition(PtrOf, UpOf, LostArrays, 2, Taken, 0) /\ LostAt(b, LostArrays, 2, M)
    BY <2>1 DEF OwnerInv, LostAt, LostArrays
  <2>4. b \in Taken <=> block[b] # Owners!Free
    BY DEF Taken
  <2> HIDE DEF E, M
  <2>5. IF b \in Taken THEN OneIn(E, M) ELSE E = {} /\ M = {}
    BY <2>1, <2>2, <2>3, OneOwner
  <2>6. b \in Taken => Owners!Cardinality(E) + Owners!Cardinality(M) = 1
    BY <2>5, OneCounted
  <2> QED
    BY <2>4, <2>5, <2>6 DEF E, M
<1>3. \A l \in lost : (IF l[2] = Owners!null THEN "constructor" ELSE "assignment") \in escapes
  BY DEF Rightly, Escaped, Owners!null
<1>4. Owners!ResourcesOwned
  BY <1>1, <1>2, <1>3, Zenon DEF Owners!ResourcesOwned
<1>5. Owners!ObjectsIntact
  BY DEF Owners!ObjectsIntact, Owners!null, OwnerInv, Intact
<1> QED
  BY <1>4, <1>5

\* ro5: files and arrays have one owner each, or were lost to an exception that
\* T may throw and nobody handles, and objects keep what they have when an
\* operation throws.
THEOREM RuleOfFiveCorrect == Spec => []ResourcesOwned
<1>1. Init => OwnerInv /\ Rightly
  BY OwnerStart DEF Init, Owners!Init, Rightly
<1>2. OwnerInv /\ Rightly /\ [Next]_vars => OwnerInv' /\ Rightly'
  BY OwnerInductive, RightlyKept
<1>3. OwnerInv /\ Rightly => ResourcesOwned
  BY OwnerImplied
<1> QED
  BY <1>1, <1>2, <1>3, PTL DEF Spec

-----------------------------------------------------------------------------
(* kmem_cache *)

LEMMA PoolSteps == [Next]_vars => [Pool!Next]_Pool!vars
  BY DEF Next, vars, PoolStep, VectorStep, OwnerStep, ArchiveStep, poolVars, Pool!vars

LEMMA PoolConstants ==
  /\ base \in Nat \ {0} /\ PAGE_SIZE \in Nat /\ ObjectSize \in Nat \ {0}
  /\ base <= ObjectSize /\ base + ObjectSize < PAGE_SIZE /\ MaxPages \in Nat \ {0}
  BY Constants DEF Constants, Pool!ObjectPoolAssumption

\* Multiples.
LEMMA Multiples ==
  ASSUME NEW d \in Nat \ {0}, NEW k \in Nat, NEW m \in Nat
  PROVE  /\ k * d \in Nat /\ k <= k * d /\ (k + 1) * d = k * d + d
         /\ k < m => k * d + d <= m * d
<1>1. k * d \in Nat /\ (k + 1) * d = k * d + d
  OBVIOUS
<1>2. k <= k * d
  <2>1. d - 1 \in Nat /\ k * (d - 1) \in Nat /\ k * d = k * (d - 1) + k
    OBVIOUS
  <2> QED
    BY <2>1
<1>3. ASSUME k < m
      PROVE  k * d + d <= m * d
  <2>1. PICK more \in Nat : m = (k + 1) + more
    BY <1>3, m - (k + 1) \in Nat
  <2>2. m * d = (k * d + d) + more * d /\ more * d \in Nat
    BY <2>1
  <2> QED
    BY <1>1, <2>2
<1> QED
  BY <1>1, <1>2, <1>3

\* order lists S from first on, over the pointers m.
Linked(m, first, S, n, order) ==
  /\ order \in [1..n -> S]
  /\ \A k, l \in 1..n : order[k] = order[l] => k = l
  /\ \A p \in S : \E k \in 1..n : order[k] = p
  /\ first = IF n = 0 THEN Pool!null ELSE order[1]
  /\ \A k \in 1..n : m[order[k]] = IF k = n THEN Pool!null ELSE order[k + 1]

Chain(m, first, S) == IsFiniteSet(S) /\ \E order : Linked(m, first, S, Cardinality(S), order)

LEMMA ChainListed == \A first, S : Chain(memory, first, S) => Pool!Lists(first, S)
<1>1. \A S : Pool!Cardinality(S) = Cardinality(S)
  BY DEF Pool!Cardinality, Cardinality
<1> SUFFICES ASSUME NEW first, NEW S, Chain(memory, first, S)
             PROVE  Pool!Lists(first, S)
  OBVIOUS
<1>2. PICK n, order : n = Cardinality(S) /\ Linked(memory, first, S, n, order)
  BY DEF Chain
<1>3. order \in Pool!Bijection(1..n, S)
  BY <1>2 DEF Linked, Pool!Bijection, Pool!Injection, Pool!Surjection, Pool!IsInjective
<1> QED
  BY <1>1, <1>2, <1>3 DEF Pool!Lists, Linked

LEMMA ChainSame ==
  ASSUME NEW m, NEW first, NEW S, Chain(m, first, S), NEW w, \A p \in S : w[p] = m[p]
  PROVE  Chain(w, first, S)
<1>1. PICK n, order : n = Cardinality(S) /\ Linked(m, first, S, n, order)
  BY DEF Chain
<1>2. Linked(w, first, S, n, order)
  BY <1>1 DEF Linked
<1> QED
  BY <1>1, <1>2 DEF Chain

LEMMA ChainEmpty ==
  ASSUME NEW m
  PROVE  Chain(m, Pool!null, {})
<1>1. IsFiniteSet({}) /\ Cardinality({}) = 0
  BY FS_EmptySet
<1> DEFINE order == [k \in 1..0 |-> 0]
<1>2. Linked(m, Pool!null, {}, 0, order)
  BY DEF Linked
<1> QED
  BY <1>1, <1>2 DEF Chain

LEMMA ChainPush ==
  ASSUME NEW m, NEW first, NEW S, Chain(m, first, S), NEW x, x \notin S,
         NEW w, \A p \in S : w[p] = m[p], w[x] = first
  PROVE  Chain(w, x, S \cup {x})
<1>1. PICK n, order : n = Cardinality(S) /\ Linked(m, first, S, n, order)
  BY DEF Chain
<1>2. n \in Nat /\ IsFiniteSet(S \cup {x}) /\ Cardinality(S \cup {x}) = n + 1
  BY <1>1, FS_AddElement, FS_CardinalityType DEF Chain
<1> DEFINE e == [k \in 1..(n + 1) |-> IF k = 1 THEN x ELSE order[k - 1]]
<1>3. e \in [1..(n + 1) -> S \cup {x}]
  BY <1>1, <1>2 DEF Linked
<1>4. \A k \in 1..n : e[k + 1] = order[k] /\ order[k] \in S
  BY <1>1, <1>2 DEF Linked
<1>5. e[1] = x
  BY <1>2
<1> HIDE DEF e
<1>6. \A k \in 1..(n + 1) : k = 1 \/ (k - 1 \in 1..n /\ e[k] = order[k - 1])
  <2>1. ASSUME NEW k \in 1..(n + 1), k # 1
        PROVE  k - 1 \in 1..n /\ e[k] = order[k - 1]
    <3>1. k - 1 \in 1..n /\ (k - 1) + 1 = k
      BY <1>2, <2>1
    <3> QED
      BY <1>4, <3>1
  <2> QED
    BY <2>1
<1>7. \A k, l \in 1..(n + 1) : e[k] = e[l] => k = l
  <2> SUFFICES ASSUME NEW k \in 1..(n + 1), NEW l \in 1..(n + 1), e[k] = e[l]
               PROVE  k = l
    OBVIOUS
  <2>1. CASE k # 1 /\ l # 1
    <3>1. k - 1 \in 1..n /\ l - 1 \in 1..n /\ order[k - 1] = order[l - 1]
      BY <1>6, <2>1
    <3>2. k - 1 = l - 1
      BY <1>1, <3>1 DEF Linked
    <3> QED
      BY <1>2, <3>2
  <2>2. CASE k = 1 \/ l = 1
    BY <1>4, <1>5, <1>6, <2>2
  <2> QED
    BY <2>1, <2>2
<1>8. \A p \in S \cup {x} : \E k \in 1..(n + 1) : e[k] = p
  <2>1. ASSUME NEW p \in S
        PROVE  \E k \in 1..(n + 1) : e[k] = p
    <3>1. PICK k \in 1..n : order[k] = p
      BY <1>1 DEF Linked
    <3> QED
      BY <1>2, <1>4, <3>1, k + 1 \in 1..(n + 1)
  <2> QED
    BY <1>2, <1>5, <2>1, 1 \in 1..(n + 1)
<1>9. ASSUME NEW k \in 1..(n + 1)
      PROVE  w[e[k]] = IF k = n + 1 THEN Pool!null ELSE e[k + 1]
  <2>1. CASE k = 1
    <3>1. w[e[1]] = first
      BY <1>5
    <3>2. CASE n = 0
      BY <1>1, <2>1, <3>1, <3>2 DEF Linked
    <3>3. CASE n # 0
      <4>1. 1 \in 1..n /\ 1 # n + 1
        BY <1>2, <3>3
      <4>2. first = order[1] /\ e[1 + 1] = order[1]
        BY <1>1, <1>4, <3>3, <4>1 DEF Linked
      <4> QED
        BY <2>1, <3>1, <4>1, <4>2
    <3> QED
      BY <3>2, <3>3
  <2>2. CASE k # 1
    <3>1. k - 1 \in 1..n /\ e[k] = order[k - 1] /\ order[k - 1] \in S
      BY <1>4, <1>6, <2>2
    <3>2. m[order[k - 1]] = IF k - 1 = n THEN Pool!null ELSE order[(k - 1) + 1]
      BY <1>1, <3>1 DEF Linked
    <3>3. CASE k = n + 1
      BY <1>2, <3>1, <3>2, <3>3
    <3>4. CASE k # n + 1
      <4>1. k \in 1..n /\ (k - 1) + 1 = k /\ k - 1 # n
        BY <1>2, <3>4
      <4> QED
        BY <1>4, <3>1, <3>2, <3>4, <4>1
    <3> QED
      BY <3>3, <3>4
  <2> QED
    BY <2>1, <2>2
<1>10. Linked(w, x, S \cup {x}, n + 1, e)
  <2>1. n + 1 # 0
    BY <1>2
  <2> QED
    BY <1>3, <1>5, <1>7, <1>8, <1>9, <2>1 DEF Linked
<1> QED
  BY <1>2, <1>10 DEF Chain

LEMMA ChainPop ==
  ASSUME NEW m, NEW first, NEW S, Chain(m, first, S), first # Pool!null
  PROVE  first \in S /\ Chain(m, m[first], S \ {first})
<1>1. PICK n, order : n = Cardinality(S) /\ Linked(m, first, S, n, order)
  BY DEF Chain
<1>2. n \in Nat /\ n # 0
  BY <1>1, FS_CardinalityType DEF Chain, Linked
<1>3. 1 \in 1..n /\ first = order[1] /\ first \in S
  BY <1>1, <1>2 DEF Linked
<1>4. IsFiniteSet(S \ {first}) /\ Cardinality(S \ {first}) = n - 1
  BY <1>1, <1>3, FS_RemoveElement DEF Chain
<1> DEFINE e == [k \in 1..(n - 1) |-> order[k + 1]]
<1>5. ASSUME NEW k \in 1..(n - 1)
      PROVE  k + 1 \in 1..n /\ e[k] = order[k + 1] /\ order[k + 1] \in S \ {first}
  <2>1. k + 1 \in 1..n /\ k + 1 # 1
    BY <1>2
  <2> QED
    BY <1>1, <1>3, <2>1 DEF Linked
<1>6. e \in [1..(n - 1) -> S \ {first}]
  BY <1>5
<1> HIDE DEF e
<1>7. \A k, l \in 1..(n - 1) : e[k] = e[l] => k = l
  <2> SUFFICES ASSUME NEW k \in 1..(n - 1), NEW l \in 1..(n - 1), e[k] = e[l]
               PROVE  k = l
    OBVIOUS
  <2>1. k + 1 = l + 1
    BY <1>1, <1>5 DEF Linked
  <2> QED
    BY <1>2, <2>1
<1>8. \A p \in S \ {first} : \E k \in 1..(n - 1) : e[k] = p
  <2> SUFFICES ASSUME NEW p \in S \ {first}
               PROVE  \E k \in 1..(n - 1) : e[k] = p
    OBVIOUS
  <2>1. PICK k \in 1..n : order[k] = p
    BY <1>1 DEF Linked
  <2>2. k # 1
    BY <1>3, <2>1
  <2>3. k - 1 \in 1..(n - 1) /\ (k - 1) + 1 = k
    BY <1>2, <2>2
  <2> QED
    BY <1>5, <2>1, <2>3
<1>9. m[first] = IF n - 1 = 0 THEN Pool!null ELSE e[1]
  <2>1. m[first] = IF 1 = n THEN Pool!null ELSE order[1 + 1]
    BY <1>1, <1>3 DEF Linked
  <2>2. n # 1 => 1 \in 1..(n - 1)
    BY <1>2
  <2> QED
    BY <1>2, <1>5, <2>1, <2>2
<1>10. ASSUME NEW k \in 1..(n - 1)
       PROVE  m[e[k]] = IF k = n - 1 THEN Pool!null ELSE e[k + 1]
  <2>1. m[e[k]] = IF k + 1 = n THEN Pool!null ELSE order[(k + 1) + 1]
    BY <1>1, <1>5 DEF Linked
  <2>2. k # n - 1 => k + 1 \in 1..(n - 1)
    BY <1>2
  <2> QED
    BY <1>2, <1>5, <2>1, <2>2
<1>11. Linked(m, m[first], S \ {first}, n - 1, e)
  BY <1>6, <1>7, <1>8, <1>9, <1>10 DEF Linked
<1> QED
  BY <1>3, <1>4, <1>11 DEF Chain
-----------------------------------------------------------------------------
PoolTypes ==
  /\ pages \subseteq 1..MaxPages /\ page_head \in pages \X {0}
  /\ memory \in [Pool!Positions -> Pool!Positions \cup {Pool!null, Pool!junk}]
  /\ freelist_head \in Pool!Positions \cup {Pool!null}
  /\ offset \in Nat /\ offset < PAGE_SIZE
  /\ \E m \in Nat : offset = base + m * ObjectSize

PoolInv ==
  /\ PoolTypes /\ held \subseteq Pool!Cut
  /\ Chain(memory, freelist_head, Pool!Cut \ held)
  /\ Chain(memory, page_head, pages \X {0})

LEMMA OffsetFacts ==
  /\ \A o \in Pool!Offsets : /\ o \in 1..(PAGE_SIZE - 1) /\ o + ObjectSize < PAGE_SIZE /\ base <= o
                             /\ \E k \in Nat : o = base + k * ObjectSize
  /\ \A k \in Nat : base + k * ObjectSize + ObjectSize < PAGE_SIZE =>
       base + k * ObjectSize \in Pool!Offsets
<1>1. ASSUME NEW o \in Pool!Offsets
      PROVE  /\ o \in 1..(PAGE_SIZE - 1) /\ o + ObjectSize < PAGE_SIZE /\ base <= o
             /\ \E k \in Nat : o = base + k * ObjectSize
  <2>1. PICK k \in 0..PAGE_SIZE : o = base + k * ObjectSize /\ o + ObjectSize < PAGE_SIZE
    BY DEF Pool!Offsets
  <2>2. k \in Nat
    BY PoolConstants
  <2>3. k * ObjectSize \in Nat
    BY <2>2, PoolConstants, Multiples
  <2> QED
    BY <2>1, <2>2, <2>3, PoolConstants
<1>2. ASSUME NEW k \in Nat, base + k * ObjectSize + ObjectSize < PAGE_SIZE
      PROVE  base + k * ObjectSize \in Pool!Offsets
  <2>1. k * ObjectSize \in Nat /\ k <= k * ObjectSize
    BY PoolConstants, Multiples
  <2>2. k \in 0..PAGE_SIZE
    BY <1>2, <2>1, PoolConstants
  <2> QED
    BY <1>2, <2>2 DEF Pool!Offsets
<1> QED
  BY <1>1, <1>2

\* Blocks on one page are an ObjectSize apart.
LEMMA BlocksStep ==
  ASSUME NEW o \in Nat, NEW c \in Nat, NEW k \in Nat, o = base + k * ObjectSize,
         NEW m \in Nat, c = base + m * ObjectSize
  PROVE  o = c \/ o + ObjectSize <= c \/ c + ObjectSize <= o
<1>1. PICK x \in Nat, y \in Nat : x = k * ObjectSize /\ y = m * ObjectSize
  BY PoolConstants, Multiples
<1>2. k < m => x + ObjectSize <= y
  BY <1>1, PoolConstants, Multiples
<1>3. m < k => y + ObjectSize <= x
  BY <1>1, PoolConstants, Multiples
<1>4. k = m => x = y
  BY <1>1
<1> QED
  BY <1>1, <1>2, <1>3, <1>4, PoolConstants

LEMMA PagesAt ==
  ASSUME PoolTypes
  PROVE  /\ pages \X {0} \subseteq Pool!Positions /\ page_head \in Pool!Positions
         /\ pages \X (1..(PAGE_SIZE - 1)) \subseteq Pool!Positions
<1>1. {0} \subseteq 0..PAGE_SIZE-1 /\ 1..(PAGE_SIZE - 1) \subseteq 0..PAGE_SIZE-1
  BY PoolConstants
<1>2. pages \subseteq 1..MaxPages /\ page_head \in pages \X {0}
  BY DEF PoolTypes
<1>3. \A A, B, C, D : A \subseteq C /\ B \subseteq D => A \X B \subseteq C \X D
  OBVIOUS
<1>4. /\ pages \X {0} \subseteq Pool!Positions
      /\ pages \X (1..(PAGE_SIZE - 1)) \subseteq Pool!Positions
  BY <1>1, <1>2, <1>3, Zenon DEF Pool!Positions
<1> QED
  BY <1>2, <1>4

LEMMA CutFacts ==
  ASSUME PoolTypes, NEW b \in Pool!Cut
  PROVE  /\ b \in Pool!Positions /\ b \notin pages \X {0} /\ b[1] \in pages
         /\ b[2] \in Pool!Offsets /\ b = <<b[1], b[2]>>
<1>1. b \in pages \X Pool!Offsets
  BY DEF Pool!Cut
<1>2. b[2] \in 1..(PAGE_SIZE - 1) /\ b[2] # 0
  BY <1>1, OffsetFacts, PoolConstants
<1>3. b = <<b[1], b[2]>> /\ b[1] \in pages /\ b[2] \in Pool!Offsets
  BY <1>1
<1>4. b \in pages \X (1..(PAGE_SIZE - 1)) /\ b \notin pages \X {0}
  BY <1>2, <1>3
<1> QED
  BY <1>3, <1>4, PagesAt

LEMMA PoolInPage ==
  ASSUME PoolInv, Pool!AllocateInPage
  PROVE  PoolInv'
<1> DEFINE page == page_head[1]
           x == <<page, offset>>
<1>1. /\ offset + ObjectSize < PAGE_SIZE /\ held' = held \cup {x} /\ offset' = offset + ObjectSize
      /\ UNCHANGED <<page_head, freelist_head, memory, pages>>
  BY DEF Pool!AllocateInPage, Pool!Fits
<1>2. page \in pages
  BY DEF PoolInv, PoolTypes
<1>3. PICK m \in Nat : offset = base + m * ObjectSize
  BY DEF PoolInv, PoolTypes
<1>4. offset \in Nat
  BY DEF PoolInv, PoolTypes
<1>5. offset \in Pool!Offsets
  BY <1>1, <1>3, OffsetFacts
<1>6. m * ObjectSize \in Nat /\ (m + 1) * ObjectSize = m * ObjectSize + ObjectSize
  BY PoolConstants, Multiples
<1>7. PoolTypes'
  <2>1. m + 1 \in Nat /\ offset' = base + (m + 1) * ObjectSize
    BY <1>1, <1>3, <1>6, PoolConstants
  <2>2. offset' \in Nat /\ offset' < PAGE_SIZE
    BY <1>1, <1>4, PoolConstants
  <2> QED
    BY <1>1, <2>1, <2>2 DEF PoolInv, PoolTypes
<1>8. ASSUME NEW o \in Pool!Offsets
      PROVE  o < offset' <=> o < offset \/ o = offset
  <2>1. PICK k \in Nat : o = base + k * ObjectSize
    BY OffsetFacts
  <2>2. o \in Nat
    BY OffsetFacts, PoolConstants
  <2>3. o = offset \/ o + ObjectSize <= offset \/ offset + ObjectSize <= o
    BY <1>3, <1>4, <2>1, <2>2, BlocksStep
  <2> QED
    BY <1>1, <1>4, <2>2, <2>3, PoolConstants
<1>9. Pool!Cut' = Pool!Cut \cup {x}
  <2>1. Pool!Cut = {b \in pages \X Pool!Offsets : b[1] = page => b[2] < offset}
    BY DEF Pool!Cut
  <2>2. Pool!Cut' = {b \in pages \X Pool!Offsets : b[1] = page => b[2] < offset'}
    BY <1>1 DEF Pool!Cut, Pool!Offsets
  <2>3. x \in pages \X Pool!Offsets /\ x[1] = page /\ x[2] = offset
    BY <1>2, <1>5
  <2>4. \A b \in pages \X Pool!Offsets : b[1] = page /\ b[2] = offset => b = x
    OBVIOUS
  <2> HIDE DEF page, x
  <2> QED
    BY <1>8, <2>1, <2>2, <2>3, <2>4
<1>10. x \notin Pool!Cut
  BY <1>4 DEF Pool!Cut
<1>11. Pool!Cut' \ held' = Pool!Cut \ held /\ held' \subseteq Pool!Cut'
  BY <1>1, <1>9, <1>10 DEF PoolInv
<1> QED
  BY <1>1, <1>7, <1>11 DEF PoolInv

LEMMA PoolFromList ==
  ASSUME PoolInv, Pool!AllocateFree
  PROVE  PoolInv'
<1>1. /\ freelist_head # Pool!null /\ held' = held \cup {freelist_head}
      /\ freelist_head' = memory[freelist_head]
      /\ UNCHANGED <<page_head, offset, memory, pages>>
  BY DEF Pool!AllocateFree
<1>2. /\ freelist_head \in Pool!Cut \ held
      /\ Chain(memory, memory[freelist_head], (Pool!Cut \ held) \ {freelist_head})
  BY <1>1, ChainPop DEF PoolInv
<1>3. Pool!Cut' = Pool!Cut
  BY <1>1 DEF Pool!Cut, Pool!Offsets
<1>4. Pool!Cut' \ held' = (Pool!Cut \ held) \ {freelist_head} /\ held' \subseteq Pool!Cut'
  BY <1>1, <1>2, <1>3 DEF PoolInv
<1>5. memory[freelist_head] \in Pool!Positions \cup {Pool!null}
  <2>1. PICK S, f : S = (Pool!Cut \ held) \ {freelist_head} /\ f = memory[freelist_head]
    OBVIOUS
  <2>2. f = Pool!null \/ f \in S
    BY <1>2, <2>1, ChainPop
  <2> QED
    BY <2>1, <2>2, CutFacts DEF PoolInv
<1>6. PoolTypes'
  BY <1>1, <1>5 DEF PoolInv, PoolTypes
<1> QED
  BY <1>1, <1>2, <1>4, <1>6 DEF PoolInv

LEMMA PoolNewPage ==
  ASSUME PoolInv, Pool!AllocateNewPage
  PROVE  PoolInv'
<1>1. PICK page \in (1..MaxPages) \ pages :
        /\ pages' = pages \cup {page} /\ memory' = [memory EXCEPT ![<<page, 0>>] = page_head]
        /\ page_head' = <<page, 0>> /\ held' = held \cup {<<page, base>>}
  BY DEF Pool!AllocateNewPage
<1>2. /\ ~ (offset + ObjectSize < PAGE_SIZE) /\ offset' = base + ObjectSize
      /\ freelist_head' = freelist_head
  BY DEF Pool!AllocateNewPage, Pool!Fits
<1> DEFINE x == <<page, base>>
           top == <<page, 0>>
<1>3. x[1] = page /\ x[2] = base /\ top \in Pool!Positions /\ top \notin Pool!Cut /\ x \notin Pool!Cut
  BY <1>1, PoolConstants DEF Pool!Positions, Pool!Cut
<1>4. /\ \A o \in Pool!Offsets : o < offset
      /\ \A o \in Pool!Offsets : o < offset' <=> o = base
      /\ base \in Pool!Offsets
  <2>1. 0 * ObjectSize = 0 /\ 1 * ObjectSize = ObjectSize /\ base = base + 0 * ObjectSize
    BY PoolConstants
  <2>2. base \in Pool!Offsets
    BY <2>1, OffsetFacts, PoolConstants
  <2>3. ASSUME NEW o \in Pool!Offsets
        PROVE  o < offset /\ (o < offset' <=> o = base)
    <3>1. PICK k \in Nat : o = base + k * ObjectSize
      BY OffsetFacts
    <3>2. o \in Nat /\ o + ObjectSize < PAGE_SIZE /\ base <= o
      BY OffsetFacts, PoolConstants
    <3>3. o = base \/ o + ObjectSize <= base \/ base + ObjectSize <= o
      BY <2>1, <3>1, <3>2, BlocksStep, PoolConstants
    <3>4. offset \in Nat
      BY DEF PoolInv, PoolTypes
    <3> QED
      BY <1>2, <3>2, <3>3, <3>4, PoolConstants
  <2> QED
    BY <2>2, <2>3
<1>5. Pool!Cut' = Pool!Cut \cup {x}
  <2>1. Pool!Cut = pages \X Pool!Offsets
    BY <1>4 DEF Pool!Cut
  <2>2. Pool!Cut' = {b \in (pages \cup {page}) \X Pool!Offsets : b[1] = page => b[2] < offset'}
    BY <1>1 DEF Pool!Cut, Pool!Offsets
  <2>3. \A b \in (pages \cup {page}) \X Pool!Offsets : b[1] # page <=> b \in pages \X Pool!Offsets
    BY <1>1
  <2>4. \A b \in (pages \cup {page}) \X Pool!Offsets : b[1] = page /\ b[2] = base => b = x
    OBVIOUS
  <2>5. x \in (pages \cup {page}) \X Pool!Offsets
    BY <1>4
  <2>6. \A b \in (pages \cup {page}) \X Pool!Offsets : b[2] \in Pool!Offsets
    OBVIOUS
  <2>7. pages \X Pool!Offsets \subseteq (pages \cup {page}) \X Pool!Offsets
    OBVIOUS
  <2> HIDE DEF x
  <2> QED
    BY <1>3, <1>4, <2>1, <2>2, <2>3, <2>4, <2>5, <2>6, <2>7
<1>6. Pool!Cut' \ held' = Pool!Cut \ held /\ held' \subseteq Pool!Cut'
  BY <1>1, <1>3, <1>5 DEF PoolInv
<1>7. \A p \in Pool!Positions : p # top => memory'[p] = memory[p]
  BY <1>1 DEF PoolInv, PoolTypes
<1>8. Chain(memory', freelist_head', Pool!Cut' \ held')
  <2>1. \A p \in Pool!Cut \ held : memory'[p] = memory[p]
    BY <1>3, <1>7, CutFacts DEF PoolInv
  <2>2. Chain(memory', freelist_head, Pool!Cut \ held)
    BY <2>1, ChainSame DEF PoolInv
  <2> QED
    BY <1>2, <1>6, <2>2
<1>9. Chain(memory', page_head', pages' \X {0})
  <2>1. top \notin pages \X {0} /\ memory'[top] = page_head
    BY <1>1, <1>3 DEF PoolInv, PoolTypes
  <2>2. pages \X {0} \subseteq Pool!Positions
    BY PagesAt DEF PoolInv
  <2>3. \A p \in pages \X {0} : memory'[p] = memory[p]
    BY <1>7, <2>1, <2>2
  <2>4. Chain(memory', top, (pages \X {0}) \cup {top})
    BY <2>1, <2>3, ChainPush DEF PoolInv
  <2>5. (pages \X {0}) \cup {top} = pages' \X {0}
    BY <1>1
  <2> QED
    BY <1>1, <2>4, <2>5
<1>10. PoolTypes'
  <2>1. 1 \in Nat /\ offset' = base + 1 * ObjectSize /\ offset' \in Nat /\ offset' < PAGE_SIZE
    BY <1>2, PoolConstants
  <2>2. page_head \in Pool!Positions
    BY PagesAt DEF PoolInv
  <2>3. memory' \in [Pool!Positions -> Pool!Positions \cup {Pool!null, Pool!junk}]
    BY <1>1, <2>2 DEF PoolInv, PoolTypes
  <2>4. pages' \subseteq 1..MaxPages /\ page_head' \in pages' \X {0}
    BY <1>1 DEF PoolInv, PoolTypes
  <2>5. freelist_head' \in Pool!Positions \cup {Pool!null}
    BY <1>2 DEF PoolInv, PoolTypes
  <2> QED
    BY <2>1, <2>3, <2>4, <2>5 DEF PoolTypes
<1> QED
  BY <1>6, <1>8, <1>9, <1>10 DEF PoolInv

LEMMA PoolDestroy ==
  ASSUME PoolInv, NEW b \in held, Pool!Destroy(b)
  PROVE  PoolInv'
<1>1. /\ held' = held \ {b} /\ memory' = [memory EXCEPT ![b] = freelist_head] /\ freelist_head' = b
      /\ UNCHANGED <<page_head, offset, pages>>
  BY DEF Pool!Destroy
<1>2. b \in Pool!Cut /\ b \in Pool!Positions /\ b \notin pages \X {0}
  BY CutFacts DEF PoolInv
<1>3. \A p \in Pool!Positions : p # b => memory'[p] = memory[p]
  BY <1>1 DEF PoolInv, PoolTypes
<1>4. memory'[b] = freelist_head
  BY <1>1, <1>2 DEF PoolInv, PoolTypes
<1>5. Pool!Cut' = Pool!Cut
  BY <1>1 DEF Pool!Cut, Pool!Offsets
<1>6. Pool!Cut' \ held' = (Pool!Cut \ held) \cup {b} /\ held' \subseteq Pool!Cut'
  BY <1>1, <1>2, <1>5 DEF PoolInv
<1>7. Chain(memory', freelist_head', Pool!Cut' \ held')
  <2>1. \A p \in Pool!Cut \ held : memory'[p] = memory[p]
    BY <1>3, CutFacts DEF PoolInv
  <2>2. Chain(memory', b, (Pool!Cut \ held) \cup {b})
    BY <1>4, <2>1, ChainPush DEF PoolInv
  <2> QED
    BY <1>1, <1>6, <2>2
<1>8. Chain(memory', page_head', pages' \X {0})
  <2>1. pages \X {0} \subseteq Pool!Positions
    BY PagesAt DEF PoolInv
  <2>2. \A p \in pages \X {0} : memory'[p] = memory[p]
    BY <1>2, <1>3, <2>1
  <2> QED
    BY <1>1, <2>2, ChainSame DEF PoolInv
<1>9. PoolTypes'
  BY <1>1, <1>2 DEF PoolInv, PoolTypes
<1> QED
  BY <1>6, <1>7, <1>8, <1>9 DEF PoolInv

LEMMA PoolUse ==
  ASSUME PoolInv, NEW b \in held, Pool!Use(b)
  PROVE  PoolInv'
<1>1. /\ memory' = [memory EXCEPT ![b] = Pool!junk]
      /\ UNCHANGED <<page_head, freelist_head, offset, pages, held>>
  BY DEF Pool!Use
<1>2. b \in Pool!Positions /\ b \notin pages \X {0}
  BY CutFacts DEF PoolInv
<1>3. \A p \in Pool!Positions : p # b => memory'[p] = memory[p]
  BY <1>1 DEF PoolInv, PoolTypes
<1>4. Pool!Cut' = Pool!Cut
  BY <1>1 DEF Pool!Cut, Pool!Offsets
<1>5. \A p \in Pool!Cut \ held : memory'[p] = memory[p]
  BY <1>3, CutFacts DEF PoolInv
<1>6. pages \X {0} \subseteq Pool!Positions
  BY PagesAt DEF PoolInv
<1>7. \A p \in pages \X {0} : memory'[p] = memory[p]
  BY <1>2, <1>3, <1>6
<1>8. Chain(memory', freelist_head, Pool!Cut \ held) /\ Chain(memory', page_head, pages \X {0})
  BY <1>5, <1>7, ChainSame DEF PoolInv
<1>9. PoolTypes'
  BY <1>1 DEF PoolInv, PoolTypes
<1> QED
  BY <1>1, <1>4, <1>8, <1>9 DEF PoolInv

LEMMA PoolInductive == PoolInv /\ [Next]_vars => PoolInv'
<1> SUFFICES ASSUME PoolInv, [Pool!Next]_Pool!vars
             PROVE  PoolInv'
  BY PoolSteps
<1>1. CASE Pool!Next
  BY <1>1, PoolInPage, PoolFromList, PoolNewPage, PoolDestroy, PoolUse DEF Pool!Next
<1>2. CASE UNCHANGED Pool!vars
  <2>1. Pool!Cut' = Pool!Cut
    BY <1>2 DEF Pool!vars, Pool!Cut, Pool!Offsets
  <2>2. PoolTypes'
    BY <1>2 DEF Pool!vars, PoolInv, PoolTypes
  <2> QED
    BY <1>2, <2>1, <2>2 DEF Pool!vars, PoolInv
<1> QED
  BY <1>1, <1>2

LEMMA PoolStart == Init => PoolInv
<1> SUFFICES ASSUME Pool!Init
             PROVE  PoolInv
  BY DEF Init
<1>1. /\ page_head = <<1, 0>> /\ pages = {1} /\ freelist_head = Pool!null /\ offset = base
      /\ memory = [p \in Pool!Positions |-> Pool!null] /\ held = {}
  BY DEF Pool!Init
<1>2. Pool!Cut = {}
  <2>1. \A o \in Pool!Offsets : ~ (o < offset)
    BY <1>1, OffsetFacts, PoolConstants
  <2> QED
    BY <1>1, <2>1 DEF Pool!Cut
<1>3. 1 \in 1..MaxPages /\ <<1, 0>> \in Pool!Positions
  BY PoolConstants DEF Pool!Positions
<1>4. Chain(memory, <<1, 0>>, {<<1, 0>>})
  <2>1. Chain(memory, <<1, 0>>, {} \cup {<<1, 0>>})
    BY <1>1, <1>3, ChainEmpty, ChainPush
  <2> QED
    BY <2>1
<1>5. {1} \X {0} = {<<1, 0>>} /\ <<1, 0>> \in {1} \X {0}
  OBVIOUS
<1>6. 0 \in Nat /\ offset = base + 0 * ObjectSize /\ offset \in Nat /\ offset < PAGE_SIZE
  BY <1>1, PoolConstants
<1>7. PoolTypes
  BY <1>1, <1>3, <1>5, <1>6 DEF PoolTypes
<1>8. Pool!Cut \ held = {} /\ held \subseteq Pool!Cut
  BY <1>1, <1>2
<1>9. Chain(memory, freelist_head, {})
  BY <1>1, ChainEmpty
<1> QED
  BY <1>1, <1>4, <1>5, <1>7, <1>8, <1>9 DEF PoolInv

LEMMA PoolImplied == PoolInv => PoolBlocksRight
<1> SUFFICES ASSUME PoolInv
             PROVE  Pool!BlocksPartitioned /\ Pool!BlocksApart /\ Pool!PagesListed
  BY DEF PoolBlocksRight
<1>1. Pool!BlocksPartitioned
  BY ChainListed DEF Pool!BlocksPartitioned, PoolInv
<1>2. Pool!PagesListed
  BY ChainListed DEF Pool!PagesListed, PoolInv
<1>3. Pool!BlocksApart
  <2>1. ASSUME NEW b \in held
        PROVE  /\ base <= b[2] /\ b[2] + ObjectSize <= PAGE_SIZE /\ b[2] \in Nat /\ b = <<b[1], b[2]>>
               /\ \E k \in Nat : b[2] = base + k * ObjectSize
    <3>1. b[2] \in Pool!Offsets /\ b = <<b[1], b[2]>>
      BY CutFacts DEF PoolInv
    <3>2. PICK o \in Pool!Offsets : o = b[2]
      BY <3>1
    <3> QED
      BY <3>1, <3>2, OffsetFacts, PoolConstants
  <2>2. ASSUME NEW b \in held, NEW c \in held, b # c, b[1] = c[1]
        PROVE  b[2] + ObjectSize <= c[2] \/ c[2] + ObjectSize <= b[2]
    <3>1. PICK o \in Nat, k \in Nat : o = b[2] /\ o = base + k * ObjectSize
      BY <2>1
    <3>2. PICK p \in Nat, m \in Nat : p = c[2] /\ p = base + m * ObjectSize
      BY <2>1
    <3>3. o # p
      BY <2>1, <2>2, <3>1, <3>2
    <3> QED
      BY <3>1, <3>2, <3>3, BlocksStep
  <2> QED
    BY <2>1, <2>2 DEF Pool!BlocksApart
<1> QED
  BY <1>1, <1>2, <1>3

\* kmem_cache: no block is given out twice, lost, or laid over another one,
\* and the destructor finds every page.
THEOREM PoolCorrect == Spec => []PoolBlocksRight
<1>1. Init => PoolInv
  BY PoolStart
<1>2. PoolInv /\ [Next]_vars => PoolInv'
  BY PoolInductive
<1>3. PoolInv => PoolBlocksRight
  BY PoolImplied
<1> QED
  BY <1>1, <1>2, <1>3, PTL DEF Spec

-----------------------------------------------------------------------------
(* vector *)

LEMMA VectorSteps == [Next]_vars => [Vectors!Next]_Vectors!vars
  BY DEF Next, vars, PoolStep, VectorStep, OwnerStep, ArchiveStep, vectorVars, Vectors!vars

Places == Vectors!Buffers \cup {0}

VectorTypes ==
  /\ alive \subseteq VectorNames /\ owned \subseteq Vectors!Buffers
  /\ begin \in [VectorNames -> Places] /\ size \in [VectorNames -> Nat]
  /\ heap \in [Places -> Seq(Nat)]
  /\ dead \in [Places -> SUBSET Nat]

\* Buffers and vectors belong together one by one.
Owners1to1 ==
  /\ \A v \in alive : begin[v] \in owned \cup {0}
  /\ \A v, w \in alive : begin[v] = begin[w] /\ begin[v] # 0 => v = w
  /\ \A b \in owned : \E v \in alive : begin[v] = b

\* What is not there is empty.
Absent ==
  /\ \A v \in VectorNames \ alive : begin[v] = 0 /\ size[v] = 0
  /\ \A b \in Places \ owned : heap[b] = <<>> /\ dead[b] = {}

Fitting ==
  \A v \in VectorNames : size[v] <= Len(heap[begin[v]]) /\ dead[begin[v]] \cap 1..size[v] = {}

VectorInv == VectorTypes /\ Owners1to1 /\ Absent /\ Fitting

\* Without destructors nothing is destroyed.
NoneDead == destructors \/ \A b \in Places : dead[b] = {}

\* The list of each vector.
ListOf == [v \in VectorNames |-> Vectors!Contents(v)]

LEMMA VectorConstants ==
  /\ IsFiniteSet(VectorNames) /\ Capacity \in Nat \ {0} /\ MaxSize \in Nat
  /\ Elements \subseteq Nat
  /\ Cardinality(VectorNames) \in Nat
  /\ Vectors!Buffers = 1..Cardinality(VectorNames) + 1
<1>1. /\ \A S : Vectors!IsFiniteSet(S) <=> IsFiniteSet(S)
      /\ \A S : Vectors!Cardinality(S) = Cardinality(S)
  BY DEF Vectors!IsFiniteSet, IsFiniteSet, Vectors!Cardinality, Cardinality
<1>2. IsFiniteSet(VectorNames) /\ Capacity \in Nat \ {0} /\ MaxSize \in Nat /\ Elements \subseteq Nat
  BY Constants, <1>1 DEF Constants, Vectors!VectorAssumption
<1>3. Vectors!Buffers = 1..Cardinality(VectorNames) + 1
  BY <1>1 DEF Vectors!Buffers
<1> QED
  BY <1>2, <1>3, FS_CardinalityType

LEMMA PlaceFacts == 0 \notin Vectors!Buffers /\ Places = Vectors!Buffers \cup {0}
  BY VectorConstants DEF Places

\* There are fewer vectors than buffers.
LEMMA BufferLeft ==
  ASSUME VectorInv
  PROVE  \E b \in Vectors!Buffers : b \notin owned
<1> SUFFICES ASSUME owned = Vectors!Buffers
             PROVE  FALSE
  BY DEF VectorInv, VectorTypes
<1>1. PICK S : S = {v \in alive : begin[v] \in owned}
  OBVIOUS
<1>2. S \subseteq VectorNames /\ \A v \in S : begin[v] \in owned
  BY <1>1 DEF VectorInv, VectorTypes
<1>3. IsFiniteSet(S) /\ Cardinality(S) <= Cardinality(VectorNames)
  BY <1>2, VectorConstants, FS_Subset
<1> DEFINE f == [v \in S |-> begin[v]]
<1>4. f \in Surjection(S, owned)
  <2>1. f \in [S -> owned]
    BY <1>2
  <2>2. \A b \in owned : \E v \in S : f[v] = b
    BY <1>1 DEF VectorInv, Owners1to1
  <2> QED
    BY <2>1, <2>2 DEF Surjection
<1>5. Cardinality(owned) <= Cardinality(S)
  BY <1>3, <1>4, FS_Surjection
<1>6. Cardinality(owned) = Cardinality(VectorNames) + 1
  BY VectorConstants, FS_Interval
<1> QED
  BY <1>3, <1>5, <1>6, VectorConstants, FS_CardinalityType

\* What of a vector stays the same when its buffer and its size do.
LEMMA SameList ==
  ASSUME NEW w \in VectorNames, begin'[w] = begin[w], size'[w] = size[w],
         heap'[begin[w]] = heap[begin[w]]
  PROVE  Vectors!Contents(w)' = Vectors!Contents(w)
  BY DEF Vectors!Contents

LEMMA ListsChange ==
  ASSUME NEW v \in VectorNames, NEW s,
         Vectors!Contents(v)' = s,
         \A w \in VectorNames : w # v => Vectors!Contents(w)' = Vectors!Contents(w)
  PROVE  ListOf' = [ListOf EXCEPT ![v] = s]
  BY DEF ListOf

LEMMA PutNewInv ==
  ASSUME VectorInv, NEW v \in VectorNames, NEW s \in Seq(Nat), NEW n \in Nat, n <= Len(s),
         Vectors!PutNew(v, s, n), alive' = alive \cup {v}
  PROVE  VectorInv' /\ ListOf' = [ListOf EXCEPT ![v] = SubSeq(s, 1, n)]
<1>1. PICK new \in Vectors!Buffers :
        /\ new \notin owned
        /\ heap' = [heap EXCEPT ![begin[v]] = <<>>, ![new] = s]
        /\ dead' = [dead EXCEPT ![begin[v]] = {}]
        /\ owned' = (owned \cup {new}) \ {begin[v]}
        /\ begin' = [begin EXCEPT ![v] = new]
        /\ size' = [size EXCEPT ![v] = n]
  <2>1. PICK new : new = CHOOSE b \in Vectors!Buffers : b \notin owned
    OBVIOUS
  <2>2. new \in Vectors!Buffers /\ new \notin owned
    BY <2>1, BufferLeft
  <2> QED
    BY <2>1, <2>2 DEF Vectors!PutNew, Vectors!Put
<1>2. begin[v] \in owned \cup {0} /\ begin[v] \in Places /\ new # begin[v] /\ new # 0 /\ new \in Places
  BY <1>1, PlaceFacts DEF VectorInv, VectorTypes, Owners1to1, Absent
<1>3. VectorTypes'
  <2>1. <<>> \in Seq(Nat)
    BY EmptySeq
  <2>2. heap' \in [Places -> Seq(Nat)]
    BY <1>1, <1>2, <2>1 DEF VectorInv, VectorTypes
  <2>3. dead' \in [Places -> SUBSET Nat]
    BY <1>1, <1>2 DEF VectorInv, VectorTypes
  <2>4. alive' \subseteq VectorNames /\ owned' \subseteq Vectors!Buffers
    BY <1>1 DEF VectorInv, VectorTypes
  <2>5. begin' \in [VectorNames -> Places] /\ size' \in [VectorNames -> Nat]
    BY <1>1, <1>2 DEF VectorInv, VectorTypes
  <2> QED
    BY <2>2, <2>3, <2>4, <2>5 DEF VectorTypes
<1>4. /\ heap'[new] = s /\ dead'[new] = {} /\ begin'[v] = new /\ size'[v] = n
      /\ heap'[begin[v]] = <<>> /\ dead'[begin[v]] = {}
      /\ \A b \in Places : b # new /\ b # begin[v] => heap'[b] = heap[b] /\ dead'[b] = dead[b]
      /\ \A w \in VectorNames : w # v => begin'[w] = begin[w] /\ size'[w] = size[w]
  BY <1>1, <1>2 DEF VectorInv, VectorTypes, Absent
<1>5. \A w \in VectorNames : w # v => begin[w] # new /\ (begin[w] = begin[v] => begin[v] = 0)
  BY <1>1, <1>2 DEF VectorInv, Owners1to1, Absent
<1>6. heap[0] = <<>> /\ dead[0] = {}
  BY PlaceFacts DEF VectorInv, VectorTypes, Absent
<1>7. \A w \in VectorNames : w # v =>
        heap'[begin[w]] = heap[begin[w]] /\ dead'[begin[w]] = dead[begin[w]]
  BY <1>4, <1>5, <1>6 DEF VectorInv, VectorTypes
<1>8. Owners1to1'
  <2>1. \A w \in alive' : begin'[w] \in owned' \cup {0}
    BY <1>1, <1>2, <1>4, <1>5 DEF VectorInv, VectorTypes, Owners1to1
  <2>2. \A w, x \in alive' : begin'[w] = begin'[x] /\ begin'[w] # 0 => w = x
    BY <1>4, <1>5 DEF VectorInv, VectorTypes, Owners1to1
  <2>3. \A b \in owned' : \E w \in alive' : begin'[w] = b
    BY <1>1, <1>4, <1>5 DEF VectorInv, VectorTypes, Owners1to1
  <2> QED
    BY <2>1, <2>2, <2>3 DEF Owners1to1
<1>9. Absent'
  BY <1>1, <1>2, <1>4 DEF VectorInv, VectorTypes, Absent
<1>10. Fitting'
  BY <1>4, <1>7 DEF VectorInv, Fitting
<1>11. Vectors!Contents(v)' = SubSeq(s, 1, n)
  BY <1>4 DEF Vectors!Contents
<1>12. \A w \in VectorNames : w # v => Vectors!Contents(w)' = Vectors!Contents(w)
  BY <1>4, <1>7, SameList
<1> QED
  BY <1>3, <1>8, <1>9, <1>10, <1>11, <1>12, ListsChange DEF VectorInv

LEMMA PrefixIs ==
  ASSUME NEW s \in Seq(Nat), NEW t \in Seq(Nat), Len(s) <= Len(t),
         \A k \in 1..Len(s) : t[k] = s[k]
  PROVE  SubSeq(t, 1, Len(s)) = s
<1>1. Len(s) \in Nat /\ \A k \in 1..Len(s) : t[k] \in Nat
  BY LenProperties, ElementOfSeq
<1>2. PICK u : u = SubSeq(t, 1, Len(s))
  OBVIOUS
<1>3. u \in Seq(Nat) /\ Len(u) = Len(s) /\ \A k \in 1..Len(s) : u[k] = t[k]
  BY <1>1, <1>2, SubSeqProperties
<1> QED
  BY <1>2, <1>3, SeqEqual

LEMMA ContentsFacts ==
  ASSUME VectorInv, NEW v \in VectorNames
  PROVE  /\ Vectors!Contents(v) \in Seq(Nat) /\ Len(Vectors!Contents(v)) = size[v]
         /\ \A k \in 1..size[v] : Vectors!Contents(v)[k] = heap[begin[v]][k]
         /\ heap[begin[v]] \in Seq(Nat) /\ Len(heap[begin[v]]) \in Nat /\ size[v] \in Nat
         /\ size[v] <= Len(heap[begin[v]])
<1>1. heap[begin[v]] \in Seq(Nat) /\ size[v] \in Nat /\ size[v] <= Len(heap[begin[v]])
  BY DEF VectorInv, VectorTypes, Fitting
<1>2. Len(heap[begin[v]]) \in Nat /\ \A k \in 1..size[v] : heap[begin[v]][k] \in Nat
  BY <1>1, LenProperties, ElementOfSeq
<1> QED
  BY <1>1, <1>2, SubSeqProperties DEF Vectors!Contents

LEMMA PaddedFacts ==
  ASSUME NEW s \in Seq(Nat), NEW n \in Nat
  PROVE  /\ Vectors!Padded(s, n) \in Seq(Nat) /\ Len(Vectors!Padded(s, n)) = n
         /\ Len(s) <= n => SubSeq(Vectors!Padded(s, n), 1, Len(s)) = s
         /\ \A k \in 1..n : k <= Len(s) => Vectors!Padded(s, n)[k] = s[k]
<1>1. PICK p : p = Vectors!Padded(s, n)
  OBVIOUS
<1>2. Len(s) \in Nat /\ \A k \in 1..Len(s) : s[k] \in Nat
  BY LenProperties, ElementOfSeq
<1>3. p = [k \in 1..n |-> IF k <= Len(s) THEN s[k] ELSE 0]
  BY <1>1 DEF Vectors!Padded, Vectors!default
<1>4. p \in [1..n -> Nat]
  BY <1>2, <1>3
<1>5. p \in Seq(Nat)
  BY <1>4, SeqDef
<1>6. Len(p) = n
  BY <1>4, <1>5, LenProperties
<1>7. Len(s) <= n => SubSeq(p, 1, Len(s)) = s
  BY <1>2, <1>3, <1>5, <1>6, PrefixIs
<1> QED
  BY <1>1, <1>3, <1>5, <1>6, <1>7

\* The buffer of v becomes t, of which n elements are used and D destroyed.
InPlace(v, t, n, D) ==
  /\ heap' = [heap EXCEPT ![begin[v]] = t] /\ dead' = [dead EXCEPT ![begin[v]] = D]
  /\ Vectors!Put(v, begin[v], n) /\ UNCHANGED <<alive, owned>>

Usable(v, t, n, D) ==
  /\ t \in Seq(Nat) /\ n \in Nat /\ n <= Len(t)
  /\ D \subseteq Nat /\ D \cap 1..n = {}
  /\ begin[v] = 0 => t = <<>> /\ D = {}

LEMMA InPlaceInv ==
  ASSUME VectorInv, NEW v \in alive, NEW t, NEW n, NEW D, Usable(v, t, n, D), InPlace(v, t, n, D)
  PROVE  VectorInv' /\ ListOf' = [ListOf EXCEPT ![v] = SubSeq(t, 1, n)]
<1> USE DEF Usable, InPlace
<1>1. v \in VectorNames /\ begin[v] \in Places /\ begin[v] \in owned \cup {0}
  BY DEF VectorInv, VectorTypes, Owners1to1
<1>2. /\ begin' = begin /\ size' = [size EXCEPT ![v] = n]
      /\ heap'[begin[v]] = t /\ dead'[begin[v]] = D /\ size'[v] = n
      /\ \A w \in VectorNames : w # v => size'[w] = size[w]
      /\ \A b \in Places : b # begin[v] => heap'[b] = heap[b] /\ dead'[b] = dead[b]
  BY <1>1 DEF VectorInv, VectorTypes, Vectors!Put
<1>3. heap[0] = <<>> /\ dead[0] = {}
  BY PlaceFacts DEF VectorInv, VectorTypes, Absent
<1>4. \A w \in VectorNames : w # v =>
        heap'[begin[w]] = heap[begin[w]] /\ dead'[begin[w]] = dead[begin[w]]
  BY <1>1, <1>2, <1>3 DEF VectorInv, VectorTypes, Owners1to1, Absent
<1>5. VectorTypes'
  BY <1>1, <1>2 DEF VectorInv, VectorTypes
<1>6. Owners1to1'
  BY <1>2 DEF VectorInv, Owners1to1
<1>7. Absent'
  BY <1>1, <1>2, <1>3 DEF VectorInv, VectorTypes, Absent
<1>8. Fitting'
  BY <1>2, <1>4 DEF VectorInv, Fitting
<1>9. Vectors!Contents(v)' = SubSeq(t, 1, n)
  BY <1>2 DEF Vectors!Contents
<1>10. \A w \in VectorNames : w # v => Vectors!Contents(w)' = Vectors!Contents(w)
  BY <1>2, <1>4, SameList
<1> QED
  BY <1>1, <1>5, <1>6, <1>7, <1>8, <1>9, <1>10, ListsChange DEF VectorInv

LEMMA VectorStays ==
  ASSUME VectorInv, UNCHANGED <<alive, begin, size, heap, owned, dead>>
  PROVE  VectorInv' /\ ListOf' = ListOf /\ alive' = alive
  BY DEF VectorInv, VectorTypes, Owners1to1, Absent, Fitting, ListOf, Vectors!Contents

LEMMA BreakInv ==
  ASSUME VectorInv, NEW how, Vectors!Break(how)
  PROVE  VectorInv' /\ ListOf' = ListOf /\ alive' = alive
  BY VectorStays DEF Vectors!Break

ListNext ==
  \/ \E v \in VectorNames :
       Vectors!Lists!Create(v) \/ Vectors!Lists!Push(v) \/ Vectors!Lists!Pop(v)
       \/ Vectors!Lists!Assign(v) \/ Vectors!Lists!Move(v) \/ Vectors!Lists!Destroy(v)
  \/ UNCHANGED <<alive, ListOf>>

LEMMA VectorConstructInv ==
  ASSUME VectorInv, NEW v \in VectorNames, Vectors!Construct(v)
  PROVE  VectorInv' /\ Vectors!Lists!Create(v)
<1>1. v \notin alive /\ alive' = alive \cup {v} /\ Capacity \in Nat
  BY VectorConstants DEF Vectors!Construct, Vectors!Create
<1>2. <<>> \in Seq(Nat) /\ Len(<<>>) = 0
  BY EmptySeq
<1>3. PICK s : s = Vectors!Padded(<<>>, Capacity)
  OBVIOUS
<1>4. s \in Seq(Nat) /\ Len(s) = Capacity /\ SubSeq(s, 1, 0) = <<>>
  <2>1. PICK e : e = <<>>
    OBVIOUS
  <2>2. e \in Seq(Nat) /\ Len(e) = 0 /\ s = Vectors!Padded(e, Capacity)
    BY <1>2, <1>3, <2>1
  <2>3. s \in Seq(Nat) /\ Len(s) = Capacity
    BY <1>1, <2>2, PaddedFacts
  <2>4. SubSeq(s, 1, Len(e)) = e
    BY <1>1, <2>2, PaddedFacts
  <2> QED
    BY <2>1, <2>2, <2>3, <2>4
<1>5. Vectors!PutNew(v, s, 0)
  BY <1>3 DEF Vectors!Construct
<1>6. VectorInv' /\ ListOf' = [ListOf EXCEPT ![v] = <<>>]
  BY <1>1, <1>4, <1>5, PutNewInv
<1> QED
  BY <1>1, <1>6 DEF ListOf, Vectors!Lists!Create, Vectors!Lists!Begin

LEMMA VectorCopyInv ==
  ASSUME VectorInv, NEW v \in VectorNames, NEW w \in VectorNames, Vectors!Copy(v, w)
  PROVE  VectorInv' /\ Vectors!Lists!Create(v)
<1>1. v \notin alive /\ alive' = alive \cup {v} /\ w \in alive
  BY DEF Vectors!Copy, Vectors!Create
<1>2. PICK c : c = Vectors!Contents(w)
  OBVIOUS
<1>3. c \in Seq(Nat) /\ Len(c) = size[w] /\ Vectors!capacity(w) \in Nat
      /\ size[w] <= Vectors!capacity(w) /\ size[w] \in Nat
  BY <1>2, ContentsFacts DEF Vectors!capacity
<1>4. PICK s : s = Vectors!Padded(c, Vectors!capacity(w))
  OBVIOUS
<1>5. s \in Seq(Nat) /\ Len(s) = Vectors!capacity(w) /\ SubSeq(s, 1, size[w]) = c
  BY <1>3, <1>4, PaddedFacts
<1>6. Vectors!PutNew(v, s, size[w])
  BY <1>2, <1>4 DEF Vectors!Copy
<1>7. VectorInv' /\ ListOf' = [ListOf EXCEPT ![v] = c]
  <2>1. PICK n : n = size[w]
    OBVIOUS
  <2>2. VectorInv' /\ ListOf' = [ListOf EXCEPT ![v] = SubSeq(s, 1, n)]
    BY <1>1, <1>3, <1>5, <1>6, <2>1, PutNewInv
  <2> QED
    BY <1>5, <2>1, <2>2
<1>8. c = ListOf[w]
  BY <1>2 DEF ListOf
<1> QED
  BY <1>1, <1>7, <1>8 DEF ListOf, Vectors!Lists!Create, Vectors!Lists!Begin

\* One more element is one more in the list.
LEMMA AppendIs ==
  ASSUME VectorInv, NEW v \in VectorNames, NEW x \in Nat, NEW t \in Seq(Nat),
         size[v] + 1 <= Len(t), t[size[v] + 1] = x,
         \A k \in 1..size[v] : t[k] = heap[begin[v]][k]
  PROVE  SubSeq(t, 1, size[v] + 1) = Append(Vectors!Contents(v), x)
<1>1. PICK c : c = Vectors!Contents(v)
  OBVIOUS
<1>2. c \in Seq(Nat) /\ Len(c) = size[v] /\ size[v] \in Nat /\ \A k \in 1..size[v] : c[k] = t[k]
  BY <1>1, ContentsFacts
<1>3. PICK a : a = Append(c, x)
  OBVIOUS
<1>4. a \in Seq(Nat) /\ Len(a) = size[v] + 1 /\ a[size[v] + 1] = x
      /\ \A k \in 1..size[v] : a[k] = c[k]
  BY <1>2, <1>3, AppendProperties
<1>5. ASSUME NEW k \in 1..Len(a)
      PROVE  t[k] = a[k]
  <2>1. k \in 1..size[v] \/ k = size[v] + 1
    BY <1>2, <1>4
  <2> QED
    BY <1>2, <1>4, <2>1
<1>6. SubSeq(t, 1, Len(a)) = a
  <2>1. Len(a) <= Len(t)
    BY <1>4
  <2> QED
    BY <1>4, <1>5, <2>1, PrefixIs
<1> QED
  BY <1>1, <1>3, <1>4, <1>6

LEMMA VectorGrowInv ==
  ASSUME VectorInv, NEW v \in alive, NEW x \in Nat, Vectors!Full(v), Vectors!capacity(v) # 0,
         Vectors!PutNew(v, [Vectors!Grown(v) EXCEPT ![size[v] + 1] = x], size[v] + 1),
         UNCHANGED alive
  PROVE  VectorInv' /\ ListOf' = [ListOf EXCEPT ![v] = Append(Vectors!Contents(v), x)]
<1>1. v \in VectorNames /\ alive' = alive \cup {v}
  BY DEF VectorInv, VectorTypes
<1>2. PICK c : c = Vectors!Contents(v)
  OBVIOUS
<1>3. PICK n \in Nat : n = size[v] + 1
  BY <1>1, ContentsFacts
<1>4. /\ c \in Seq(Nat) /\ Len(c) = size[v] /\ size[v] \in Nat
      /\ \A k \in 1..size[v] : c[k] = heap[begin[v]][k]
  BY <1>1, <1>2, ContentsFacts
<1>5. size[v] = Vectors!capacity(v) /\ 2 * size[v] \in Nat /\ n <= 2 * size[v]
  BY <1>3, <1>4 DEF Vectors!Full
<1>6. PICK g : g = Vectors!Grown(v)
  OBVIOUS
<1>7. g \in Seq(Nat) /\ Len(g) = 2 * size[v] /\ \A k \in 1..size[v] : g[k] = c[k]
  <2>1. PICK m \in Nat : m = 2 * size[v]
    BY <1>5
  <2>2. g = Vectors!Padded(c, m)
    BY <1>2, <1>5, <1>6, <2>1 DEF Vectors!Grown
  <2>3. g \in Seq(Nat) /\ Len(g) = m /\ \A k \in 1..m : k <= Len(c) => g[k] = c[k]
    BY <1>4, <2>2, PaddedFacts
  <2> QED
    BY <1>4, <2>1, <2>3
<1>8. PICK t : t = [g EXCEPT ![n] = x]
  OBVIOUS
<1>9. n \in 1..Len(g)
  BY <1>3, <1>4, <1>5, <1>7
<1>10. t \in Seq(Nat) /\ Len(t) = Len(g) /\ t[n] = x /\ \A k \in 1..size[v] : t[k] = g[k]
  <2>1. t \in Seq(Nat) /\ Len(t) = Len(g) /\ \A k \in 1..Len(g) : t[k] = IF k = n THEN x ELSE g[k]
    BY <1>7, <1>8, <1>9, ExceptSeq
  <2> QED
    BY <1>3, <1>4, <1>5, <1>7, <1>9, <2>1
<1>11. Vectors!PutNew(v, t, n)
  BY <1>3, <1>6, <1>8
<1>12. VectorInv' /\ ListOf' = [ListOf EXCEPT ![v] = SubSeq(t, 1, n)]
  <2>1. n <= Len(t)
    BY <1>9, <1>10
  <2> QED
    BY <1>1, <1>10, <1>11, <2>1, PutNewInv
<1>13. SubSeq(t, 1, n) = Append(Vectors!Contents(v), x)
  <2>1. size[v] + 1 <= Len(t) /\ t[size[v] + 1] = x
    BY <1>3, <1>9, <1>10
  <2>2. \A k \in 1..size[v] : t[k] = heap[begin[v]][k]
    BY <1>4, <1>7, <1>10
  <2> QED
    BY <1>1, <1>3, <1>10, <2>1, <2>2, AppendIs
<1> QED
  BY <1>12, <1>13

LEMMA VectorFillInv ==
  ASSUME VectorInv, NEW v \in alive, NEW x \in Nat, ~ Vectors!Full(v),
         heap' = [heap EXCEPT ![begin[v]] = [@ EXCEPT ![size[v] + 1] = x]],
         dead' = [dead EXCEPT ![begin[v]] = @ \ {size[v] + 1}],
         Vectors!Put(v, begin[v], size[v] + 1), UNCHANGED <<alive, owned>>
  PROVE  VectorInv' /\ ListOf' = [ListOf EXCEPT ![v] = Append(Vectors!Contents(v), x)]
<1>1. v \in VectorNames
  BY DEF VectorInv, VectorTypes
<1>2. PICK h : h = heap[begin[v]]
  OBVIOUS
<1>3. PICK n \in Nat : n = size[v] + 1
  BY <1>1, ContentsFacts
<1>4. h \in Seq(Nat) /\ Len(h) \in Nat /\ size[v] \in Nat /\ size[v] <= Len(h) /\ size[v] # Len(h)
  BY <1>1, <1>2, ContentsFacts DEF Vectors!Full, Vectors!capacity
<1>5. n \in 1..Len(h) /\ begin[v] \in Places
  BY <1>1, <1>3, <1>4 DEF VectorInv, VectorTypes
<1>6. PICK t : t = [h EXCEPT ![n] = x]
  OBVIOUS
<1>7. t \in Seq(Nat) /\ Len(t) = Len(h) /\ t[n] = x /\ \A k \in 1..size[v] : t[k] = h[k]
  <2>1. t \in Seq(Nat) /\ Len(t) = Len(h) /\ \A k \in 1..Len(h) : t[k] = IF k = n THEN x ELSE h[k]
    BY <1>4, <1>5, <1>6, ExceptSeq
  <2> QED
    BY <1>3, <1>4, <1>5, <2>1
<1>8. PICK D : D = dead[begin[v]] \ {n}
  OBVIOUS
<1>9. D \in SUBSET Nat /\ D \cap 1..n = {}
  BY <1>1, <1>3, <1>4, <1>5, <1>8 DEF VectorInv, VectorTypes, Fitting
<1>10. heap' = [heap EXCEPT ![begin[v]] = t] /\ dead' = [dead EXCEPT ![begin[v]] = D]
  BY <1>2, <1>3, <1>5, <1>6, <1>8 DEF VectorInv, VectorTypes
<1>11. begin[v] # 0
  <2>1. heap[0] = <<>>
    BY PlaceFacts DEF VectorInv, VectorTypes, Absent
  <2> QED
    BY <1>2, <1>4, <2>1, EmptySeq
<1>12. VectorInv' /\ ListOf' = [ListOf EXCEPT ![v] = SubSeq(t, 1, n)]
  <2>1. n <= Len(t) /\ Vectors!Put(v, begin[v], n)
    BY <1>3, <1>5, <1>7
  <2>2. Usable(v, t, n, D)
    BY <1>7, <1>9, <1>11, <2>1 DEF Usable
  <2>3. InPlace(v, t, n, D)
    BY <1>10, <2>1 DEF InPlace
  <2> QED
    BY <2>2, <2>3, InPlaceInv
<1>13. SubSeq(t, 1, n) = Append(Vectors!Contents(v), x)
  <2>1. size[v] + 1 <= Len(t) /\ t[size[v] + 1] = x
    BY <1>3, <1>5, <1>7
  <2>2. \A k \in 1..size[v] : t[k] = heap[begin[v]][k]
    BY <1>2, <1>7
  <2> QED
    BY <1>1, <1>3, <1>7, <2>1, <2>2, AppendIs
<1> QED
  BY <1>12, <1>13

\* push_back() and emplace_back() append x, or the program breaks.
LEMMA VectorAppendInv ==
  ASSUME VectorInv, NEW v \in VectorNames, NEW x \in Nat, NEW emplace, Vectors!Push(v, x, emplace)
  PROVE  /\ VectorInv' /\ v \in alive /\ alive' = alive
         /\ ListOf' = ListOf \/ ListOf' = [ListOf EXCEPT ![v] = Append(Vectors!Contents(v), x)]
<1>0. v \in alive
  BY DEF Vectors!Push
<1>1. CASE \E how : Vectors!Break(how)
  BY <1>0, <1>1, BreakInv
<1>2. CASE /\ Vectors!Full(v) /\ Vectors!capacity(v) # 0 /\ UNCHANGED alive
           /\ Vectors!PutNew(v, [Vectors!Grown(v) EXCEPT ![size[v] + 1] = x], size[v] + 1)
  BY <1>0, <1>2, VectorGrowInv
<1>3. CASE /\ ~ Vectors!Full(v) /\ UNCHANGED <<alive, owned>>
           /\ heap' = [heap EXCEPT ![begin[v]] = [@ EXCEPT ![size[v] + 1] = x]]
           /\ dead' = [dead EXCEPT ![begin[v]] = @ \ {size[v] + 1}]
           /\ Vectors!Put(v, begin[v], size[v] + 1)
  BY <1>0, <1>3, VectorFillInv
<1>4. Vectors!Full(v) \in BOOLEAN
  BY DEF Vectors!Full
<1> QED
  BY <1>1, <1>2, <1>3, <1>4, Zenon DEF Vectors!Push

LEMMA VectorPushInv ==
  ASSUME VectorInv, NEW v \in VectorNames, NEW x \in Elements, NEW emplace,
         Vectors!Push(v, x, emplace)
  PROVE  VectorInv' /\ (Vectors!Lists!Push(v) \/ UNCHANGED <<alive, ListOf>>)
<1>1. x \in Nat
  BY VectorConstants
<1> QED
  BY <1>1, VectorAppendInv DEF ListOf, Vectors!Lists!Push, Vectors!Lists!Change

LEMMA VectorPushOwnInv ==
  ASSUME VectorInv, NEW v \in VectorNames, NEW k \in 1..MaxSize, NEW emplace,
         Vectors!PushOwn(v, k, emplace)
  PROVE  VectorInv' /\ (Vectors!Lists!Push(v) \/ UNCHANGED <<alive, ListOf>>)
<1>1. CASE \E how : Vectors!Break(how)
  BY <1>1, BreakInv
<1>2. CASE Vectors!Push(v, Vectors!Contents(v)[k], emplace)
  <2>1. k <= size[v] /\ k \in 1..size[v]
    BY ContentsFacts, VectorConstants DEF Vectors!PushOwn
  <2>2. PICK c : c = Vectors!Contents(v)
    OBVIOUS
  <2>3. c \in Seq(Nat) /\ k \in 1..Len(c)
    BY <2>1, <2>2, ContentsFacts
  <2>4. c[k] \in Nat /\ k \in DOMAIN c
    BY <2>3, ElementOfSeq, LenProperties
  <2>5. /\ VectorInv' /\ v \in alive /\ alive' = alive
        /\ ListOf' = ListOf \/ ListOf' = [ListOf EXCEPT ![v] = Append(c, c[k])]
    BY <1>2, <2>2, <2>4, VectorAppendInv
  <2> QED
    BY <2>2, <2>4, <2>5 DEF ListOf, Vectors!Lists!Push, Vectors!Lists!Change
<1> QED
  BY <1>1, <1>2 DEF Vectors!PushOwn

LEMMA VectorPopBackInv ==
  ASSUME VectorInv, NEW v \in VectorNames, Vectors!PopBack(v)
  PROVE  VectorInv' /\ (Vectors!Lists!Pop(v) \/ UNCHANGED <<alive, ListOf>>)
<1>1. v \in alive /\ size[v] > 0
  BY DEF Vectors!PopBack
<1>2. CASE Vectors!Break("dead")
  BY <1>2, BreakInv
<1>3. CASE /\ Vectors!Put(v, begin[v], size[v] - 1)
           /\ dead' = IF destructors THEN [dead EXCEPT ![begin[v]] = @ \cup {size[v] + 1}] ELSE dead
           /\ heap' = [heap EXCEPT ![begin[v]] = [@ EXCEPT ![size[v]] = Vectors!default]]
           /\ UNCHANGED <<alive, owned>>
  <2>1. PICK h : h = heap[begin[v]]
    OBVIOUS
  <2>2. PICK n : n = size[v] - 1
    OBVIOUS
  <2>3. h \in Seq(Nat) /\ Len(h) \in Nat /\ size[v] \in 1..Len(h) /\ n \in Nat /\ n + 1 = size[v]
    BY <1>1, <2>1, <2>2, ContentsFacts
  <2>4. PICK t : t = [h EXCEPT ![size[v]] = 0]
    OBVIOUS
  <2>5. t \in Seq(Nat) /\ Len(t) = Len(h) /\ \A k \in 1..n : t[k] = h[k]
    <3>1. t \in Seq(Nat) /\ Len(t) = Len(h)
          /\ \A k \in 1..Len(h) : t[k] = IF k = size[v] THEN 0 ELSE h[k]
      BY <2>3, <2>4, ExceptSeq
    <3> QED
      BY <2>3, <3>1
  <2>6. begin[v] \in Places /\ dead[begin[v]] \subseteq Nat /\ dead[begin[v]] \cap 1..size[v] = {}
    BY DEF VectorInv, VectorTypes, Fitting
  <2>7. PICK D : D = IF destructors THEN dead[begin[v]] \cup {size[v] + 1} ELSE dead[begin[v]]
    OBVIOUS
  <2>8. D \subseteq Nat /\ D \cap 1..n = {}
    BY <2>3, <2>6, <2>7
  <2>9. begin[v] # 0
    <3>1. heap[0] = <<>>
      BY PlaceFacts DEF VectorInv, VectorTypes, Absent
    <3> QED
      BY <2>1, <2>3, <3>1, EmptySeq
  <2>10. Usable(v, t, n, D)
    BY <2>3, <2>5, <2>8, <2>9 DEF Usable
  <2>11. InPlace(v, t, n, D)
    <3>1. heap' = [heap EXCEPT ![begin[v]] = t]
      BY <1>3, <2>1, <2>4, <2>6 DEF VectorInv, VectorTypes, Vectors!default
    <3>2. dead' = [dead EXCEPT ![begin[v]] = D]
      BY <1>3, <2>6, <2>7 DEF VectorInv, VectorTypes
    <3> QED
      BY <1>3, <2>2, <3>1, <3>2 DEF InPlace
  <2>12. VectorInv' /\ ListOf' = [ListOf EXCEPT ![v] = SubSeq(t, 1, n)]
    BY <1>1, <2>10, <2>11, InPlaceInv
  <2>13. PICK c : c = Vectors!Contents(v)
    OBVIOUS
  <2>14. c \in Seq(Nat) /\ Len(c) = size[v] /\ \A k \in 1..size[v] : c[k] = h[k]
    BY <2>1, <2>13, ContentsFacts
  <2>15. SubSeq(t, 1, n) = SubSeq(c, 1, n)
    <3>1. PICK p : p = SubSeq(c, 1, n)
      OBVIOUS
    <3>2. \A k \in 1..n : c[k] \in Nat
      BY <2>3, <2>14, ElementOfSeq
    <3>3. p \in Seq(Nat) /\ Len(p) = n /\ \A k \in 1..n : p[k] = c[k]
      BY <2>3, <3>1, <3>2, SubSeqProperties
    <3>4. SubSeq(t, 1, Len(p)) = p
      <4>1. Len(p) <= Len(t)
        BY <2>3, <2>5, <3>3
      <4>2. ASSUME NEW k \in 1..Len(p)
            PROVE  t[k] = p[k]
        <5>1. k \in 1..n /\ k \in 1..size[v]
          BY <2>3, <3>3
        <5> QED
          BY <2>5, <2>14, <3>3, <5>1
      <4> QED
        BY <2>5, <3>3, <4>1, <4>2, PrefixIs
    <3> QED
      BY <3>1, <3>3, <3>4
  <2>16. c # <<>> /\ SubSeq(c, 1, n) = Vectors!Lists!Front(c)
    BY <1>1, <2>2, <2>14, EmptySeq DEF Vectors!Lists!Front
  <2>17. ListOf[v] = c
    BY <2>13 DEF ListOf
  <2> QED
    BY <1>1, <1>3, <2>12, <2>15, <2>16, <2>17 DEF ListOf, Vectors!Lists!Pop, Vectors!Lists!Change
<1> QED
  BY <1>2, <1>3, Zenon DEF Vectors!PopBack

LEMMA VectorReuseInv ==
  ASSUME VectorInv, NoneDead,
         NEW v \in alive, NEW w \in alive, size[w] <= Vectors!capacity(v),
         Vectors!Reuse(v, w, size[w]), UNCHANGED alive
  PROVE  VectorInv' /\ (Vectors!Lists!Assign(v) \/ UNCHANGED <<alive, ListOf>>)
<1>1. v \in VectorNames /\ w \in VectorNames
  BY DEF VectorInv, VectorTypes
<1>2. CASE Vectors!Break("dead")
  BY <1>2, BreakInv
<1>3. CASE /\ ~ (destructors /\ (1..size[v] \cup dead[begin[v]]) \cap 1..size[w] # {})
           /\ heap' = [heap EXCEPT ![begin[v]] = Vectors!Padded(Vectors!Contents(w), Len(@))]
           /\ dead' = IF destructors THEN [dead EXCEPT ![begin[v]] = @ \cup 1..size[v]] ELSE dead
           /\ Vectors!Put(v, begin[v], size[w]) /\ UNCHANGED owned
  <2>1. PICK h : h = heap[begin[v]]
    OBVIOUS
  <2>2. PICK c : c = Vectors!Contents(w)
    OBVIOUS
  <2>3. h \in Seq(Nat) /\ Len(h) \in Nat /\ size[v] \in Nat
    BY <1>1, <2>1, ContentsFacts
  <2>4. c \in Seq(Nat) /\ Len(c) = size[w] /\ size[w] \in Nat /\ size[w] <= Len(h)
    BY <1>1, <2>1, <2>2, ContentsFacts DEF Vectors!capacity
  <2>5. PICK t : t = Vectors!Padded(c, Len(h))
    OBVIOUS
  <2>6. t \in Seq(Nat) /\ Len(t) = Len(h) /\ SubSeq(t, 1, size[w]) = c
    BY <2>3, <2>4, <2>5, PaddedFacts
  <2>7. /\ begin[v] \in Places
        /\ dead[begin[v]] \subseteq Nat /\ dead[begin[v]] \cap 1..size[v] = {}
    BY <1>1 DEF VectorInv, VectorTypes, Fitting
  <2>8. PICK D : D = IF destructors THEN dead[begin[v]] \cup 1..size[v] ELSE dead[begin[v]]
    OBVIOUS
  <2>9. D \subseteq Nat
    BY <2>3, <2>7, <2>8
  <2>10. D \cap 1..size[w] = {}
    <3>1. CASE destructors
      BY <1>3, <2>8, <3>1
    <3>2. CASE ~ destructors
      BY <2>7, <2>8, <3>2 DEF NoneDead
    <3> QED
      BY <3>1, <3>2
  <2>11. begin[v] = 0 => t = <<>> /\ D = {}
    <3>1. heap[0] = <<>> /\ dead[0] = {}
      BY PlaceFacts DEF VectorInv, VectorTypes, Absent
    <3> SUFFICES ASSUME begin[v] = 0
                 PROVE  t = <<>> /\ D = {}
      OBVIOUS
    <3>2. Len(h) = 0
      BY <2>1, <3>1, EmptySeq
    <3>3. size[v] = 0
      BY <1>1, <2>1, <2>3, <3>2, ContentsFacts
    <3> QED
      BY <2>6, <2>8, <3>1, <3>2, <3>3, EmptySeq
  <2>12. Usable(v, t, size[w], D)
    BY <2>4, <2>6, <2>9, <2>10, <2>11 DEF Usable
  <2>13. InPlace(v, t, size[w], D)
    <3>1. heap' = [heap EXCEPT ![begin[v]] = t]
      BY <1>3, <2>1, <2>2, <2>5, <2>7 DEF VectorInv, VectorTypes
    <3>2. dead' = [dead EXCEPT ![begin[v]] = D]
      BY <1>3, <2>7, <2>8 DEF VectorInv, VectorTypes
    <3> QED
      BY <1>3, <3>1, <3>2 DEF InPlace
  <2>14. VectorInv' /\ ListOf' = [ListOf EXCEPT ![v] = SubSeq(t, 1, size[w])]
    BY <2>12, <2>13, InPlaceInv
  <2>15. ListOf[w] = c
    BY <1>1, <2>2 DEF ListOf
  <2> QED
    BY <2>6, <2>14, <2>15 DEF ListOf, Vectors!Lists!Assign, Vectors!Lists!Change
<1> QED
  BY <1>2, <1>3, Zenon DEF Vectors!Reuse

LEMMA VectorCopyAssignInv ==
  ASSUME VectorInv, NoneDead, NEW v \in VectorNames, NEW w \in VectorNames,
         Vectors!CopyAssign(v, w)
  PROVE  VectorInv' /\ (Vectors!Lists!Assign(v) \/ UNCHANGED <<alive, ListOf>>)
<1>1. v \in alive /\ w \in alive /\ alive' = alive
  BY DEF Vectors!CopyAssign
<1>2. CASE size[w] <= Vectors!capacity(v) /\ Vectors!Reuse(v, w, size[w])
  BY <1>1, <1>2, VectorReuseInv
<1>3. CASE Vectors!Break("dead")
  BY <1>3, BreakInv
<1>4. CASE Vectors!PutNew(v, Vectors!Padded(Vectors!Contents(w), Vectors!capacity(w)), size[w])
  <2>1. PICK c : c = Vectors!Contents(w)
    OBVIOUS
  <2>2. /\ c \in Seq(Nat) /\ Len(c) = size[w] /\ size[w] \in Nat
        /\ Vectors!capacity(w) \in Nat /\ size[w] <= Vectors!capacity(w)
    BY <2>1, ContentsFacts DEF Vectors!capacity
  <2>3. PICK s : s = Vectors!Padded(c, Vectors!capacity(w))
    OBVIOUS
  <2>4. s \in Seq(Nat) /\ Len(s) = Vectors!capacity(w) /\ SubSeq(s, 1, size[w]) = c
    BY <2>2, <2>3, PaddedFacts
  <2>5. PICK n : n = size[w]
    OBVIOUS
  <2>6. Vectors!PutNew(v, s, n) /\ n \in Nat /\ n <= Len(s) /\ alive' = alive \cup {v}
    BY <1>1, <1>4, <2>1, <2>2, <2>3, <2>4, <2>5
  <2>7. VectorInv' /\ ListOf' = [ListOf EXCEPT ![v] = SubSeq(s, 1, n)]
    BY <2>4, <2>6, PutNewInv
  <2>8. ListOf[w] = c
    BY <2>1 DEF ListOf
  <2> QED
    BY <1>1, <2>4, <2>5, <2>7, <2>8 DEF ListOf, Vectors!Lists!Assign, Vectors!Lists!Change
<1> QED
  BY <1>2, <1>3, <1>4, Zenon DEF Vectors!CopyAssign

\* The buffer of w is handed over to v, which has none.
LEMMA VectorMoveInv ==
  ASSUME VectorInv, NEW v \in VectorNames, NEW w \in VectorNames, Vectors!Move(v, w)
  PROVE  VectorInv' /\ Vectors!Lists!Move(v)
<1>1. /\ w \in alive /\ v \notin alive /\ v # w /\ alive' = alive \cup {v}
      /\ begin' = [begin EXCEPT ![v] = begin[w], ![w] = 0]
      /\ size' = [size EXCEPT ![v] = size[w], ![w] = 0]
      /\ UNCHANGED <<heap, owned, dead>>
  BY DEF Vectors!Move, Vectors!Create, Vectors!null
<1>2. /\ begin'[v] = begin[w] /\ begin'[w] = 0 /\ size'[v] = size[w] /\ size'[w] = 0
      /\ \A x \in VectorNames : x # v /\ x # w => begin'[x] = begin[x] /\ size'[x] = size[x]
  BY <1>1 DEF VectorInv, VectorTypes
<1>3. VectorTypes'
  BY <1>1, PlaceFacts DEF VectorInv, VectorTypes
<1>4. Owners1to1'
  <2>1. \A x \in alive' : begin'[x] \in owned' \cup {0}
    BY <1>1, <1>2 DEF VectorInv, VectorTypes, Owners1to1
  <2>2. \A x, y \in alive' : begin'[x] = begin'[y] /\ begin'[x] # 0 => x = y
    BY <1>1, <1>2 DEF VectorInv, VectorTypes, Owners1to1
  <2>3. \A b \in owned' : \E x \in alive' : begin'[x] = b
    <3> SUFFICES ASSUME NEW b \in owned
                 PROVE  \E x \in alive' : begin'[x] = b
      BY <1>1
    <3>1. PICK x \in alive : begin[x] = b
      BY DEF VectorInv, Owners1to1
    <3>2. CASE x = w
      BY <1>1, <1>2, <3>1, <3>2
    <3>3. CASE x # w
      BY <1>1, <1>2, <3>1, <3>3 DEF VectorInv, VectorTypes
    <3> QED
      BY <3>2, <3>3
  <2> QED
    BY <2>1, <2>2, <2>3 DEF Owners1to1
<1>5. Absent'
  BY <1>1, <1>2 DEF VectorInv, VectorTypes, Absent
<1>6. heap[0] = <<>> /\ dead[0] = {} /\ Len(<<>>) = 0
  BY PlaceFacts, EmptySeq DEF VectorInv, VectorTypes, Absent
<1>7. Fitting'
  <2>1. \A x \in VectorNames : x # w =>
          size'[x] <= Len(heap'[begin'[x]]) /\ dead'[begin'[x]] \cap 1..size'[x] = {}
    BY <1>1, <1>2 DEF VectorInv, Fitting
  <2>2. size'[w] <= Len(heap'[begin'[w]]) /\ dead'[begin'[w]] \cap 1..size'[w] = {}
    <3>1. heap'[0] = <<>> /\ dead'[0] = {}
      BY <1>1, <1>6
    <3>2. 0 <= Len(heap'[0]) /\ dead'[0] \cap 1..0 = {}
      BY <1>6, <3>1
    <3> QED
      BY <1>2, <3>2
  <2> QED
    BY <2>1, <2>2 DEF Fitting
<1>8. Vectors!Contents(v)' = Vectors!Contents(w)
  BY <1>1, <1>2 DEF Vectors!Contents
<1>9. Vectors!Contents(w)' = <<>>
  BY <1>1, <1>2, SubSeqEmpty DEF Vectors!Contents
<1>10. \A x \in VectorNames : x # v /\ x # w => Vectors!Contents(x)' = Vectors!Contents(x)
  BY <1>1, <1>2, SameList
<1>11. ListOf' = [ListOf EXCEPT ![w] = <<>>, ![v] = ListOf[w]]
  BY <1>1, <1>8, <1>9, <1>10 DEF ListOf
<1> QED
  BY <1>1, <1>3, <1>4, <1>5, <1>7, <1>11 DEF VectorInv, ListOf, Vectors!Lists!Move

LEMMA VectorMoveAssignInv ==
  ASSUME VectorInv, NEW v \in VectorNames, NEW w \in VectorNames, Vectors!MoveAssign(v, w)
  PROVE  VectorInv' /\ (Vectors!Lists!Move(v) \/ UNCHANGED <<alive, ListOf>>)
<1>1. v \in alive /\ w \in alive
  BY DEF Vectors!MoveAssign
<1>2. CASE Vectors!Break("dead")
  BY <1>2, BreakInv
<1>3. CASE /\ v # w
           /\ begin' = [begin EXCEPT ![w] = 0, ![v] = begin[w]]
           /\ size' = [size EXCEPT ![w] = 0, ![v] = size[w]]
           /\ Vectors!Delete(v) /\ UNCHANGED alive
  <2>1. /\ begin[v] \in Places /\ begin[v] \in owned \cup {0} /\ v \in VectorNames
        /\ w \in VectorNames
    BY <1>1 DEF VectorInv, VectorTypes, Owners1to1
  <2>2. heap[0] = <<>> /\ dead[0] = {} /\ Len(<<>>) = 0 /\ <<>> \in Seq(Nat)
    BY PlaceFacts, EmptySeq DEF VectorInv, VectorTypes, Absent
  <2>3. /\ begin'[v] = begin[w] /\ begin'[w] = 0 /\ size'[v] = size[w] /\ size'[w] = 0
        /\ \A x \in VectorNames : x # v /\ x # w => begin'[x] = begin[x] /\ size'[x] = size[x]
    BY <1>3 DEF VectorInv, VectorTypes
  <2>4. /\ heap'[begin[v]] = <<>> /\ dead'[begin[v]] = {} /\ owned' = owned \ {begin[v]}
        /\ \A b \in Places : b # begin[v] => heap'[b] = heap[b] /\ dead'[b] = dead[b]
    BY <1>3, <2>1 DEF VectorInv, VectorTypes, Vectors!Delete
  <2>5. heap'[0] = <<>> /\ dead'[0] = {} /\ 0 \in Places
    BY <2>2, <2>4, PlaceFacts
  <2>6. \A x \in VectorNames : x # v =>
          heap'[begin[x]] = heap[begin[x]] /\ dead'[begin[x]] = dead[begin[x]]
    <3> SUFFICES ASSUME NEW x \in VectorNames, x # v
                 PROVE  heap'[begin[x]] = heap[begin[x]] /\ dead'[begin[x]] = dead[begin[x]]
      OBVIOUS
    <3>1. begin[x] = begin[v] => begin[x] = 0
      BY <1>1 DEF VectorInv, Owners1to1, Absent
    <3>2. begin[x] \in Places
      BY DEF VectorInv, VectorTypes
    <3> QED
      BY <2>2, <2>4, <2>5, <3>1, <3>2
  <2>7. VectorTypes'
    <3>1. begin' \in [VectorNames -> Places] /\ size' \in [VectorNames -> Nat]
      BY <1>3, <2>1, <2>5 DEF VectorInv, VectorTypes
    <3>2. heap' \in [Places -> Seq(Nat)] /\ dead' \in [Places -> SUBSET Nat]
      BY <1>3, <2>1, <2>2 DEF VectorInv, VectorTypes, Vectors!Delete
    <3> QED
      BY <1>3, <2>4, <3>1, <3>2 DEF VectorInv, VectorTypes
  <2>8. Owners1to1'
    <3>0. v # w /\ alive' = alive /\ v \in alive /\ w \in alive
      BY <1>1, <1>3
    <3>1. \A x \in alive : begin[x] \in owned \cup {0} /\ (x # v => begin[x] # begin[v] \/ begin[x] = 0)
      BY <1>1 DEF VectorInv, Owners1to1
    <3>2. /\ begin'[v] = begin[w] /\ begin'[w] = 0
          /\ \A x \in alive : x # v /\ x # w => begin'[x] = begin[x]
      BY <2>3 DEF VectorInv, VectorTypes
    <3>3. owned' = owned \ {begin[v]}
      BY <2>4
    <3>4. \A x \in alive' : begin'[x] \in owned' \cup {0}
      BY <3>0, <3>1, <3>2, <3>3
    <3>5. \A x, y \in alive : begin[x] = begin[y] /\ begin[x] # 0 => x = y
      BY DEF VectorInv, Owners1to1
    <3>6. \A x, y \in alive' : begin'[x] = begin'[y] /\ begin'[x] # 0 => x = y
      BY <3>0, <3>2, <3>5
    <3>7. \A b \in owned' : \E x \in alive' : begin'[x] = b
      <4> SUFFICES ASSUME NEW b \in owned, b # begin[v]
                   PROVE  \E x \in alive' : begin'[x] = b
        BY <2>4
      <4>1. PICK x \in alive : begin[x] = b
        BY DEF VectorInv, Owners1to1
      <4>2. CASE x = w
        BY <1>1, <1>3, <2>3, <4>1, <4>2
      <4>3. CASE x # w
        BY <1>3, <2>3, <4>1, <4>3 DEF VectorInv, VectorTypes
      <4> QED
        BY <4>2, <4>3
    <3> QED
      BY <3>4, <3>6, <3>7 DEF Owners1to1
  <2>9. Absent'
    BY <1>1, <1>3, <2>3, <2>4 DEF VectorInv, VectorTypes, Absent
  <2>10. Fitting'
    <3>1. ASSUME NEW x \in VectorNames, x # w
          PROVE  size'[x] <= Len(heap'[begin'[x]]) /\ dead'[begin'[x]] \cap 1..size'[x] = {}
      <4>0. size[w] <= Len(heap[begin[w]]) /\ dead[begin[w]] \cap 1..size[w] = {} /\ w # v
        BY <1>3 DEF VectorInv, Fitting
      <4>1. CASE x = v
        BY <2>1, <2>3, <2>6, <4>0, <4>1
      <4>2. CASE x # v
        BY <2>3, <2>6, <3>1, <4>2 DEF VectorInv, Fitting
      <4> QED
        BY <4>1, <4>2
    <3>2. 0 <= Len(heap'[0]) /\ dead'[0] \cap 1..0 = {}
      BY <2>2, <2>5
    <3> QED
      BY <2>3, <3>1, <3>2 DEF Fitting
  <2>11. Vectors!Contents(v)' = Vectors!Contents(w)
    BY <1>3, <2>1, <2>3, <2>6 DEF Vectors!Contents
  <2>12. Vectors!Contents(w)' = <<>>
    BY <2>3, SubSeqEmpty DEF Vectors!Contents
  <2>13. \A x \in VectorNames : x # v /\ x # w => Vectors!Contents(x)' = Vectors!Contents(x)
    BY <2>3, <2>6, SameList
  <2>14. ListOf' = [ListOf EXCEPT ![w] = <<>>, ![v] = ListOf[w]]
    BY <1>3, <2>1, <2>11, <2>12, <2>13 DEF ListOf
  <2>15. alive' = alive \cup {v}
    BY <1>1, <1>3
  <2> QED
    BY <1>1, <2>7, <2>8, <2>9, <2>10, <2>14, <2>15 DEF VectorInv, ListOf, Vectors!Lists!Move
<1>4. CASE /\ v = w
           /\ begin' = [begin EXCEPT ![w] = 0, ![v] = begin[w]]
           /\ size' = [size EXCEPT ![w] = 0, ![v] = size[w]]
           /\ UNCHANGED <<heap, owned, dead, alive>>
  <2>1. begin' = begin /\ size' = size
    BY <1>4 DEF VectorInv, VectorTypes
  <2> QED
    BY <1>4, <2>1, VectorStays
<1> QED
  BY <1>2, <1>3, <1>4 DEF Vectors!MoveAssign, Vectors!null

LEMMA VectorDestroyInv ==
  ASSUME VectorInv, NEW v \in VectorNames, Vectors!Destroy(v)
  PROVE  VectorInv' /\ (Vectors!Lists!Destroy(v) \/ UNCHANGED <<alive, ListOf>>)
<1>1. v \in alive
  BY DEF Vectors!Destroy
<1>2. CASE Vectors!Break("dead")
  BY <1>2, BreakInv
<1>3. CASE alive' = alive \ {v} /\ Vectors!Put(v, 0, 0) /\ Vectors!Delete(v)
  <2>1. begin[v] \in Places /\ begin[v] \in owned \cup {0}
    BY <1>1 DEF VectorInv, VectorTypes, Owners1to1
  <2>2. heap[0] = <<>> /\ dead[0] = {} /\ Len(<<>>) = 0 /\ <<>> \in Seq(Nat)
    BY PlaceFacts, EmptySeq DEF VectorInv, VectorTypes, Absent
  <2>3. /\ begin'[v] = 0 /\ size'[v] = 0
        /\ \A x \in VectorNames : x # v => begin'[x] = begin[x] /\ size'[x] = size[x]
    BY <1>3 DEF VectorInv, VectorTypes, Vectors!Put
  <2>4. /\ heap'[begin[v]] = <<>> /\ dead'[begin[v]] = {} /\ owned' = owned \ {begin[v]}
        /\ \A b \in Places : b # begin[v] => heap'[b] = heap[b] /\ dead'[b] = dead[b]
    BY <1>3, <2>1 DEF VectorInv, VectorTypes, Vectors!Delete
  <2>5. heap'[0] = <<>> /\ dead'[0] = {} /\ 0 \in Places
    BY <2>2, <2>4, PlaceFacts
  <2>6. \A x \in VectorNames : x # v =>
          heap'[begin[x]] = heap[begin[x]] /\ dead'[begin[x]] = dead[begin[x]]
    <3> SUFFICES ASSUME NEW x \in VectorNames, x # v
                 PROVE  heap'[begin[x]] = heap[begin[x]] /\ dead'[begin[x]] = dead[begin[x]]
      OBVIOUS
    <3>1. begin[x] = begin[v] => begin[x] = 0
      BY <1>1 DEF VectorInv, Owners1to1, Absent
    <3>2. begin[x] \in Places
      BY DEF VectorInv, VectorTypes
    <3> QED
      BY <2>2, <2>4, <2>5, <3>1, <3>2
  <2>7. VectorTypes'
    <3>1. begin' \in [VectorNames -> Places] /\ size' \in [VectorNames -> Nat]
      BY <1>3, <2>5 DEF VectorInv, VectorTypes, Vectors!Put
    <3>2. heap' \in [Places -> Seq(Nat)] /\ dead' \in [Places -> SUBSET Nat]
      BY <1>3, <2>1, <2>2 DEF VectorInv, VectorTypes, Vectors!Delete
    <3> QED
      BY <1>3, <2>4, <3>1, <3>2 DEF VectorInv, VectorTypes
  <2>8. Owners1to1'
    <3>1. \A x \in alive' : begin'[x] \in owned' \cup {0}
      BY <1>1, <1>3, <2>3, <2>4 DEF VectorInv, VectorTypes, Owners1to1
    <3>2. \A x, y \in alive' : begin'[x] = begin'[y] /\ begin'[x] # 0 => x = y
      BY <1>3, <2>3 DEF VectorInv, VectorTypes, Owners1to1
    <3>3. \A b \in owned' : \E x \in alive' : begin'[x] = b
      <4> SUFFICES ASSUME NEW b \in owned, b # begin[v]
                   PROVE  \E x \in alive' : begin'[x] = b
        BY <2>4
      <4>1. PICK x \in alive : begin[x] = b
        BY DEF VectorInv, Owners1to1
      <4> QED
        BY <1>3, <2>3, <4>1 DEF VectorInv, VectorTypes
    <3> QED
      BY <3>1, <3>2, <3>3 DEF Owners1to1
  <2>9. Absent'
    BY <1>3, <2>3, <2>4 DEF VectorInv, VectorTypes, Absent
  <2>10. Fitting'
    <3>1. 0 <= Len(heap'[0]) /\ dead'[0] \cap 1..0 = {}
      BY <2>2, <2>5
    <3> QED
      BY <2>3, <2>6, <3>1 DEF VectorInv, Fitting
  <2>11. Vectors!Contents(v)' = <<>>
    BY <2>3, SubSeqEmpty DEF Vectors!Contents
  <2>12. \A x \in VectorNames : x # v => Vectors!Contents(x)' = Vectors!Contents(x)
    BY <2>3, <2>6, SameList
  <2>13. ListOf' = [ListOf EXCEPT ![v] = <<>>]
    BY <2>11, <2>12, ListsChange
  <2> QED
    BY <1>1, <1>3, <2>7, <2>8, <2>9, <2>10, <2>13 DEF VectorInv, ListOf, Vectors!Lists!Destroy
<1> QED
  BY <1>2, <1>3, ZenonT(30) DEF Vectors!Destroy, Vectors!null

LEMMA VectorDeadInv ==
  ASSUME VectorInv, NoneDead, Vectors!Next
  PROVE  NoneDead'
<1>1. destructors' = destructors
  BY DEF Vectors!Next, Vectors!Construct, Vectors!PopBack, Vectors!Destroy, Vectors!Push,
         Vectors!PushOwn, Vectors!Copy, Vectors!CopyAssign, Vectors!Move, Vectors!MoveAssign
<1>2. CASE destructors
  BY <1>1, <1>2 DEF NoneDead
<1>3. CASE ~ destructors
  <2>1. \/ UNCHANGED dead
        \/ \E b \in Places : dead' = [dead EXCEPT ![b] = {}]
        \/ \E b \in Places, n \in Int : dead' = [dead EXCEPT ![b] = @ \ {n}]
    <3> USE DEF Vectors!Break, Vectors!PutNew, Vectors!Delete, VectorInv, VectorTypes
    <3>0. \A v \in VectorNames : begin[v] \in Places /\ size[v] + 1 \in Int
      OBVIOUS
    <3>1. CASE \E v \in VectorNames : Vectors!Construct(v) \/ Vectors!PopBack(v)
      BY <1>3, <3>0, <3>1 DEF Vectors!Construct, Vectors!PopBack
    <3>2. CASE \E v \in VectorNames : Vectors!Destroy(v)
      BY <1>3, <3>0, <3>2 DEF Vectors!Destroy
    <3>3. ASSUME NEW v \in VectorNames, NEW x, NEW emplace, Vectors!Push(v, x, emplace)
          PROVE  \/ UNCHANGED dead
                 \/ \E b \in Places : dead' = [dead EXCEPT ![b] = {}]
                 \/ \E b \in Places, n \in Int : dead' = [dead EXCEPT ![b] = @ \ {n}]
      BY <1>3, <3>0, <3>3 DEF Vectors!Push
    <3>4. CASE \E v \in VectorNames, k \in 1..MaxSize, emplace \in BOOLEAN :
                 Vectors!PushOwn(v, k, emplace)
      BY <1>3, <3>3, <3>4 DEF Vectors!PushOwn
    <3>5. CASE \E v, w \in VectorNames : Vectors!Copy(v, w) \/ Vectors!Move(v, w)
      BY <1>3, <3>0, <3>5 DEF Vectors!Copy, Vectors!Move
    <3>6. CASE \E v, w \in VectorNames : Vectors!CopyAssign(v, w)
      BY <1>3, <3>0, <3>6 DEF Vectors!CopyAssign, Vectors!Reuse
    <3>7. CASE \E v, w \in VectorNames : Vectors!MoveAssign(v, w)
      BY <1>3, <3>0, <3>7 DEF Vectors!MoveAssign
    <3> QED
      BY <3>1, <3>2, <3>3, <3>4, <3>5, <3>6, <3>7 DEF Vectors!Next
  <2>2. \A b \in Places : dead[b] = {}
    BY <1>3 DEF NoneDead
  <2>3. ASSUME NEW b \in Places
        PROVE  dead'[b] = {}
    <3>1. dead \in [Places -> SUBSET Nat]
      BY DEF VectorInv, VectorTypes
    <3>2. CASE UNCHANGED dead
      BY <2>2, <3>2
    <3>3. CASE \E c \in Places : dead' = [dead EXCEPT ![c] = {}]
      BY <2>2, <3>1, <3>3
    <3>4. CASE \E c \in Places, n \in Int : dead' = [dead EXCEPT ![c] = @ \ {n}]
      <4>1. PICK c \in Places, n \in Int : dead' = [dead EXCEPT ![c] = @ \ {n}]
        BY <3>4
      <4>2. dead[c] \ {n} = {}
        BY <2>2
      <4> QED
        BY <2>2, <3>1, <4>1, <4>2
    <3> QED
      BY <2>1, <3>2, <3>3, <3>4
  <2> QED
    BY <2>3 DEF NoneDead
<1> QED
  BY <1>2, <1>3

\* A step keeps the invariant, and is a step of the lists or leaves them alone.
LEMMA VectorStepInv ==
  ASSUME VectorInv, NoneDead, [Vectors!Next]_Vectors!vars
  PROVE  VectorInv' /\ NoneDead' /\ ListNext
<1>1. CASE Vectors!Next
  <2>1. NoneDead'
    BY <1>1, VectorDeadInv
  <2>2. CASE \E v \in VectorNames : Vectors!Construct(v)
    BY <2>1, <2>2, VectorConstructInv DEF ListNext
  <2>3. CASE \E v \in VectorNames : Vectors!PopBack(v)
    BY <2>1, <2>3, VectorPopBackInv DEF ListNext
  <2>4. CASE \E v \in VectorNames : Vectors!Destroy(v)
    BY <2>1, <2>4, VectorDestroyInv DEF ListNext
  <2>5. CASE \E v \in VectorNames, x \in Elements, emplace \in BOOLEAN :
               Vectors!Push(v, x, emplace)
    BY <2>1, <2>5, VectorPushInv DEF ListNext
  <2>6. CASE \E v \in VectorNames, k \in 1..MaxSize, emplace \in BOOLEAN :
               Vectors!PushOwn(v, k, emplace)
    BY <2>1, <2>6, VectorPushOwnInv DEF ListNext
  <2>7. CASE \E v, w \in VectorNames : Vectors!Copy(v, w)
    BY <2>1, <2>7, VectorCopyInv DEF ListNext
  <2>8. CASE \E v, w \in VectorNames : Vectors!CopyAssign(v, w)
    BY <2>1, <2>8, VectorCopyAssignInv DEF ListNext
  <2>9. CASE \E v, w \in VectorNames : Vectors!Move(v, w)
    BY <2>1, <2>9, VectorMoveInv DEF ListNext
  <2>10. CASE \E v, w \in VectorNames : Vectors!MoveAssign(v, w)
    BY <2>1, <2>10, VectorMoveAssignInv DEF ListNext
  <2> QED
    BY <1>1, <2>2, <2>3, <2>4, <2>5, <2>6, <2>7, <2>8, <2>9, <2>10 DEF Vectors!Next
<1>2. CASE UNCHANGED Vectors!vars
  BY <1>2, VectorStays DEF Vectors!vars, NoneDead, ListNext
<1> QED
  BY <1>1, <1>2

LEMMA VectorStart == Vectors!Init => VectorInv /\ NoneDead /\ Vectors!Lists!Init
<1> SUFFICES ASSUME Vectors!Init
             PROVE  VectorInv /\ NoneDead /\ Vectors!Lists!Init
  OBVIOUS
<1>1. /\ alive = {} /\ owned = {}
      /\ begin = [v \in VectorNames |-> 0] /\ size = [v \in VectorNames |-> 0]
      /\ heap = [b \in Places |-> <<>>] /\ dead = [b \in Places |-> {}]
  BY DEF Vectors!Init, Vectors!null, Places
<1>2. <<>> \in Seq(Nat) /\ Len(<<>>) = 0 /\ 0 \in Places
  BY EmptySeq, PlaceFacts
<1>3. VectorTypes /\ Owners1to1 /\ Absent
  BY <1>1, <1>2 DEF VectorTypes, Owners1to1, Absent
<1>4. Fitting
  <2>1. \A v \in VectorNames : heap[begin[v]] = <<>> /\ dead[begin[v]] = {} /\ size[v] = 0
    BY <1>1, <1>2
  <2> QED
    BY <1>2, <2>1 DEF Fitting
<1>5. NoneDead
  BY <1>1 DEF NoneDead
<1>6. \A v \in VectorNames : Vectors!Contents(v) = <<>>
  BY <1>1, SubSeqEmpty DEF Vectors!Contents
<1>7. ListOf = [v \in VectorNames |-> <<>>]
  BY <1>6 DEF ListOf
<1> QED
  BY <1>1, <1>3, <1>4, <1>5, <1>7 DEF VectorInv, ListOf, Vectors!Lists!Init

LEMMA VectorImplied == VectorInv => Vectors!BuffersOwned /\ Vectors!ElementsAlive
<1> SUFFICES ASSUME VectorInv
             PROVE  Vectors!BuffersOwned /\ Vectors!ElementsAlive
  OBVIOUS
<1>1. Vectors!ElementsAlive
  BY DEF VectorInv, VectorTypes, Fitting, Vectors!ElementsAlive
<1>2. 0 \notin owned
  BY PlaceFacts DEF VectorInv, VectorTypes
<1>3. Vectors!BuffersOwned
  <2>1. owned = UNION {{begin[v]} \ {0} : v \in alive}
    BY <1>2 DEF VectorInv, Owners1to1
  <2>2. \A v, w \in alive : v # w => ({begin[v]} \ {0}) \cap ({begin[w]} \ {0}) = {}
    BY DEF VectorInv, Owners1to1
  <2> QED
    BY <2>1, <2>2 DEF Vectors!BuffersOwned, Vectors!null
<1> QED
  BY <1>1, <1>3

\* vector: through growth, copies, moves and assignments, also of a vector to
\* itself, each vector is a list of its own until the program uses an element
\* that was destroyed or a place that is not there; every buffer has one owner,
\* and no element of a list was destroyed.
THEOREM VectorCorrect == Spec => VectorListSpec
<1>1. Init => VectorInv /\ NoneDead /\ Vectors!Lists!Init
  BY VectorStart DEF Init
<1>2. VectorInv /\ NoneDead /\ [Next]_vars
        => VectorInv' /\ NoneDead' /\ [Vectors!Lists!Next]_Vectors!Lists!vars
  <2>1. ListNext => [Vectors!Lists!Next]_Vectors!Lists!vars
    BY DEF ListNext, ListOf, Vectors!Lists!Next, Vectors!Lists!vars
  <2> QED
    BY <2>1, VectorSteps, VectorStepInv
<1>3. VectorInv => (class = "vector" => Vectors!BuffersOwned /\ Vectors!ElementsAlive)
  BY VectorImplied
<1> QED
  BY <1>1, <1>2, <1>3, PTL DEF Spec, VectorListSpec, Vectors!ListSpec, Vectors!Lists!Spec

-----------------------------------------------------------------------------
(* serialization *)

LEMMA ArchiveSteps == [Next]_vars =>
  class' = class /\ (class = "archive" => [Archive!Next]_Archive!vars)
  BY DEF Next, vars, PoolStep, VectorStep, OwnerStep, ArchiveStep, bookVars, Archive!vars

\* The types of a book, also while it is being read.
StringType == Seq(Archive!Characters)
PhoneType == [number : StringType, type : Nat]
PersonType == [name : StringType, id : Nat, email : StringType, phones : Seq(PhoneType)]
BookType == Seq(PersonType)

Tuples == Int \X Int \X Int \X Int \X Int

\* The places of a book, by their numbers.
IsPlace(b, l) ==
  \/ l[1] = 0 /\ l[2] = 0 /\ l[3] = 0 /\ l[4] = 0 /\ l[5] = 0
  \/ /\ l[1] \in 1..Len(b)
     /\ \/ l[2] = 1 /\ l[3] = 0 /\ l[4] = 0 /\ l[5] \in 0..Len(b[l[1]].name)
        \/ l[2] = 2 /\ l[3] = 0 /\ l[4] = 0 /\ l[5] = 0
        \/ l[2] = 3 /\ l[3] = 0 /\ l[4] = 0 /\ l[5] \in 0..Len(b[l[1]].email)
        \/ l[2] = 4 /\ l[3] = 0 /\ l[4] = 0 /\ l[5] = 0
        \/ /\ l[2] = 4 /\ l[3] \in 1..Len(b[l[1]].phones) /\ l[4] = 1
           /\ l[5] \in 0..Len(b[l[1]].phones[l[3]].number)
        \/ l[2] = 4 /\ l[3] \in 1..Len(b[l[1]].phones) /\ l[4] = 2 /\ l[5] = 0

LEMMA TupleIs ==
  /\ \A l \in Tuples : l = <<l[1], l[2], l[3], l[4], l[5]>>
  /\ \A l \in Tuples : l[1] \in Int /\ l[2] \in Int /\ l[3] \in Int /\ l[4] \in Int /\ l[5] \in Int
  /\ \A a, c, d, e, f \in Int :
       /\ <<a, c, d, e, f>> \in Tuples
       /\ <<a, c, d, e, f>>[1] = a /\ <<a, c, d, e, f>>[2] = c /\ <<a, c, d, e, f>>[3] = d
       /\ <<a, c, d, e, f>>[4] = e /\ <<a, c, d, e, f>>[5] = f
  BY DEF Tuples

LEMMA Lengths ==
  ASSUME NEW b \in BookType
  PROVE  /\ Len(b) \in Nat
         /\ \A x \in 1..Len(b) :
              /\ b[x] \in PersonType
              /\ Len(b[x].name) \in Nat /\ Len(b[x].email) \in Nat /\ Len(b[x].phones) \in Nat
              /\ \A y \in 1..Len(b[x].phones) :
                   b[x].phones[y] \in PhoneType /\ Len(b[x].phones[y].number) \in Nat
<1>1. Len(b) \in Nat /\ \A x \in 1..Len(b) : b[x] \in PersonType
  BY LenProperties, ElementOfSeq DEF BookType
<1>2. ASSUME NEW x \in 1..Len(b)
      PROVE  /\ Len(b[x].name) \in Nat /\ Len(b[x].email) \in Nat /\ Len(b[x].phones) \in Nat
             /\ b[x].phones \in Seq(PhoneType)
  <2>1. b[x].name \in StringType /\ b[x].email \in StringType /\ b[x].phones \in Seq(PhoneType)
    BY <1>1 DEF PersonType
  <2> QED
    BY <2>1, LenProperties DEF StringType
<1>3. ASSUME NEW x \in 1..Len(b), NEW y \in 1..Len(b[x].phones)
      PROVE  b[x].phones[y] \in PhoneType /\ Len(b[x].phones[y].number) \in Nat
  <2>1. b[x].phones[y] \in PhoneType
    BY <1>2, ElementOfSeq
  <2>2. b[x].phones[y].number \in StringType
    BY <2>1 DEF PhoneType
  <2> QED
    BY <2>1, <2>2, LenProperties DEF StringType
<1> QED
  BY <1>1, <1>2, <1>3

LEMMA PlaceIff ==
  ASSUME NEW b \in BookType, NEW l
  PROVE  l \in Archive!Places(b) <=> l \in Tuples /\ IsPlace(b, l)
<1>1. ASSUME NEW x \in 1..Len(b)
      PROVE  l \in Archive!PersonPlaces(x, b[x]) <=> l \in Tuples /\ l[1] = x /\ IsPlace(b, l)
  <2>0. x \in Int /\ x # 0 /\ Len(b) \in Nat
    BY Lengths
  <2>1. ASSUME NEW y \in 1..Len(b[x].phones)
        PROVE  l \in Archive!PhonePlaces(x, y, b[x].phones[y])
                 <=> l \in Tuples /\ l[1] = x /\ l[2] = 4 /\ l[3] = y /\ IsPlace(b, l)
    <3>1. Len(b[x].phones[y].number) \in Nat /\ y \in Int /\ y # 0 /\ Len(b[x].phones) \in Nat
      BY Lengths
    <3>2. ASSUME l \in Archive!PhonePlaces(x, y, b[x].phones[y])
          PROVE  l \in Tuples /\ l[1] = x /\ l[2] = 4 /\ l[3] = y /\ IsPlace(b, l)
      <4>1. CASE l = <<x, 4, y, 2, 0>>
        BY <2>0, <3>1, <4>1 DEF IsPlace, Tuples
      <4>2. CASE \E k \in 0..Len(b[x].phones[y].number) : l = <<x, 4, y, 1, k>>
        BY <2>0, <3>1, <4>2 DEF IsPlace, Tuples
      <4> QED
        BY <3>2, <4>1, <4>2 DEF Archive!PhonePlaces
    <3>3. ASSUME l \in Tuples, l[1] = x, l[2] = 4, l[3] = y, IsPlace(b, l)
          PROVE  l \in Archive!PhonePlaces(x, y, b[x].phones[y])
      <4>1. l = <<x, 4, y, l[4], l[5]>>
        BY <3>3, TupleIs
      <4>2. \/ l[4] = 1 /\ l[5] \in 0..Len(b[x].phones[y].number)
            \/ l[4] = 2 /\ l[5] = 0
        BY <2>0, <3>1, <3>3 DEF IsPlace
      <4> QED
        BY <4>1, <4>2 DEF Archive!PhonePlaces
    <3> QED
      BY <3>2, <3>3
  <2>2. ASSUME l \in Archive!PersonPlaces(x, b[x])
        PROVE  l \in Tuples /\ l[1] = x /\ IsPlace(b, l)
    <3>1. CASE \E y \in 1..Len(b[x].phones) : l \in Archive!PhonePlaces(x, y, b[x].phones[y])
      BY <2>1, <3>1
    <3>2. CASE l \in {<<x, 1, 0, 0, k>> : k \in 0..Len(b[x].name)}
      BY <2>0, <3>2, Lengths DEF IsPlace, Tuples
    <3>3. CASE l \in {<<x, 3, 0, 0, k>> : k \in 0..Len(b[x].email)}
      BY <2>0, <3>3, Lengths DEF IsPlace, Tuples
    <3>4. CASE l = <<x, 2, 0, 0, 0>> \/ l = <<x, 4, 0, 0, 0>>
      BY <2>0, <3>4 DEF IsPlace, Tuples
    <3> QED
      BY <2>2, <3>1, <3>2, <3>3, <3>4 DEF Archive!PersonPlaces
  <2>3. ASSUME l \in Tuples, l[1] = x, IsPlace(b, l)
        PROVE  l \in Archive!PersonPlaces(x, b[x])
    <3>1. l = <<x, l[2], l[3], l[4], l[5]>> /\ l[2] \in Int /\ l[3] \in Int /\ l[4] \in Int /\ l[5] \in Int
      BY <2>3, TupleIs
    <3>2. \/ l[2] = 1 /\ l[3] = 0 /\ l[4] = 0 /\ l[5] \in 0..Len(b[x].name)
          \/ l[2] = 2 /\ l[3] = 0 /\ l[4] = 0 /\ l[5] = 0
          \/ l[2] = 3 /\ l[3] = 0 /\ l[4] = 0 /\ l[5] \in 0..Len(b[x].email)
          \/ l[2] = 4 /\ l[3] = 0 /\ l[4] = 0 /\ l[5] = 0
          \/ l[2] = 4 /\ l[3] \in 1..Len(b[x].phones)
      BY <2>0, <2>3 DEF IsPlace
    <3>3. CASE l[2] = 4 /\ l[3] \in 1..Len(b[x].phones)
      BY <2>1, <2>3, <3>3 DEF Archive!PersonPlaces
    <3>4. CASE ~ (l[2] = 4 /\ l[3] \in 1..Len(b[x].phones))
      BY <3>1, <3>2, <3>4 DEF Archive!PersonPlaces
    <3> QED
      BY <3>3, <3>4
  <2> QED
    BY <2>2, <2>3
<1>2. l = Archive!Start <=> l \in Tuples /\ l[1] = 0 /\ IsPlace(b, l)
  <2>1. l = Archive!Start => l \in Tuples /\ l[1] = 0 /\ IsPlace(b, l)
    BY DEF Archive!Start, IsPlace, Tuples
  <2>2. l \in Tuples /\ l[1] = 0 /\ IsPlace(b, l) => l = Archive!Start
    <3> SUFFICES ASSUME l \in Tuples, l[1] = 0, IsPlace(b, l)
                 PROVE  l = Archive!Start
      OBVIOUS
    <3>1. l[2] = 0 /\ l[3] = 0 /\ l[4] = 0 /\ l[5] = 0
      BY Lengths DEF IsPlace
    <3> QED
      BY <3>1, TupleIs DEF Archive!Start
  <2> QED
    BY <2>1, <2>2
<1>3. l \in Archive!Places(b)
        <=> l = Archive!Start \/ \E x \in 1..Len(b) : l \in Archive!PersonPlaces(x, b[x])
  BY DEF Archive!Places
<1>4. IsPlace(b, l) => l[1] = 0 \/ l[1] \in 1..Len(b)
  BY DEF IsPlace
<1> QED
  BY <1>1, <1>2, <1>3, <1>4

-----------------------------------------------------------------------------
\* The order of the traversal.
Before(l, m) ==
  \/ l[1] < m[1]
  \/ l[1] = m[1] /\ l[2] < m[2]
  \/ l[1] = m[1] /\ l[2] = m[2] /\ l[3] < m[3]
  \/ l[1] = m[1] /\ l[2] = m[2] /\ l[3] = m[3] /\ l[4] < m[4]
  \/ l[1] = m[1] /\ l[2] = m[2] /\ l[3] = m[3] /\ l[4] = m[4] /\ l[5] < m[5]

Past(b, l) == {m \in Archive!Places(b) : Before(m, l)}
End(b) == Archive!Person(Len(b) + 1)
AllPlaces(b) == Archive!Places(b) \cup {End(b)}

LEMMA PlaceTuples ==
  ASSUME NEW b \in BookType, NEW l \in AllPlaces(b)
  PROVE  l \in Tuples
<1>1. End(b) \in Tuples
  BY Lengths DEF End, Archive!Person, Tuples
<1> QED
  BY <1>1, PlaceIff DEF AllPlaces

LEMMA Trichotomy ==
  ASSUME NEW l \in Tuples, NEW m \in Tuples
  PROVE  /\ ~ Before(l, l)
         /\ Before(l, m) \/ Before(m, l) \/ l = m
         /\ ~ (Before(l, m) /\ Before(m, l))
<1>1. l[1] \in Int /\ l[2] \in Int /\ l[3] \in Int /\ l[4] \in Int /\ l[5] \in Int
  BY TupleIs
<1>2. m[1] \in Int /\ m[2] \in Int /\ m[3] \in Int /\ m[4] \in Int /\ m[5] \in Int
  BY TupleIs
<1>3. l[1] = m[1] /\ l[2] = m[2] /\ l[3] = m[3] /\ l[4] = m[4] /\ l[5] = m[5] => l = m
  BY TupleIs
<1> QED
  BY <1>1, <1>2, <1>3 DEF Before

\* Everything comes before the end.
LEMMA EndFacts ==
  ASSUME NEW b \in BookType
  PROVE  /\ Past(b, End(b)) = Archive!Places(b)
         /\ \A l \in Archive!Places(b) : Before(l, End(b)) /\ ~ Before(End(b), l)
         /\ \A l \in Archive!Places(b) : ~ Archive!AtEnd(b, l)
         /\ Archive!AtEnd(b, End(b))
         /\ End(b) \notin Archive!Places(b)
<1>1. End(b)[1] = Len(b) + 1 /\ Len(b) \in Nat
  BY Lengths DEF End, Archive!Person
<1>2. ASSUME NEW l \in Archive!Places(b)
      PROVE  l[1] \in 0..Len(b)
  BY <1>1, PlaceIff DEF IsPlace
<1>3. \A l \in Archive!Places(b) : Before(l, End(b)) /\ ~ Before(End(b), l)
  BY <1>1, <1>2 DEF Before
<1> QED
  BY <1>1, <1>2, <1>3 DEF Past, Archive!AtEnd

LEMMA StartFacts ==
  ASSUME NEW b \in BookType
  PROVE  /\ Archive!Start \in Archive!Places(b)
         /\ Past(b, Archive!Start) = {}
         /\ \A l \in AllPlaces(b) : l = Archive!Start \/ Before(Archive!Start, l)
<1>1. Archive!Start \in Archive!Places(b)
  BY DEF Archive!Places
<1>2. Archive!Start[1] = 0 /\ Archive!Start[2] = 0 /\ Archive!Start[3] = 0 /\ Archive!Start[4] = 0
      /\ Archive!Start[5] = 0 /\ Archive!Start \in Tuples
  BY DEF Archive!Start, Tuples
<1>3. ASSUME NEW l \in Archive!Places(b)
      PROVE  ~ Before(l, Archive!Start)
  <2>1. IsPlace(b, l) /\ Len(b) \in Nat
    BY PlaceIff, Lengths
  <2> QED
    BY <1>2, <2>1, Lengths DEF Before, IsPlace
<1>4. ASSUME NEW l \in AllPlaces(b)
      PROVE  l = Archive!Start \/ Before(Archive!Start, l)
  <2>1. CASE l = End(b)
    BY <1>1, <2>1, EndFacts
  <2>2. CASE l \in Archive!Places(b)
    <3>1. l \in Tuples
      BY PlaceTuples
    <3> QED
      BY <1>2, <1>3, <2>2, <3>1, Trichotomy
  <2> QED
    BY <2>1, <2>2 DEF AllPlaces
<1> QED
  BY <1>1, <1>3, <1>4 DEF Past

\* f is the place after l.
IsNext(b, l, f) ==
  /\ f \in Tuples
  /\ IsPlace(b, f) \/ f = End(b)
  /\ \A m \in Tuples : IsPlace(b, m) => (Before(m, f) <=> Before(m, l) \/ m = l)

LEMMA NextIs ==
  ASSUME NEW b \in BookType, NEW l \in Tuples, NEW f \in Tuples,
         IsPlace(b, f) \/ f = End(b),
         \A m \in Tuples : IsPlace(b, m) =>
           (Before(m, f) <=>
              \/ Before(m, l)
              \/ m[1] = l[1] /\ m[2] = l[2] /\ m[3] = l[3] /\ m[4] = l[4] /\ m[5] = l[5])
  PROVE  IsNext(b, l, f)
<1>1. ASSUME NEW m \in Tuples
      PROVE  m[1] = l[1] /\ m[2] = l[2] /\ m[3] = l[3] /\ m[4] = l[4] /\ m[5] = l[5] <=> m = l
  <2>1. m = <<m[1], m[2], m[3], m[4], m[5]>> /\ l = <<l[1], l[2], l[3], l[4], l[5]>>
    BY TupleIs
  <2> QED
    BY <2>1
<1> QED
  BY <1>1 DEF IsNext

\* What a place says of its numbers.
InPerson(b, x, m) ==
  /\ m[2] \in 1..4 /\ m[3] >= 0 /\ m[4] >= 0 /\ m[5] >= 0
  /\ m[2] = 1 => m[3] = 0 /\ m[4] = 0 /\ m[5] <= Len(b[x].name)
  /\ m[2] = 2 => m[3] = 0 /\ m[4] = 0 /\ m[5] = 0
  /\ m[2] = 3 => m[3] = 0 /\ m[4] = 0 /\ m[5] <= Len(b[x].email)
  /\ m[2] = 4 => m[3] <= Len(b[x].phones) /\ m[4] <= 2
  /\ m[2] = 4 /\ m[4] = 0 => m[3] = 0 /\ m[5] = 0
  /\ m[2] = 4 /\ m[4] = 1 => m[3] # 0 /\ m[5] <= Len(b[x].phones[m[3]].number)
  /\ m[2] = 4 /\ m[4] = 2 => m[3] # 0 /\ m[5] = 0

LEMMA PlaceNumbers ==
  ASSUME NEW b \in BookType, NEW m \in Tuples, IsPlace(b, m)
  PROVE  /\ m[1] \in Int /\ m[2] \in Int /\ m[3] \in Int /\ m[4] \in Int /\ m[5] \in Int
         /\ m[1] >= 0
         /\ m[1] = 0 => m[2] = 0 /\ m[3] = 0 /\ m[4] = 0 /\ m[5] = 0
         /\ m[1] # 0 => m[1] \in 1..Len(b) /\ InPerson(b, m[1], m)
<1>1. m[1] \in Int /\ m[2] \in Int /\ m[3] \in Int /\ m[4] \in Int /\ m[5] \in Int
  BY TupleIs
<1>2. Len(b) \in Nat
  BY Lengths
<1>3. m[1] # 0 => m[1] \in 1..Len(b)
  BY <1>1, <1>2 DEF IsPlace
<1>4. m[1] # 0 => /\ Len(b[m[1]].name) \in Nat /\ Len(b[m[1]].email) \in Nat
                  /\ Len(b[m[1]].phones) \in Nat
  BY <1>3, Lengths
<1>5. m[1] # 0 /\ m[3] \in 1..Len(b[m[1]].phones) => Len(b[m[1]].phones[m[3]].number) \in Nat
  BY <1>3, Lengths
<1>6. m[1] >= 0
  BY <1>1, <1>2 DEF IsPlace
<1>7. m[1] = 0 => m[2] = 0 /\ m[3] = 0 /\ m[4] = 0 /\ m[5] = 0
  BY <1>1, <1>2 DEF IsPlace
<1>8. ASSUME m[1] # 0
      PROVE  InPerson(b, m[1], m)
  <2>1. CASE m[2] # 4
    BY <1>1, <1>4, <1>8, <2>1 DEF IsPlace, InPerson
  <2>2. CASE m[2] = 4 /\ m[3] = 0
    BY <1>1, <1>4, <1>8, <2>2 DEF IsPlace, InPerson
  <2>3. CASE m[2] = 4 /\ m[3] # 0
    <3>1. /\ m[3] \in 1..Len(b[m[1]].phones)
          /\ \/ m[4] = 1 /\ m[5] \in 0..Len(b[m[1]].phones[m[3]].number)
             \/ m[4] = 2 /\ m[5] = 0
      BY <1>1, <1>8, <2>3 DEF IsPlace
    <3>2. Len(b[m[1]].phones[m[3]].number) \in Nat
      BY <1>5, <1>8, <3>1
    <3>3. 0 <= m[3] /\ m[3] <= Len(b[m[1]].phones)
      BY <1>4, <1>8, <3>1
    <3>4. m[4] = 1 => 0 <= m[5] /\ m[5] <= Len(b[m[1]].phones[m[3]].number)
      BY <3>1, <3>2
    <3> QED
      BY <2>3, <3>1, <3>3, <3>4 DEF InPerson
  <2> QED
    BY <2>1, <2>2, <2>3
<1> QED
  BY <1>1, <1>3, <1>6, <1>7, <1>8

\* The cases of Follow.
LEMMA FollowIs ==
  ASSUME NEW b \in BookType, NEW l \in Archive!Places(b)
  PROVE  IsNext(b, l, Archive!Follow(b, l))
<1>1. l \in Tuples /\ IsPlace(b, l)
  BY PlaceIff
<1>2. PICK f : f = Archive!Follow(b, l)
  OBVIOUS
<1>3. Len(b) \in Nat
  BY Lengths
<1>4. /\ l[1] \in Int /\ l[2] \in Int /\ l[3] \in Int /\ l[4] \in Int /\ l[5] \in Int
      /\ l[1] >= 0
      /\ l[1] = 0 => l[2] = 0 /\ l[3] = 0 /\ l[4] = 0 /\ l[5] = 0
      /\ l[1] # 0 => l[1] \in 1..Len(b) /\ InPerson(b, l[1], l)
  BY <1>1, PlaceNumbers
<1>5. l[1] = 0 <=> l[2] = 0
  BY <1>4 DEF InPerson
<1>9. l[1] \in Int /\ l[2] \in Int /\ l[3] \in Int /\ l[4] \in Int /\ l[5] \in Int
  BY <1>4
<1>6. l = Archive!Start <=> l[2] = 0
  BY <1>1, <1>4, <1>5, TupleIs DEF Archive!Start
<1>7. l[1] # 0 => /\ Len(b[l[1]].name) \in Nat /\ Len(b[l[1]].email) \in Nat
                  /\ Len(b[l[1]].phones) \in Nat
  BY <1>4, Lengths
<1>8. ASSUME NEW m \in Tuples, IsPlace(b, m)
      PROVE  /\ m[1] \in Int /\ m[2] \in Int /\ m[3] \in Int /\ m[4] \in Int /\ m[5] \in Int
             /\ m[1] >= 0
             /\ m[1] = 0 => m[2] = 0 /\ m[3] = 0 /\ m[4] = 0 /\ m[5] = 0
             /\ m[1] # 0 => m[2] \in 1..4 /\ m[3] >= 0 /\ m[4] >= 0 /\ m[5] >= 0
             /\ m[1] = l[1] /\ m[1] # 0 => InPerson(b, l[1], m)
  <2>1. m[1] # 0 => InPerson(b, m[1], m)
    BY <1>8, PlaceNumbers
  <2>2. /\ m[1] \in Int /\ m[2] \in Int /\ m[3] \in Int /\ m[4] \in Int /\ m[5] \in Int
        /\ m[1] >= 0
        /\ m[1] = 0 => m[2] = 0 /\ m[3] = 0 /\ m[4] = 0 /\ m[5] = 0
    BY <1>8, PlaceNumbers
  <2> QED
    BY <2>1, <2>2 DEF InPerson
<1>10. CASE l = Archive!Start
  <2>1. f = <<1, 1, 0, 0, 0>>
    BY <1>2, <1>4, <1>5, <1>6, <1>10 DEF InPerson, Archive!Follow, Archive!InString, Archive!StringAt, Archive!Phone, Archive!Person
  <2>2. f \in Tuples /\ f[1] = 1 /\ f[2] = 1 /\ f[3] = 0 /\ f[4] = 0 /\ f[5] = 0
    BY <1>4, <2>1 DEF Tuples
  <2>3. IsPlace(b, f) \/ f = End(b)
    <3>1. CASE 1 = Len(b) + 1
      BY <2>1, <3>1 DEF End, Archive!Person
    <3>2. CASE 1 # Len(b) + 1
      <4>1. f[1] \in 1..Len(b)
        BY <1>3, <1>4, <1>5, <1>6, <1>10, <2>2, <3>2
      <4>2. Len(b[f[1]].name) \in Nat
        BY <4>1, Lengths
      <4> QED
        BY <2>2, <4>1, <4>2 DEF IsPlace
    <3> QED
      BY <3>1, <3>2
  <2>4. ASSUME NEW m \in Tuples, IsPlace(b, m)
        PROVE  Before(m, f) <=>
                 \/ Before(m, l)
                 \/ m[1] = l[1] /\ m[2] = l[2] /\ m[3] = l[3] /\ m[4] = l[4] /\ m[5] = l[5]
    <3>0. /\ m[1] \in Int /\ m[2] \in Int /\ m[3] \in Int /\ m[4] \in Int /\ m[5] \in Int
          /\ m[1] >= 0
          /\ m[1] = 0 => m[2] = 0 /\ m[3] = 0 /\ m[4] = 0 /\ m[5] = 0
          /\ m[1] # 0 => m[2] \in 1..4 /\ m[3] >= 0 /\ m[4] >= 0 /\ m[5] >= 0
      BY <1>8, <2>4
    <3>1. CASE m[1] = l[1]
      BY <1>4, <1>5, <1>6, <3>0, <1>10, <2>2, <3>1 DEF Before
    <3>2. CASE m[1] # l[1]
      BY <1>5, <1>6, <1>9, <1>10, <2>2, <3>0, <3>2 DEF Before
    <3> QED
      BY <3>1, <3>2
  <2> QED
    BY <1>1, <1>2, <2>2, <2>3, <2>4, NextIs
<1>11. CASE l[2] = 1 /\ l[5] < Len(b[l[1]].name)
  <2>1. f = <<l[1], 1, 0, 0, l[5] + 1>>
    BY <1>2, <1>4, <1>5, <1>6, <1>11 DEF InPerson, Archive!Follow, Archive!InString, Archive!StringAt, Archive!Phone, Archive!Person
  <2>2. f \in Tuples /\ f[1] = l[1] /\ f[2] = 1 /\ f[3] = 0 /\ f[4] = 0 /\ f[5] = l[5] + 1
    BY <1>4, <2>1 DEF Tuples
  <2>3. IsPlace(b, f)
    <3>1. l[1] \in 1..Len(b) /\ l[5] \in Int /\ l[5] >= 0
      BY <1>4, <1>5, <1>11 DEF InPerson
    <3>2. Len(b[l[1]].name) \in Nat
      BY <3>1, Lengths
    <3>3. l[5] + 1 \in 0..Len(b[l[1]].name)
      <4>1. PICK n : n = Len(b[l[1]].name)
        OBVIOUS
      <4>2. n \in Nat /\ l[5] < n
        BY <1>11, <3>2, <4>1
      <4>3. l[5] + 1 \in 0..n
        BY <3>1, <4>2
      <4> QED
        BY <4>1, <4>3
    <3> QED
      BY <2>2, <3>1, <3>3 DEF IsPlace
  <2>4. ASSUME NEW m \in Tuples, IsPlace(b, m)
        PROVE  Before(m, f) <=>
                 \/ Before(m, l)
                 \/ m[1] = l[1] /\ m[2] = l[2] /\ m[3] = l[3] /\ m[4] = l[4] /\ m[5] = l[5]
    <3>0. /\ m[1] \in Int /\ m[2] \in Int /\ m[3] \in Int /\ m[4] \in Int /\ m[5] \in Int
          /\ m[1] >= 0
          /\ m[1] = 0 => m[2] = 0 /\ m[3] = 0 /\ m[4] = 0 /\ m[5] = 0
          /\ m[1] # 0 => m[2] \in 1..4 /\ m[3] >= 0 /\ m[4] >= 0 /\ m[5] >= 0
      BY <1>8, <2>4
    <3>1. CASE m[1] = l[1]
      <4>1. l[1] # 0 /\ InPerson(b, l[1], l) /\ InPerson(b, l[1], m)
        BY <1>4, <1>5, <1>8, <1>11, <2>4, <3>1
      <4>2. l[2] = 1 /\ l[2] \in Int
        BY <1>9, <1>11
      <4>3. l[3] = 0 /\ l[4] = 0
        BY <1>9, <4>1, <4>2 DEF InPerson
      <4>4. m[3] >= 0 /\ m[4] >= 0 /\ m[5] >= 0 /\ m[2] \in 1..4
        BY <3>0, <4>1 DEF InPerson
      <4>7. m[2] = 1 => m[3] = 0 /\ m[4] = 0
        BY <4>1 DEF InPerson
      <4> QED
        BY <1>9, <2>2, <3>0, <3>1, <4>2, <4>3, <4>4, <4>7 DEF Before
    <3>2. CASE m[1] # l[1]
      BY <1>5, <1>6, <1>9, <1>11, <2>2, <3>0, <3>2 DEF Before
    <3> QED
      BY <3>1, <3>2
  <2> QED
    BY <1>1, <1>2, <2>2, <2>3, <2>4, NextIs
<1>12. CASE l[2] = 1 /\ ~ (l[5] < Len(b[l[1]].name))
  <2>1. f = <<l[1], 2, 0, 0, 0>>
    BY <1>2, <1>4, <1>5, <1>6, <1>12 DEF InPerson, Archive!Follow, Archive!InString, Archive!StringAt, Archive!Phone, Archive!Person
  <2>2. f \in Tuples /\ f[1] = l[1] /\ f[2] = 2 /\ f[3] = 0 /\ f[4] = 0 /\ f[5] = 0
    BY <1>4, <2>1 DEF Tuples
  <2>3. IsPlace(b, f)
    BY <1>4, <1>5, <1>7, <1>12, <2>2 DEF IsPlace, InPerson
  <2>4. ASSUME NEW m \in Tuples, IsPlace(b, m)
        PROVE  Before(m, f) <=>
                 \/ Before(m, l)
                 \/ m[1] = l[1] /\ m[2] = l[2] /\ m[3] = l[3] /\ m[4] = l[4] /\ m[5] = l[5]
    <3>0. /\ m[1] \in Int /\ m[2] \in Int /\ m[3] \in Int /\ m[4] \in Int /\ m[5] \in Int
          /\ m[1] >= 0
          /\ m[1] = 0 => m[2] = 0 /\ m[3] = 0 /\ m[4] = 0 /\ m[5] = 0
          /\ m[1] # 0 => m[2] \in 1..4 /\ m[3] >= 0 /\ m[4] >= 0 /\ m[5] >= 0
      BY <1>8, <2>4
    <3>1. CASE m[1] = l[1]
      <4>1. l[1] # 0 /\ InPerson(b, l[1], l) /\ InPerson(b, l[1], m)
        BY <1>4, <1>5, <1>8, <1>12, <2>4, <3>1
      <4>2. l[2] = 1 /\ l[2] \in Int
        BY <1>9, <1>12
      <4>3. l[3] = 0 /\ l[4] = 0
        BY <1>9, <4>1, <4>2 DEF InPerson
      <4>4. m[3] >= 0 /\ m[4] >= 0 /\ m[5] >= 0 /\ m[2] \in 1..4
        BY <3>0, <4>1 DEF InPerson
      <4>5. l[5] = Len(b[l[1]].name)
        <5>1. l[5] <= Len(b[l[1]].name)
          BY <4>1, <4>2 DEF InPerson
        <5>2. Len(b[l[1]].name) \in Nat
          BY <1>7, <4>1
        <5>3. PICK n : n = Len(b[l[1]].name)
          OBVIOUS
        <5>4. n \in Nat /\ l[5] <= n /\ ~ (l[5] < n)
          BY <1>12, <5>1, <5>2, <5>3
        <5>5. l[5] = n
          BY <1>9, <5>4
        <5> QED
          BY <5>3, <5>5
      <4>6. m[2] = 1 => m[3] = 0 /\ m[4] = 0 /\ m[5] <= Len(b[l[1]].name)
        BY <4>1 DEF InPerson
      <4>7. m[2] = 1 => m[3] = 0 /\ m[4] = 0 /\ m[5] <= l[5]
        BY <4>5, <4>6
      <4> QED
        BY <1>9, <2>2, <3>0, <3>1, <4>2, <4>3, <4>4, <4>7 DEF Before
    <3>2. CASE m[1] # l[1]
      BY <1>5, <1>6, <1>9, <1>12, <2>2, <3>0, <3>2 DEF Before
    <3> QED
      BY <3>1, <3>2
  <2> QED
    BY <1>1, <1>2, <2>2, <2>3, <2>4, NextIs
<1>13. CASE l[2] = 2
  <2>1. f = <<l[1], 3, 0, 0, 0>>
    BY <1>2, <1>4, <1>5, <1>6, <1>13 DEF InPerson, Archive!Follow, Archive!InString, Archive!StringAt, Archive!Phone, Archive!Person
  <2>2. f \in Tuples /\ f[1] = l[1] /\ f[2] = 3 /\ f[3] = 0 /\ f[4] = 0 /\ f[5] = 0
    BY <1>4, <2>1 DEF Tuples
  <2>3. IsPlace(b, f)
    BY <1>4, <1>5, <1>7, <1>13, <2>2 DEF IsPlace, InPerson
  <2>4. ASSUME NEW m \in Tuples, IsPlace(b, m)
        PROVE  Before(m, f) <=>
                 \/ Before(m, l)
                 \/ m[1] = l[1] /\ m[2] = l[2] /\ m[3] = l[3] /\ m[4] = l[4] /\ m[5] = l[5]
    <3>0. /\ m[1] \in Int /\ m[2] \in Int /\ m[3] \in Int /\ m[4] \in Int /\ m[5] \in Int
          /\ m[1] >= 0
          /\ m[1] = 0 => m[2] = 0 /\ m[3] = 0 /\ m[4] = 0 /\ m[5] = 0
          /\ m[1] # 0 => m[2] \in 1..4 /\ m[3] >= 0 /\ m[4] >= 0 /\ m[5] >= 0
      BY <1>8, <2>4
    <3>1. CASE m[1] = l[1]
      <4>1. l[1] # 0 /\ InPerson(b, l[1], l) /\ InPerson(b, l[1], m)
        BY <1>4, <1>5, <1>8, <1>13, <2>4, <3>1
      <4>2. l[2] = 2 /\ l[2] \in Int
        BY <1>9, <1>13
      <4>3. l[3] = 0 /\ l[4] = 0 /\ l[5] = 0
        BY <1>9, <4>1, <4>2 DEF InPerson
      <4>4. m[3] >= 0 /\ m[4] >= 0 /\ m[5] >= 0 /\ m[2] \in 1..4
        BY <3>0, <4>1 DEF InPerson
      <4>7. m[2] = 2 => m[3] = 0 /\ m[4] = 0 /\ m[5] = 0
        BY <4>1 DEF InPerson
      <4> QED
        BY <1>9, <2>2, <3>0, <3>1, <4>2, <4>3, <4>4, <4>7 DEF Before
    <3>2. CASE m[1] # l[1]
      BY <1>5, <1>6, <1>9, <1>13, <2>2, <3>0, <3>2 DEF Before
    <3> QED
      BY <3>1, <3>2
  <2> QED
    BY <1>1, <1>2, <2>2, <2>3, <2>4, NextIs
<1>14. CASE l[2] = 3 /\ l[5] < Len(b[l[1]].email)
  <2>1. f = <<l[1], 3, 0, 0, l[5] + 1>>
    BY <1>2, <1>4, <1>5, <1>6, <1>14 DEF InPerson, Archive!Follow, Archive!InString, Archive!StringAt, Archive!Phone, Archive!Person
  <2>2. f \in Tuples /\ f[1] = l[1] /\ f[2] = 3 /\ f[3] = 0 /\ f[4] = 0 /\ f[5] = l[5] + 1
    BY <1>4, <2>1 DEF Tuples
  <2>3. IsPlace(b, f)
    <3>1. l[1] \in 1..Len(b) /\ l[5] \in Int /\ l[5] >= 0
      BY <1>4, <1>5, <1>14 DEF InPerson
    <3>2. Len(b[l[1]].email) \in Nat
      BY <3>1, Lengths
    <3>3. l[5] + 1 \in 0..Len(b[l[1]].email)
      <4>1. PICK n : n = Len(b[l[1]].email)
        OBVIOUS
      <4>2. n \in Nat /\ l[5] < n
        BY <1>14, <3>2, <4>1
      <4>3. l[5] + 1 \in 0..n
        BY <3>1, <4>2
      <4> QED
        BY <4>1, <4>3
    <3> QED
      BY <2>2, <3>1, <3>3 DEF IsPlace
  <2>4. ASSUME NEW m \in Tuples, IsPlace(b, m)
        PROVE  Before(m, f) <=>
                 \/ Before(m, l)
                 \/ m[1] = l[1] /\ m[2] = l[2] /\ m[3] = l[3] /\ m[4] = l[4] /\ m[5] = l[5]
    <3>0. /\ m[1] \in Int /\ m[2] \in Int /\ m[3] \in Int /\ m[4] \in Int /\ m[5] \in Int
          /\ m[1] >= 0
          /\ m[1] = 0 => m[2] = 0 /\ m[3] = 0 /\ m[4] = 0 /\ m[5] = 0
          /\ m[1] # 0 => m[2] \in 1..4 /\ m[3] >= 0 /\ m[4] >= 0 /\ m[5] >= 0
      BY <1>8, <2>4
    <3>1. CASE m[1] = l[1]
      <4>1. l[1] # 0 /\ InPerson(b, l[1], l) /\ InPerson(b, l[1], m)
        BY <1>4, <1>5, <1>8, <1>14, <2>4, <3>1
      <4>2. l[2] = 3 /\ l[2] \in Int
        BY <1>9, <1>14
      <4>3. l[3] = 0 /\ l[4] = 0
        BY <1>9, <4>1, <4>2 DEF InPerson
      <4>4. m[3] >= 0 /\ m[4] >= 0 /\ m[5] >= 0 /\ m[2] \in 1..4
        BY <3>0, <4>1 DEF InPerson
      <4>7. m[2] = 3 => m[3] = 0 /\ m[4] = 0
        BY <4>1 DEF InPerson
      <4> QED
        BY <1>9, <2>2, <3>0, <3>1, <4>2, <4>3, <4>4, <4>7 DEF Before
    <3>2. CASE m[1] # l[1]
      BY <1>5, <1>6, <1>9, <1>14, <2>2, <3>0, <3>2 DEF Before
    <3> QED
      BY <3>1, <3>2
  <2> QED
    BY <1>1, <1>2, <2>2, <2>3, <2>4, NextIs
<1>15. CASE l[2] = 3 /\ ~ (l[5] < Len(b[l[1]].email))
  <2>1. f = <<l[1], 4, 0, 0, 0>>
    BY <1>2, <1>4, <1>5, <1>6, <1>15 DEF InPerson, Archive!Follow, Archive!InString, Archive!StringAt, Archive!Phone, Archive!Person
  <2>2. f \in Tuples /\ f[1] = l[1] /\ f[2] = 4 /\ f[3] = 0 /\ f[4] = 0 /\ f[5] = 0
    BY <1>4, <2>1 DEF Tuples
  <2>3. IsPlace(b, f)
    BY <1>4, <1>5, <1>7, <1>15, <2>2 DEF IsPlace, InPerson
  <2>4. ASSUME NEW m \in Tuples, IsPlace(b, m)
        PROVE  Before(m, f) <=>
                 \/ Before(m, l)
                 \/ m[1] = l[1] /\ m[2] = l[2] /\ m[3] = l[3] /\ m[4] = l[4] /\ m[5] = l[5]
    <3>0. /\ m[1] \in Int /\ m[2] \in Int /\ m[3] \in Int /\ m[4] \in Int /\ m[5] \in Int
          /\ m[1] >= 0
          /\ m[1] = 0 => m[2] = 0 /\ m[3] = 0 /\ m[4] = 0 /\ m[5] = 0
          /\ m[1] # 0 => m[2] \in 1..4 /\ m[3] >= 0 /\ m[4] >= 0 /\ m[5] >= 0
      BY <1>8, <2>4
    <3>1. CASE m[1] = l[1]
      <4>1. l[1] # 0 /\ InPerson(b, l[1], l) /\ InPerson(b, l[1], m)
        BY <1>4, <1>5, <1>8, <1>15, <2>4, <3>1
      <4>2. l[2] = 3 /\ l[2] \in Int
        BY <1>9, <1>15
      <4>3. l[3] = 0 /\ l[4] = 0
        BY <1>9, <4>1, <4>2 DEF InPerson
      <4>4. m[3] >= 0 /\ m[4] >= 0 /\ m[5] >= 0 /\ m[2] \in 1..4
        BY <3>0, <4>1 DEF InPerson
      <4>5. l[5] = Len(b[l[1]].email)
        <5>1. l[5] <= Len(b[l[1]].email)
          BY <4>1, <4>2 DEF InPerson
        <5>2. Len(b[l[1]].email) \in Nat
          BY <1>7, <4>1
        <5>3. PICK n : n = Len(b[l[1]].email)
          OBVIOUS
        <5>4. n \in Nat /\ l[5] <= n /\ ~ (l[5] < n)
          BY <1>15, <5>1, <5>2, <5>3
        <5>5. l[5] = n
          BY <1>9, <5>4
        <5> QED
          BY <5>3, <5>5
      <4>6. m[2] = 3 => m[3] = 0 /\ m[4] = 0 /\ m[5] <= Len(b[l[1]].email)
        BY <4>1 DEF InPerson
      <4>7. m[2] = 3 => m[3] = 0 /\ m[4] = 0 /\ m[5] <= l[5]
        BY <4>5, <4>6
      <4> QED
        BY <1>9, <2>2, <3>0, <3>1, <4>2, <4>3, <4>4, <4>7 DEF Before
    <3>2. CASE m[1] # l[1]
      BY <1>5, <1>6, <1>9, <1>15, <2>2, <3>0, <3>2 DEF Before
    <3> QED
      BY <3>1, <3>2
  <2> QED
    BY <1>1, <1>2, <2>2, <2>3, <2>4, NextIs
<1>16. CASE l[2] = 4 /\ l[4] = 1 /\ l[5] < Len(b[l[1]].phones[l[3]].number)
  <2>1. f = <<l[1], 4, l[3], 1, l[5] + 1>>
    BY <1>2, <1>4, <1>5, <1>6, <1>16 DEF InPerson, Archive!Follow, Archive!InString, Archive!StringAt, Archive!Phone, Archive!Person
  <2>2. f \in Tuples /\ f[1] = l[1] /\ f[2] = 4 /\ f[3] = l[3] /\ f[4] = 1 /\ f[5] = l[5] + 1
    BY <1>4, <2>1 DEF Tuples
  <2>3. IsPlace(b, f)
    <3>1. l[1] \in 1..Len(b) /\ InPerson(b, l[1], l) /\ Len(b[l[1]].phones) \in Nat
      BY <1>4, <1>5, <1>7, <1>16
    <3>2. l[3] \in 1..Len(b[l[1]].phones)
      BY <1>4, <1>16, <3>1 DEF InPerson
    <3>3. Len(b[l[1]].phones[l[3]].number) \in Nat
      BY <3>1, <3>2, Lengths
    <3>4. l[5] \in Int /\ l[5] >= 0
      BY <1>4, <3>1 DEF InPerson
    <3>5. l[5] + 1 \in 0..Len(b[l[1]].phones[l[3]].number)
      <4>1. PICK n : n = Len(b[l[1]].phones[l[3]].number)
        OBVIOUS
      <4>2. n \in Nat
        BY <3>3, <4>1
      <4>3. l[5] + 1 \in 0..n
        <5>1. l[5] < n
          BY <1>16, <4>1
        <5> QED
          BY <3>4, <4>2, <5>1
      <4> QED
        BY <4>1, <4>3
    <3> QED
      BY <2>2, <3>1, <3>2, <3>5 DEF IsPlace
  <2>4. ASSUME NEW m \in Tuples, IsPlace(b, m)
        PROVE  Before(m, f) <=>
                 \/ Before(m, l)
                 \/ m[1] = l[1] /\ m[2] = l[2] /\ m[3] = l[3] /\ m[4] = l[4] /\ m[5] = l[5]
    <3>0. /\ m[1] \in Int /\ m[2] \in Int /\ m[3] \in Int /\ m[4] \in Int /\ m[5] \in Int
          /\ m[1] >= 0
          /\ m[1] = 0 => m[2] = 0 /\ m[3] = 0 /\ m[4] = 0 /\ m[5] = 0
          /\ m[1] # 0 => m[2] \in 1..4 /\ m[3] >= 0 /\ m[4] >= 0 /\ m[5] >= 0
      BY <1>8, <2>4
    <3>1. CASE m[1] = l[1]
      <4>1. l[1] # 0 /\ InPerson(b, l[1], l) /\ InPerson(b, l[1], m)
        BY <1>4, <1>5, <1>8, <1>16, <2>4, <3>1
      <4>2. l[2] = 4 /\ l[4] = 1 /\ l[2] \in Int
        BY <1>9, <1>16
      <4>3. l[3] # 0 /\ l[3] >= 0
        BY <1>9, <4>1, <4>2 DEF InPerson
      <4>4. m[3] >= 0 /\ m[4] >= 0 /\ m[5] >= 0 /\ m[2] \in 1..4
        BY <3>0, <4>1 DEF InPerson
      <4>7. m[2] = 4 /\ m[4] = 0 => m[3] = 0
        BY <4>1 DEF InPerson
      <4>8. m[2] = 4 => /\ m[4] <= 2 /\ (m[4] = 0 => m[3] = 0 /\ m[5] = 0)
                        /\ (m[4] # 0 => m[3] # 0) /\ (m[4] = 2 => m[5] = 0)
        BY <3>0, <4>1 DEF InPerson
      <4> QED
        BY <1>9, <2>2, <3>0, <3>1, <4>2, <4>3, <4>4, <4>7, <4>8 DEF Before
    <3>2. CASE m[1] # l[1]
      BY <1>5, <1>6, <1>9, <1>16, <2>2, <3>0, <3>2 DEF Before
    <3> QED
      BY <3>1, <3>2
  <2> QED
    BY <1>1, <1>2, <2>2, <2>3, <2>4, NextIs
<1>17. CASE l[2] = 4 /\ l[4] = 1 /\ ~ (l[5] < Len(b[l[1]].phones[l[3]].number))
  <2>1. f = <<l[1], 4, l[3], 2, 0>>
    BY <1>2, <1>4, <1>5, <1>6, <1>17 DEF InPerson, Archive!Follow, Archive!InString, Archive!StringAt, Archive!Phone, Archive!Person
  <2>2. f \in Tuples /\ f[1] = l[1] /\ f[2] = 4 /\ f[3] = l[3] /\ f[4] = 2 /\ f[5] = 0
    BY <1>4, <2>1 DEF Tuples
  <2>3. IsPlace(b, f)
    <3>1. l[1] \in 1..Len(b) /\ InPerson(b, l[1], l) /\ Len(b[l[1]].phones) \in Nat
      BY <1>4, <1>5, <1>7, <1>17
    <3>2. l[3] \in 1..Len(b[l[1]].phones)
      BY <1>4, <1>17, <3>1 DEF InPerson
    <3>3. Len(b[l[1]].phones[l[3]].number) \in Nat
      BY <3>1, <3>2, Lengths
    <3>4. l[5] \in Int /\ l[5] >= 0
      BY <1>4, <3>1 DEF InPerson
    <3>5. 0 \in 0..Len(b[l[1]].phones[l[3]].number)
      <4>1. PICK n : n = Len(b[l[1]].phones[l[3]].number)
        OBVIOUS
      <4>2. n \in Nat
        BY <3>3, <4>1
      <4>3. 0 \in 0..n
        <5>1. 0 = 0
          BY <1>17, <4>1
        <5> QED
          BY <3>4, <4>2, <5>1
      <4> QED
        BY <4>1, <4>3
    <3> QED
      BY <2>2, <3>1, <3>2, <3>5 DEF IsPlace
  <2>4. ASSUME NEW m \in Tuples, IsPlace(b, m)
        PROVE  Before(m, f) <=>
                 \/ Before(m, l)
                 \/ m[1] = l[1] /\ m[2] = l[2] /\ m[3] = l[3] /\ m[4] = l[4] /\ m[5] = l[5]
    <3>0. /\ m[1] \in Int /\ m[2] \in Int /\ m[3] \in Int /\ m[4] \in Int /\ m[5] \in Int
          /\ m[1] >= 0
          /\ m[1] = 0 => m[2] = 0 /\ m[3] = 0 /\ m[4] = 0 /\ m[5] = 0
          /\ m[1] # 0 => m[2] \in 1..4 /\ m[3] >= 0 /\ m[4] >= 0 /\ m[5] >= 0
      BY <1>8, <2>4
    <3>1. CASE m[1] = l[1]
      <4>1. l[1] # 0 /\ InPerson(b, l[1], l) /\ InPerson(b, l[1], m)
        BY <1>4, <1>5, <1>8, <1>17, <2>4, <3>1
      <4>2. l[2] = 4 /\ l[4] = 1 /\ l[2] \in Int
        BY <1>9, <1>17
      <4>3. l[3] # 0 /\ l[3] >= 0
        BY <1>9, <4>1, <4>2 DEF InPerson
      <4>4. m[3] >= 0 /\ m[4] >= 0 /\ m[5] >= 0 /\ m[2] \in 1..4
        BY <3>0, <4>1 DEF InPerson
      <4>5. l[5] = Len(b[l[1]].phones[l[3]].number)
        <5>1. l[5] <= Len(b[l[1]].phones[l[3]].number)
          BY <4>1, <4>2 DEF InPerson
        <5>2. Len(b[l[1]].phones[l[3]].number) \in Nat
          <6>1. l[1] \in 1..Len(b) /\ Len(b[l[1]].phones) \in Nat
            BY <1>4, <1>7, <4>1
          <6>2. l[3] <= Len(b[l[1]].phones)
            BY <4>1, <4>2 DEF InPerson
          <6>3. l[3] \in 1..Len(b[l[1]].phones)
            BY <1>9, <4>3, <6>1, <6>2
          <6> QED
            BY <6>1, <6>3, Lengths
        <5>3. PICK n : n = Len(b[l[1]].phones[l[3]].number)
          OBVIOUS
        <5>4. n \in Nat /\ l[5] <= n /\ ~ (l[5] < n)
          BY <1>17, <5>1, <5>2, <5>3
        <5>5. l[5] = n
          BY <1>9, <5>4
        <5> QED
          BY <5>3, <5>5
      <4>6. m[2] = 4 /\ m[3] = l[3] /\ m[4] = 1 => m[5] <= Len(b[l[1]].phones[l[3]].number)
        BY <4>1 DEF InPerson
      <4>7. m[2] = 4 /\ m[3] = l[3] /\ m[4] = 1 => m[5] <= l[5]
        BY <4>5, <4>6
      <4>8. m[2] = 4 => /\ m[4] <= 2 /\ (m[4] = 0 => m[3] = 0 /\ m[5] = 0)
                        /\ (m[4] # 0 => m[3] # 0) /\ (m[4] = 2 => m[5] = 0)
        BY <3>0, <4>1 DEF InPerson
      <4> QED
        BY <1>9, <2>2, <3>0, <3>1, <4>2, <4>3, <4>4, <4>7, <4>8 DEF Before
    <3>2. CASE m[1] # l[1]
      BY <1>5, <1>6, <1>9, <1>17, <2>2, <3>0, <3>2 DEF Before
    <3> QED
      BY <3>1, <3>2
  <2> QED
    BY <1>1, <1>2, <2>2, <2>3, <2>4, NextIs
<1>18. CASE l[2] = 4 /\ l[4] # 1 /\ l[3] < Len(b[l[1]].phones)
  <2>1. f = <<l[1], 4, l[3] + 1, 1, 0>>
    BY <1>2, <1>4, <1>5, <1>6, <1>18 DEF InPerson, Archive!Follow, Archive!InString, Archive!StringAt, Archive!Phone, Archive!Person
  <2>2. f \in Tuples /\ f[1] = l[1] /\ f[2] = 4 /\ f[3] = l[3] + 1 /\ f[4] = 1 /\ f[5] = 0
    BY <1>4, <2>1 DEF Tuples
  <2>3. IsPlace(b, f)
    <3>1. l[1] \in 1..Len(b) /\ InPerson(b, l[1], l) /\ Len(b[l[1]].phones) \in Nat
      BY <1>4, <1>5, <1>7, <1>18
    <3>2. l[3] + 1 \in 1..Len(b[l[1]].phones)
      BY <1>4, <1>18, <3>1 DEF InPerson
    <3>3. Len(b[l[1]].phones[l[3] + 1].number) \in Nat
      BY <3>1, <3>2, Lengths
    <3>4. l[5] \in Int /\ l[5] >= 0
      BY <1>4, <3>1 DEF InPerson
    <3>5. 0 \in 0..Len(b[l[1]].phones[l[3] + 1].number)
      <4>1. PICK n : n = Len(b[l[1]].phones[l[3] + 1].number)
        OBVIOUS
      <4>2. n \in Nat
        BY <3>3, <4>1
      <4>3. 0 \in 0..n
        <5>1. 0 = 0
          BY <1>18, <4>1
        <5> QED
          BY <3>4, <4>2, <5>1
      <4> QED
        BY <4>1, <4>3
    <3> QED
      BY <2>2, <3>1, <3>2, <3>5 DEF IsPlace
  <2>4. ASSUME NEW m \in Tuples, IsPlace(b, m)
        PROVE  Before(m, f) <=>
                 \/ Before(m, l)
                 \/ m[1] = l[1] /\ m[2] = l[2] /\ m[3] = l[3] /\ m[4] = l[4] /\ m[5] = l[5]
    <3>0. /\ m[1] \in Int /\ m[2] \in Int /\ m[3] \in Int /\ m[4] \in Int /\ m[5] \in Int
          /\ m[1] >= 0
          /\ m[1] = 0 => m[2] = 0 /\ m[3] = 0 /\ m[4] = 0 /\ m[5] = 0
          /\ m[1] # 0 => m[2] \in 1..4 /\ m[3] >= 0 /\ m[4] >= 0 /\ m[5] >= 0
      BY <1>8, <2>4
    <3>1. CASE m[1] = l[1]
      <4>1. l[1] # 0 /\ InPerson(b, l[1], l) /\ InPerson(b, l[1], m)
        BY <1>4, <1>5, <1>8, <1>18, <2>4, <3>1
      <4>2. l[2] = 4 /\ l[4] # 1 /\ l[2] \in Int
        BY <1>9, <1>18
      <4>3. l[3] >= 0 /\ (l[4] = 0 => l[3] = 0 /\ l[5] = 0) /\ (l[4] # 0 => l[4] = 2 /\ l[3] # 0 /\ l[5] = 0)
        BY <1>9, <4>1, <4>2 DEF InPerson
      <4>4. m[3] >= 0 /\ m[4] >= 0 /\ m[5] >= 0 /\ m[2] \in 1..4
        BY <3>0, <4>1 DEF InPerson
      <4>7. m[2] = 4 /\ m[4] = 0 => m[3] = 0
        BY <4>1 DEF InPerson
      <4>8. m[2] = 4 => /\ m[4] <= 2 /\ (m[4] = 0 => m[3] = 0 /\ m[5] = 0)
                        /\ (m[4] # 0 => m[3] # 0) /\ (m[4] = 2 => m[5] = 0)
        BY <3>0, <4>1 DEF InPerson
      <4> QED
        BY <1>9, <2>2, <3>0, <3>1, <4>2, <4>3, <4>4, <4>7, <4>8 DEF Before
    <3>2. CASE m[1] # l[1]
      BY <1>5, <1>6, <1>9, <1>18, <2>2, <3>0, <3>2 DEF Before
    <3> QED
      BY <3>1, <3>2
  <2> QED
    BY <1>1, <1>2, <2>2, <2>3, <2>4, NextIs
<1>19. CASE l[2] = 4 /\ l[4] # 1 /\ ~ (l[3] < Len(b[l[1]].phones))
  <2>1. f = <<l[1] + 1, 1, 0, 0, 0>>
    BY <1>2, <1>4, <1>5, <1>6, <1>19 DEF InPerson, Archive!Follow, Archive!InString, Archive!StringAt, Archive!Phone, Archive!Person
  <2>2. f \in Tuples /\ f[1] = l[1] + 1 /\ f[2] = 1 /\ f[3] = 0 /\ f[4] = 0 /\ f[5] = 0
    BY <1>4, <2>1 DEF Tuples
  <2>3. IsPlace(b, f) \/ f = End(b)
    <3>1. CASE l[1] + 1 = Len(b) + 1
      BY <2>1, <3>1 DEF End, Archive!Person
    <3>2. CASE l[1] + 1 # Len(b) + 1
      <4>1. f[1] \in 1..Len(b)
        BY <1>3, <1>4, <1>5, <1>6, <1>19, <2>2, <3>2
      <4>2. Len(b[f[1]].name) \in Nat
        BY <4>1, Lengths
      <4> QED
        BY <2>2, <4>1, <4>2 DEF IsPlace
    <3> QED
      BY <3>1, <3>2
  <2>4. ASSUME NEW m \in Tuples, IsPlace(b, m)
        PROVE  Before(m, f) <=>
                 \/ Before(m, l)
                 \/ m[1] = l[1] /\ m[2] = l[2] /\ m[3] = l[3] /\ m[4] = l[4] /\ m[5] = l[5]
    <3>0. /\ m[1] \in Int /\ m[2] \in Int /\ m[3] \in Int /\ m[4] \in Int /\ m[5] \in Int
          /\ m[1] >= 0
          /\ m[1] = 0 => m[2] = 0 /\ m[3] = 0 /\ m[4] = 0 /\ m[5] = 0
          /\ m[1] # 0 => m[2] \in 1..4 /\ m[3] >= 0 /\ m[4] >= 0 /\ m[5] >= 0
      BY <1>8, <2>4
    <3>1. CASE m[1] = l[1]
      <4>1. l[1] # 0 /\ InPerson(b, l[1], l) /\ InPerson(b, l[1], m)
        BY <1>4, <1>5, <1>8, <1>19, <2>4, <3>1
      <4>2. l[2] = 4 /\ l[4] # 1 /\ l[2] \in Int
        BY <1>9, <1>19
      <4>3. l[3] >= 0 /\ (l[4] = 0 => l[3] = 0 /\ l[5] = 0) /\ (l[4] # 0 => l[4] = 2 /\ l[3] # 0 /\ l[5] = 0)
        BY <1>9, <4>1, <4>2 DEF InPerson
      <4>4. m[3] >= 0 /\ m[4] >= 0 /\ m[5] >= 0 /\ m[2] \in 1..4
        BY <3>0, <4>1 DEF InPerson
      <4>5. l[3] = Len(b[l[1]].phones)
        <5>1. l[3] <= Len(b[l[1]].phones)
          BY <4>1, <4>2 DEF InPerson
        <5>2. Len(b[l[1]].phones) \in Nat
          BY <1>7, <4>1
        <5>3. PICK n : n = Len(b[l[1]].phones)
          OBVIOUS
        <5>4. n \in Nat /\ l[3] <= n /\ ~ (l[3] < n)
          BY <1>19, <5>1, <5>2, <5>3
        <5>5. l[3] = n
          BY <1>9, <5>4
        <5> QED
          BY <5>3, <5>5
      <4>6. m[2] = 4 => m[3] <= Len(b[l[1]].phones)
        BY <4>1 DEF InPerson
      <4>7. m[2] = 4 => m[3] <= l[3]
        BY <4>5, <4>6
      <4>8. m[2] = 4 => /\ m[4] <= 2 /\ (m[4] = 0 => m[3] = 0 /\ m[5] = 0)
                        /\ (m[4] # 0 => m[3] # 0) /\ (m[4] = 2 => m[5] = 0)
        BY <3>0, <4>1 DEF InPerson
      <4> QED
        BY <1>9, <2>2, <3>0, <3>1, <4>2, <4>3, <4>4, <4>7, <4>8 DEF Before
    <3>2. CASE m[1] # l[1]
      <4>1. CASE m[1] < l[1]
        BY <1>9, <2>2, <3>0, <4>1 DEF Before
      <4>2. CASE m[1] = l[1] + 1
        <5>1. m[1] # 0 /\ ~ (m[1] < l[1])
          BY <1>4, <1>9, <3>0, <4>2
        <5> QED
          BY <1>9, <2>2, <3>0, <3>2, <4>2, <5>1 DEF Before
      <4>3. CASE m[1] > l[1] + 1
        BY <1>9, <2>2, <3>0, <4>3 DEF Before
      <4> QED
        BY <1>9, <3>0, <3>2, <4>1, <4>2, <4>3
    <3> QED
      BY <3>1, <3>2
  <2> QED
    BY <1>1, <1>2, <2>2, <2>3, <2>4, NextIs
<1>20. l[2] \in 0..4
  BY <1>4, <1>5 DEF InPerson
<1> QED
  BY <1>4, <1>6, <1>10, <1>11, <1>12, <1>13, <1>14, <1>15, <1>16, <1>17, <1>18, <1>19, <1>20

-----------------------------------------------------------------------------
\* The parts of a book are finitely many, and so are their bytes.
LEMMA Intervals ==
  ASSUME NEW n \in Nat
  PROVE  IsFiniteSet(1..n) /\ IsFiniteSet(0..n) /\ Cardinality(1..n) = n
<1>1. 0 \in Int /\ 1 \in Int /\ n \in Int
  OBVIOUS
<1>2. IsFiniteSet(1..n) /\ IsFiniteSet(0..n)
  BY <1>1, FS_Interval, Zenon
<1>3. Cardinality(1..n) = IF 1 > n THEN 0 ELSE n - 1 + 1
  BY <1>1, FS_Interval, Zenon
<1> QED
  BY <1>2, <1>3

LEMMA ImageFinite ==
  ASSUME NEW S, IsFiniteSet(S), NEW g, DOMAIN g = S, g = [x \in S |-> g[x]]
  PROVE  IsFiniteSet({g[x] : x \in S})
<1>1. g \in Surjection(S, {g[x] : x \in S})
  BY DEF Surjection
<1> QED
  BY <1>1, FS_Surjection

LEMMA PlacesFinite ==
  ASSUME NEW b \in BookType
  PROVE  IsFiniteSet(Archive!Places(b))
<1>1. ASSUME NEW x \in 1..Len(b)
      PROVE  IsFiniteSet(Archive!PersonPlaces(x, b[x]))
  <2> DEFINE names == [k \in 0..Len(b[x].name) |-> <<x, 1, 0, 0, k>>]
  <2> DEFINE emails == [k \in 0..Len(b[x].email) |-> <<x, 3, 0, 0, k>>]
  <2> DEFINE numbers == [y \in 1..Len(b[x].phones) |-> Archive!PhonePlaces(x, y, b[x].phones[y])]
  <2> DEFINE Names == {<<x, 1, 0, 0, k>> : k \in 0..Len(b[x].name)}
  <2> DEFINE Emails == {<<x, 3, 0, 0, k>> : k \in 0..Len(b[x].email)}
  <2> DEFINE Numbered == {Archive!PhonePlaces(x, y, b[x].phones[y]) : y \in 1..Len(b[x].phones)}
  <2>1. Len(b[x].name) \in Nat /\ Len(b[x].email) \in Nat /\ Len(b[x].phones) \in Nat
    BY Lengths
  <2>2. ASSUME NEW y \in 1..Len(b[x].phones)
        PROVE  IsFiniteSet(Archive!PhonePlaces(x, y, b[x].phones[y]))
    <3> DEFINE digits == [k \in 0..Len(b[x].phones[y].number) |-> <<x, 4, y, 1, k>>]
    <3> DEFINE Digits == {<<x, 4, y, 1, k>> : k \in 0..Len(b[x].phones[y].number)}
    <3>1. IsFiniteSet(0..Len(b[x].phones[y].number))
      BY Lengths, Intervals
    <3>2. IsFiniteSet({digits[k] : k \in 0..Len(b[x].phones[y].number)})
      <4> HIDE DEF digits
      <4>1. DOMAIN digits = 0..Len(b[x].phones[y].number)
            /\ digits = [k \in 0..Len(b[x].phones[y].number) |-> digits[k]]
        BY DEF digits
      <4> QED
        BY <3>1, <4>1, ImageFinite
    <3>3. Digits = {digits[k] : k \in 0..Len(b[x].phones[y].number)}
      OBVIOUS
    <3>4. IsFiniteSet(Digits)
      BY <3>2, <3>3
    <3>5. IsFiniteSet({<<x, 4, y, 2, 0>>})
      BY FS_Singleton
    <3>6. IsFiniteSet(Digits \cup {<<x, 4, y, 2, 0>>})
      <4> HIDE DEF Digits
      <4> QED
        BY <3>4, <3>5, FS_Union
    <3> QED
      BY <3>6 DEF Archive!PhonePlaces
  <2>3. IsFiniteSet(0..Len(b[x].name)) /\ IsFiniteSet(0..Len(b[x].email))
        /\ IsFiniteSet(1..Len(b[x].phones))
    BY <2>1, Intervals
  <2>4. IsFiniteSet({names[k] : k \in 0..Len(b[x].name)})
    <3> HIDE DEF names
    <3>1. DOMAIN names = 0..Len(b[x].name) /\ names = [k \in 0..Len(b[x].name) |-> names[k]]
      BY DEF names
    <3>2. IsFiniteSet(0..Len(b[x].name))
      BY <2>3
    <3> QED
      BY <3>1, <3>2, ImageFinite
  <2>5. IsFiniteSet({emails[k] : k \in 0..Len(b[x].email)})
    <3> HIDE DEF emails
    <3>1. DOMAIN emails = 0..Len(b[x].email) /\ emails = [k \in 0..Len(b[x].email) |-> emails[k]]
      BY DEF emails
    <3>2. IsFiniteSet(0..Len(b[x].email))
      BY <2>3
    <3> QED
      BY <3>1, <3>2, ImageFinite
  <2>6. IsFiniteSet({numbers[y] : y \in 1..Len(b[x].phones)})
    <3> HIDE DEF numbers
    <3>1. DOMAIN numbers = 1..Len(b[x].phones)
          /\ numbers = [y \in 1..Len(b[x].phones) |-> numbers[y]]
      BY DEF numbers
    <3>2. IsFiniteSet(1..Len(b[x].phones))
      BY <2>3
    <3> QED
      BY <3>1, <3>2, ImageFinite
  <2>7. IsFiniteSet(Names) /\ IsFiniteSet(Emails)
    <3>1. Names = {names[k] : k \in 0..Len(b[x].name)}
      OBVIOUS
    <3>2. Emails = {emails[k] : k \in 0..Len(b[x].email)}
      OBVIOUS
    <3> QED
      BY <2>4, <2>5, <3>1, <3>2
  <2>8. IsFiniteSet(UNION Numbered)
    <3>1. Numbered = {numbers[y] : y \in 1..Len(b[x].phones)}
      OBVIOUS
    <3>2. \A T \in Numbered : IsFiniteSet(T)
      BY <2>2
    <3>3. IsFiniteSet(Numbered)
      BY <2>6, <3>1
    <3> HIDE DEF Numbered
    <3> QED
      BY <3>2, <3>3, FS_UNION
  <2>9. IsFiniteSet({<<x, 2, 0, 0, 0>>}) /\ IsFiniteSet({<<x, 4, 0, 0, 0>>})
    BY FS_Singleton
  <2>10. IsFiniteSet(Names \cup {<<x, 2, 0, 0, 0>>} \cup Emails \cup {<<x, 4, 0, 0, 0>>} \cup UNION Numbered)
    <3> HIDE DEF Names, Emails, Numbered
    <3>1. IsFiniteSet(Names \cup {<<x, 2, 0, 0, 0>>})
      BY <2>7, <2>9, FS_Union
    <3>2. IsFiniteSet(Names \cup {<<x, 2, 0, 0, 0>>} \cup Emails)
      BY <2>7, <3>1, FS_Union
    <3>3. IsFiniteSet(Names \cup {<<x, 2, 0, 0, 0>>} \cup Emails \cup {<<x, 4, 0, 0, 0>>})
      BY <2>9, <3>2, FS_Union
    <3> QED
      BY <2>8, <3>3, FS_Union
  <2> QED
    BY <2>10 DEF Archive!PersonPlaces
<1> DEFINE persons == [x \in 1..Len(b) |-> Archive!PersonPlaces(x, b[x])]
<1> DEFINE Persons == {Archive!PersonPlaces(x, b[x]) : x \in 1..Len(b)}
<1>2. IsFiniteSet(1..Len(b))
  BY Lengths, Intervals
<1>3. IsFiniteSet({persons[x] : x \in 1..Len(b)})
  <2> HIDE DEF persons
  <2>1. DOMAIN persons = 1..Len(b) /\ persons = [x \in 1..Len(b) |-> persons[x]]
    BY DEF persons
  <2> QED
    BY <1>2, <2>1, ImageFinite
<1>4. IsFiniteSet(UNION Persons)
  <2>1. Persons = {persons[x] : x \in 1..Len(b)}
    OBVIOUS
  <2>2. \A T \in Persons : IsFiniteSet(T)
    BY <1>1
  <2>3. IsFiniteSet(Persons)
    BY <1>3, <2>1
  <2> HIDE DEF Persons
  <2> QED
    BY <2>2, <2>3, FS_UNION
<1>5. IsFiniteSet({Archive!Start})
  BY FS_Singleton
<1>6. IsFiniteSet({Archive!Start} \cup UNION Persons)
  <2> HIDE DEF Persons
  <2> QED
    BY <1>4, <1>5, FS_Union
<1> QED
  BY <1>6 DEF Archive!Places

Size(S) == Cardinality(Archive!Bytes(S))

LEMMA WidthType == \A l : Archive!Width(l) \in 1..8
  BY DEF Archive!Width

LEMMA SizeType ==
  ASSUME NEW S, IsFiniteSet(S)
  PROVE  IsFiniteSet(Archive!Bytes(S)) /\ Size(S) \in Nat
<1>1. IsFiniteSet(1..8)
  <2>1. 8 \in Nat
    OBVIOUS
  <2> QED
    BY <2>1, Intervals, Zenon
<1>2. IsFiniteSet(S \X (1..8))
  BY <1>1, FS_Product
<1>3. Archive!Bytes(S) \in SUBSET (S \X (1..8))
  BY DEF Archive!Bytes
<1>4. IsFiniteSet(Archive!Bytes(S))
  BY <1>2, <1>3, FS_Subset
<1> QED
  BY <1>4, FS_CardinalityType DEF Size

LEMMA SizeOfSubset ==
  ASSUME NEW T, IsFiniteSet(T), NEW S, S \subseteq T
  PROVE  IsFiniteSet(S) /\ Size(S) <= Size(T)
<1>1. IsFiniteSet(S)
  BY FS_Subset
<1>2. Archive!Bytes(S) \in SUBSET Archive!Bytes(T)
  BY DEF Archive!Bytes
<1> QED
  BY <1>1, <1>2, SizeType, FS_Subset DEF Size

LEMMA SizeOfOneMore ==
  ASSUME NEW S, IsFiniteSet(S), NEW l, l \notin S
  PROVE  Size(S \cup {l}) = Size(S) + Archive!Width(l)
<1>1. PICK w : w = Archive!Width(l)
  OBVIOUS
<1>2. w \in 1..8
  BY <1>1, WidthType
<1>3. IsFiniteSet(1..w) /\ Cardinality(1..w) = w
  <2>1. w \in Nat
    BY <1>2
  <2> QED
    BY <2>1, Intervals, Zenon
<1>4. IsFiniteSet({l}) /\ Cardinality({l}) = 1
  BY FS_Singleton
<1>5. IsFiniteSet({l} \X (1..w)) /\ Cardinality({l} \X (1..w)) = Cardinality({l}) * Cardinality(1..w)
  BY <1>3, <1>4, FS_Product
<1>6. Cardinality({l} \X (1..w)) = w
  BY <1>2, <1>3, <1>4, <1>5
<1>7. Archive!Bytes(S \cup {l}) = Archive!Bytes(S) \cup ({l} \X (1..w))
  BY <1>1, <1>2 DEF Archive!Bytes
<1>8. Archive!Bytes(S) \cap ({l} \X (1..w)) = {}
  BY DEF Archive!Bytes
<1>9. IsFiniteSet(Archive!Bytes(S)) /\ Size(S) \in Nat
  BY SizeType
<1>10. Cardinality(Archive!Bytes(S) \cup ({l} \X (1..w)))
         = Cardinality(Archive!Bytes(S)) + Cardinality({l} \X (1..w)) - Cardinality({})
  BY <1>5, <1>8, <1>9, FS_Union
<1>11. Cardinality({}) = 0
  BY FS_EmptySet
<1>12. Cardinality(Archive!Bytes(S \cup {l})) = Cardinality(Archive!Bytes(S)) + w
  <2>1. PICK n : n = Cardinality(Archive!Bytes(S))
    OBVIOUS
  <2>2. n \in Nat
    BY <1>9, <2>1 DEF Size
  <2>3. Cardinality(Archive!Bytes(S \cup {l})) = n + w - 0
    BY <1>6, <1>7, <1>10, <1>11, <2>1
  <2> QED
    BY <1>2, <2>1, <2>2, <2>3
<1> QED
  BY <1>1, <1>12 DEF Size

LEMMA SizeOfNone == Size({}) = 0
<1>1. Archive!Bytes({}) = {}
  BY DEF Archive!Bytes
<1> QED
  BY <1>1, FS_EmptySet DEF Size

LEMMA BookBytesIs == \A b : Archive!BookBytes(b) = Size(Archive!Places(b))
  BY DEF Archive!BookBytes, Size, Archive!Cardinality, Cardinality

\* Where a part is in the buffer.
Position(b, l) == Size(Past(b, l))

LEMMA BeforeTransitive ==
  ASSUME NEW l \in Tuples, NEW m \in Tuples, NEW n \in Tuples, Before(l, m), Before(m, n)
  PROVE  Before(l, n)
<1>1. /\ l[1] \in Int /\ l[2] \in Int /\ l[3] \in Int /\ l[4] \in Int /\ l[5] \in Int
      /\ m[1] \in Int /\ m[2] \in Int /\ m[3] \in Int /\ m[4] \in Int /\ m[5] \in Int
      /\ n[1] \in Int /\ n[2] \in Int /\ n[3] \in Int /\ n[4] \in Int /\ n[5] \in Int
  BY TupleIs
<1> QED
  BY <1>1 DEF Before

LEMMA Positions ==
  ASSUME NEW b \in BookType, NEW l \in Archive!Places(b)
  PROVE  /\ Position(b, l) \in Nat
         /\ Archive!Follow(b, l) \in AllPlaces(b)
         /\ Past(b, Archive!Follow(b, l)) = Past(b, l) \cup {l}
         /\ Position(b, Archive!Follow(b, l)) = Position(b, l) + Archive!Width(l)
         /\ Position(b, l) + Archive!Width(l) <= Size(Archive!Places(b))
         /\ \A m \in AllPlaces(b) : Before(l, m) => Position(b, l) # Position(b, m)
<1>1. IsFiniteSet(Archive!Places(b)) /\ l \in Tuples
  BY PlacesFinite, PlaceIff
<1>2. Past(b, l) \subseteq Archive!Places(b) /\ l \notin Past(b, l)
  BY <1>1, Trichotomy DEF Past
<1>3. IsFiniteSet(Past(b, l)) /\ Position(b, l) \in Nat
  BY <1>1, <1>2, SizeOfSubset, SizeType DEF Position
<1>4. PICK f : f = Archive!Follow(b, l)
  OBVIOUS
<1>5. IsNext(b, l, f)
  BY <1>4, FollowIs
<1>6. f \in AllPlaces(b)
  BY <1>5, PlaceIff DEF IsNext, AllPlaces
<1>7. Past(b, f) = Past(b, l) \cup {l}
  BY <1>5, PlaceIff DEF IsNext, Past
<1>8. Size(Past(b, l) \cup {l}) = Size(Past(b, l)) + Archive!Width(l)
  BY <1>2, <1>3, SizeOfOneMore
<1>9. Size(Past(b, l) \cup {l}) <= Size(Archive!Places(b))
  BY <1>1, <1>2, SizeOfSubset
<1>10. ASSUME NEW m \in AllPlaces(b), Before(l, m)
       PROVE  Position(b, l) # Position(b, m)
  <2>1. Past(b, l) \cup {l} \subseteq Past(b, m)
    <3>1. ASSUME NEW n \in Past(b, l)
          PROVE  n \in Past(b, m)
      <4>1. n \in Archive!Places(b) /\ n \in Tuples /\ m \in Tuples /\ Before(n, l)
        BY <3>1, PlaceIff, PlaceTuples DEF Past
      <4> QED
        BY <1>1, <1>10, <4>1, BeforeTransitive DEF Past
    <3> QED
      BY <1>10, <3>1 DEF Past
  <2>2. Past(b, m) \subseteq Archive!Places(b)
    BY DEF Past
  <2>3. IsFiniteSet(Past(b, m)) /\ Size(Past(b, m)) \in Nat
    BY <1>1, <2>2, SizeOfSubset, SizeType
  <2>4. Size(Past(b, l) \cup {l}) <= Size(Past(b, m))
    BY <2>1, <2>3, SizeOfSubset
  <2>5. Archive!Width(l) \in 1..8
    BY WidthType
  <2> QED
    BY <1>3, <1>8, <2>3, <2>4, <2>5 DEF Position
<1> QED
  BY <1>3, <1>4, <1>6, <1>7, <1>8, <1>9, <1>10 DEF Position

-----------------------------------------------------------------------------
\* A person's part of the places, of Value and of Assigned.
PlaceOf(p, m) ==
  \/ m[2] = 1 /\ m[3] = 0 /\ m[4] = 0 /\ m[5] \in 0..Len(p.name)
  \/ m[2] = 2 /\ m[3] = 0 /\ m[4] = 0 /\ m[5] = 0
  \/ m[2] = 3 /\ m[3] = 0 /\ m[4] = 0 /\ m[5] \in 0..Len(p.email)
  \/ m[2] = 4 /\ m[3] = 0 /\ m[4] = 0 /\ m[5] = 0
  \/ m[2] = 4 /\ m[3] \in 1..Len(p.phones) /\ m[4] = 1 /\ m[5] \in 0..Len(p.phones[m[3]].number)
  \/ m[2] = 4 /\ m[3] \in 1..Len(p.phones) /\ m[4] = 2 /\ m[5] = 0

StringOf(p, m) ==
  IF m[2] = 1 THEN p.name ELSE IF m[2] = 3 THEN p.email ELSE p.phones[m[3]].number

PartOf(p, m) ==
  IF m[2] = 2 THEN p.id
  ELSE IF m[4] = 2 THEN p.phones[m[3]].type
  ELSE IF ~ Archive!InString(m) THEN Len(p.phones)
  ELSE IF Archive!IsSize(m) THEN Len(StringOf(p, m))
  ELSE StringOf(p, m)[m[5]]

NewString(s, l, v) == IF Archive!IsSize(l) THEN Archive!Blank(v, Archive!NUL) ELSE [s EXCEPT ![l[5]] = v]

NewPerson(p, l, v) ==
  IF l[2] = 1 THEN [p EXCEPT !.name = NewString(p.name, l, v)]
  ELSE IF l[2] = 2 THEN [p EXCEPT !.id = v]
  ELSE IF l[2] = 3 THEN [p EXCEPT !.email = NewString(p.email, l, v)]
  ELSE IF l[4] = 1
         THEN [p EXCEPT !.phones = [p.phones EXCEPT ![l[3]] =
                 [p.phones[l[3]] EXCEPT !.number = NewString(p.phones[l[3]].number, l, v)]]]
  ELSE IF l[4] = 2
         THEN [p EXCEPT !.phones = [p.phones EXCEPT ![l[3]] = [p.phones[l[3]] EXCEPT !.type = v]]]
  ELSE [p EXCEPT !.phones = Archive!Blank(v, Archive!NoPhone)]

LEMMA PersonPlace ==
  ASSUME NEW b \in BookType, NEW l
  PROVE  l \in Archive!Places(b)
           <=> l = Archive!Start \/ (l \in Tuples /\ l[1] \in 1..Len(b) /\ PlaceOf(b[l[1]], l))
<1>1. Archive!Start \in Archive!Places(b)
  BY StartFacts
<1>2. IsPlace(b, l) <=> \/ l[1] = 0 /\ l[2] = 0 /\ l[3] = 0 /\ l[4] = 0 /\ l[5] = 0
                        \/ l[1] \in 1..Len(b) /\ PlaceOf(b[l[1]], l)
  BY DEF IsPlace, PlaceOf
<1>3. l \in Tuples /\ l[1] = 0 /\ l[2] = 0 /\ l[3] = 0 /\ l[4] = 0 /\ l[5] = 0
        => l = Archive!Start
  BY TupleIs DEF Archive!Start
<1>4. l \in Archive!Places(b) <=> l \in Tuples /\ IsPlace(b, l)
  BY PlaceIff
<1> QED
  BY <1>1, <1>2, <1>3, <1>4, Zenon

LEMMA ValueIs ==
  ASSUME NEW b, NEW l, l # Archive!Start
  PROVE  Archive!Value(b, l) = PartOf(b[l[1]], l) /\ Archive!StringAt(b, l) = StringOf(b[l[1]], l)
  BY DEF Archive!Value, Archive!StringAt, PartOf, StringOf

LEMMA AssignedIs ==
  ASSUME NEW b, NEW l, l # Archive!Start, NEW v
  PROVE  Archive!Assigned(b, l, v) = [b EXCEPT ![l[1]] = NewPerson(b[l[1]], l, v)]
<1>1. CASE l[2] = 1
  BY <1>1 DEF Archive!Assigned, Archive!StringAt, NewPerson, NewString
<1>2. CASE l[2] = 2
  BY <1>2 DEF Archive!Assigned, NewPerson
<1>3. CASE l[2] = 3
  BY <1>3 DEF Archive!Assigned, Archive!StringAt, NewPerson, NewString
<1>4. CASE l[2] \notin {1, 2, 3} /\ l[4] = 1
  BY <1>4 DEF Archive!Assigned, Archive!StringAt, NewPerson, NewString
<1>5. CASE l[2] \notin {1, 2, 3} /\ l[4] = 2
  <2>1. l[2] # 1 /\ l[2] # 2 /\ l[2] # 3 /\ l[4] = 2 /\ l[4] # 1
    BY <1>5
  <2>2. Archive!Assigned(b, l, v) = [b EXCEPT ![l[1]].phones[l[3]].type = v]
    BY <2>1 DEF Archive!Assigned
  <2>3. NewPerson(b[l[1]], l, v)
          = [b[l[1]] EXCEPT !.phones = [b[l[1]].phones EXCEPT ![l[3]] = [b[l[1]].phones[l[3]] EXCEPT !.type = v]]]
    BY <2>1 DEF NewPerson
  <2> QED
    BY <2>2, <2>3
<1>6. CASE l[2] \notin {1, 2, 3} /\ l[4] \notin {1, 2}
  BY <1>6 DEF Archive!Assigned, NewPerson
<1> QED
  BY <1>1, <1>2, <1>3, <1>4, <1>5, <1>6

LEMMA StringIs ==
  ASSUME NEW s \in StringType, NEW t \in StringType, NEW l, l[5] \in 0..Len(t), ~ Archive!IsInt(l),
         l[5] # 0 => Len(s) = Len(t),
         \A k \in 1..Len(t) : k < l[5] => s[k] = t[k],
         NEW u, u = NewString(s, l, IF Archive!IsSize(l) THEN Len(t) ELSE t[l[5]])
  PROVE  u \in StringType /\ Len(u) = Len(t) /\ \A k \in 1..Len(t) : k <= l[5] => u[k] = t[k]
<1>1. Len(t) \in Nat /\ Len(s) \in Nat /\ l[5] \in Int
  BY LenProperties DEF StringType
<1>2. CASE l[5] = 0
  <2>1. u = [k \in 1..Len(t) |-> Archive!NUL]
    BY <1>2 DEF NewString, Archive!IsSize, Archive!Blank
  <2>2. Archive!NUL \in Archive!Characters
    BY DEF Archive!Characters
  <2>3. u \in [1..Len(t) -> Archive!Characters]
    BY <2>1, <2>2
  <2>4. u \in Seq(Archive!Characters) /\ Len(u) = Len(t)
    BY <1>1, <2>3, IsASeq, LenProperties
  <2> QED
    BY <1>1, <1>2, <2>4 DEF StringType
<1>3. CASE l[5] # 0
  <2>1. u = [s EXCEPT ![l[5]] = t[l[5]]]
    BY <1>3 DEF NewString, Archive!IsSize
  <2>2. t[l[5]] \in Archive!Characters
    BY <1>1, <1>3, ElementOfSeq DEF StringType
  <2>3. l[5] \in 1..Len(s) /\ Len(s) = Len(t)
    BY <1>1, <1>3
  <2>4. u \in Seq(Archive!Characters) /\ Len(u) = Len(s)
    BY <2>1, <2>2, <2>3, ExceptSeq DEF StringType
  <2>5. \A k \in 1..Len(s) : u[k] = IF k = l[5] THEN t[l[5]] ELSE s[k]
    BY <2>1, <2>2, <2>3, ExceptSeq DEF StringType
  <2> QED
    BY <1>1, <2>3, <2>4, <2>5 DEF StringType
<1> QED
  BY <1>2, <1>3

LEMMA PersonLengths ==
  ASSUME NEW p \in PersonType
  PROVE  /\ p.name \in StringType /\ p.email \in StringType /\ p.id \in Nat
         /\ p.phones \in Seq(PhoneType)
         /\ Len(p.name) \in Nat /\ Len(p.email) \in Nat /\ Len(p.phones) \in Nat
         /\ \A y \in 1..Len(p.phones) :
              /\ p.phones[y] \in PhoneType /\ p.phones[y].number \in StringType
              /\ p.phones[y].type \in Nat /\ Len(p.phones[y].number) \in Nat
<1>1. /\ p.name \in StringType /\ p.email \in StringType /\ p.id \in Nat
      /\ p.phones \in Seq(PhoneType)
  BY DEF PersonType
<1>2. Len(p.name) \in Nat /\ Len(p.email) \in Nat /\ Len(p.phones) \in Nat
  BY <1>1, LenProperties DEF StringType
<1>3. ASSUME NEW y \in 1..Len(p.phones)
      PROVE  /\ p.phones[y] \in PhoneType /\ p.phones[y].number \in StringType
             /\ p.phones[y].type \in Nat /\ Len(p.phones[y].number) \in Nat
  <2>1. p.phones[y] \in PhoneType
    BY <1>1, ElementOfSeq
  <2>2. p.phones[y].number \in StringType /\ p.phones[y].type \in Nat
    BY <2>1 DEF PhoneType
  <2> QED
    BY <2>1, <2>2, LenProperties DEF StringType
<1> QED
  BY <1>1, <1>2, <1>3

\* What precedes a place within a person.
LEMMA PlaceNumbersOf ==
  ASSUME NEW q \in PersonType, NEW m \in Tuples, PlaceOf(q, m)
  PROVE  /\ m[1] \in Int /\ m[2] \in 1..4 /\ m[3] \in Nat /\ m[4] \in 0..2 /\ m[5] \in Nat
         /\ m[2] # 4 => m[3] = 0 /\ m[4] = 0
         /\ m[4] = 0 => m[3] = 0
         /\ m[2] = 2 \/ m[4] = 2 \/ (m[2] = 4 /\ m[4] = 0) => m[5] = 0
         /\ m[4] # 0 => m[3] \in 1..Len(q.phones)
         /\ Archive!InString(m) => m[5] <= Len(StringOf(q, m))
<1>1. m[1] \in Int /\ m[2] \in Int /\ m[3] \in Int /\ m[4] \in Int /\ m[5] \in Int
  BY TupleIs
<1>2. Len(q.name) \in Nat /\ Len(q.email) \in Nat /\ Len(q.phones) \in Nat
  BY PersonLengths
<1>3. m[3] \in 1..Len(q.phones) => Len(q.phones[m[3]].number) \in Nat
  BY PersonLengths
<1>4. /\ m[2] \in 1..4 /\ m[3] \in Nat /\ m[4] \in 0..2 /\ m[5] \in Nat
      /\ m[2] # 4 => m[3] = 0 /\ m[4] = 0
      /\ m[4] = 0 => m[3] = 0
      /\ m[2] = 2 \/ m[4] = 2 \/ (m[2] = 4 /\ m[4] = 0) => m[5] = 0
      /\ m[4] # 0 => m[3] \in 1..Len(q.phones)
  BY <1>1, <1>2, <1>3 DEF PlaceOf
<1>5. Archive!InString(m) => m[5] <= Len(StringOf(q, m))
  BY <1>1, <1>2, <1>3 DEF PlaceOf, Archive!InString, StringOf
<1> QED
  BY <1>1, <1>4, <1>5

\* The string at a place is, as far as it has been read, the one of the book.
LEMMA StringsAgree ==
  ASSUME NEW p \in PersonType, NEW q \in PersonType, NEW l \in Tuples, PlaceOf(q, l),
         \A m \in Tuples : m[1] = l[1] /\ PlaceOf(q, m) /\ Before(m, l) => PartOf(p, m) = PartOf(q, m)
  PROVE  /\ l[2] = 4 /\ l[4] # 0 => Len(p.phones) = Len(q.phones)
         /\ Archive!InString(l) =>
              /\ StringOf(p, l) \in StringType /\ StringOf(q, l) \in StringType
              /\ l[5] \in 0..Len(StringOf(q, l)) /\ ~ Archive!IsInt(l)
              /\ l[5] # 0 => Len(StringOf(p, l)) = Len(StringOf(q, l))
              /\ \A k \in 1..Len(StringOf(q, l)) : k < l[5] => StringOf(p, l)[k] = StringOf(q, l)[k]
              /\ PartOf(q, l) = IF Archive!IsSize(l) THEN Len(StringOf(q, l)) ELSE StringOf(q, l)[l[5]]
<1>1. /\ l[1] \in Int /\ l[2] \in 1..4 /\ l[3] \in Nat /\ l[4] \in 0..2 /\ l[5] \in Nat
      /\ l[2] # 4 => l[3] = 0 /\ l[4] = 0
      /\ l[4] # 0 => l[3] \in 1..Len(q.phones)
      /\ Archive!InString(l) => l[5] <= Len(StringOf(q, l))
  BY PlaceNumbersOf
<1>2. ASSUME l[2] = 4, l[4] # 0
      PROVE  Len(p.phones) = Len(q.phones)
  <2>1. PICK m : m = <<l[1], 4, 0, 0, 0>>
    OBVIOUS
  <2>2. m \in Tuples /\ m[1] = l[1] /\ m[2] = 4 /\ m[3] = 0 /\ m[4] = 0 /\ m[5] = 0
    BY <1>1, <2>1 DEF Tuples
  <2>3. l[3] > 0
    BY <1>1, <1>2, PersonLengths
  <2>4. PlaceOf(q, m) /\ Before(m, l)
    BY <1>1, <1>2, <2>2, <2>3 DEF PlaceOf, Before
  <2>5. PartOf(p, m) = Len(p.phones) /\ PartOf(q, m) = Len(q.phones)
    BY <2>2 DEF PartOf, Archive!InString
  <2> QED
    BY <2>2, <2>4, <2>5
<1>3. ASSUME Archive!InString(l)
      PROVE  /\ StringOf(p, l) \in StringType /\ StringOf(q, l) \in StringType
             /\ ~ Archive!IsInt(l)
  <2>1. l[4] = 0 => l[2] \in {1, 3}
    BY <1>1, <1>3 DEF Archive!InString
  <2>2. l[4] # 0 => l[2] = 4 /\ l[4] = 1 /\ l[3] \in 1..Len(p.phones) /\ l[3] \in 1..Len(q.phones)
    BY <1>1, <1>2, <1>3 DEF Archive!InString
  <2>3. CASE l[4] = 0
    BY <2>1, <2>3, PersonLengths DEF StringOf, Archive!IsInt
  <2>4. CASE l[4] # 0
    <3>1. p.phones[l[3]].number \in StringType /\ q.phones[l[3]].number \in StringType
      BY <2>2, <2>4, PersonLengths
    <3>2. StringOf(p, l) = p.phones[l[3]].number /\ StringOf(q, l) = q.phones[l[3]].number
      BY <2>2, <2>4 DEF StringOf
    <3> QED
      BY <2>2, <2>4, <3>1, <3>2 DEF Archive!IsInt
  <2> QED
    BY <2>3, <2>4
<1>4. ASSUME Archive!InString(l), NEW k \in 0..Len(StringOf(q, l)), k < l[5]
      PROVE  /\ k = 0 => Len(StringOf(p, l)) = Len(StringOf(q, l))
             /\ k # 0 => StringOf(p, l)[k] = StringOf(q, l)[k]
  <2>1. PICK m : m = <<l[1], l[2], l[3], l[4], k>>
    OBVIOUS
  <2>2. m \in Tuples /\ m[1] = l[1] /\ m[2] = l[2] /\ m[3] = l[3] /\ m[4] = l[4] /\ m[5] = k
    BY <1>1, <1>4, <2>1 DEF Tuples
  <2>3. StringOf(q, m) = StringOf(q, l) /\ StringOf(p, m) = StringOf(p, l) /\ Archive!InString(m)
        /\ ~ Archive!IsInt(m)
    BY <1>3, <1>4, <2>2 DEF StringOf, Archive!InString, Archive!IsInt
  <2>4. PlaceOf(q, m)
    <3>1. Archive!InString(l) => l[2] = 1 \/ l[2] = 3 \/ (l[2] = 4 /\ l[4] = 1)
      BY <1>1 DEF Archive!InString
    <3>2. CASE l[2] = 1
      BY <1>1, <1>4, <2>2, <3>2 DEF PlaceOf, StringOf
    <3>3. CASE l[2] = 3
      BY <1>1, <1>4, <2>2, <3>3 DEF PlaceOf, StringOf
    <3>4. CASE l[2] = 4 /\ l[4] = 1
      BY <1>1, <1>4, <2>2, <3>4 DEF PlaceOf, StringOf
    <3> QED
      BY <1>4, <3>1, <3>2, <3>3, <3>4
  <2>5. Before(m, l)
    BY <1>1, <1>4, <2>2 DEF Before
  <2>6. PartOf(p, m) = PartOf(q, m)
    BY <2>2, <2>4, <2>5
  <2>7. /\ PartOf(p, m) = IF Archive!IsSize(m) THEN Len(StringOf(p, m)) ELSE StringOf(p, m)[k]
        /\ PartOf(q, m) = IF Archive!IsSize(m) THEN Len(StringOf(q, m)) ELSE StringOf(q, m)[k]
    BY <2>2, <2>3 DEF PartOf, Archive!IsInt
  <2>8. Archive!IsSize(m) <=> k = 0
    BY <2>2, <2>3 DEF Archive!IsSize
  <2> QED
    BY <2>3, <2>6, <2>7, <2>8
<1>5. ASSUME Archive!InString(l)
      PROVE  /\ l[5] \in 0..Len(StringOf(q, l))
             /\ l[5] # 0 => Len(StringOf(p, l)) = Len(StringOf(q, l))
             /\ \A k \in 1..Len(StringOf(q, l)) : k < l[5] => StringOf(p, l)[k] = StringOf(q, l)[k]
             /\ PartOf(q, l) = IF Archive!IsSize(l) THEN Len(StringOf(q, l)) ELSE StringOf(q, l)[l[5]]
  <2>1. Len(StringOf(q, l)) \in Nat
    BY <1>3, <1>5, LenProperties DEF StringType
  <2>2. l[5] \in 0..Len(StringOf(q, l))
    BY <1>1, <1>5, <2>1
  <2>3. l[5] # 0 => Len(StringOf(p, l)) = Len(StringOf(q, l))
    BY <1>1, <1>4, <1>5, <2>1
  <2>4. \A k \in 1..Len(StringOf(q, l)) : k < l[5] => StringOf(p, l)[k] = StringOf(q, l)[k]
    BY <1>4, <1>5, <2>1
  <2>5. PartOf(q, l) = IF Archive!IsSize(l) THEN Len(StringOf(q, l)) ELSE StringOf(q, l)[l[5]]
    BY <1>3, <1>5 DEF PartOf, Archive!IsInt
  <2> QED
    BY <2>2, <2>3, <2>4, <2>5
<1> QED
  BY <1>2, <1>3, <1>5

\* A person with another number or type of one telephone.
LEMMA PhoneChanged ==
  ASSUME NEW p \in PersonType, NEW y \in 1..Len(p.phones), NEW e \in PhoneType,
         NEW r, r = [p EXCEPT !.phones = [p.phones EXCEPT ![y] = e]]
  PROVE  /\ r \in PersonType /\ Len(r.phones) = Len(p.phones) /\ r.phones[y] = e
         /\ r.name = p.name /\ r.id = p.id /\ r.email = p.email
         /\ \A x \in 1..Len(p.phones) : x # y => r.phones[x] = p.phones[x]
<1>1. PICK s : s = [p.phones EXCEPT ![y] = e]
  OBVIOUS
<1>2. p.phones \in Seq(PhoneType)
  BY PersonLengths
<1>3. /\ s \in Seq(PhoneType) /\ Len(s) = Len(p.phones)
      /\ \A x \in 1..Len(p.phones) : s[x] = IF x = y THEN e ELSE p.phones[x]
  BY <1>1, <1>2, ExceptSeq
<1>4. r = [p EXCEPT !.phones = s]
  BY <1>1
<1>5. r \in PersonType /\ r.phones = s /\ r.name = p.name /\ r.id = p.id /\ r.email = p.email
  BY <1>3, <1>4 DEF PersonType
<1> QED
  BY <1>3, <1>5

LEMMA NewPersonIs ==
  ASSUME NEW p \in PersonType, NEW q \in PersonType, NEW l \in Tuples, PlaceOf(q, l),
         \A m \in Tuples : m[1] = l[1] /\ PlaceOf(q, m) /\ Before(m, l) => PartOf(p, m) = PartOf(q, m),
         NEW r, r = NewPerson(p, l, PartOf(q, l))
  PROVE  /\ r \in PersonType
         /\ \A m \in Tuples : m[1] = l[1] /\ PlaceOf(q, m) /\ (Before(m, l) \/ m = l)
                                => PartOf(r, m) = PartOf(q, m)
<1>1. /\ l[1] \in Int /\ l[2] \in 1..4 /\ l[3] \in Nat /\ l[4] \in 0..2 /\ l[5] \in Nat
      /\ l[2] # 4 => l[3] = 0 /\ l[4] = 0
      /\ l[4] = 0 => l[3] = 0
      /\ l[2] = 2 \/ l[4] = 2 \/ (l[2] = 4 /\ l[4] = 0) => l[5] = 0
      /\ l[4] # 0 => l[3] \in 1..Len(q.phones)
  BY PlaceNumbersOf
<1>2. l[2] = 4 /\ l[4] # 0 => Len(p.phones) = Len(q.phones)
  BY StringsAgree
<1>3. PICK u : u = NewString(StringOf(p, l), l, PartOf(q, l))
  OBVIOUS
<1>4. ASSUME Archive!InString(l)
      PROVE  /\ u \in StringType /\ Len(u) = Len(StringOf(q, l))
             /\ \A k \in 1..Len(StringOf(q, l)) : k <= l[5] => u[k] = StringOf(q, l)[k]
             /\ ~ Archive!IsInt(l)
  <2>1. /\ StringOf(p, l) \in StringType /\ StringOf(q, l) \in StringType
        /\ l[5] \in 0..Len(StringOf(q, l)) /\ ~ Archive!IsInt(l)
        /\ l[5] # 0 => Len(StringOf(p, l)) = Len(StringOf(q, l))
        /\ \A k \in 1..Len(StringOf(q, l)) : k < l[5] => StringOf(p, l)[k] = StringOf(q, l)[k]
        /\ PartOf(q, l) = IF Archive!IsSize(l) THEN Len(StringOf(q, l)) ELSE StringOf(q, l)[l[5]]
    BY <1>4, StringsAgree
  <2>2. PICK s, t : s = StringOf(p, l) /\ t = StringOf(q, l)
    OBVIOUS
  <2>3. u = NewString(s, l, IF Archive!IsSize(l) THEN Len(t) ELSE t[l[5]])
    BY <1>3, <2>1, <2>2
  <2>4. u \in StringType /\ Len(u) = Len(t) /\ \A k \in 1..Len(t) : k <= l[5] => u[k] = t[k]
    BY <2>1, <2>2, <2>3, StringIs
  <2> QED
    BY <2>1, <2>2, <2>4
\* Another part of the person.
<1> DEFINE Other(m) == m \in Tuples /\ m[1] = l[1] /\ PlaceOf(q, m) /\ Before(m, l)
                       /\ ~ (m[2] = l[2] /\ m[3] = l[3] /\ m[4] = l[4])
<1>5. ASSUME NEW m \in Tuples, m[1] = l[1], PlaceOf(q, m)
      PROVE  /\ m[2] \in 1..4 /\ m[3] \in Nat /\ m[4] \in 0..2 /\ m[5] \in Nat
             /\ m[2] # 4 => m[3] = 0 /\ m[4] = 0
             /\ m[4] = 0 => m[3] = 0
             /\ m[2] = 2 \/ m[4] = 2 \/ (m[2] = 4 /\ m[4] = 0) => m[5] = 0
             /\ m[4] # 0 => m[3] \in 1..Len(q.phones)
  BY <1>5, PlaceNumbersOf
<1>6. /\ r \in PersonType
      /\ Archive!InString(l) => StringOf(r, l) = u
      /\ ~ Archive!InString(l) => PartOf(r, l) = PartOf(q, l)
      /\ \A m : Other(m) => PartOf(r, m) = PartOf(p, m)
  <2>1. CASE l[2] = 1
    <3>1. Archive!InString(l)
      BY <2>1 DEF Archive!InString
    <3>2. r = [p EXCEPT !.name = u]
      BY <1>3, <2>1 DEF NewPerson, StringOf
    <3>3. r \in PersonType /\ r.name = u
      BY <1>4, <3>1, <3>2 DEF PersonType
    <3>4. ASSUME NEW m, Other(m)
          PROVE  FALSE
      <4>1. /\ m[2] \in 1..4 /\ m[3] \in Nat /\ m[4] \in 0..2 /\ m[5] \in Nat
            /\ m[2] # 4 => m[3] = 0 /\ m[4] = 0
        BY <1>5, <3>4
      <4> QED
        BY <1>1, <2>1, <3>4, <4>1 DEF Before
    <3> QED
      BY <2>1, <3>1, <3>3, <3>4 DEF StringOf
  <2>2. CASE l[2] = 2
    <3>1. ~ Archive!InString(l) /\ PartOf(q, l) = q.id
      BY <1>1, <2>2 DEF Archive!InString, PartOf
    <3>2. r = [p EXCEPT !.id = q.id]
      BY <2>2, <3>1 DEF NewPerson
    <3>3. r \in PersonType /\ r.id = q.id /\ r.name = p.name
      BY <3>2, PersonLengths DEF PersonType
    <3>4. ASSUME NEW m, Other(m)
          PROVE  PartOf(r, m) = PartOf(p, m)
      <4>1. m[2] = 1 /\ m[4] = 0
        <5>1. /\ m[2] \in 1..4 /\ m[3] \in Nat /\ m[4] \in 0..2 /\ m[5] \in Nat
              /\ m[2] # 4 => m[3] = 0 /\ m[4] = 0
          BY <1>5, <3>4
        <5> QED
          BY <1>1, <2>2, <3>4, <5>1 DEF Before
      <4>2. StringOf(r, m) = StringOf(p, m)
        BY <3>3, <4>1 DEF StringOf
      <4> QED
        BY <4>1, <4>2 DEF PartOf, Archive!InString
    <3> QED
      BY <2>2, <3>1, <3>3, <3>4 DEF PartOf
  <2>3. CASE l[2] = 3
    <3>1. Archive!InString(l)
      BY <2>3 DEF Archive!InString
    <3>2. r = [p EXCEPT !.email = u]
      BY <1>3, <2>3 DEF NewPerson, StringOf
    <3>3. r \in PersonType /\ r.email = u /\ r.name = p.name /\ r.id = p.id
      BY <1>4, <3>1, <3>2 DEF PersonType
    <3>4. ASSUME NEW m, Other(m)
          PROVE  PartOf(r, m) = PartOf(p, m)
      <4>1. m[2] \in {1, 2} /\ m[4] = 0
        <5>1. /\ m[2] \in 1..4 /\ m[3] \in Nat /\ m[4] \in 0..2 /\ m[5] \in Nat
              /\ m[2] # 4 => m[3] = 0 /\ m[4] = 0
          BY <1>5, <3>4
        <5> QED
          BY <1>1, <2>3, <3>4, <5>1 DEF Before
      <4>2. CASE m[2] = 1
        <5>1. StringOf(r, m) = StringOf(p, m)
          BY <3>3, <4>2 DEF StringOf
        <5> QED
          BY <4>1, <4>2, <5>1 DEF PartOf, Archive!InString
      <4>3. CASE m[2] = 2
        BY <3>3, <4>3 DEF PartOf
      <4> QED
        BY <4>1, <4>2, <4>3
    <3> QED
      BY <2>3, <3>1, <3>3, <3>4 DEF StringOf
  <2>4. CASE l[2] = 4 /\ l[4] = 0
    <3>1. ~ Archive!InString(l) /\ PartOf(q, l) = Len(q.phones)
      BY <2>4 DEF Archive!InString, PartOf
    <3>2. PICK s : s = [k \in 1..Len(q.phones) |-> Archive!NoPhone]
      OBVIOUS
    <3>3. r = [p EXCEPT !.phones = s]
      BY <2>4, <3>1, <3>2 DEF NewPerson, Archive!Blank
    <3>4. Archive!NoPhone \in PhoneType
      <4>1. <<>> \in Seq(Archive!Characters)
        BY EmptySeq
      <4> QED
        BY <4>1 DEF Archive!NoPhone, PhoneType, StringType
    <3>5. Len(q.phones) \in Nat
      BY PersonLengths
    <3>6. s \in [1..Len(q.phones) -> PhoneType]
      BY <3>2, <3>4
    <3>7. s \in Seq(PhoneType) /\ Len(s) = Len(q.phones)
      BY <3>5, <3>6, IsASeq, LenProperties
    <3>8. r \in PersonType /\ r.phones = s /\ r.name = p.name /\ r.id = p.id /\ r.email = p.email
      BY <3>3, <3>7 DEF PersonType
    <3>9. ASSUME NEW m, Other(m)
          PROVE  PartOf(r, m) = PartOf(p, m)
      <4>1. m[2] \in {1, 2, 3} /\ m[4] = 0
        <5>1. /\ m[2] \in 1..4 /\ m[3] \in Nat /\ m[4] \in 0..2 /\ m[5] \in Nat
              /\ m[2] # 4 => m[3] = 0 /\ m[4] = 0
          BY <1>5, <3>9
        <5> QED
          BY <1>1, <2>4, <3>9, <5>1 DEF Before
      <4>2. m[2] # 2 => StringOf(r, m) = StringOf(p, m)
        BY <3>8, <4>1 DEF StringOf
      <4> QED
        BY <3>8, <4>1, <4>2 DEF PartOf, Archive!InString
    <3>10. PartOf(r, l) = Len(r.phones)
      BY <2>4 DEF Archive!InString, PartOf
    <3> QED
      BY <3>1, <3>7, <3>8, <3>9, <3>10
  <2>5. ASSUME l[2] = 4, l[4] # 0,
               NEW e \in PhoneType, r = [p EXCEPT !.phones = [p.phones EXCEPT ![l[3]] = e]],
               l[4] = 2 => e.number = p.phones[l[3]].number
        PROVE  /\ r \in PersonType /\ r.phones[l[3]] = e
               /\ \A m : Other(m) => PartOf(r, m) = PartOf(p, m)
    <3>1. l[3] \in 1..Len(p.phones)
      BY <1>1, <1>2, <2>5
    <3>2. /\ r \in PersonType /\ Len(r.phones) = Len(p.phones) /\ r.phones[l[3]] = e
          /\ r.name = p.name /\ r.id = p.id /\ r.email = p.email
          /\ \A x \in 1..Len(p.phones) : x # l[3] => r.phones[x] = p.phones[x]
      BY <2>5, <3>1, PhoneChanged
    <3>3. ASSUME NEW m, Other(m)
          PROVE  PartOf(r, m) = PartOf(p, m)
      <4>1. /\ m[2] \in 1..4 /\ m[3] \in Nat /\ m[4] \in 0..2 /\ m[5] \in Nat
            /\ m[2] # 4 => m[3] = 0 /\ m[4] = 0
            /\ m[4] = 0 => m[3] = 0
            /\ m[4] # 0 => m[3] \in 1..Len(p.phones)
        BY <1>2, <1>5, <2>5, <3>3
      <4>2. m[2] = 4 /\ m[3] = l[3] => m[4] = 1 /\ l[4] = 2
        BY <1>1, <2>5, <3>3, <4>1 DEF Before
      <4>3. CASE m[2] # 4
        <5>1. StringOf(r, m) = StringOf(p, m) \/ m[2] = 2
          BY <3>2, <4>1, <4>3 DEF StringOf
        <5>2. m[4] = 0 /\ (Archive!InString(m) \/ m[2] = 2)
          BY <4>1, <4>3 DEF Archive!InString
        <5> QED
          BY <3>2, <5>1, <5>2 DEF PartOf
      <4>4. CASE m[2] = 4 /\ m[4] = 0
        <5>1. ~ Archive!InString(m)
          BY <4>4 DEF Archive!InString
        <5>2. PartOf(r, m) = Len(r.phones) /\ PartOf(p, m) = Len(p.phones)
          BY <4>4, <5>1 DEF PartOf
        <5> QED
          BY <3>2, <5>2
      <4>5. CASE m[2] = 4 /\ m[4] # 0 /\ m[3] # l[3]
        <5>1. r.phones[m[3]] = p.phones[m[3]]
          BY <3>2, <4>1, <4>5
        <5>2. StringOf(r, m) = StringOf(p, m)
          BY <4>5, <5>1 DEF StringOf
        <5>3. m[4] \in {1, 2}
          BY <4>1, <4>5
        <5> QED
          BY <4>5, <5>1, <5>2, <5>3 DEF PartOf, Archive!InString
      <4>6. CASE m[2] = 4 /\ m[3] = l[3]
        <5>1. r.phones[m[3]].number = p.phones[m[3]].number /\ m[4] = 1
          BY <2>5, <3>2, <4>2, <4>6
        <5>2. StringOf(r, m) = StringOf(p, m)
          BY <4>6, <5>1 DEF StringOf
        <5> QED
          BY <4>6, <5>1, <5>2 DEF PartOf, Archive!InString
      <4> QED
        BY <4>3, <4>4, <4>5, <4>6
    <3> QED
      BY <3>2, <3>3
  <2>6. CASE l[2] = 4 /\ l[4] = 1
    <3>1. Archive!InString(l) /\ StringOf(p, l) = p.phones[l[3]].number
      BY <2>6 DEF Archive!InString, StringOf
    <3>2. PICK e : e = [p.phones[l[3]] EXCEPT !.number = u]
      OBVIOUS
    <3>3. l[3] \in 1..Len(p.phones)
      BY <1>1, <1>2, <2>6
    <3>4. p.phones[l[3]] \in PhoneType
      BY <3>3, PersonLengths
    <3>5. e \in PhoneType /\ e.number = u
      BY <1>4, <3>1, <3>2, <3>4 DEF PhoneType
    <3>6. r = [p EXCEPT !.phones = [p.phones EXCEPT ![l[3]] = e]]
      BY <1>3, <2>6, <3>1, <3>2 DEF NewPerson
    <3>7. /\ r \in PersonType /\ r.phones[l[3]] = e
          /\ \A m : Other(m) => PartOf(r, m) = PartOf(p, m)
      BY <2>5, <2>6, <3>5, <3>6
    <3>8. StringOf(r, l) = r.phones[l[3]].number
      BY <2>6 DEF StringOf
    <3> QED
      BY <3>1, <3>5, <3>7, <3>8
  <2>7. CASE l[2] = 4 /\ l[4] = 2
    <3>1. ~ Archive!InString(l) /\ PartOf(q, l) = q.phones[l[3]].type
      BY <2>7 DEF Archive!InString, PartOf
    <3>2. PICK e : e = [p.phones[l[3]] EXCEPT !.type = q.phones[l[3]].type]
      OBVIOUS
    <3>3. l[3] \in 1..Len(p.phones) /\ l[3] \in 1..Len(q.phones)
      BY <1>1, <1>2, <2>7
    <3>4. p.phones[l[3]] \in PhoneType /\ q.phones[l[3]].type \in Nat
      BY <3>3, PersonLengths
    <3>5. e \in PhoneType /\ e.type = q.phones[l[3]].type /\ e.number = p.phones[l[3]].number
      BY <3>2, <3>4 DEF PhoneType
    <3>6. r = [p EXCEPT !.phones = [p.phones EXCEPT ![l[3]] = e]]
      BY <2>7, <3>1, <3>2 DEF NewPerson
    <3>7. /\ r \in PersonType /\ r.phones[l[3]] = e
          /\ \A m : Other(m) => PartOf(r, m) = PartOf(p, m)
      BY <2>5, <2>7, <3>5, <3>6
    <3>8. PartOf(r, l) = r.phones[l[3]].type
      BY <2>7 DEF PartOf
    <3> QED
      BY <3>1, <3>5, <3>7, <3>8
  <2>8. l[2] \in {1, 2, 3} \/ (l[2] = 4 /\ l[4] \in {0, 1, 2})
    BY <1>1
  <2> QED
    BY <2>1, <2>2, <2>3, <2>4, <2>6, <2>7, <2>8
<1>7. ASSUME NEW m \in Tuples, m[1] = l[1], PlaceOf(q, m), Before(m, l) \/ m = l
      PROVE  PartOf(r, m) = PartOf(q, m)
  <2>1. CASE Other(m)
    <3>1. PartOf(r, m) = PartOf(p, m)
      BY <1>6, <2>1
    <3> QED
      BY <2>1, <3>1
  <2>2. CASE m[2] = l[2] /\ m[3] = l[3] /\ m[4] = l[4] /\ ~ Archive!InString(l)
    <3>1. m[5] = 0 /\ l[5] = 0
      BY <1>1, <1>5, <1>7, <2>2 DEF Archive!InString
    <3>2. m = l
      BY <1>7, <2>2, <3>1, TupleIs
    <3> QED
      BY <1>6, <2>2, <3>2
  <2>3. CASE m[2] = l[2] /\ m[3] = l[3] /\ m[4] = l[4] /\ Archive!InString(l)
    <3>1. Archive!InString(m) /\ StringOf(r, m) = u /\ StringOf(q, m) = StringOf(q, l)
          /\ ~ Archive!IsInt(m)
      <4>1. Archive!InString(m) /\ StringOf(r, m) = StringOf(r, l) /\ StringOf(q, m) = StringOf(q, l)
        BY <2>3 DEF Archive!InString, StringOf
      <4>2. Archive!IsInt(m) <=> Archive!IsInt(l)
        BY <2>3 DEF Archive!IsInt
      <4> QED
        BY <1>4, <1>6, <2>3, <4>1, <4>2
    <3>2. m[5] <= Len(StringOf(q, l)) /\ m[5] \in Nat
      BY <1>7, <3>1, PlaceNumbersOf
    <3>3. m[5] <= l[5]
      BY <1>1, <1>7, <2>3, <3>2 DEF Before
    <3>4. /\ PartOf(r, m) = IF Archive!IsSize(m) THEN Len(u) ELSE u[m[5]]
          /\ PartOf(q, m) = IF Archive!IsSize(m) THEN Len(StringOf(q, l)) ELSE StringOf(q, l)[m[5]]
      BY <3>1 DEF PartOf, Archive!IsInt
    <3>5. Archive!IsSize(m) <=> m[5] = 0
      BY <3>1 DEF Archive!IsSize
    <3>6. Len(StringOf(q, l)) \in Nat
      BY <2>3, StringsAgree, LenProperties DEF StringType
    <3>7. m[5] # 0 => m[5] \in 1..Len(StringOf(q, l))
      BY <3>2, <3>6
    <3> QED
      BY <1>4, <2>3, <3>3, <3>4, <3>5, <3>7
  <2> QED
    BY <1>7, <2>1, <2>2, <2>3
<1> QED
  BY <1>6, <1>7

-----------------------------------------------------------------------------
\* What has been read up to a place is what is in the book.
Agree(c, b, l) == \A m \in Past(b, l) : Archive!Value(c, m) = Archive!Value(b, m)

LEMMA AgreeLength ==
  ASSUME NEW b \in BookType, NEW c, NEW l \in AllPlaces(b), l # Archive!Start, Agree(c, b, l)
  PROVE  Len(c) = Len(b)
<1>1. Archive!Start \in Past(b, l)
  BY StartFacts DEF Past
<1>2. Archive!Value(c, Archive!Start) = Archive!Value(b, Archive!Start)
  BY <1>1 DEF Agree
<1> QED
  BY <1>2 DEF Archive!Value

LEMMA AtEndAgrees ==
  ASSUME NEW b \in BookType, NEW c \in BookType, NEW l \in AllPlaces(b), Agree(c, b, l)
  PROVE  Archive!AtEnd(c, l) <=> l = End(b)
<1>1. Len(b) \in Nat /\ Len(c) \in Nat
  BY Lengths
<1>2. CASE l = Archive!Start
  <2>1. l[1] = 0 /\ l # End(b)
    BY <1>2, StartFacts, EndFacts DEF Archive!Start
  <2> QED
    BY <1>1, <2>1 DEF Archive!AtEnd
<1>3. CASE l # Archive!Start
  BY <1>3, AgreeLength, EndFacts DEF Archive!AtEnd, AllPlaces
<1> QED
  BY <1>2, <1>3

LEMMA ReadIs ==
  ASSUME NEW b \in BookType, NEW c \in BookType, NEW l \in Archive!Places(b), Agree(c, b, l),
         NEW d, d = Archive!Assigned(c, l, Archive!Value(b, l))
  PROVE  /\ d \in BookType
         /\ Agree(d, b, Archive!Follow(b, l))
         /\ Archive!Follow(d, l) = Archive!Follow(b, l)
<1>1. Past(b, Archive!Follow(b, l)) = Past(b, l) \cup {l}
  BY Positions
<1>2. CASE l = Archive!Start
  <2>1. d = [k \in 1..Len(b) |-> Archive!NoPerson]
    BY <1>2 DEF Archive!Assigned, Archive!Value, Archive!Blank
  <2>2. Archive!NoPerson \in PersonType
    <3>1. <<>> \in Seq(Archive!Characters) /\ <<>> \in Seq(PhoneType)
      BY EmptySeq
    <3> QED
      BY <3>1 DEF Archive!NoPerson, PersonType, StringType
  <2>3. Len(b) \in Nat
    BY Lengths
  <2>4. d \in [1..Len(b) -> PersonType]
    BY <2>1, <2>2
  <2>5. d \in BookType /\ Len(d) = Len(b)
    BY <2>3, <2>4, IsASeq, LenProperties DEF BookType
  <2>6. Past(b, l) = {}
    BY <1>2, StartFacts
  <2>7. Archive!Value(d, l) = Archive!Value(b, l)
    BY <1>2, <2>5 DEF Archive!Value
  <2>8. Archive!Follow(d, l) = Archive!Follow(b, l)
    BY <1>2 DEF Archive!Follow
  <2> QED
    BY <1>1, <2>5, <2>6, <2>7, <2>8 DEF Agree
<1>3. CASE l # Archive!Start
  <2>1. l \in Tuples /\ l[1] \in 1..Len(b) /\ PlaceOf(b[l[1]], l) /\ l \in AllPlaces(b)
    BY <1>3, PersonPlace DEF AllPlaces
  <2>2. Len(c) = Len(b) /\ Len(b) \in Nat
    BY <1>3, <2>1, AgreeLength, Lengths
  <2>3. PICK p, q : p = c[l[1]] /\ q = b[l[1]]
    OBVIOUS
  <2>4. p \in PersonType /\ q \in PersonType
    BY <2>1, <2>2, <2>3, Lengths
  <2>5. \A m \in Tuples : m[1] = l[1] /\ PlaceOf(q, m) /\ Before(m, l) => PartOf(p, m) = PartOf(q, m)
    <3> SUFFICES ASSUME NEW m \in Tuples, m[1] = l[1], PlaceOf(q, m), Before(m, l)
                 PROVE  PartOf(p, m) = PartOf(q, m)
      OBVIOUS
    <3>1. m \in Past(b, l)
      BY <2>1, <2>3, PersonPlace DEF Past
    <3>2. m # Archive!Start
      BY <2>1, <2>2 DEF Archive!Start
    <3>3. Archive!Value(c, m) = Archive!Value(b, m)
      BY <3>1 DEF Agree
    <3> QED
      BY <2>3, <3>2, <3>3, ValueIs
  <2>6. Archive!Value(b, l) = PartOf(q, l)
    BY <1>3, <2>3, ValueIs
  <2>7. PICK r : r = NewPerson(p, l, PartOf(q, l))
    OBVIOUS
  <2>8. /\ r \in PersonType
        /\ \A m \in Tuples : m[1] = l[1] /\ PlaceOf(q, m) /\ (Before(m, l) \/ m = l)
                                => PartOf(r, m) = PartOf(q, m)
    <3>1. PlaceOf(q, l)
      BY <2>1, <2>3
    <3> QED
      BY <2>1, <2>4, <2>5, <2>7, <3>1, NewPersonIs
  <2>9. d = [c EXCEPT ![l[1]] = r]
    <3>1. PICK v : v = Archive!Value(b, l)
      OBVIOUS
    <3>2. Archive!Assigned(c, l, v) = [c EXCEPT ![l[1]] = NewPerson(c[l[1]], l, v)]
      BY <1>3, AssignedIs
    <3>3. r = NewPerson(c[l[1]], l, v)
      BY <2>3, <2>6, <2>7, <3>1
    <3> QED
      BY <3>1, <3>2, <3>3
  <2>10. /\ d \in BookType /\ Len(d) = Len(c) /\ d[l[1]] = r
         /\ \A x \in 1..Len(c) : x # l[1] => d[x] = c[x]
    BY <2>1, <2>2, <2>8, <2>9, ExceptSeq DEF BookType
  <2>11. ASSUME NEW m \in Past(b, l) \cup {l}
         PROVE  Archive!Value(d, m) = Archive!Value(b, m)
    <3>1. m \in Archive!Places(b) /\ (Before(m, l) \/ m = l)
      BY <2>11 DEF Past
    <3>2. CASE m = Archive!Start
      BY <2>2, <2>10, <3>2 DEF Archive!Value
    <3>3. CASE m # Archive!Start
      <4>1. m \in Tuples /\ m[1] \in 1..Len(b) /\ PlaceOf(b[m[1]], m)
        BY <3>1, <3>3, PersonPlace
      <4>2. /\ Archive!Value(d, m) = PartOf(d[m[1]], m)
            /\ Archive!Value(c, m) = PartOf(c[m[1]], m)
            /\ Archive!Value(b, m) = PartOf(b[m[1]], m)
        BY <3>3, ValueIs
      <4>3. CASE m[1] = l[1]
        <5>1. PartOf(r, m) = PartOf(q, m)
          BY <2>3, <2>8, <3>1, <4>1, <4>3
        <5> QED
          BY <2>3, <2>10, <4>2, <4>3, <5>1
      <4>4. CASE m[1] # l[1]
        <5>1. m \in Past(b, l)
          BY <2>11, <4>4
        <5>2. d[m[1]] = c[m[1]]
          BY <2>2, <2>10, <4>1, <4>4
        <5>3. Archive!Value(c, m) = Archive!Value(b, m)
          BY <5>1 DEF Agree
        <5> QED
          BY <4>2, <5>2, <5>3
      <4> QED
        BY <4>3, <4>4
    <3> QED
      BY <3>2, <3>3
  <2>12. /\ Archive!InString(l) => Len(Archive!StringAt(d, l)) = Len(Archive!StringAt(b, l))
         /\ l[2] = 4 => Len(d[l[1]].phones) = Len(b[l[1]].phones)
    <3>1. PartOf(r, l) = PartOf(q, l) /\ PlaceOf(q, l)
      BY <2>1, <2>3, <2>8
    <3>2. \A m \in Tuples : m[1] = l[1] /\ PlaceOf(q, m) /\ Before(m, l) => PartOf(r, m) = PartOf(q, m)
      BY <2>8
    <3>3. /\ l[2] = 4 /\ l[4] # 0 => Len(r.phones) = Len(q.phones)
          /\ Archive!InString(l) => ~ Archive!IsInt(l)
          /\ Archive!InString(l) /\ l[5] # 0 => Len(StringOf(r, l)) = Len(StringOf(q, l))
      BY <2>1, <2>4, <2>8, <3>1, <3>2, StringsAgree
    <3>4. l[2] = 4 /\ l[4] = 0 => Len(r.phones) = Len(q.phones)
      BY <3>1 DEF PartOf, Archive!InString
    <3>5. Archive!InString(l) /\ l[5] = 0 => Len(StringOf(r, l)) = Len(StringOf(q, l))
      BY <3>1, <3>3 DEF PartOf, Archive!IsInt, Archive!IsSize
    <3>6. Archive!StringAt(d, l) = StringOf(r, l) /\ Archive!StringAt(b, l) = StringOf(q, l)
      BY <1>3, <2>3, <2>10, ValueIs
    <3> QED
      BY <2>3, <2>10, <3>3, <3>4, <3>5, <3>6
  <2>13. Archive!Follow(d, l) = Archive!Follow(b, l)
    <3>2. CASE Archive!InString(l)
      BY <1>3, <2>12, <3>2 DEF Archive!Follow
    <3>3. CASE ~ Archive!InString(l)
      BY <1>3, <2>12, <3>3 DEF Archive!Follow
    <3> QED
      BY <3>2, <3>3
  <2> QED
    BY <1>1, <2>10, <2>11, <2>13 DEF Agree
<1> QED
  BY <1>2, <1>3

\* A book is the parts it has.
LEMMA BookIs ==
  ASSUME NEW b \in BookType, NEW c \in BookType, Agree(c, b, End(b))
  PROVE  c = b
<1>1. \A m \in Archive!Places(b) : Archive!Value(c, m) = Archive!Value(b, m)
  BY EndFacts DEF Agree
<1>2. Len(c) = Len(b)
  BY StartFacts, EndFacts, AgreeLength DEF AllPlaces
<1>3. ASSUME NEW x \in 1..Len(b)
      PROVE  c[x] = b[x]
  <2>1. PICK p, q : p = c[x] /\ q = b[x]
    OBVIOUS
  <2>2. p \in PersonType /\ q \in PersonType /\ x \in Int /\ x # 0
    BY <1>2, <2>1, Lengths
  <2>3. ASSUME NEW m \in Tuples, m[1] = x, PlaceOf(q, m)
        PROVE  PartOf(p, m) = PartOf(q, m)
    <3>1. m \in Archive!Places(b) /\ m # Archive!Start
      BY <2>1, <2>2, <2>3, PersonPlace DEF Archive!Start
    <3> QED
      BY <1>1, <2>1, <2>3, <3>1, ValueIs
  <2>4. /\ q.name \in StringType /\ q.email \in StringType /\ q.phones \in Seq(PhoneType)
        /\ p.name \in StringType /\ p.email \in StringType /\ p.phones \in Seq(PhoneType)
    BY <2>2, PersonLengths
  <2>5. ASSUME NEW l \in Tuples, l[1] = x, l[5] = 0, Archive!InString(l), PlaceOf(q, l),
               StringOf(p, l) \in StringType, StringOf(q, l) \in StringType,
               l[2] = 4 => l[4] = 1
        PROVE  StringOf(p, l) = StringOf(q, l)
    <3>1. PICK s, t : s = StringOf(p, l) /\ t = StringOf(q, l)
      OBVIOUS
    <3>2. Len(t) \in Nat /\ Len(s) \in Nat
      BY <2>5, <3>1, LenProperties DEF StringType
    <3>3. /\ l[1] \in Int /\ l[2] \in 1..4 /\ l[3] \in Nat /\ l[4] \in 0..2 /\ l[5] \in Nat
          /\ l[2] # 4 => l[3] = 0 /\ l[4] = 0
          /\ l[4] # 0 => l[3] \in 1..Len(q.phones)
      BY <2>2, <2>5, PlaceNumbersOf
    <3>4. ASSUME NEW k \in 0..Len(t)
          PROVE  /\ k = 0 => Len(s) = Len(t)
                 /\ k # 0 => s[k] = t[k]
      <4>1. PICK m : m = <<l[1], l[2], l[3], l[4], k>>
        OBVIOUS
      <4>2. m \in Tuples /\ m[1] = x /\ m[2] = l[2] /\ m[3] = l[3] /\ m[4] = l[4] /\ m[5] = k
        BY <2>5, <3>2, <3>3, <3>4, <4>1 DEF Tuples
      <4>3. StringOf(q, m) = t /\ StringOf(p, m) = s /\ Archive!InString(m)
        BY <2>5, <3>1, <4>2 DEF StringOf, Archive!InString
      <4>4. ~ Archive!IsInt(m)
        BY <2>5, <3>3, <4>2 DEF Archive!IsInt, Archive!InString
      <4>5. PlaceOf(q, m)
        <5>1. l[2] = 1 \/ l[2] = 3 \/ (l[2] = 4 /\ l[4] = 1)
          BY <2>5, <3>3 DEF Archive!InString
        <5>2. CASE l[2] = 1
          BY <3>1, <3>3, <3>4, <4>2, <5>2 DEF PlaceOf, StringOf
        <5>3. CASE l[2] = 3
          BY <3>1, <3>3, <3>4, <4>2, <5>3 DEF PlaceOf, StringOf
        <5>4. CASE l[2] = 4 /\ l[4] = 1
          BY <3>1, <3>3, <3>4, <4>2, <5>4 DEF PlaceOf, StringOf
        <5> QED
          BY <5>1, <5>2, <5>3, <5>4
      <4>6. PartOf(p, m) = PartOf(q, m)
        BY <2>3, <4>2, <4>5
      <4>7. /\ PartOf(p, m) = IF Archive!IsSize(m) THEN Len(s) ELSE s[k]
            /\ PartOf(q, m) = IF Archive!IsSize(m) THEN Len(t) ELSE t[k]
        BY <4>2, <4>3, <4>4 DEF PartOf, Archive!IsInt
      <4>8. Archive!IsSize(m) <=> k = 0
        BY <4>2, <4>4 DEF Archive!IsSize
      <4> QED
        BY <4>6, <4>7, <4>8
    <3>5. 0 \in 0..Len(t) /\ \A k \in 1..Len(t) : k \in 0..Len(t) /\ k # 0
      BY <3>2
    <3>6. Len(s) = Len(t)
      BY <3>4, <3>5
    <3>7. \A k \in 1..Len(s) : s[k] = t[k]
      BY <3>4, <3>5, <3>6
    <3> QED
      BY <2>5, <3>1, <3>6, <3>7, SeqEqual DEF StringType
  <2>6. p.name = q.name
    <3>1. PICK l : l = <<x, 1, 0, 0, 0>>
      OBVIOUS
    <3>2. l \in Tuples /\ l[1] = x /\ l[2] = 1 /\ l[3] = 0 /\ l[4] = 0 /\ l[5] = 0
      BY <2>2, <3>1 DEF Tuples
    <3>3. PlaceOf(q, l)
      BY <2>2, <3>2, PersonLengths DEF PlaceOf
    <3>4. StringOf(p, l) = p.name /\ StringOf(q, l) = q.name /\ Archive!InString(l)
      BY <3>2 DEF StringOf, Archive!InString
    <3> QED
      BY <2>4, <2>5, <3>2, <3>3, <3>4
  <2>7. p.email = q.email
    <3>1. PICK l : l = <<x, 3, 0, 0, 0>>
      OBVIOUS
    <3>2. l \in Tuples /\ l[1] = x /\ l[2] = 3 /\ l[3] = 0 /\ l[4] = 0 /\ l[5] = 0
      BY <2>2, <3>1 DEF Tuples
    <3>3. PlaceOf(q, l)
      BY <2>2, <3>2, PersonLengths DEF PlaceOf
    <3>4. StringOf(p, l) = p.email /\ StringOf(q, l) = q.email /\ Archive!InString(l)
      BY <3>2 DEF StringOf, Archive!InString
    <3> QED
      BY <2>4, <2>5, <3>2, <3>3, <3>4
  <2>8. p.id = q.id
    <3>1. PICK l : l = <<x, 2, 0, 0, 0>>
      OBVIOUS
    <3>2. l \in Tuples /\ l[1] = x /\ l[2] = 2 /\ l[3] = 0 /\ l[4] = 0 /\ l[5] = 0
      BY <2>2, <3>1 DEF Tuples
    <3>3. PlaceOf(q, l) /\ PartOf(p, l) = p.id /\ PartOf(q, l) = q.id
      BY <3>2 DEF PlaceOf, PartOf
    <3> QED
      BY <2>3, <3>2, <3>3
  <2>9. Len(p.phones) = Len(q.phones)
    <3>1. PICK l : l = <<x, 4, 0, 0, 0>>
      OBVIOUS
    <3>2. l \in Tuples /\ l[1] = x /\ l[2] = 4 /\ l[3] = 0 /\ l[4] = 0 /\ l[5] = 0
      BY <2>2, <3>1 DEF Tuples
    <3>3. PlaceOf(q, l) /\ PartOf(p, l) = Len(p.phones) /\ PartOf(q, l) = Len(q.phones)
      BY <3>2 DEF PlaceOf, PartOf, Archive!InString
    <3> QED
      BY <2>3, <3>2, <3>3
  <2>10. ASSUME NEW y \in 1..Len(p.phones)
         PROVE  p.phones[y] = q.phones[y]
    <3>1. /\ y \in 1..Len(q.phones) /\ y \in Int /\ p.phones[y] \in PhoneType /\ q.phones[y] \in PhoneType
          /\ p.phones[y].number \in StringType /\ q.phones[y].number \in StringType
          /\ Len(q.phones[y].number) \in Nat
      <4>1. y \in 1..Len(q.phones) /\ y \in Int
        BY <2>2, <2>9, PersonLengths
      <4>2. p.phones[y] \in PhoneType /\ p.phones[y].number \in StringType
        BY <2>2, PersonLengths
      <4>3. q.phones[y] \in PhoneType /\ q.phones[y].number \in StringType /\ Len(q.phones[y].number) \in Nat
        BY <2>2, <4>1, PersonLengths
      <4> QED
        BY <4>1, <4>2, <4>3
    <3>2. p.phones[y].number = q.phones[y].number
      <4>1. PICK l : l = <<x, 4, y, 1, 0>>
        OBVIOUS
      <4>2. l \in Tuples /\ l[1] = x /\ l[2] = 4 /\ l[3] = y /\ l[4] = 1 /\ l[5] = 0
        BY <2>2, <3>1, <4>1 DEF Tuples
      <4>3. PlaceOf(q, l)
        BY <3>1, <4>2 DEF PlaceOf
      <4>4. StringOf(p, l) = p.phones[y].number /\ StringOf(q, l) = q.phones[y].number /\ Archive!InString(l)
        BY <4>2 DEF StringOf, Archive!InString
      <4> QED
        BY <2>5, <3>1, <4>2, <4>3, <4>4
    <3>3. p.phones[y].type = q.phones[y].type
      <4>1. PICK l : l = <<x, 4, y, 2, 0>>
        OBVIOUS
      <4>2. l \in Tuples /\ l[1] = x /\ l[2] = 4 /\ l[3] = y /\ l[4] = 2 /\ l[5] = 0
        BY <2>2, <3>1, <4>1 DEF Tuples
      <4>3. PlaceOf(q, l) /\ PartOf(p, l) = p.phones[y].type /\ PartOf(q, l) = q.phones[y].type
        BY <3>1, <4>2 DEF PlaceOf, PartOf
      <4> QED
        BY <2>3, <4>2, <4>3
    <3> QED
      BY <3>1, <3>2, <3>3 DEF PhoneType
  <2>11. p.phones = q.phones
    BY <2>4, <2>9, <2>10, SeqEqual
  <2> QED
    BY <2>1, <2>2, <2>6, <2>7, <2>8, <2>11 DEF PersonType
<1> QED
  BY <1>2, <1>3, SeqEqual DEF BookType

-----------------------------------------------------------------------------
LEMMA BooksAreTyped == Archive!Books \subseteq BookType
<1>1. Strings \subseteq StringType
  BY Constants DEF Archive!SerializationAssumption, StringType
<1>2. Archive!Phones \subseteq PhoneType
  BY <1>1 DEF Archive!Phones, PhoneType
<1>3. MaxPhones \in Nat /\ MaxPeople \in Nat
  BY Constants DEF Archive!SerializationAssumption
<1>4. Archive!SeqOf(Archive!Phones, MaxPhones) \subseteq Seq(PhoneType)
  <2>1. ASSUME NEW n \in 0..MaxPhones, NEW s \in [1..n -> Archive!Phones]
        PROVE  s \in Seq(PhoneType)
    <3>1. n \in Nat /\ \A k \in 1..n : s[k] \in PhoneType
      BY <1>2, <1>3, <2>1
    <3>2. s \in [1..n -> PhoneType]
      BY <3>1, <2>1
    <3> QED
      BY <3>1, <3>2, IsASeq
  <2> QED
    BY <2>1 DEF Archive!SeqOf
<1>5. Archive!People \subseteq PersonType
  <2>1. ASSUME NEW p \in Archive!People
        PROVE  p \in PersonType
    <3>1. p \in [name : StringType, id : Nat, email : StringType, phones : Seq(PhoneType)]
      BY <1>1, <1>4, <2>1 DEF Archive!People
    <3> QED
      BY <3>1 DEF PersonType
  <2> QED
    BY <2>1
<1>6. ASSUME NEW n \in 0..MaxPeople, NEW s \in [1..n -> Archive!People]
      PROVE  s \in Seq(PersonType)
  <2>1. n \in Nat /\ \A k \in 1..n : s[k] \in PersonType
    BY <1>3, <1>5, <1>6
  <2>2. s \in [1..n -> PersonType]
    BY <1>6, <2>1
  <2> QED
    BY <2>1, <2>2, IsASeq
<1> QED
  BY <1>6 DEF Archive!Books, Archive!SeqOf, BookType

\* The traversal, the buffer written up to a place, the place at which writing
\* stopped, and reading, which does not pass it.
At(b, l, pos, span) == l \in AllPlaces(b) /\ pos = Position(b, l) /\ pos <= span

Written(b, f, l) ==
  /\ DOMAIN f = {Position(b, m) : m \in Past(b, l)}
  /\ \A m \in Past(b, l) : f[Position(b, m)] = Archive!Value(b, m)

Sent(b, f, l, span, result) ==
  /\ Written(b, f, l)
  /\ l = End(b) => result = Size(Archive!Places(b))
  /\ l # End(b) => result = 0 /\ Position(b, l) + Archive!Width(l) > span

Reading(b, c, f, l, span, result) ==
  /\ c \in BookType /\ Agree(c, b, l)
  /\ \E s \in AllPlaces(b) : Sent(b, f, s, span, result) /\ ~ Before(s, l)

LEMMA WrittenOne ==
  ASSUME NEW b \in BookType, NEW l \in Archive!Places(b), NEW f, Written(b, f, l), NEW g,
         g = [p \in DOMAIN f \cup {Position(b, l)} |->
                IF p = Position(b, l) THEN Archive!Value(b, l) ELSE f[p]]
  PROVE  Written(b, g, Archive!Follow(b, l))
<1>1. Past(b, Archive!Follow(b, l)) = Past(b, l) \cup {l}
  BY Positions
<1>2. ASSUME NEW m \in Past(b, l)
      PROVE  Position(b, m) \in DOMAIN f /\ Position(b, m) # Position(b, l)
             /\ f[Position(b, m)] = Archive!Value(b, m)
  <2>1. m \in Archive!Places(b) /\ Before(m, l) /\ l \in AllPlaces(b)
    BY DEF Past, AllPlaces
  <2> QED
    BY <2>1, Positions DEF Written
<1>3. DOMAIN g = {Position(b, m) : m \in Past(b, l) \cup {l}}
  <2>1. DOMAIN f = {Position(b, m) : m \in Past(b, l)}
    BY DEF Written
  <2> QED
    BY <2>1
<1>4. \A m \in Past(b, l) \cup {l} : g[Position(b, m)] = Archive!Value(b, m)
  BY <1>2
<1> QED
  BY <1>1, <1>3, <1>4 DEF Written

LEMMA EndPosition ==
  ASSUME NEW b \in BookType
  PROVE  Position(b, End(b)) = Size(Archive!Places(b)) /\ Size(Archive!Places(b)) \in Nat
  BY EndFacts, PlacesFinite, SizeType DEF Position

LEMMA ReadOne ==
  ASSUME NEW b \in BookType, NEW c, NEW f, NEW l, NEW pos, NEW span \in Nat, NEW result,
         At(b, l, pos, span), Reading(b, c, f, l, span, result),
         ~ Archive!AtEnd(c, l), Archive!Width(l) <= span - pos
  PROVE  /\ l \in Archive!Places(b)
         /\ pos \in DOMAIN f /\ f[pos] = Archive!Value(b, l)
         /\ \A d : d = Archive!Assigned(c, l, f[pos]) =>
              /\ Archive!Follow(d, l) = Archive!Follow(b, l)
              /\ Reading(b, d, f, Archive!Follow(b, l), span, result)
<1>1. l \in Archive!Places(b) /\ c \in BookType /\ Agree(c, b, l)
  BY AtEndAgrees DEF Reading, At, AllPlaces
<1>2. PICK s \in AllPlaces(b) : Sent(b, f, s, span, result) /\ ~ Before(s, l)
  BY DEF Reading
<1>3. Position(b, l) \in Nat /\ Archive!Width(l) \in 1..8 /\ pos = Position(b, l)
  BY <1>1, Positions, WidthType DEF At
<1>4. s # l
  <2> SUFFICES ASSUME s = l
               PROVE  FALSE
    OBVIOUS
  <2>1. s # End(b)
    BY <1>1, EndFacts
  <2>2. Position(b, l) + Archive!Width(l) > span
    BY <1>2, <2>1 DEF Sent
  <2> QED
    BY <1>3, <2>2
<1>5. s \in Tuples /\ l \in Tuples
  BY <1>1, <1>2, PlaceTuples DEF AllPlaces
<1>6. Before(l, s)
  BY <1>2, <1>4, <1>5, Trichotomy
<1>7. l \in Past(b, s)
  BY <1>1, <1>6 DEF Past
<1>8. pos \in DOMAIN f /\ f[pos] = Archive!Value(b, l)
  BY <1>2, <1>3, <1>7 DEF Sent, Written
<1>9. ASSUME NEW d, d = Archive!Assigned(c, l, f[pos])
      PROVE  /\ Archive!Follow(d, l) = Archive!Follow(b, l)
             /\ Reading(b, d, f, Archive!Follow(b, l), span, result)
  <2>1. d = Archive!Assigned(c, l, Archive!Value(b, l))
    BY <1>8, <1>9
  <2>2. d \in BookType /\ Agree(d, b, Archive!Follow(b, l)) /\ Archive!Follow(d, l) = Archive!Follow(b, l)
    BY <1>1, <2>1, ReadIs
  <2>3. ~ Before(s, Archive!Follow(b, l))
    <3>1. CASE s = End(b)
      <4>1. Archive!Follow(b, l) \in AllPlaces(b)
        BY <1>1, Positions
      <4> QED
        BY <1>5, <3>1, <4>1, EndFacts, Trichotomy DEF AllPlaces
    <3>2. CASE s \in Archive!Places(b)
      <4>1. Past(b, Archive!Follow(b, l)) = Past(b, l) \cup {l}
        BY <1>1, Positions
      <4> QED
        BY <1>2, <1>4, <3>2, <4>1 DEF Past
    <3> QED
      BY <3>1, <3>2 DEF AllPlaces
  <2> QED
    BY <1>2, <2>2, <2>3 DEF Reading
<1> QED
  BY <1>1, <1>8, <1>9

LEMMA ReadAll ==
  ASSUME NEW b \in BookType, NEW c, NEW f, NEW l, NEW pos, NEW span \in Nat, NEW result, NEW result2,
         At(b, l, pos, span), Reading(b, c, f, l, span, result),
         Archive!AtEnd(c, l) \/ ~ (Archive!Width(l) <= span - pos),
         result2 = IF Archive!AtEnd(c, l) THEN pos ELSE 0
  PROVE  IF result # 0 /\ span >= result THEN result2 = result /\ c = b ELSE result2 = 0
<1>1. c \in BookType /\ Agree(c, b, l) /\ l \in AllPlaces(b) /\ pos = Position(b, l) /\ pos <= span
  BY DEF Reading, At
<1>2. PICK s \in AllPlaces(b) : Sent(b, f, s, span, result) /\ ~ Before(s, l)
  BY DEF Reading
<1>3. PICK total : total = Size(Archive!Places(b))
  OBVIOUS
<1>4. total \in Nat
  BY <1>3, EndPosition
<1>5. result = total \/ result = 0
  BY <1>2, <1>3 DEF Sent
<1>6. CASE l = End(b)
  <2>1. Archive!AtEnd(c, l) /\ c = b /\ result2 = total
    BY <1>1, <1>3, <1>6, AtEndAgrees, BookIs, EndPosition
  <2>2. s = End(b)
    BY <1>2, <1>6, EndFacts DEF AllPlaces
  <2>3. result = total
    BY <1>2, <1>3, <2>2 DEF Sent
  <2>4. pos = total /\ total <= span
    BY <1>1, <1>3, <1>6, EndPosition
  <2> QED
    BY <1>4, <2>1, <2>3, <2>4
<1>7. CASE l # End(b)
  <2>1. ~ Archive!AtEnd(c, l) /\ l \in Archive!Places(b)
    BY <1>1, <1>7, AtEndAgrees DEF AllPlaces
  <2>2. Position(b, l) \in Nat /\ Position(b, l) + Archive!Width(l) <= total /\ Archive!Width(l) \in 1..8
    BY <1>3, <2>1, Positions, WidthType
  <2>3. ~ (span >= total)
    BY <1>1, <1>4, <2>1, <2>2
  <2> QED
    BY <1>5, <2>1, <2>3
<1> QED
  BY <1>6, <1>7

BookInv ==
  /\ book \in BookType /\ room \in Nat /\ At(book, at, m_position, room)
  /\ pc \in {"serialize", "sent", "deserialize", "done"}
  /\ pc = "serialize" => Written(book, buffer, at)
  /\ pc = "sent" => Sent(book, buffer, at, room, ret)
  /\ pc = "deserialize" => Reading(book, book2, buffer, at, room, ret)
  /\ pc \in {"serialize", "sent"} => book2 = <<>>
  /\ Archive!RoundTrip

LEMMA AtStart ==
  ASSUME NEW b \in BookType, NEW span \in Nat
  PROVE  At(b, Archive!Start, 0, span) /\ Past(b, Archive!Start) = {}
  BY StartFacts, SizeOfNone DEF At, Position, AllPlaces

LEMMA AtNext ==
  ASSUME NEW b \in BookType, NEW l \in Archive!Places(b), NEW pos, NEW span \in Nat,
         At(b, l, pos, span), Archive!Width(l) <= span - pos
  PROVE  At(b, Archive!Follow(b, l), pos + Archive!Width(l), span)
<1>1. /\ Archive!Follow(b, l) \in AllPlaces(b) /\ pos = Position(b, l) /\ pos \in Nat
      /\ Position(b, Archive!Follow(b, l)) = Position(b, l) + Archive!Width(l)
      /\ Archive!Width(l) \in 1..8
  BY Positions, WidthType DEF At
<1> QED
  BY <1>1 DEF At

LEMMA BookStep == BookInv /\ Archive!Next => BookInv'
<1> SUFFICES ASSUME BookInv, Archive!Next
             PROVE  BookInv'
  OBVIOUS
<1>1. book \in BookType /\ room \in Nat /\ At(book, at, m_position, room)
  BY DEF BookInv
<1>2. CASE Archive!Write
  <2>1. /\ pc = "serialize" /\ pc' = pc /\ book' = book /\ book2' = book2 /\ room' = room
        /\ ~ Archive!AtEnd(book, at) /\ Archive!Width(at) <= room - m_position
        /\ m_position' = m_position + Archive!Width(at) /\ at' = Archive!Follow(book, at)
        /\ buffer' = [p \in DOMAIN buffer \cup {m_position} |->
                        IF p = m_position THEN Archive!Value(book, at) ELSE buffer[p]]
    BY <1>2 DEF Archive!Write, Archive!archive_trivially, Archive!Fits
  <2>2. at \in Archive!Places(book) /\ m_position = Position(book, at)
    BY <1>1, <2>1, EndFacts DEF At, AllPlaces
  <2>3. Written(book, buffer, at)
    BY <2>1 DEF BookInv
  <2>4. Written(book, buffer', Archive!Follow(book, at))
    BY <1>1, <2>1, <2>2, <2>3, WrittenOne
  <2>5. At(book, Archive!Follow(book, at), m_position + Archive!Width(at), room)
    BY <1>1, <2>1, <2>2, AtNext
  <2>6. Written(book', buffer', at') /\ At(book', at', m_position', room')
    BY <2>1, <2>4, <2>5
  <2>7. book2' = <<>>
    BY <2>1 DEF BookInv
  <2> QED
    BY <1>1, <2>1, <2>6, <2>7 DEF BookInv, Archive!RoundTrip
<1>3. CASE Archive!serialize
  <2>1. /\ pc = "serialize" /\ pc' = "sent" /\ book' = book /\ book2' = book2 /\ room' = room
        /\ m_position' = m_position /\ at' = at /\ buffer' = buffer
        /\ Archive!AtEnd(book, at) \/ ~ (Archive!Width(at) <= room - m_position)
        /\ ret' = IF Archive!AtEnd(book, at) THEN m_position ELSE 0
    BY <1>3 DEF Archive!serialize, Archive!Stops, Archive!Fits, Archive!Result
  <2>2. Written(book, buffer, at) /\ m_position = Position(book, at) /\ at \in AllPlaces(book)
    BY <1>1, <2>1 DEF BookInv, At
  <2>3. Archive!AtEnd(book, at) <=> at = End(book)
    BY <1>1, <2>2, EndFacts DEF AllPlaces
  <2>4. Sent(book, buffer, at, room, ret')
    <3>1. CASE at = End(book)
      BY <1>1, <2>1, <2>2, <2>3, <3>1, EndPosition DEF Sent
    <3>2. CASE at # End(book)
      <4>1. Position(book, at) \in Nat /\ Archive!Width(at) \in 1..8
        BY <1>1, <2>2, <3>2, Positions, WidthType DEF AllPlaces
      <4>2. Position(book, at) + Archive!Width(at) > room
        BY <1>1, <2>1, <2>2, <2>3, <3>2, <4>1
      <4> QED
        BY <2>1, <2>2, <2>3, <3>2, <4>2 DEF Sent
    <3> QED
      BY <3>1, <3>2
  <2>5. Sent(book', buffer', at', room', ret') /\ At(book', at', m_position', room')
    BY <1>1, <2>1, <2>4
  <2>6. book2' = <<>>
    BY <2>1 DEF BookInv
  <2> QED
    BY <1>1, <2>1, <2>5, <2>6 DEF BookInv, Archive!RoundTrip
<1>4. CASE Archive!Receive
  <2>1. PICK received \in 0..room :
          /\ pc = "sent" /\ pc' = "deserialize" /\ book' = book /\ book2' = book2
          /\ room' = received /\ m_position' = 0 /\ at' = Archive!Start /\ buffer' = buffer
          /\ ret' = ret
    BY <1>4 DEF Archive!Receive, Archive!Open
  <2>2. Sent(book, buffer, at, room, ret) /\ book2 = <<>>
    BY <2>1 DEF BookInv
  <2>3. received \in Nat /\ received <= room
    BY <1>1
  <2>4. Sent(book, buffer, at, received, ret) /\ at \in AllPlaces(book)
    <3>1. CASE at = End(book)
      BY <1>1, <2>2, <3>1 DEF Sent, At
    <3>2. CASE at # End(book)
      <4>1. Position(book, at) \in Nat /\ Archive!Width(at) \in 1..8
        BY <1>1, <3>2, Positions, WidthType DEF AllPlaces, At
      <4>2. ret = 0 /\ Position(book, at) + Archive!Width(at) > room
        BY <2>2, <3>2 DEF Sent
      <4>3. Position(book, at) + Archive!Width(at) > received
        BY <1>1, <2>3, <4>1, <4>2
      <4> QED
        BY <1>1, <2>2, <3>2, <4>2, <4>3 DEF Sent, At
    <3> QED
      BY <3>1, <3>2
  <2>5. At(book, Archive!Start, 0, received) /\ Past(book, Archive!Start) = {}
    BY <1>1, <2>3, AtStart
  <2>6. ~ Before(at, Archive!Start)
    <3>1. at \in Tuples /\ Archive!Start \in Tuples
      BY <1>1, <2>4, <2>5, PlaceTuples DEF At
    <3> QED
      BY <1>1, <2>4, <3>1, StartFacts, Trichotomy
  <2>7. book2 \in BookType
    BY <2>2, EmptySeq DEF BookType
  <2>8. Reading(book, book2, buffer, Archive!Start, received, ret)
    BY <2>4, <2>5, <2>6, <2>7 DEF Reading, Agree
  <2>9. Reading(book', book2', buffer', at', room', ret') /\ At(book', at', m_position', room')
    BY <2>1, <2>5, <2>8
  <2> QED
    BY <1>1, <2>1, <2>3, <2>9 DEF BookInv, Archive!RoundTrip
<1>5. CASE Archive!Read
  <2>1. PICK d : d = Archive!Assigned(book2, at, buffer[m_position])
    OBVIOUS
  <2>2. /\ pc = "deserialize" /\ pc' = pc /\ book' = book /\ book2' = d /\ room' = room
        /\ ~ Archive!AtEnd(book2, at) /\ Archive!Width(at) <= room - m_position
        /\ m_position' = m_position + Archive!Width(at) /\ at' = Archive!Follow(d, at)
        /\ buffer' = buffer /\ ret' = ret
    BY <1>5, <2>1 DEF Archive!Read, Archive!archive_trivially, Archive!Fits
  <2>3. Reading(book, book2, buffer, at, room, ret)
    BY <2>2 DEF BookInv
  <2>4. /\ at \in Archive!Places(book)
        /\ Archive!Follow(d, at) = Archive!Follow(book, at)
        /\ Reading(book, d, buffer, Archive!Follow(book, at), room, ret)
    BY <1>1, <2>1, <2>2, <2>3, ReadOne
  <2>5. At(book, Archive!Follow(book, at), m_position + Archive!Width(at), room)
    BY <1>1, <2>2, <2>4, AtNext
  <2>6. Reading(book', book2', buffer', at', room', ret') /\ At(book', at', m_position', room')
    BY <2>2, <2>4, <2>5
  <2> QED
    BY <1>1, <2>2, <2>6 DEF BookInv, Archive!RoundTrip
<1>6. CASE Archive!deserialize
  <2>1. /\ pc = "deserialize" /\ pc' = "done" /\ book' = book /\ book2' = book2 /\ room' = room
        /\ m_position' = m_position /\ at' = at /\ buffer' = buffer /\ ret' = ret
        /\ Archive!AtEnd(book2, at) \/ ~ (Archive!Width(at) <= room - m_position)
        /\ ret2' = IF Archive!AtEnd(book2, at) THEN m_position ELSE 0
    BY <1>6 DEF Archive!deserialize, Archive!Stops, Archive!Fits, Archive!Result
  <2>2. Reading(book, book2, buffer, at, room, ret)
    BY <2>1 DEF BookInv
  <2>3. IF ret # 0 /\ room >= ret THEN ret2' = ret /\ book2 = book ELSE ret2' = 0
    BY <1>1, <2>1, <2>2, ReadAll
  <2>4. At(book', at', m_position', room')
    BY <1>1, <2>1
  <2> QED
    BY <1>1, <2>1, <2>3, <2>4 DEF BookInv, Archive!RoundTrip
<1> QED
  BY <1>2, <1>3, <1>4, <1>5, <1>6 DEF Archive!Next

\* What the invariant says of the span and of serialize().
LEMMA BookInvImplies == BookInv => Archive!InsideSpan /\ Archive!WritesOrFails /\ Archive!RoundTrip
<1> SUFFICES ASSUME BookInv
             PROVE  Archive!InsideSpan /\ Archive!WritesOrFails
  BY DEF BookInv
<1>1. book \in BookType /\ room \in Nat /\ At(book, at, m_position, room)
  BY DEF BookInv
<1>2. m_position <= room
  BY <1>1 DEF At
<1>3. ASSUME pc = "deserialize", ~ Archive!Stops(book2)
      PROVE  m_position \in DOMAIN buffer
  <2>1. Reading(book, book2, buffer, at, room, ret)
    BY <1>3 DEF BookInv
  <2>2. ~ Archive!AtEnd(book2, at) /\ Archive!Width(at) <= room - m_position
    BY <1>3 DEF Archive!Stops, Archive!Fits
  <2> QED
    BY <1>1, <2>1, <2>2, ReadOne
<1>4. ASSUME pc = "sent"
      PROVE  ret = IF Archive!BookBytes(book) <= room THEN Archive!BookBytes(book) ELSE 0
  <2>1. Sent(book, buffer, at, room, ret)
    BY <1>4 DEF BookInv
  <2>2. PICK total : total = Size(Archive!Places(book))
    OBVIOUS
  <2>3. total \in Nat /\ total = Archive!BookBytes(book)
    BY <1>1, <2>2, EndPosition, BookBytesIs
  <2>4. CASE at = End(book)
    <3>1. ret = total /\ m_position = total
      BY <1>1, <2>1, <2>2, <2>4, EndPosition DEF Sent, At
    <3> QED
      BY <1>2, <2>3, <3>1
  <2>5. CASE at # End(book)
    <3>1. Position(book, at) \in Nat /\ Archive!Width(at) \in 1..8
          /\ Position(book, at) + Archive!Width(at) <= total
      BY <1>1, <2>2, <2>5, Positions, WidthType DEF At, AllPlaces
    <3>2. ret = 0 /\ Position(book, at) + Archive!Width(at) > room
      BY <2>1, <2>5 DEF Sent
    <3> QED
      BY <1>1, <2>3, <3>1, <3>2
  <2> QED
    BY <2>4, <2>5
<1> QED
  BY <1>2, <1>3, <1>4 DEF Archive!InsideSpan, Archive!WritesOrFails

\* serialization.cxx: no part is written or read outside of the span, and none
\* is read that was not written; serialize() fails exactly when the book does not
\* fit; deserialize() of all its bytes gives the book back, and of fewer fails.
THEOREM ArchiveCorrect == Spec => []ArchiveRoundTrip
<1> DEFINE IInv == class = "archive" => BookInv
<1>1. Init => IInv
  <2> SUFFICES ASSUME Init, class = "archive"
               PROVE  BookInv
    OBVIOUS
  <2>1. /\ book \in Archive!Books /\ book2 = <<>> /\ room \in 0..MaxRoom /\ m_position = 0
        /\ at = Archive!Start /\ buffer = <<>> /\ pc = "serialize"
    BY DEF Init, Archive!Init
  <2>2. book \in BookType /\ room \in Nat
    BY <2>1, BooksAreTyped
  <2>3. At(book, at, m_position, room) /\ Past(book, at) = {}
    BY <2>1, <2>2, AtStart
  <2>4. Written(book, buffer, at)
    <3>1. DOMAIN buffer = {}
      BY <2>1
    <3> QED
      BY <2>3, <3>1 DEF Written
  <2> QED
    BY <2>1, <2>2, <2>3, <2>4 DEF BookInv, Archive!RoundTrip
<1>2. IInv /\ [Next]_vars => IInv'
  <2> SUFFICES ASSUME class = "archive", BookInv, Archive!Next \/ UNCHANGED Archive!vars
               PROVE  BookInv'
    BY ArchiveSteps
  <2>1. CASE Archive!Next
    BY <2>1, BookStep
  <2>2. CASE UNCHANGED Archive!vars
    <3>1. /\ book' = book /\ book2' = book2 /\ room' = room /\ m_position' = m_position /\ at' = at
          /\ buffer' = buffer /\ ret' = ret /\ ret2' = ret2 /\ pc' = pc
      BY <2>2 DEF Archive!vars
    <3> QED
      BY <3>1 DEF BookInv, Archive!RoundTrip
  <2> QED
    BY <2>1, <2>2
<1>3. IInv => ArchiveRoundTrip
  BY BookInvImplies DEF ArchiveRoundTrip
<1> QED
  BY <1>1, <1>2, <1>3, PTL DEF Spec
=============================================================================
