------------------------- MODULE MCLockless_proofs -------------------------
(***************************************************************************)
(* What the lock-free containers keep, for any threads, addresses and      *)
(* number of pushes.                                                       *)
(*                                                                         *)
(* The stack.  head leads along the pointers over distinct nodes to null   *)
(* (Path); a pusher's node is on no other list (PushersOwn).  A popper     *)
(* that took a node has it alone until it deletes it (PopperHas), and what *)
(* another looks at is, as long as it was not deleted, on the stack or     *)
(* taken, and its pointer stays (PopperSees): this is why compare_exchange *)
(* may trust a pointer that it only compares, unless the node is stale.  A *)
(* pusher that succeeds puts its node before the path, a popper takes the  *)
(* first.                                                                  *)
(*                                                                         *)
(* The queue.  The order in which line 28 moves tail is fixed then: a link *)
(* is made, or about to be made, between each node and the next (Linked),  *)
(* and is right (LinksRight).  head goes along it, and what was taken lies *)
(* behind.                                                                 *)
(***************************************************************************)
EXTENDS MCLockless, FiniteSetTheorems, SequenceTheorems, WellFoundedInduction, TLAPS

(* Paths *)

Capacity == Cardinality(Addresses)

\* f leads along the pointers nx from h over n addresses to null.
Path(f, n, h, nx) ==
  /\ n \in 0..Capacity /\ f \in [0..Capacity -> Addresses \cup {0}] /\ f[0] = h
  /\ \A i \in 0..Capacity : f[i] # 0 <=> i < n
  /\ \A i \in 0..Capacity : i < n => f[i + 1] = nx[f[i]]
  /\ \A i, j \in 0..Capacity : i < n /\ f[i] = f[j] => i = j

IsPath(f, n) == \E h, nx : Path(f, n, h, nx)

On(f) == {a \in Addresses : \E i \in 0..Capacity : f[i] = a}

LEMMA StackConstants ==
  /\ Pushers \cap Poppers = {} /\ StackPushes \in Nat
  /\ Addresses \subseteq Nat \ {0} /\ IsFiniteSet(Addresses) /\ Capacity \in Nat
  /\ Stack!Cardinality(Addresses) = Capacity /\ Stack!null = 0
<1>1. /\ Pushers \cap Poppers = {} /\ StackPushes \in Nat
      /\ Addresses \subseteq Nat \ {0} /\ IsFiniteSet(Addresses)
  BY Constants DEF Stack!LocklessStackAssumption, Stack!IsFiniteSet, IsFiniteSet
<1>2. Stack!Cardinality(Addresses) = Cardinality(Addresses)
  BY DEF Stack!Cardinality, Cardinality
<1> QED
  BY <1>1, <1>2, FS_CardinalityType DEF Stack!null, Capacity

\* A set of numbers below m that has one number has a least one.
LEMMA LeastBelow ==
  ASSUME NEW m \in Nat, NEW S \in SUBSET (0..m), S # {}
  PROVE  \E i \in S : \A j \in S : i <= j
<1>1. PICK i \in S : \A j \in S : ~ (<<j, i>> \in OpToRel(<, Nat))
  <2>1. S \subseteq Nat
    OBVIOUS
  <2> QED
    BY <2>1, NatLessThanWellFounded, WFMin
<1>2. ASSUME NEW j \in S, ~ (i <= j) PROVE FALSE
  <2>1. i \in Nat /\ j \in Nat /\ j < i
    BY <1>2
  <2>2. <<j, i>> \in OpToRel(<, Nat)
    BY <2>1 DEF OpToRel
  <2> QED
    BY <1>1, <2>2
<1> QED
  BY <1>2

\* The chain of the stack is the only path.
LEMMA WalkIs ==
  ASSUME NEW f, NEW n, NEW h, NEW nx, Path(f, n, h, nx)
  PROVE  Stack!Walk(h, nx) = f
<1> DEFINE E(g) == [i \in 0..Capacity |->
                      IF i = 0 THEN h ELSE IF g[i - 1] = 0 THEN 0 ELSE nx[g[i - 1]]]
<1> DEFINE w == CHOOSE g : g = E(g)
<1>1. Stack!Walk(h, nx) = w
  BY StackConstants DEF Stack!Walk
<1>2. f = E(f)
  <2>1. \A i \in 0..Capacity : f[i] = E(f)[i]
    BY StackConstants DEF Path
  <2> QED
    BY <2>1 DEF Path
<1>3. w = E(w)
  <2> HIDE DEF E
  <2> QED
    BY <1>2, Zenon
<1> HIDE DEF w
<1>4. ASSUME NEW i \in 0..Capacity, w[i] # f[i] PROVE FALSE
  <2> DEFINE S == {j \in 0..Capacity : w[j] # f[j]}
  <2>1. i \in S /\ S \in SUBSET (0..Capacity)
    BY <1>4
  <2>2. PICK m \in S : \A j \in S : m <= j
    <3> HIDE DEF S
    <3> QED
      BY <2>1, LeastBelow, StackConstants
  <2>3. m \in 0..Capacity /\ w[m] = E(w)[m] /\ f[m] = E(f)[m] /\ w[m] # f[m]
    BY <1>2, <1>3, <2>2
  <2>4. m # 0
    BY <2>3
  <2>5. m - 1 \in 0..Capacity /\ w[m - 1] = f[m - 1]
    BY <2>2, <2>3, <2>4, StackConstants
  <2> QED
    BY <2>3, <2>4, <2>5
<1>5. w = [i \in 0..Capacity |-> w[i]] /\ f = [i \in 0..Capacity |-> f[i]]
  BY <1>2, <1>3
<1> QED
  BY <1>1, <1>4, <1>5

LEMMA PathSame ==
  ASSUME NEW f, NEW n, NEW h, NEW nx, Path(f, n, h, nx), NEW ny, \A a \in On(f) : ny[a] = nx[a]
  PROVE  Path(f, n, h, ny)
<1>1. ASSUME NEW i \in 0..Capacity, i < n PROVE f[i] \in On(f)
  BY <1>1, StackConstants DEF Path, On
<1>2. \A i \in 0..Capacity : i < n => f[i + 1] = ny[f[i]]
  BY <1>1 DEF Path
<1> QED
  BY <1>2 DEF Path

\* A path leaves room for the addresses that are not on it.
LEMMA PathLength ==
  ASSUME NEW f, NEW n, NEW h, NEW nx, Path(f, n, h, nx), NEW x \in Addresses \ On(f)
  PROVE  n + 1 \in 0..Capacity
<1> DEFINE e == [i \in 1..n + 1 |-> IF i = n + 1 THEN x ELSE f[i - 1]]
<1>1. n \in Nat /\ n <= Capacity
  BY StackConstants DEF Path
<1>2. ASSUME NEW i \in 1..n
      PROVE  /\ i - 1 \in 0..Capacity /\ i - 1 < n /\ f[i - 1] \in Addresses
             /\ f[i - 1] \in On(f) /\ f[i - 1] # x /\ e[i] = f[i - 1]
  <2>1. i - 1 \in 0..Capacity /\ i - 1 < n /\ i \in 1..n + 1 /\ i # n + 1
    BY <1>1, StackConstants
  <2>2. f[i - 1] \in Addresses
    BY <2>1 DEF Path
  <2> QED
    BY <2>1, <2>2 DEF On
<1>3. n + 1 \in 1..n + 1 /\ e[n + 1] = x /\ \A i \in 1..n + 1 : i \in 1..n \/ i = n + 1
  BY <1>1
<1>4. e \in [1..n + 1 -> Addresses]
  BY <1>2, <1>3
<1>5. ASSUME NEW i \in 1..n + 1, NEW j \in 1..n + 1, e[i] = e[j] PROVE i = j
  <2>1. CASE i \in 1..n /\ j \in 1..n
    <3>1. i - 1 = j - 1
      BY <1>2, <1>5, <2>1 DEF Path
    <3> QED
      BY <3>1, <1>1
  <2> QED
    BY <1>2, <1>3, <1>5, <2>1
<1> HIDE DEF e
<1>6. e \in Injection(1..n + 1, Addresses)
  BY <1>4, <1>5 DEF Injection, IsInjective
<1>7. Cardinality(1..n + 1) = n + 1
  BY <1>1, FS_Interval
<1>8. Cardinality(1..n + 1) <= Cardinality(Addresses)
  BY <1>6, FS_Injection, StackConstants
<1> QED
  BY <1>1, <1>7, <1>8, StackConstants DEF Capacity

LEMMA PathPush ==
  ASSUME NEW f, NEW n, NEW h, NEW nx, Path(f, n, h, nx), NEW x \in Addresses \ On(f), nx[x] = h
  PROVE  \E g : /\ Path(g, n + 1, x, nx) /\ On(g) = On(f) \cup {x}
                /\ \A i \in 0..n : g[i] = IF i = 0 THEN x ELSE f[i - 1]
<1> DEFINE g == [i \in 0..Capacity |-> IF i = 0 THEN x ELSE f[i - 1]]
<1>1. n \in Nat /\ n + 1 \in 0..Capacity /\ n \in 0..Capacity /\ 0 \in 0..Capacity
  <2>1. n + 1 \in 0..Capacity
    BY PathLength
  <2>2. n \in 0..Capacity
    BY DEF Path
  <2> QED
    BY <2>1, <2>2, StackConstants
<1>2. g[0] = x /\ x # 0 /\ f[0] = h
  BY <1>1, StackConstants DEF Path
<1>3. ASSUME NEW i \in 0..Capacity, i # 0
      PROVE  g[i] = f[i - 1] /\ i - 1 \in 0..Capacity /\ i = (i - 1) + 1
  BY <1>3, StackConstants
<1>4. \A i \in 0..Capacity : f[i] \in Addresses \cup {0} /\ f[i] # x
  BY <1>2 DEF Path, On
<1>5. g \in [0..Capacity -> Addresses \cup {0}]
  BY <1>3, <1>4, StackConstants DEF Path
<1> HIDE DEF g
<1>6. ASSUME NEW i \in 0..Capacity PROVE g[i] # 0 <=> i < n + 1
  <2>1. CASE i = 0
    BY <1>1, <1>2, <2>1
  <2>2. CASE i # 0
    <3>1. g[i] # 0 <=> i - 1 < n
      BY <1>3, <2>2 DEF Path
    <3> QED
      BY <1>1, <3>1, StackConstants
  <2> QED
    BY <2>1, <2>2
<1>7. ASSUME NEW i \in 0..Capacity, i < n + 1 PROVE g[i + 1] = nx[g[i]]
  <2>1. i + 1 \in 0..Capacity /\ i + 1 # 0 /\ (i + 1) - 1 = i
    BY <1>1, <1>7, StackConstants
  <2>2. g[i + 1] = f[i]
    BY <2>1 DEF g
  <2>3. CASE i = 0
    BY <1>2, <2>2, <2>3
  <2>4. CASE i # 0
    <3>1. i - 1 < n /\ f[(i - 1) + 1] = f[i]
      BY <1>1, <1>3, <1>7, <2>4, StackConstants
    <3>2. f[(i - 1) + 1] = nx[f[i - 1]]
      BY <1>3, <2>4, <3>1 DEF Path
    <3> QED
      BY <1>3, <2>2, <2>4, <3>1, <3>2
  <2> QED
    BY <2>3, <2>4
<1>8. ASSUME NEW i \in 0..Capacity, NEW j \in 0..Capacity, i < n + 1, g[i] = g[j] PROVE i = j
  <2>1. CASE i = 0 \/ j = 0
    BY <1>2, <1>3, <1>4, <1>8, <2>1
  <2>2. CASE i # 0 /\ j # 0
    <3>1. i - 1 < n /\ f[i - 1] = f[j - 1]
      BY <1>1, <1>3, <1>8, <2>2, StackConstants
    <3>2. i - 1 = j - 1
      BY <1>3, <2>2, <3>1 DEF Path
    <3> QED
      BY <3>2, StackConstants
  <2> QED
    BY <2>1, <2>2
<1>9. Path(g, n + 1, x, nx)
  BY <1>1, <1>2, <1>5, <1>6, <1>7, <1>8 DEF Path
<1>10. On(g) = On(f) \cup {x}
  <2>1. ASSUME NEW a \in On(g) PROVE a \in On(f) \cup {x}
    <3>1. PICK i \in 0..Capacity : g[i] = a
      BY DEF On
    <3> QED
      BY <1>2, <1>3, <3>1 DEF On
  <2>2. ASSUME NEW a \in On(f) PROVE a \in On(g)
    <3>1. PICK i \in 0..Capacity : f[i] = a /\ a # 0
      BY StackConstants DEF On
    <3>2. i < n
      BY <3>1 DEF Path
    <3>3. i + 1 \in 0..Capacity /\ g[i + 1] = f[i]
      BY <1>1, <3>2, StackConstants DEF g
    <3> QED
      BY <3>1, <3>3 DEF On
  <2>3. x \in On(g)
    BY <1>1, <1>2 DEF On
  <2> QED
    BY <2>1, <2>2, <2>3
<1>11. \A i \in 0..n : g[i] = IF i = 0 THEN x ELSE f[i - 1]
  <2>1. \A i \in 0..n : i \in 0..Capacity
    BY <1>1, StackConstants
  <2> QED
    BY <2>1 DEF g
<1> QED
  BY <1>9, <1>10, <1>11

LEMMA PathPop ==
  ASSUME NEW f, NEW n, NEW h, NEW nx, Path(f, n, h, nx), h # 0
  PROVE  /\ h \in On(f) /\ n \in Nat \ {0}
         /\ \E g : /\ Path(g, n - 1, nx[h], nx) /\ On(g) = On(f) \ {h}
                   /\ \A i \in 0..(n - 1) : g[i] = f[i + 1]
<1> DEFINE g == [i \in 0..Capacity |-> IF i = Capacity THEN 0 ELSE f[i + 1]]
<1>1. 0 \in 0..Capacity /\ n \in Nat /\ n <= Capacity /\ f[0] = h /\ 0 < n
  BY StackConstants DEF Path
<1>2. h \in On(f)
  BY <1>1 DEF Path, On
<1>3. ASSUME NEW i \in 0..Capacity, i # Capacity
      PROVE  g[i] = f[i + 1] /\ i + 1 \in 0..Capacity
  BY <1>3, StackConstants
<1>4. g[Capacity] = 0 /\ Capacity \in 0..Capacity
  BY StackConstants
<1>5. g \in [0..Capacity -> Addresses \cup {0}]
  BY <1>3, StackConstants DEF Path
<1> HIDE DEF g
<1>6. g[0] = nx[h]
  <2>1. 0 # Capacity /\ g[0] = f[0 + 1]
    BY <1>1, <1>3, StackConstants
  <2> QED
    BY <1>1, <2>1 DEF Path
<1>7. ASSUME NEW i \in 0..Capacity PROVE g[i] # 0 <=> i < n - 1
  <2>1. CASE i = Capacity
    BY <1>1, <1>4, <2>1, StackConstants
  <2>2. CASE i # Capacity
    <3>1. g[i] # 0 <=> i + 1 < n
      BY <1>3, <2>2 DEF Path
    <3> QED
      BY <1>1, <3>1, StackConstants
  <2> QED
    BY <2>1, <2>2
<1>8. ASSUME NEW i \in 0..Capacity, i < n - 1 PROVE g[i + 1] = nx[g[i]]
  <2>1. i # Capacity /\ i + 1 \in 0..Capacity /\ i + 1 < n /\ i + 1 # Capacity
    BY <1>1, <1>8, StackConstants
  <2>2. g[i] = f[i + 1] /\ g[i + 1] = f[(i + 1) + 1]
    BY <1>3, <2>1
  <2> QED
    BY <2>1, <2>2 DEF Path
<1>9. ASSUME NEW i \in 0..Capacity, NEW j \in 0..Capacity, i < n - 1, g[i] = g[j] PROVE i = j
  <2>1. i # Capacity /\ i + 1 \in 0..Capacity /\ i + 1 < n
    BY <1>1, <1>9, StackConstants
  <2>2. j # Capacity
    BY <1>4, <1>7, <1>9
  <2>3. f[i + 1] = f[j + 1] /\ j + 1 \in 0..Capacity
    BY <1>3, <1>9, <2>1, <2>2
  <2>4. i + 1 = j + 1
    BY <2>1, <2>3 DEF Path
  <2> QED
    BY <2>4, StackConstants
<1>10. n - 1 \in 0..Capacity
  BY <1>1, StackConstants
<1>11. Path(g, n - 1, nx[h], nx)
  BY <1>5, <1>6, <1>7, <1>8, <1>9, <1>10 DEF Path
<1>12. On(g) = On(f) \ {h}
  <2>1. ASSUME NEW a \in On(g) PROVE a \in On(f) /\ a # h
    <3>1. PICK i \in 0..Capacity : g[i] = a /\ a # 0
      BY StackConstants DEF On
    <3>2. i # Capacity
      BY <1>4, <3>1
    <3>3. f[i + 1] = a /\ i + 1 \in 0..Capacity /\ i + 1 # 0
      BY <1>3, <3>1, <3>2, StackConstants
    <3>4. a # h
      BY <1>1, <3>3 DEF Path
    <3> QED
      BY <3>3, <3>4 DEF On
  <2>2. ASSUME NEW a \in On(f), a # h PROVE a \in On(g)
    <3>1. PICK i \in 0..Capacity : f[i] = a
      BY DEF On
    <3>2. i # 0
      BY <1>1, <2>2, <3>1
    <3>3. i - 1 \in 0..Capacity /\ i - 1 # Capacity /\ (i - 1) + 1 = i
      BY <3>2, StackConstants
    <3>4. g[i - 1] = a
      BY <1>3, <3>1, <3>3
    <3> QED
      BY <3>3, <3>4 DEF On
  <2> QED
    BY <2>1, <2>2
<1>13. \A i \in 0..(n - 1) : g[i] = f[i + 1]
  <2> SUFFICES ASSUME NEW i \in 0..(n - 1) PROVE g[i] = f[i + 1]
    OBVIOUS
  <2>1. i \in 0..Capacity /\ i # Capacity
    BY <1>1, StackConstants
  <2> QED
    BY <1>3, <2>1
<1> QED
  BY <1>1, <1>2, <1>11, <1>12, <1>13

-----------------------------------------------------------------------------
(* The stack *)

StackTypes ==
  /\ s_head \in Addresses \cup {0} /\ s_live \in SUBSET Addresses
  /\ s_next \in [Addresses -> Addresses \cup {0}] /\ s_data \in [Addresses -> 0..StackPushes]
  /\ s_pc \in [Stack!Threads ->
       {"idle", "load", "link", "cas", "test", "next", "data", "delete"}]
  /\ s_shadow \in [Stack!Threads -> Addresses \cup {0}]
  /\ s_node \in [Stack!Threads -> Addresses \cup {0}]
  /\ s_val \in [Poppers -> 0..StackPushes] /\ s_pushes \in 0..StackPushes

\* The nodes on the stack.
Stacked == On(Stack!chain)

\* A pusher's node is its own until it is on the stack.
PushersOwn ==
  \A p \in Pushers :
    /\ s_pc[p] \in {"idle", "load", "link", "cas"}
    /\ s_pc[p] \in {"load", "link", "cas"} =>
         /\ s_node[p] \in s_live \ Stacked
         /\ \A q \in Pushers : q # p /\ s_pc[q] \in {"load", "link", "cas"} => s_node[q] # s_node[p]
    /\ s_pc[p] = "cas" => s_next[s_node[p]] = s_shadow[p]

\* The nodes that a popper took and has not deleted.
Taken ==
  {a \in Addresses : \E d \in Poppers : s_pc[d] \in {"data", "delete"} /\ s_shadow[d] = a}

\* What a popper takes belongs to nobody else.
PopperHas ==
  \A c \in Poppers :
    /\ s_pc[c] \in {"idle", "test", "next", "cas", "data", "delete"}
    /\ s_pc[c] \in {"data", "delete"} =>
         /\ s_shadow[c] \in s_live \ Stacked
         /\ \A p \in Pushers : s_pc[p] \in {"load", "link", "cas"} => s_node[p] # s_shadow[c]
         /\ \A d \in Poppers :
              d # c /\ s_pc[d] \in {"data", "delete"} => s_shadow[d] # s_shadow[c]

\* What a popper looks at stays where it is, with its pointer, until somebody
\* takes it, and then until it is deleted.
PopperSees ==
  \A c \in Poppers : c \notin s_stale =>
    /\ s_pc[c] = "test" => s_shadow[c] \in Stacked \cup Taken \cup {0}
    /\ s_pc[c] \in {"next", "cas"} => s_shadow[c] \in Stacked \cup Taken
    /\ s_pc[c] = "cas" => s_node[c] = s_next[s_shadow[c]]

StackPath ==
  /\ \E n \in Nat : Path(Stack!chain, n, s_head, s_next)
  /\ Stacked \subseteq s_live

StackInv == StackTypes /\ StackPath /\ PushersOwn /\ PopperHas /\ PopperSees

LEMMA StackThreads ==
  /\ \A p \in Pushers : p \in Stack!Threads /\ p \notin Poppers
  /\ \A c \in Poppers : c \in Stack!Threads /\ c \notin Pushers
BY StackConstants DEF Stack!Threads

LEMMA StackStart == Stack!Init => StackInv
<1> SUFFICES ASSUME Stack!Init PROVE StackInv
  OBVIOUS
<1> DEFINE f == [i \in 0..Capacity |-> 0]
<1>1. Path(f, 0, s_head, s_next)
  BY StackConstants DEF Path, Stack!Init
<1>2. Stack!chain = f
  BY <1>1, WalkIs DEF Stack!chain
<1>3. Stacked = {}
  BY <1>2, StackConstants DEF Stacked, On
<1>4. StackTypes
  BY StackConstants DEF Stack!Init, StackTypes
<1>5. StackPath
  BY <1>1, <1>2, <1>3 DEF StackPath
<1>6. PushersOwn /\ PopperHas /\ PopperSees
  BY StackThreads DEF Stack!Init, PushersOwn, PopperHas, PopperSees
<1> QED
  BY <1>4, <1>5, <1>6 DEF StackInv

\* Steps that change pointers of no node on the stack and leave head alone.
LEMMA StackSame ==
  ASSUME StackInv, s_head' = s_head, \A a \in Stacked : s_next'[a] = s_next[a]
  PROVE  /\ Stack!chain' = Stack!chain /\ Stacked' = Stacked
         /\ \E n \in Nat : Path(Stack!chain', n, s_head', s_next')
<1>1. PICK n \in Nat : Path(Stack!chain, n, s_head, s_next)
  BY DEF StackInv, StackPath
<1>2. Path(Stack!chain, n, s_head', s_next')
  BY <1>1, PathSame DEF Stacked
<1>3. Stack!Walk(s_head', s_next') = Stack!chain
  BY <1>2, WalkIs
<1>4. Stack!chain' = Stack!chain
  BY <1>3 DEF Stack!chain
<1>5. Stacked' = Stacked
  BY <1>4 DEF Stacked, On
<1> QED
  BY <1>2, <1>4, <1>5

LEMMA TakenSame ==
  ASSUME \A d \in Poppers : s_pc'[d] = s_pc[d] /\ s_shadow'[d] = s_shadow[d]
  PROVE  Taken' = Taken
BY DEF Taken

LEMMA StackNew ==
  ASSUME StackInv, NEW p \in Pushers, Stack!PushNew(p)
  PROVE  /\ StackInv' /\ Stack!chain' = Stack!chain
         /\ \A a \in s_live : s_data'[a] = s_data[a]
<1>1. PICK a \in Addresses \ s_live :
        /\ s_live' = s_live \cup {a} /\ s_node' = [s_node EXCEPT ![p] = a]
        /\ s_data' = [s_data EXCEPT ![a] = s_pushes + 1]
  BY DEF Stack!PushNew
<1>2. /\ s_pushes < StackPushes /\ s_pushes' = s_pushes + 1
      /\ s_pc[p] = "idle" /\ s_pc' = [s_pc EXCEPT ![p] = "load"]
      /\ UNCHANGED <<s_head, s_next, s_shadow, s_val, s_stale>>
  BY DEF Stack!PushNew, Stack!Goto
<1>3. /\ Stack!chain' = Stack!chain /\ Stacked' = Stacked
      /\ \E n \in Nat : Path(Stack!chain', n, s_head', s_next')
  BY <1>2, StackSame
<1>4. s_pushes + 1 \in 0..StackPushes /\ s_pushes' \in 0..StackPushes
  BY <1>2, StackConstants DEF StackInv, StackTypes
<1>5. StackTypes'
  BY <1>1, <1>2, <1>4 DEF StackInv, StackTypes
<1>6. /\ s_pc'[p] = "load" /\ s_node'[p] = a /\ a \notin Stacked
      /\ \A t \in Stack!Threads \ {p} : s_pc'[t] = s_pc[t] /\ s_node'[t] = s_node[t]
  BY <1>1, <1>2, StackThreads DEF StackInv, StackTypes, StackPath
<1>7. PushersOwn'
  BY <1>1, <1>2, <1>3, <1>6, StackThreads DEF StackInv, PushersOwn
<1>8. PopperHas'
  BY <1>1, <1>2, <1>3, <1>6, StackThreads DEF StackInv, PopperHas
<1>9. StackPath'
  BY <1>1, <1>3 DEF StackInv, StackPath
<1>10. \A b \in s_live : s_data'[b] = s_data[b]
  BY <1>1 DEF StackInv, StackTypes
<1>11. \A d \in Poppers :
         s_pc'[d] = s_pc[d] /\ s_shadow'[d] = s_shadow[d] /\ s_node'[d] = s_node[d]
  BY <1>2, <1>6, StackThreads
<1>12. PopperSees'
  BY <1>2, <1>3, <1>11, TakenSame DEF StackInv, PopperSees
<1> QED
  BY <1>3, <1>5, <1>7, <1>8, <1>9, <1>10, <1>12 DEF StackInv

LEMMA StackLoad ==
  ASSUME StackInv, NEW p \in Pushers, Stack!PushLoad(p)
  PROVE  StackInv' /\ Stack!chain' = Stack!chain
<1>1. /\ s_pc[p] \in {"load", "cas"} /\ s_pc' = [s_pc EXCEPT ![p] = "link"]
      /\ s_shadow' = [s_shadow EXCEPT ![p] = s_head]
      /\ UNCHANGED <<s_head, s_live, s_next, s_data, s_node, s_val, s_pushes, s_stale>>
  BY DEF Stack!PushLoad, Stack!Goto
<1>2. /\ Stack!chain' = Stack!chain /\ Stacked' = Stacked
      /\ \E n \in Nat : Path(Stack!chain', n, s_head', s_next')
  BY <1>1, StackSame
<1>3. StackTypes'
  BY <1>1 DEF StackInv, StackTypes
<1>4. /\ s_pc'[p] = "link"
      /\ \A t \in Stack!Threads \ {p} : s_pc'[t] = s_pc[t] /\ s_shadow'[t] = s_shadow[t]
  BY <1>1, StackThreads DEF StackInv, StackTypes
<1>5. PushersOwn'
  BY <1>1, <1>2, <1>4, StackThreads DEF StackInv, PushersOwn
<1>6. PopperHas'
  BY <1>1, <1>2, <1>4, StackThreads DEF StackInv, PopperHas
<1>7. StackPath'
  BY <1>1, <1>2 DEF StackInv, StackPath
<1>8. \A d \in Poppers : s_pc'[d] = s_pc[d] /\ s_shadow'[d] = s_shadow[d]
  BY <1>4, StackThreads
<1>9. PopperSees'
  BY <1>1, <1>2, <1>8, TakenSame DEF StackInv, PopperSees
<1> QED
  BY <1>2, <1>3, <1>5, <1>6, <1>7, <1>9 DEF StackInv

LEMMA StackLink ==
  ASSUME StackInv, NEW p \in Pushers, Stack!PushLink(p)
  PROVE  StackInv' /\ Stack!chain' = Stack!chain
<1>1. /\ s_pc[p] = "link" /\ s_pc' = [s_pc EXCEPT ![p] = "cas"]
      /\ s_next' = [s_next EXCEPT ![s_node[p]] = s_shadow[p]]
      /\ UNCHANGED <<s_head, s_live, s_data, s_shadow, s_node, s_val, s_pushes, s_stale>>
  BY DEF Stack!PushLink, Stack!Goto
<1>2. s_node[p] \in s_live \ Stacked /\ s_node[p] \in Addresses
  BY <1>1 DEF StackInv, PushersOwn, StackTypes
<1>3. /\ s_next'[s_node[p]] = s_shadow[p]
      /\ \A a \in Addresses : a # s_node[p] => s_next'[a] = s_next[a]
  BY <1>1, <1>2 DEF StackInv, StackTypes
<1>4. /\ Stack!chain' = Stack!chain /\ Stacked' = Stacked
      /\ \E n \in Nat : Path(Stack!chain', n, s_head', s_next')
  <2>1. \A a \in Stacked : s_next'[a] = s_next[a]
    BY <1>2, <1>3 DEF Stacked, On
  <2> QED
    BY <1>1, <2>1, StackSame
<1>5. StackTypes'
  BY <1>1, StackThreads DEF StackInv, StackTypes
<1>6. /\ s_pc'[p] = "cas"
      /\ \A t \in Stack!Threads \ {p} : s_pc'[t] = s_pc[t]
  BY <1>1, StackThreads DEF StackInv, StackTypes
<1>7. PushersOwn'
  <2>1. ASSUME NEW q \in Pushers, s_pc'[q] = "cas" PROVE s_next'[s_node[q]] = s_shadow[q]
    <3>1. CASE q = p
      BY <1>3, <3>1
    <3>2. CASE q # p
      <4>1. s_pc[q] = "cas" /\ s_node[q] # s_node[p] /\ s_node[q] \in Addresses
        BY <1>1, <1>6, <2>1, <3>2, StackThreads DEF StackInv, PushersOwn, StackTypes
      <4> QED
        BY <1>3, <4>1 DEF StackInv, PushersOwn
    <3> QED
      BY <3>1, <3>2
  <2>2. ASSUME NEW q \in Pushers
        PROVE  /\ s_pc'[q] \in {"idle", "load", "link", "cas"}
               /\ s_pc'[q] \in {"load", "link", "cas"} => s_pc[q] \in {"load", "link", "cas"}
    BY <1>1, <1>6, StackThreads DEF StackInv, PushersOwn
  <2> QED
    BY <1>1, <1>4, <2>1, <2>2 DEF StackInv, PushersOwn
<1>8. PopperHas'
  <2>1. \A c \in Poppers : s_pc'[c] = s_pc[c]
    BY <1>6, StackThreads
  <2>2. \A q \in Pushers :
          s_pc'[q] \in {"load", "link", "cas"} => s_pc[q] \in {"load", "link", "cas"}
    BY <1>1, <1>6, StackThreads DEF StackInv, PushersOwn
  <2> QED
    BY <1>1, <1>4, <2>1, <2>2 DEF StackInv, PopperHas
<1>9. PopperSees'
  <2>1. ASSUME NEW c \in Poppers, c \notin s_stale, s_pc[c] = "cas"
        PROVE  s_node[c] = s_next'[s_shadow[c]]
    <3>1. s_shadow[c] \in Stacked \cup Taken /\ s_node[c] = s_next[s_shadow[c]]
      BY <2>1 DEF StackInv, PopperSees
    <3>2. s_node[p] \notin Taken
      BY <1>1 DEF StackInv, PopperHas, Taken
    <3> QED
      BY <1>2, <1>3, <3>1, <3>2 DEF Stacked, On, Taken
  <2>2. \A c \in Poppers : s_pc'[c] = s_pc[c] /\ s_shadow'[c] = s_shadow[c]
    BY <1>1, <1>6, StackThreads
  <2> QED
    BY <1>1, <1>4, <2>1, <2>2, TakenSame DEF StackInv, PopperSees
<1>10. StackPath'
  BY <1>1, <1>4 DEF StackInv, StackPath
<1> QED
  BY <1>4, <1>5, <1>7, <1>8, <1>9, <1>10 DEF StackInv

\* Line 23 puts the node first.
LEMMA StackPut ==
  ASSUME StackInv, NEW p \in Pushers, Stack!PushCas(p)
  PROVE  /\ StackInv'
         /\ \E n \in Nat : /\ Path(Stack!chain, n, s_head, s_next)
                           /\ Path(Stack!chain', n + 1, s_head', s_next')
                           /\ \A i \in 0..n : Stack!chain'[i] = IF i = 0 THEN s_node[p]
                                                                ELSE Stack!chain[i - 1]
<1>1. /\ s_shadow[p] = s_head /\ s_pc[p] = "cas" /\ s_pc' = [s_pc EXCEPT ![p] = "idle"]
      /\ s_head' = s_node[p]
      /\ UNCHANGED <<s_live, s_next, s_data, s_shadow, s_node, s_val, s_pushes, s_stale>>
  BY DEF Stack!PushCas, Stack!Goto
<1>2. /\ s_node[p] \in s_live \ Stacked /\ s_node[p] \in Addresses
      /\ s_next[s_node[p]] = s_head
  BY <1>1 DEF StackInv, PushersOwn, StackTypes
<1>3. PICK n \in Nat : Path(Stack!chain, n, s_head, s_next)
  BY DEF StackInv, StackPath
<1>4. PICK x : x = s_node[p]
  OBVIOUS
<1>5. x \in Addresses \ On(Stack!chain) /\ s_next[x] = s_head
  BY <1>2, <1>4 DEF Stacked
<1>6. PICK g : /\ Path(g, n + 1, x, s_next) /\ On(g) = On(Stack!chain) \cup {x}
               /\ \A i \in 0..n : g[i] = IF i = 0 THEN x ELSE Stack!chain[i - 1]
  BY <1>3, <1>5, PathPush
<1>7. Path(g, n + 1, s_head', s_next')
  BY <1>1, <1>4, <1>6
<1>8. Stack!Walk(s_head', s_next') = g
  BY <1>7, WalkIs
<1>9. Stack!chain' = g
  BY <1>8 DEF Stack!chain
<1>10. Stacked' = Stacked \cup {x}
  BY <1>6, <1>9 DEF Stacked, On
<1>11. StackTypes'
  BY <1>1, <1>2 DEF StackInv, StackTypes
<1>12. /\ s_pc'[p] = "idle"
       /\ \A t \in Stack!Threads \ {p} : s_pc'[t] = s_pc[t]
  BY <1>1, StackThreads DEF StackInv, StackTypes
<1>13. PushersOwn'
  BY <1>1, <1>4, <1>10, <1>12, StackThreads DEF StackInv, PushersOwn
<1>14. PopperHas'
  <2>1. \A q \in Pushers :
          s_pc'[q] \in {"load", "link", "cas"} => s_pc[q] \in {"load", "link", "cas"}
    BY <1>1, <1>12, StackThreads DEF StackInv, PushersOwn
  <2>2. \A c \in Poppers : s_pc'[c] = s_pc[c]
    BY <1>12, StackThreads
  <2>3. \A c \in Poppers : s_pc[c] \in {"data", "delete"} => s_shadow[c] # x
    BY <1>1, <1>4 DEF StackInv, PopperHas
  <2> QED
    BY <1>1, <1>10, <2>1, <2>2, <2>3 DEF StackInv, PopperHas
<1>15. StackPath'
  <2>1. \E m \in Nat : Path(Stack!chain', m, s_head', s_next')
    BY <1>7, <1>9
  <2>2. Stacked' \subseteq s_live'
    BY <1>1, <1>2, <1>4, <1>10 DEF StackInv, StackPath
  <2> QED
    BY <2>1, <2>2 DEF StackPath
<1>16. PopperSees'
  <2>1. \A c \in Poppers : s_pc'[c] = s_pc[c] /\ s_shadow'[c] = s_shadow[c]
    BY <1>1, <1>12, StackThreads
  <2> QED
    BY <1>1, <1>10, <2>1, TakenSame DEF StackInv, PopperSees
<1> QED
  BY <1>3, <1>4, <1>6, <1>7, <1>9, <1>11, <1>13, <1>14, <1>15, <1>16 DEF StackInv

\* What a popper does between its compare_exchanges.
LEMMA StackLook ==
  ASSUME StackInv, NEW c \in Poppers,
         Stack!PopLoad(c) \/ Stack!PopTest(c) \/ (Stack!PopNext(c) /\ c \notin s_stale)
  PROVE  StackInv' /\ Stack!chain' = Stack!chain
<1>1. UNCHANGED <<s_head, s_live, s_next, s_data, s_val, s_pushes>>
  BY DEF Stack!PopLoad, Stack!PopTest, Stack!PopNext
<1>2. /\ Stack!chain' = Stack!chain /\ Stacked' = Stacked
      /\ \E n \in Nat : Path(Stack!chain', n, s_head', s_next')
  BY <1>1, StackSame
<1>3. s_head \in Stacked \cup {0}
  <2>1. PICK n \in Nat : Path(Stack!chain, n, s_head, s_next)
    BY DEF StackInv, StackPath
  <2>2. 0 \in 0..Capacity /\ Stack!chain[0] = s_head
    BY <2>1, StackConstants DEF Path
  <2> QED
    BY <2>2 DEF Stacked, On, StackInv, StackTypes
<1>4. /\ \A t \in Stack!Threads \ {c} :
           s_pc'[t] = s_pc[t] /\ s_shadow'[t] = s_shadow[t] /\ s_node'[t] = s_node[t]
      /\ s_pc'[c] \in {"idle", "test", "next", "cas"}
      /\ s_pc'[c] = "test" => s_shadow'[c] = s_head
      /\ s_pc'[c] = "next" => s_pc[c] = "test" /\ s_shadow'[c] = s_shadow[c] /\ s_shadow[c] # 0
      /\ s_pc'[c] = "cas" => /\ s_pc[c] = "next" /\ s_shadow'[c] = s_shadow[c]
                             /\ s_node'[c] = s_next[s_shadow[c]]
  BY StackThreads, StackConstants
     DEF Stack!PopLoad, Stack!PopTest, Stack!PopNext, Stack!Goto, StackInv, StackTypes
<1>5. StackTypes'
  <2>1. s_pc[c] = "next" /\ c \notin s_stale => s_shadow[c] \in Addresses
    BY DEF StackInv, PopperSees, Stacked, On, Taken
  <2>2. s_pc' \in [Stack!Threads ->
          {"idle", "load", "link", "cas", "test", "next", "data", "delete"}]
    BY DEF Stack!PopLoad, Stack!PopTest, Stack!PopNext, Stack!Goto, StackInv, StackTypes
  <2>3. s_shadow' \in [Stack!Threads -> Addresses \cup {0}]
    BY DEF Stack!PopLoad, Stack!PopTest, Stack!PopNext, StackInv, StackTypes
  <2>4. s_node' \in [Stack!Threads -> Addresses \cup {0}]
    BY <2>1 DEF Stack!PopLoad, Stack!PopTest, Stack!PopNext, Stack!Goto, StackInv, StackTypes
  <2> QED
    BY <1>1, <2>2, <2>3, <2>4 DEF StackInv, StackTypes
<1>6. PushersOwn'
  BY <1>1, <1>2, <1>4, StackThreads DEF StackInv, PushersOwn
<1>7. ASSUME NEW d \in Poppers, d # c
      PROVE  s_pc'[d] = s_pc[d] /\ s_shadow'[d] = s_shadow[d] /\ s_node'[d] = s_node[d]
  BY <1>4, <1>7, StackThreads
<1>8. s_pc[c] \notin {"data", "delete"} /\ s_pc'[c] \notin {"data", "delete"}
  BY StackThreads
     DEF Stack!PopLoad, Stack!PopTest, Stack!PopNext, Stack!Goto, StackInv, StackTypes
<1>9. PopperHas'
  <2>1. \A q \in Pushers : s_pc'[q] = s_pc[q] /\ s_node'[q] = s_node[q]
    BY <1>4, StackThreads
  <2> QED
    BY <1>1, <1>2, <1>4, <1>7, <1>8, <2>1 DEF StackInv, PopperHas
<1>10. Taken' = Taken
  BY <1>7, <1>8 DEF Taken
<1>11. PopperSees'
  <2>1. \A d \in Poppers : d # c => (d \in s_stale' <=> d \in s_stale)
    BY DEF Stack!PopLoad, Stack!PopTest, Stack!PopNext
  <2>2. s_pc'[c] \in {"next", "cas"} => (c \in s_stale' <=> c \in s_stale)
    BY StackThreads
       DEF Stack!PopLoad, Stack!PopTest, Stack!PopNext, Stack!Goto, StackInv, StackTypes
  <2>3. c \notin s_stale' =>
          /\ s_pc'[c] = "test" => s_shadow'[c] \in Stacked' \cup {0}
          /\ s_pc'[c] \in {"next", "cas"} => s_shadow'[c] \in Stacked' \cup Taken'
          /\ s_pc'[c] = "cas" => s_node'[c] = s_next'[s_shadow'[c]]
    BY <1>1, <1>2, <1>3, <1>4, <1>10, <2>2 DEF StackInv, PopperSees
  <2> QED
    BY <1>1, <1>2, <1>7, <1>10, <2>1, <2>3 DEF StackInv, PopperSees
<1>12. StackPath'
  BY <1>1, <1>2 DEF StackInv, StackPath
<1> QED
  BY <1>2, <1>5, <1>6, <1>9, <1>11, <1>12 DEF StackInv

\* Line 30 takes the first node: it was not deleted since the popper loaded it,
\* so the pointer the popper read is still the one in it.
LEMMA StackTake ==
  ASSUME StackInv, NEW c \in Poppers, Stack!PopCas(c), c \notin s_stale
  PROVE  /\ StackInv' /\ s_head # 0
         /\ \E n \in Nat \ {0} : /\ Path(Stack!chain, n, s_head, s_next)
                                 /\ Path(Stack!chain', n - 1, s_head', s_next')
                                 /\ \A i \in 0..(n - 1) : Stack!chain'[i] = Stack!chain[i + 1]
<1>1. /\ s_shadow[c] = s_head /\ s_pc[c] = "cas" /\ s_pc' = [s_pc EXCEPT ![c] = "data"]
      /\ s_head' = s_node[c]
      /\ UNCHANGED <<s_live, s_next, s_data, s_shadow, s_node, s_val, s_pushes, s_stale>>
  BY DEF Stack!PopCas, Stack!Goto
<1>3. PICK n \in Nat : Path(Stack!chain, n, s_head, s_next)
  BY DEF StackInv, StackPath
<1>2. s_head \in Stacked /\ s_node[c] = s_next[s_head]
  <2>1. s_head \in Stacked \cup Taken /\ s_node[c] = s_next[s_head]
    BY <1>1 DEF StackInv, PopperSees
  <2>2. s_head \in Addresses /\ s_head # 0
    BY <2>1, StackConstants DEF Stacked, On, Taken
  <2>3. 0 \in 0..Capacity /\ Stack!chain[0] = s_head
    BY <1>3, StackConstants DEF Path
  <2> QED
    BY <2>1, <2>2, <2>3 DEF Stacked, On
<1>4. s_head # 0
  BY <1>2, StackConstants DEF Stacked, On
<1>5. /\ n \in Nat \ {0}
      /\ \E g : /\ Path(g, n - 1, s_next[s_head], s_next) /\ On(g) = On(Stack!chain) \ {s_head}
                /\ \A i \in 0..(n - 1) : g[i] = Stack!chain[i + 1]
  BY <1>3, <1>4, PathPop
<1>6. PICK g : /\ Path(g, n - 1, s_next[s_head], s_next) /\ On(g) = On(Stack!chain) \ {s_head}
               /\ \A i \in 0..(n - 1) : g[i] = Stack!chain[i + 1]
  BY <1>5
<1>7. Path(g, n - 1, s_head', s_next')
  BY <1>1, <1>2, <1>6
<1>8. Stack!Walk(s_head', s_next') = g
  BY <1>7, WalkIs
<1>9. Stack!chain' = g
  BY <1>8 DEF Stack!chain
<1>10. Stacked' = Stacked \ {s_head}
  BY <1>6, <1>9 DEF Stacked, On
<1>11. StackTypes'
  BY <1>1, StackThreads DEF StackInv, StackTypes
<1>12. /\ s_pc'[c] = "data"
       /\ \A t \in Stack!Threads \ {c} : s_pc'[t] = s_pc[t]
  BY <1>1, StackThreads DEF StackInv, StackTypes
<1>13. PushersOwn'
  BY <1>1, <1>10, <1>12, StackThreads DEF StackInv, PushersOwn
<1>16. \A d \in Poppers : d # c => s_pc'[d] = s_pc[d]
  BY <1>12, StackThreads
<1>14. PopperHas'
  <2>2. \A q \in Pushers : s_pc'[q] = s_pc[q]
    BY <1>12, StackThreads
  <2>3. \A q \in Pushers : s_pc[q] \in {"load", "link", "cas"} => s_node[q] # s_head
    BY <1>2 DEF StackInv, PushersOwn
  <2>4. s_head \in s_live' \ Stacked' /\ s_shadow'[c] = s_head
    BY <1>1, <1>2, <1>10 DEF StackInv, StackPath
  <2>5. \A d \in Poppers : d # c /\ s_pc[d] \in {"data", "delete"} => s_shadow[d] # s_head
    BY <1>2 DEF StackInv, PopperHas
  <2>6. ASSUME NEW d \in Poppers, d # c, s_pc'[d] \in {"data", "delete"}
        PROVE  /\ s_shadow'[d] \in s_live' \ Stacked'
               /\ \A q \in Pushers :
                    s_pc'[q] \in {"load", "link", "cas"} => s_node'[q] # s_shadow'[d]
               /\ \A e \in Poppers :
                    e # d /\ s_pc'[e] \in {"data", "delete"} => s_shadow'[e] # s_shadow'[d]
    BY <1>1, <1>10, <1>16, <2>2, <2>5, <2>6 DEF StackInv, PopperHas
  <2>7. \A d \in Poppers : s_pc'[d] \in {"idle", "test", "next", "cas", "data", "delete"}
    BY <1>12, <1>16 DEF StackInv, PopperHas
  <2> QED
    BY <1>1, <1>12, <1>16, <2>2, <2>3, <2>4, <2>5, <2>6, <2>7 DEF PopperHas
<1>17. PopperSees'
  <2>1. Taken' = Taken \cup {s_head}
    <3>1. s_head \in Addresses
      BY <1>2 DEF Stacked, On
    <3> QED
      BY <1>1, <1>12, <1>16, <3>1 DEF Taken
  <2>2. Stacked' \cup Taken' = Stacked \cup Taken
    BY <1>2, <1>10, <2>1
  <2> QED
    BY <1>1, <1>12, <1>16, <2>2 DEF StackInv, PopperSees
<1>15. StackPath'
  <2>1. n - 1 \in Nat
    BY <1>5
  <2>2. \E m \in Nat : Path(Stack!chain', m, s_head', s_next')
    BY <1>7, <1>9, <2>1
  <2>3. Stacked' \subseteq s_live'
    BY <1>1, <1>10 DEF StackInv, StackPath
  <2> QED
    BY <2>2, <2>3 DEF StackPath
<1> QED
  BY <1>3, <1>4, <1>5, <1>6, <1>7, <1>9, <1>11, <1>13, <1>14, <1>15, <1>17 DEF StackInv

LEMMA StackRead ==
  ASSUME StackInv, NEW c \in Poppers, Stack!PopData(c)
  PROVE  StackInv' /\ Stack!chain' = Stack!chain
<1>1. /\ s_pc[c] = "data" /\ s_pc' = [s_pc EXCEPT ![c] = "delete"]
      /\ s_val' = [s_val EXCEPT ![c] = s_data[s_shadow[c]]]
      /\ UNCHANGED <<s_head, s_live, s_next, s_data, s_shadow, s_node, s_pushes, s_stale>>
  BY DEF Stack!PopData, Stack!Goto
<1>2. /\ Stack!chain' = Stack!chain /\ Stacked' = Stacked
      /\ \E n \in Nat : Path(Stack!chain', n, s_head', s_next')
  BY <1>1, StackSame
<1>3. s_data[s_shadow[c]] \in 0..StackPushes
  BY <1>1 DEF StackInv, PopperHas, StackTypes
<1>4. StackTypes'
  BY <1>1, <1>3 DEF StackInv, StackTypes
<1>5. /\ s_pc'[c] = "delete"
      /\ \A t \in Stack!Threads \ {c} : s_pc'[t] = s_pc[t]
  BY <1>1, StackThreads DEF StackInv, StackTypes
<1>6. PushersOwn'
  BY <1>1, <1>2, <1>5, StackThreads DEF StackInv, PushersOwn
<1>7. PopperHas'
  BY <1>1, <1>2, <1>5, StackThreads DEF StackInv, PopperHas
<1>8. StackPath'
  BY <1>1, <1>2 DEF StackInv, StackPath
<1>9. \A d \in Poppers : /\ s_pc'[d] \in {"data", "delete"} <=> s_pc[d] \in {"data", "delete"}
                         /\ s_pc'[d] \in {"test", "next", "cas"} => s_pc'[d] = s_pc[d]
  BY <1>1, <1>5, StackThreads
<1>10. Taken' = Taken
  BY <1>1, <1>9 DEF Taken
<1>11. PopperSees'
  BY <1>1, <1>2, <1>9, <1>10 DEF StackInv, PopperSees
<1> QED
  BY <1>2, <1>4, <1>6, <1>7, <1>8, <1>11 DEF StackInv

LEMMA StackDelete ==
  ASSUME StackInv, NEW c \in Poppers, Stack!PopDelete(c)
  PROVE  StackInv' /\ Stack!chain' = Stack!chain
<1>1. /\ s_pc[c] = "delete" /\ s_pc' = [s_pc EXCEPT ![c] = "idle"]
      /\ s_live' = s_live \ {s_shadow[c]}
      /\ UNCHANGED <<s_head, s_next, s_data, s_shadow, s_node, s_val, s_pushes>>
  BY DEF Stack!PopDelete, Stack!Goto
<1>2. /\ Stack!chain' = Stack!chain /\ Stacked' = Stacked
      /\ \E n \in Nat : Path(Stack!chain', n, s_head', s_next')
  BY <1>1, StackSame
<1>3. StackTypes'
  BY <1>1 DEF StackInv, StackTypes
<1>4. /\ s_pc'[c] = "idle"
      /\ \A t \in Stack!Threads \ {c} : s_pc'[t] = s_pc[t]
  BY <1>1, StackThreads DEF StackInv, StackTypes
<1>5. PushersOwn'
  <2>1. \A p \in Pushers : s_pc[p] \in {"load", "link", "cas"} => s_node[p] # s_shadow[c]
    BY <1>1 DEF StackInv, PopperHas
  <2> QED
    BY <1>1, <1>2, <1>4, <2>1, StackThreads DEF StackInv, PushersOwn
<1>8. \A d \in Poppers : d # c => s_pc'[d] = s_pc[d]
  BY <1>4, StackThreads
<1>6. PopperHas'
  <2>1. \A p \in Pushers : s_pc'[p] = s_pc[p]
    BY <1>4, StackThreads
  <2>2. \A d \in Poppers : d # c /\ s_pc[d] \in {"data", "delete"} => s_shadow[d] # s_shadow[c]
    BY <1>1 DEF StackInv, PopperHas
  <2> QED
    BY <1>1, <1>2, <1>4, <1>8, <2>1, <2>2 DEF StackInv, PopperHas
<1>9. PopperSees'
  <2>1. s_stale' = s_stale \cup {d \in Poppers \ {c} : /\ s_pc[d] \in {"test", "next", "cas"}
                                                       /\ s_shadow[d] = s_shadow[c]}
    BY DEF Stack!PopDelete
  <2>2. Taken \ {s_shadow[c]} \subseteq Taken'
    BY <1>1, <1>8 DEF Taken
  <2>3. ASSUME NEW d \in Poppers, d \notin s_stale', s_pc'[d] \in {"test", "next", "cas"}
        PROVE  d # c /\ d \notin s_stale /\ s_pc[d] = s_pc'[d] /\ s_shadow[d] # s_shadow[c]
    BY <1>4, <1>8, <2>1, <2>3
  <2> QED
    BY <1>1, <1>2, <2>2, <2>3 DEF StackInv, PopperSees
<1>7. StackPath'
  <2>1. s_shadow[c] \notin Stacked
    BY <1>1 DEF StackInv, PopperHas
  <2> QED
    BY <1>1, <1>2, <2>1 DEF StackInv, StackPath
<1> QED
  BY <1>2, <1>3, <1>5, <1>6, <1>7, <1>9 DEF StackInv

-----------------------------------------------------------------------------
(* The stack is a stack *)

\* The data d at the addresses of f.
ValuesAt(f, d) == [i \in {j \in 1..Capacity : f[j - 1] # 0} |-> d[f[i - 1]]]

Items == ValuesAt(Stack!chain, s_data)
Outs == [c \in Poppers |-> IF s_pc[c] = "data" THEN s_data[s_shadow[c]] ELSE s_val[c]]

LEMMA ValuesSeq ==
  ASSUME NEW f, NEW n, NEW h, NEW nx, Path(f, n, h, nx), NEW d
  PROVE  ValuesAt(f, d) = [i \in 1..n |-> d[f[i - 1]]]
<1>1. n \in Nat /\ n <= Capacity /\ Capacity \in Nat
  BY StackConstants DEF Path
<1>2. ASSUME NEW j \in 1..Capacity PROVE f[j - 1] # 0 <=> j \in 1..n
  <2>1. j - 1 \in 0..Capacity
    BY <1>1
  <2>2. f[j - 1] # 0 <=> j - 1 < n
    BY <2>1 DEF Path
  <2> QED
    BY <1>1, <2>2
<1>3. {j \in 1..Capacity : f[j - 1] # 0} = 1..n
  BY <1>1, <1>2
<1> QED
  BY <1>3 DEF ValuesAt

LEMMA ItemsSame ==
  ASSUME StackInv, Stack!chain' = Stack!chain, \A a \in Stacked : s_data'[a] = s_data[a]
  PROVE  Items' = Items
<1>1. PICK n \in Nat : Path(Stack!chain, n, s_head, s_next)
  BY DEF StackInv, StackPath
<1>2. /\ ValuesAt(Stack!chain, s_data) = [i \in 1..n |-> s_data[Stack!chain[i - 1]]]
      /\ ValuesAt(Stack!chain, s_data') = [i \in 1..n |-> s_data'[Stack!chain[i - 1]]]
  BY <1>1, ValuesSeq
<1>3. ASSUME NEW i \in 1..n PROVE s_data'[Stack!chain[i - 1]] = s_data[Stack!chain[i - 1]]
  <2>1. i - 1 \in 0..Capacity /\ i - 1 < n
    BY <1>1, StackConstants DEF Path
  <2>2. Stack!chain[i - 1] \in Stacked
    BY <1>1, <2>1 DEF Path, Stacked, On
  <2> QED
    BY <2>2
<1> QED
  BY <1>2, <1>3 DEF Items

LEMMA PushedOnto ==
  ASSUME NEW n \in Nat, NEW S, NEW s \in [1..n -> S], NEW v
  PROVE  <<v>> \o s = [i \in 1..(n + 1) |-> IF i = 1 THEN v ELSE s[i - 1]]
<1>1. s \in Seq(S) /\ Len(s) = n
  OBVIOUS
<1> QED
  BY <1>1

LEMMA PoppedFrom ==
  ASSUME NEW n \in Nat \ {0}, NEW S, NEW s \in [1..n -> S]
  PROVE  /\ s # <<>> /\ Head(s) = s[1]
         /\ Tail(s) = [i \in 1..(n - 1) |-> s[i + 1]]
<1>1. s \in Seq(S) /\ Len(s) = n
  OBVIOUS
<1>2. s # <<>> /\ Head(s) = s[1]
  BY <1>1
<1>3. Tail(s) = [i \in 1..(n - 1) |-> s[i + 1]]
  <2>1. Tail(s) \in Seq(S) /\ Len(Tail(s)) = n - 1
    BY <1>1, <1>2, HeadTailProperties
  <2>2. \A i \in 1..(n - 1) : Tail(s)[i] = s[i + 1]
    BY <1>1, <1>2, HeadTailProperties
  <2>3. Tail(s) \in [1..(n - 1) -> S]
    BY <2>1, LenProperties
  <2>4. Tail(s) = [i \in 1..(n - 1) |-> Tail(s)[i]]
    BY <2>3
  <2> QED
    BY <2>2, <2>4
<1> QED
  BY <1>2, <1>3

\* g is f with x put before it, or f without its first address.
Longer(f, g, n, x) == \A i \in 0..n : g[i] = IF i = 0 THEN x ELSE f[i - 1]
Shorter(f, g, n) == \A i \in 0..(n - 1) : g[i] = f[i + 1]

LEMMA ItemsPush ==
  ASSUME NEW f, NEW g, NEW n \in Nat, NEW d, NEW x,
         IsPath(f, n), IsPath(g, n + 1), Longer(f, g, n, x)
  PROVE  ValuesAt(g, d) = <<d[x]>> \o ValuesAt(f, d)
<1> DEFINE v == d[x]
<1> USE DEF Longer, IsPath
<1>1. /\ ValuesAt(f, d) = [i \in 1..n |-> d[f[i - 1]]]
      /\ ValuesAt(g, d) = [i \in 1..(n + 1) |-> d[g[i - 1]]]
  <2>1. PICK h, nx, k, ny : Path(f, n, h, nx) /\ Path(g, n + 1, k, ny)
    OBVIOUS
  <2>2. ValuesAt(f, d) = [i \in 1..n |-> d[f[i - 1]]]
    BY <2>1, ValuesSeq
  <2>3. ValuesAt(g, d) = [i \in 1..(n + 1) |-> d[g[i - 1]]]
    BY <2>1, ValuesSeq
  <2> QED
    BY <2>2, <2>3
<1>2. \A i \in 1..(n + 1) : d[g[i - 1]] = IF i = 1 THEN v ELSE d[f[(i - 1) - 1]]
  <2> SUFFICES ASSUME NEW i \in 1..(n + 1)
               PROVE  d[g[i - 1]] = IF i = 1 THEN v ELSE d[f[(i - 1) - 1]]
    OBVIOUS
  <2>1. i - 1 \in 0..n /\ (i - 1 = 0 <=> i = 1)
    OBVIOUS
  <2>2. g[i - 1] = IF i - 1 = 0 THEN x ELSE f[(i - 1) - 1]
    BY <2>1
  <2> QED
    BY <2>1, <2>2
<1> DEFINE s == [i \in 1..n |-> d[f[i - 1]]]
<1>3. \A i \in 1..n : s[i] = d[f[i - 1]]
  OBVIOUS
<1>4. s \in [1..n -> {d[f[i - 1]] : i \in 1..n}]
  OBVIOUS
<1>5. <<v>> \o s = [i \in 1..(n + 1) |-> IF i = 1 THEN v ELSE s[i - 1]]
  <2> HIDE DEF s
  <2> QED
    BY <1>4, PushedOnto
<1>6. \A i \in 1..(n + 1) : i # 1 => s[i - 1] = d[f[(i - 1) - 1]]
  <2> HIDE DEF s
  <2> QED
    BY <1>3
<1>7. \A i \in 1..(n + 1) : d[g[i - 1]] = IF i = 1 THEN v ELSE s[i - 1]
  <2> HIDE DEF s
  <2> QED
    BY <1>2, <1>6
<1>8. ValuesAt(g, d) = [i \in 1..(n + 1) |-> IF i = 1 THEN v ELSE s[i - 1]]
  <2> HIDE DEF s
  <2> QED
    BY <1>1, <1>7
<1> QED
  BY <1>1, <1>5, <1>8

LEMMA ItemsPop ==
  ASSUME NEW f, NEW g, NEW n \in Nat \ {0}, NEW d, NEW h,
         IsPath(f, n), f[0] = h, IsPath(g, n - 1), Shorter(f, g, n)
  PROVE  /\ ValuesAt(f, d) # <<>> /\ Head(ValuesAt(f, d)) = d[h]
         /\ ValuesAt(g, d) = Tail(ValuesAt(f, d))
<1> USE DEF Shorter, IsPath
<1>1. /\ ValuesAt(f, d) = [i \in 1..n |-> d[f[i - 1]]]
      /\ ValuesAt(g, d) = [i \in 1..(n - 1) |-> d[g[i - 1]]]
  <2>1. ValuesAt(f, d) = [i \in 1..n |-> d[f[i - 1]]]
    BY ValuesSeq
  <2>2. ValuesAt(g, d) = [i \in 1..(n - 1) |-> d[g[i - 1]]]
    BY ValuesSeq
  <2> QED
    BY <2>1, <2>2
<1>2. \A i \in 1..(n - 1) : i - 1 \in 0..(n - 1) /\ (i - 1) + 1 = (i + 1) - 1
  OBVIOUS
<1>3. \A i \in 1..(n - 1) : d[g[i - 1]] = d[f[(i + 1) - 1]]
  BY <1>2
<1> DEFINE s == [i \in 1..n |-> d[f[i - 1]]]
<1>4. s \in [1..n -> {d[f[i - 1]] : i \in 1..n}] /\ \A i \in 1..n : s[i] = d[f[i - 1]]
  OBVIOUS
<1>5. s # <<>> /\ Head(s) = s[1] /\ Tail(s) = [i \in 1..(n - 1) |-> s[i + 1]]
  <2> HIDE DEF s
  <2> QED
    BY <1>4, PoppedFrom
<1>6. s[1] = d[h]
  OBVIOUS
<1>7. \A i \in 1..(n - 1) : s[i + 1] = d[g[i - 1]]
  <2>1. \A i \in 1..(n - 1) : i + 1 \in 1..n
    OBVIOUS
  <2> HIDE DEF s
  <2> QED
    BY <1>3, <1>4, <2>1
<1>8. ValuesAt(g, d) = Tail(s)
  <2> HIDE DEF s
  <2> QED
    BY <1>1, <1>5, <1>7
<1> QED
  BY <1>1, <1>5, <1>6, <1>8

LEMMA ItemsAre ==
  Items = Stack!Reachable /\ Items' = Stack!Reachable'
BY StackConstants DEF Items, ValuesAt, Stack!Reachable

LEMMA AbstractIs ==
  /\ Stack!Abstract!Init <=> Items = <<>> /\ Outs \in [Poppers -> 0..StackPushes]
  /\ Stack!Abstract!Push <=> \E v \in 0..StackPushes : Items' = <<v>> \o Items /\ UNCHANGED Outs
  /\ Stack!Abstract!Pop <=> \E c \in Poppers : /\ Items # <<>>
                                               /\ Outs' = [Outs EXCEPT ![c] = Head(Items)]
                                               /\ Items' = Tail(Items)
<1>1. Items = Stack!Reachable /\ Items' = Stack!Reachable' /\ Outs = Stack!Popped
  BY ItemsAre DEF Outs, Stack!Popped
<1>2. Stack!Abstract!Init <=> Items = <<>> /\ Outs \in [Poppers -> 0..StackPushes]
  BY <1>1 DEF Stack!Abstract!Init
<1>3. Stack!Abstract!Push <=> \E v \in 0..StackPushes : Items' = <<v>> \o Items /\ UNCHANGED Outs
  BY <1>1 DEF Stack!Abstract!Push, Outs, Stack!Popped
<1>4. Stack!Abstract!Pop <=> \E c \in Poppers : /\ Items # <<>>
                                                /\ Outs' = [Outs EXCEPT ![c] = Head(Items)]
                                                /\ Items' = Tail(Items)
  BY <1>1 DEF Stack!Abstract!Pop, Outs, Stack!Popped
<1> QED
  BY <1>2, <1>3, <1>4

LEMMA OutsSame ==
  ASSUME \A c \in Poppers :
           (IF s_pc'[c] = "data" THEN s_data'[s_shadow'[c]] ELSE s_val'[c])
             = (IF s_pc[c] = "data" THEN s_data[s_shadow[c]] ELSE s_val[c])
  PROVE  Outs' = Outs
BY DEF Outs

\* Each step of a pusher pushes a value or leaves the stack as it is.
LEMMA PusherRefines ==
  ASSUME StackInv, NEW p \in Pushers, Stack!Push(p)
  PROVE  /\ StackInv'
         /\ \/ \E v \in 0..StackPushes : Items' = <<v>> \o Items /\ UNCHANGED Outs
            \/ UNCHANGED <<Items, Outs>>
<1>1. CASE Stack!PushNew(p)
  <2>1. /\ StackInv' /\ Stack!chain' = Stack!chain
        /\ \A a \in s_live : s_data'[a] = s_data[a]
    BY <1>1, StackNew
  <2>2. Items' = Items
    BY <2>1, ItemsSame DEF StackInv, StackPath
  <2>3. ASSUME NEW c \in Poppers
        PROVE  /\ s_pc'[c] = s_pc[c] /\ s_shadow'[c] = s_shadow[c] /\ s_val'[c] = s_val[c]
               /\ s_pc[c] = "data" => s_data'[s_shadow[c]] = s_data[s_shadow[c]]
    <3>1. s_pc'[c] = s_pc[c] /\ s_shadow'[c] = s_shadow[c] /\ s_val'[c] = s_val[c]
      BY <1>1, StackThreads DEF Stack!PushNew, Stack!Goto, StackInv, StackTypes
    <3>2. s_pc[c] = "data" => s_shadow[c] \in s_live
      BY DEF StackInv, PopperHas
    <3> QED
      BY <2>1, <3>1, <3>2
  <2>4. Outs' = Outs
    BY <2>3, OutsSame
  <2> QED
    BY <2>1, <2>2, <2>4
<1>2. CASE Stack!PushLoad(p) \/ Stack!PushLink(p)
  <2>1. StackInv' /\ Stack!chain' = Stack!chain
    BY <1>2, StackLoad, StackLink
  <2>2. s_data' = s_data
    BY <1>2 DEF Stack!PushLoad, Stack!PushLink
  <2>3. Items' = Items
    BY <2>1, <2>2 DEF Items, ValuesAt
  <2>4. ASSUME NEW c \in Poppers
        PROVE  s_pc'[c] = s_pc[c] /\ s_shadow'[c] = s_shadow[c] /\ s_val'[c] = s_val[c]
    BY <1>2, StackThreads DEF Stack!PushLoad, Stack!PushLink, Stack!Goto, StackInv, StackTypes
  <2>5. Outs' = Outs
    BY <2>2, <2>4, OutsSame
  <2> QED
    BY <2>1, <2>3, <2>5
<1>3. CASE Stack!PushCas(p)
  <2>1. /\ StackInv'
        /\ \E n \in Nat : /\ Path(Stack!chain, n, s_head, s_next)
                          /\ Path(Stack!chain', n + 1, s_head', s_next')
                          /\ Longer(Stack!chain, Stack!chain', n, s_node[p])
    BY <1>3, StackPut DEF Longer
  <2>2. s_data' = s_data /\ s_shadow' = s_shadow /\ s_val' = s_val
    BY <1>3 DEF Stack!PushCas
  <2>3. PICK v : v = s_data[s_node[p]]
    OBVIOUS
  <2>4. v \in 0..StackPushes
    <3>1. s_node[p] \in Addresses
      BY <1>3 DEF Stack!PushCas, Stack!Goto, StackInv, PushersOwn, StackTypes
    <3> QED
      BY <2>3, <3>1 DEF StackInv, StackTypes
  <2>5. ValuesAt(Stack!chain', s_data) = <<v>> \o ValuesAt(Stack!chain, s_data)
    <3>1. PICK n \in Nat : /\ IsPath(Stack!chain, n) /\ IsPath(Stack!chain', n + 1)
                           /\ Longer(Stack!chain, Stack!chain', n, s_node[p])
      BY <2>1 DEF IsPath
    <3> QED
      BY <2>3, <3>1, ItemsPush
  <2>6. Items' = <<v>> \o Items
    BY <2>2, <2>5 DEF Items, ValuesAt
  <2>7. \A c \in Poppers : s_pc'[c] = s_pc[c]
    BY <1>3, StackThreads DEF Stack!PushCas, Stack!Goto, StackInv, StackTypes
  <2>8. Outs' = Outs
    BY <2>2, <2>7, OutsSame
  <2> QED
    BY <2>1, <2>4, <2>6, <2>8
<1> QED
  BY <1>1, <1>2, <1>3 DEF Stack!Push

\* Each step of a popper takes the top value, or leaves the stack as it is, or
\* goes by a deleted node.
LEMMA PopperRefines ==
  ASSUME StackInv, NEW c \in Poppers, Stack!Pop(c), ~ s_misused'
  PROVE  /\ StackInv'
         /\ \/ \E d \in Poppers : /\ Items # <<>>
                                  /\ Outs' = [Outs EXCEPT ![d] = Head(Items)]
                                  /\ Items' = Tail(Items)
            \/ UNCHANGED <<Items, Outs>>
<1>1. ASSUME NEW d \in Poppers, d # c
      PROVE  s_pc'[d] = s_pc[d] /\ s_shadow'[d] = s_shadow[d] /\ s_val'[d] = s_val[d]
  BY <1>1, StackThreads DEF Stack!Pop, Stack!PopLoad, Stack!PopTest, Stack!PopNext, Stack!PopCas,
     Stack!PopData, Stack!PopDelete, Stack!Goto, StackInv, StackTypes
<1>2. CASE Stack!PopLoad(c) \/ Stack!PopTest(c) \/ Stack!PopNext(c)
  <2>1. StackInv' /\ Stack!chain' = Stack!chain
    BY <1>2, StackLook DEF Stack!PopNext
  <2>2. s_data' = s_data /\ s_val' = s_val
    BY <1>2 DEF Stack!PopLoad, Stack!PopTest, Stack!PopNext
  <2>3. Items' = Items
    BY <2>1, <2>2 DEF Items, ValuesAt
  <2>4. s_pc[c] # "data" /\ s_pc'[c] # "data"
    BY <1>2, StackThreads
       DEF Stack!PopLoad, Stack!PopTest, Stack!PopNext, Stack!Goto, StackInv, StackTypes
  <2>5. Outs' = Outs
    BY <1>1, <2>2, <2>4, OutsSame
  <2> QED
    BY <2>1, <2>3, <2>5
<1>3. CASE Stack!PopCas(c)
  <2>1. /\ StackInv'
        /\ \E n \in Nat \ {0} : /\ Path(Stack!chain, n, s_head, s_next)
                                /\ Path(Stack!chain', n - 1, s_head', s_next')
                                /\ Shorter(Stack!chain, Stack!chain', n)
    BY <1>3, StackTake DEF Shorter, Stack!PopCas
  <2>2. s_data' = s_data /\ s_shadow' = s_shadow /\ s_val' = s_val
    BY <1>3 DEF Stack!PopCas
  <2>3. /\ ValuesAt(Stack!chain, s_data) # <<>>
        /\ Head(ValuesAt(Stack!chain, s_data)) = s_data[s_head]
        /\ ValuesAt(Stack!chain', s_data) = Tail(ValuesAt(Stack!chain, s_data))
    <3>1. PICK n \in Nat \ {0} : /\ IsPath(Stack!chain, n) /\ Stack!chain[0] = s_head
                                 /\ IsPath(Stack!chain', n - 1)
                                 /\ Shorter(Stack!chain, Stack!chain', n)
      BY <2>1 DEF IsPath, Path
    <3> QED
      BY <3>1, ItemsPop
  <2>4. Items # <<>> /\ Head(Items) = s_data[s_head] /\ Items' = Tail(Items)
    BY <2>2, <2>3 DEF Items, ValuesAt
  <2>5. s_pc'[c] = "data" /\ s_shadow[c] = s_head
    BY <1>3, StackThreads DEF Stack!PopCas, Stack!Goto, StackInv, StackTypes
  <2>6. \A d \in Poppers : Outs'[d] = IF d = c THEN s_data[s_head] ELSE Outs[d]
    BY <1>1, <2>2, <2>5 DEF Outs
  <2>7. Outs' = [Outs EXCEPT ![c] = Head(Items)]
    <3>1. PICK x : x = Head(Items)
      OBVIOUS
    <3>2. \A d \in Poppers : Outs'[d] = IF d = c THEN x ELSE Outs[d]
      BY <2>4, <2>6, <3>1
    <3>3. Outs' = [Outs EXCEPT ![c] = x]
      BY <3>2 DEF Outs
    <3> QED
      BY <3>1, <3>3
  <2> QED
    BY <2>1, <2>4, <2>7
<1>4. CASE Stack!PopData(c)
  <2>1. StackInv' /\ Stack!chain' = Stack!chain
    BY <1>4, StackRead
  <2>2. s_data' = s_data
    BY <1>4 DEF Stack!PopData
  <2>3. Items' = Items
    BY <2>1, <2>2 DEF Items, ValuesAt
  <2>4. s_pc[c] = "data" /\ s_pc'[c] = "delete" /\ s_val'[c] = s_data[s_shadow[c]]
    BY <1>4, StackThreads DEF Stack!PopData, Stack!Goto, StackInv, StackTypes
  <2>5. Outs' = Outs
    BY <1>1, <2>2, <2>4, OutsSame
  <2> QED
    BY <2>1, <2>3, <2>5
<1>5. CASE Stack!PopDelete(c)
  <2>1. StackInv' /\ Stack!chain' = Stack!chain
    BY <1>5, StackDelete
  <2>2. s_data' = s_data /\ s_val' = s_val
    BY <1>5 DEF Stack!PopDelete
  <2>3. Items' = Items
    BY <2>1, <2>2 DEF Items, ValuesAt
  <2>4. s_pc[c] = "delete" /\ s_pc'[c] = "idle"
    BY <1>5, StackThreads DEF Stack!PopDelete, Stack!Goto, StackInv, StackTypes
  <2>5. Outs' = Outs
    BY <1>1, <2>2, <2>4, OutsSame
  <2> QED
    BY <2>1, <2>3, <2>5
<1> QED
  BY <1>2, <1>3, <1>4, <1>5 DEF Stack!Pop

LEMMA StackUnchanged ==
  ASSUME StackInv, UNCHANGED stackVars
  PROVE  StackInv' /\ UNCHANGED <<Items, Outs>>
<1>1. UNCHANGED <<s_head, s_live, s_next, s_data, s_pc, s_shadow, s_node, s_val, s_pushes, s_stale>>
  BY DEF stackVars
<1>2. /\ Stack!chain' = Stack!chain /\ Stacked' = Stacked
      /\ \E n \in Nat : Path(Stack!chain', n, s_head', s_next')
  BY <1>1, StackSame
<1>3. StackTypes' /\ PushersOwn' /\ PopperHas' /\ PopperSees' /\ StackPath'
  BY <1>1, <1>2, TakenSame
     DEF StackInv, StackTypes, PushersOwn, PopperHas, PopperSees, StackPath
<1>4. UNCHANGED <<Items, Outs>>
  BY <1>1, <1>2 DEF Items, ValuesAt, Outs
<1> QED
  BY <1>3, <1>4 DEF StackInv

LEMMA StackBegins == Stack!Init => Stack!Abstract!Init
<1> SUFFICES ASSUME Stack!Init PROVE Items = <<>> /\ Outs \in [Poppers -> 0..StackPushes]
  BY AbstractIs
<1>1. StackInv
  BY StackStart
<1>2. PICK n \in Nat : Path(Stack!chain, n, s_head, s_next)
  BY <1>1 DEF StackInv, StackPath
<1>3. n = 0
  BY <1>2, StackConstants DEF Path, Stack!Init
<1>4. ValuesAt(Stack!chain, s_data) = [i \in 1..n |-> s_data[Stack!chain[i - 1]]]
  BY <1>2, ValuesSeq
<1>5. Items = <<>>
  BY <1>3, <1>4 DEF Items
<1>6. Outs \in [Poppers -> 0..StackPushes]
  BY StackThreads, StackConstants DEF Stack!Init, Outs
<1> QED
  BY <1>5, <1>6

LEMMA StackRefines ==
  ASSUME s_misused \/ StackInv, [Stack!Next]_stackVars
  PROVE  /\ (s_misused \/ StackInv)'
         /\ [s_misused' \/ Stack!Abstract!Next]_<<Stack!Reachable, Outs>>
<1>1. CASE UNCHANGED stackVars
  <2>1. UNCHANGED <<s_misused, Items, Outs>>
    BY <1>1, ItemsAre DEF stackVars, Items, ValuesAt, Stack!chain, Stack!Walk, Outs
  <2>2. StackInv => StackInv'
    BY <1>1, StackUnchanged
  <2> QED
    BY <2>1, <2>2, ItemsAre
<1>2. ASSUME NEW p \in Pushers, Stack!Push(p), ~ s_misused
      PROVE  StackInv' /\ (Stack!Abstract!Next \/ UNCHANGED <<Stack!Reachable, Outs>>)
  BY <1>2, PusherRefines, AbstractIs, ItemsAre DEF Stack!Abstract!Next
<1>3. ASSUME NEW c \in Poppers, Stack!Pop(c), ~ s_misused, ~ s_misused'
      PROVE  StackInv' /\ (Stack!Abstract!Next \/ UNCHANGED <<Stack!Reachable, Outs>>)
  BY <1>3, PopperRefines, AbstractIs, ItemsAre DEF Stack!Abstract!Next
<1> QED
  BY <1>1, <1>2, <1>3 DEF Stack!Next

LEMMA StackSteps == Spec => Stack!Init /\ [][Stack!Next]_stackVars
<1>1. Init => Stack!Init
  BY DEF Init
<1>2. [StackStep \/ QueueStep]_<<container, stackVars, queueVars>> => [Stack!Next]_stackVars
  BY DEF StackStep, QueueStep
<1> QED
  BY <1>1, <1>2, PTL DEF Spec

\* The lock-free stack is a stack, however many threads push and pop and
\* whatever addresses new gives them (lines 18-34), until a popper goes by a
\* node that another has deleted since it loaded head: until then a pop gets
\* the value pushed last, and no node is used after it was deleted.
THEOREM StackCorrect == Spec => StackIsLifo
<1>1. Stack!Init => StackInv /\ Stack!Abstract!Init
  BY StackStart, StackBegins
<1>2. (s_misused \/ StackInv) /\ [Stack!Next]_stackVars
        => /\ (s_misused \/ StackInv)'
           /\ [s_misused' \/ Stack!Abstract!Next]_<<Stack!Reachable, Outs>>
  BY StackRefines
<1>3. s_misused \/ StackInv => s_misused \/ Stack!NodesHeld
  BY DEF StackInv, PushersOwn, PopperHas, PopperSees, Taken, StackPath,
     Stack!NodesHeld, Stack!PushersHold, Stack!PoppersHold
<1>4. Stack!Init /\ [][Stack!Next]_stackVars
        => /\ Stack!Abstract!Init
           /\ [][s_misused' \/ Stack!Abstract!Next]_<<Stack!Reachable, Outs>>
           /\ [](s_misused \/ Stack!NodesHeld)
  BY <1>1, <1>2, <1>3, PTL
<1> QED
  BY <1>4, StackSteps, PTL DEF StackIsLifo, Stack!LifoSpec, Outs, Stack!Popped

\* One popper never finds its node deleted: only it deletes nodes (line 32).
THEOREM OnePopperIsSafe ==
  ASSUME \A c, d \in Poppers : c = d
  PROVE  Spec => []~ s_misused
<1>1. Stack!Init => s_stale = {} /\ ~ s_misused
  BY DEF Stack!Init
<1>2. s_stale = {} /\ ~ s_misused /\ [Stack!Next]_stackVars => (s_stale = {} /\ ~ s_misused)'
  <2> SUFFICES ASSUME s_stale = {}, ~ s_misused, [Stack!Next]_stackVars
               PROVE  s_stale' = {} /\ ~ s_misused'
    OBVIOUS
  <2>1. CASE UNCHANGED stackVars
    BY <2>1 DEF stackVars
  <2>2. ASSUME NEW p \in Pushers, Stack!Push(p)
        PROVE  s_stale' = {} /\ ~ s_misused'
    BY <2>2 DEF Stack!Push, Stack!PushNew, Stack!PushLoad, Stack!PushLink, Stack!PushCas
  <2>3. ASSUME NEW c \in Poppers, Stack!Pop(c)
        PROVE  s_stale' = {} /\ ~ s_misused'
    <3>1. CASE Stack!PopDelete(c)
      <4>1. Poppers \ {c} = {}
        OBVIOUS
      <4> QED
        BY <3>1, <4>1 DEF Stack!PopDelete
    <3>2. CASE \/ Stack!PopLoad(c) \/ Stack!PopTest(c) \/ Stack!PopNext(c)
               \/ Stack!PopCas(c) \/ Stack!PopData(c)
      <4>1. s_stale' = s_stale \/ s_stale' = s_stale \ {c}
        BY <3>2 DEF Stack!PopLoad, Stack!PopTest, Stack!PopNext, Stack!PopCas, Stack!PopData
      <4>2. s_misused' = s_misused \/ s_misused' = (c \in s_stale)
        BY <3>2, Zenon
           DEF Stack!PopLoad, Stack!PopTest, Stack!PopNext, Stack!PopCas, Stack!PopData
      <4>3. c \notin s_stale
        OBVIOUS
      <4>4. ~ s_misused'
        BY <4>2, <4>3, Zenon
      <4> QED
        BY <4>1, <4>4
    <3> QED
      BY <2>3, <3>1, <3>2 DEF Stack!Pop
  <2> QED
    BY <2>1, <2>2, <2>3 DEF Stack!Next
<1> QED
  BY <1>1, <1>2, StackSteps, PTL

-----------------------------------------------------------------------------
(* The queue *)

QueuePointers == Queue!Nodes \cup {Queue!nullptr, Queue!Unset}

QueueTypes ==
  /\ q_head \in QueuePointers /\ q_tail \in Queue!Nodes /\ q_next \in [Queue!Nodes -> QueuePointers]
  /\ q_pc \in [Queue!Threads -> {"idle", "load", "cas", "link", "test", "next", "data"}]
  /\ q_shadow \in [Queue!Threads -> QueuePointers] /\ q_node \in [Queue!Threads -> QueuePointers]
  /\ q_pushes \in 0..QueuePushes
  /\ q_order \in Seq(Queue!Nodes)

Roles ==
  /\ \A p \in Producers :
       /\ q_pc[p] \in {"idle", "load", "cas", "link"}
       /\ q_shadow[p] \in Queue!Nodes /\ q_node[p] \in Queue!Nodes
  /\ \A c \in Consumers :
       /\ q_pc[c] \in {"idle", "test", "next", "cas", "data"}
       /\ q_pc[c] \in {"cas", "data"} => q_shadow[c] \in Queue!Nodes

Places == 1..Len(q_order)

\* The nodes in the order, the pairs of neighbours, and those of a node and a
\* later one.
Placed == {n \in Queue!Nodes : \E k \in Places : q_order[k] = n}
Follows == {e \in Queue!Nodes \X Queue!Nodes :
              \E k \in Places : k + 1 \in Places /\ q_order[k] = e[1] /\ q_order[k + 1] = e[2]}
Earlier == {e \in Queue!Nodes \X Queue!Nodes :
              \E k, l \in Places : k < l /\ q_order[k] = e[1] /\ q_order[l] = e[2]}

\* The order has no node twice, and tail is the last.
Ordered ==
  /\ Len(q_order) >= 1 /\ q_order[Len(q_order)] = q_tail
  /\ \A k \in Places : q_order[k] <= q_pushes
  /\ \A k, l \in Places : q_order[k] = q_order[l] => k = l

\* A node that is not linked yet belongs to one producer.
Fresh ==
  \A p \in Producers : q_pc[p] \in {"load", "cas"} =>
    /\ q_node[p] <= q_pushes /\ q_node[p] \notin Placed
    /\ \A q \in Producers : q # p /\ q_pc[q] \in {"load", "cas"} => q_node[q] # q_node[p]

LinksRight ==
  /\ \A p \in Producers : q_pc[p] = "link" => <<q_shadow[p], q_node[p]>> \in Follows
  /\ \A n \in Queue!Nodes : q_next[n] \in Queue!Nodes => <<n, q_next[n]>> \in Follows
  /\ \A c \in Consumers :
       q_pc[c] = "cas" /\ q_node[c] \in Queue!Nodes => <<q_shadow[c], q_node[c]>> \in Follows

Linked ==
  \A n, m \in Queue!Nodes : <<n, m>> \in Follows =>
    \/ q_next[n] = m
    \/ \E p \in Producers : q_pc[p] = "link" /\ q_shadow[p] = n /\ q_node[p] = m

\* Where head and the consumers are.
Popping ==
  /\ q_head \in Queue!Nodes => q_head \in Placed
  /\ \A c \in Consumers :
       /\ q_pc[c] \in {"test", "next"} /\ q_shadow[c] \in Queue!Nodes => q_shadow[c] \in Placed
       /\ q_pc[c] = "next" /\ q_shadow[c] \in Queue!Nodes => \E m \in Queue!Nodes : <<q_shadow[c], m>> \in Follows
       /\ q_pc[c] = "data" /\ q_head \in Queue!Nodes => <<q_shadow[c], q_head>> \in Earlier
  /\ \A c, d \in Consumers :
       c # d /\ q_pc[c] = "data" /\ q_pc[d] = "data" => q_shadow[c] # q_shadow[d]

QueueInv == QueueTypes /\ Roles /\ Ordered /\ Fresh /\ LinksRight /\ Linked /\ Popping

-----------------------------------------------------------------------------
(* The order *)

LEMMA FollowsUnique ==
  ASSUME QueueTypes, Ordered, NEW n, NEW m, NEW k, <<n, m>> \in Follows, <<n, k>> \in Follows
  PROVE  m = k
<1>1. PICK a \in Places : a + 1 \in Places /\ q_order[a] = n /\ q_order[a + 1] = m
  BY DEF Follows
<1>2. PICK b \in Places : b + 1 \in Places /\ q_order[b] = n /\ q_order[b + 1] = k
  BY DEF Follows
<1>3. a = b
  BY <1>1, <1>2 DEF Ordered
<1> QED
  BY <1>1, <1>2, <1>3

LEMMA NeighboursPlaced ==
  ASSUME QueueTypes, Ordered, NEW n \in Queue!Nodes, NEW m \in Queue!Nodes, <<n, m>> \in Follows
  PROVE  n \in Placed /\ m \in Placed /\ <<n, m>> \in Earlier
<1>1. PICK a \in Places : a + 1 \in Places /\ q_order[a] = n /\ q_order[a + 1] = m
  BY DEF Follows
<1>2. a < a + 1
  BY DEF Places
<1> QED
  BY <1>1, <1>2 DEF Placed, Earlier

LEMMA EarlierThenNext ==
  ASSUME QueueTypes, Ordered, NEW a \in Queue!Nodes, NEW n \in Queue!Nodes, NEW m \in Queue!Nodes,
         <<a, n>> \in Earlier, <<n, m>> \in Follows
  PROVE  <<a, m>> \in Earlier
<1>1. PICK k \in Places, l \in Places : k < l /\ q_order[k] = a /\ q_order[l] = n
  BY DEF Earlier
<1>2. PICK b \in Places : b + 1 \in Places /\ q_order[b] = n /\ q_order[b + 1] = m
  BY DEF Follows
<1>3. l = b
  BY <1>1, <1>2 DEF Ordered
<1>4. k < b + 1
  BY <1>1, <1>3 DEF Places
<1> QED
  BY <1>1, <1>2, <1>4 DEF Earlier

LEMMA EarlierStrict ==
  ASSUME QueueTypes, Ordered, NEW n \in Queue!Nodes
  PROVE  <<n, n>> \notin Earlier
<1> SUFFICES ASSUME <<n, n>> \in Earlier PROVE FALSE
  OBVIOUS
<1>1. PICK k \in Places, l \in Places : k < l /\ q_order[k] = n /\ q_order[l] = n
  BY DEF Earlier
<1>2. k = l
  BY <1>1 DEF Ordered
<1> QED
  BY <1>1, <1>2 DEF Places

LEMMA NotLast ==
  ASSUME QueueTypes, Ordered, NEW n \in Placed, n # q_tail
  PROVE  \E m \in Queue!Nodes : <<n, m>> \in Follows
<1>1. PICK k \in Places : q_order[k] = n
  BY DEF Placed
<1>2. k # Len(q_order)
  BY <1>1 DEF Ordered
<1>3. Len(q_order) \in Nat
  BY DEF QueueTypes
<1>4. k + 1 \in Places
  BY <1>2, <1>3 DEF Places
<1>5. q_order[k + 1] \in Queue!Nodes /\ n \in Queue!Nodes
  BY <1>1, <1>4 DEF Places, QueueTypes
<1>6. <<n, q_order[k + 1]>> \in Follows
  BY <1>1, <1>4, <1>5 DEF Follows
<1> QED
  BY <1>5, <1>6

LEMMA OrderSame ==
  ASSUME q_order' = q_order
  PROVE  Placed' = Placed /\ Follows' = Follows /\ Earlier' = Earlier
BY DEF Placed, Follows, Earlier, Places

\* Line 28 puts a node at the end: first what that is, then what follows.
LEMMA Appended ==
  ASSUME QueueTypes, Ordered, NEW x \in Queue!Nodes, q_order' = Append(q_order, x)
  PROVE  \E n \in Nat :
           /\ n >= 1 /\ Places = 1..n /\ Places' = 1..n + 1 /\ q_order[n] = q_tail
           /\ \A k \in 1..n : q_order'[k] = q_order[k] /\ q_order[k] \in Queue!Nodes
           /\ q_order'[n + 1] = x /\ Len(q_order) = n /\ Len(q_order') = n + 1
<1>1. Len(q_order) \in Nat /\ Len(q_order) >= 1 /\ q_order[Len(q_order)] = q_tail
  BY DEF QueueTypes, Ordered
<1>2. Len(q_order') = Len(q_order) + 1 /\ q_order'[Len(q_order) + 1] = x
  BY DEF QueueTypes
<1>3. \A k \in 1..Len(q_order) : q_order'[k] = q_order[k] /\ q_order[k] \in Queue!Nodes
  BY DEF QueueTypes
<1> QED
  BY <1>1, <1>2, <1>3 DEF Places

LEMMA OrderGrows ==
  ASSUME NEW x \in Queue!Nodes, q_tail \in Queue!Nodes, NEW n \in Nat,
         n >= 1, Places = 1..n, Places' = 1..n + 1, q_order[n] = q_tail,
         \A k \in 1..n : q_order'[k] = q_order[k] /\ q_order[k] \in Queue!Nodes,
         q_order'[n + 1] = x
  PROVE  /\ Placed' = Placed \cup {x}
         /\ Follows' = Follows \cup {<<q_tail, x>>}
         /\ Earlier \subseteq Earlier'
<1>1. \A k \in 1..n : k \in 1..n + 1
  OBVIOUS
<1>2. \A k \in 1..n : q_order'[k] = q_order[k]
  OBVIOUS
<1>3. q_order'[n + 1] = x /\ n + 1 \in 1..n + 1 /\ n \in 1..n
  OBVIOUS
<1>4. q_order[n] = q_tail
  OBVIOUS
<1>5. Placed' = Placed \cup {x}
  BY <1>1, <1>2, <1>3 DEF Placed
<1>6. Follows' = Follows \cup {<<q_tail, x>>}
  <2>1. ASSUME NEW e \in Follows' PROVE e \in Follows \cup {<<q_tail, x>>}
    <3>1. e \in Queue!Nodes \X Queue!Nodes
      BY DEF Follows
    <3>2. PICK k \in 1..n + 1 : k + 1 \in 1..n + 1 /\ q_order'[k] = e[1] /\ q_order'[k + 1] = e[2]
      BY <1>1 DEF Follows
    <3>3. CASE k + 1 \in 1..n
      BY <1>1, <1>2, <3>1, <3>2, <3>3 DEF Follows
    <3>4. CASE k = n
      <4>1. e[1] = q_tail /\ e[2] = x
        BY <1>1, <1>2, <1>3, <1>4, <3>2, <3>4
      <4> QED
        BY <3>1, <4>1
    <3> QED
      BY <1>1, <3>2, <3>3, <3>4
  <2>2. ASSUME NEW e \in Follows PROVE e \in Follows'
    <3>1. e \in Queue!Nodes \X Queue!Nodes
      BY DEF Follows
    <3>2. PICK k \in 1..n : k + 1 \in 1..n /\ q_order[k] = e[1] /\ q_order[k + 1] = e[2]
      BY <1>1 DEF Follows
    <3>3. k \in 1..n + 1 /\ k + 1 \in 1..n + 1 /\ q_order'[k] = e[1] /\ q_order'[k + 1] = e[2]
      BY <1>1, <1>2, <3>2
    <3> QED
      BY <1>1, <3>1, <3>3 DEF Follows
  <2>3. <<q_tail, x>> \in Follows'
    <3>1. <<q_tail, x>> \in Queue!Nodes \X Queue!Nodes /\ n \in 1..n + 1 /\ n + 1 \in 1..n + 1 /\ n \in 1..n
      BY <1>1 DEF QueueTypes
    <3>2. q_order'[n] = q_tail /\ q_order'[n + 1] = x
      BY <1>2, <1>3, <1>4, <3>1
    <3> QED
      BY <1>1, <3>1, <3>2 DEF Follows
  <2> QED
    BY <2>1, <2>2, <2>3
<1>7. Earlier \subseteq Earlier'
  <2> SUFFICES ASSUME NEW e \in Earlier PROVE e \in Earlier'
    OBVIOUS
  <2>1. e \in Queue!Nodes \X Queue!Nodes
    BY DEF Earlier
  <2>2. PICK k \in 1..n, l \in 1..n : k < l /\ q_order[k] = e[1] /\ q_order[l] = e[2]
    BY <1>1 DEF Earlier
  <2>3. k \in 1..n + 1 /\ l \in 1..n + 1 /\ q_order'[k] = e[1] /\ q_order'[l] = e[2]
    BY <1>1, <1>2, <2>2
  <2> QED
    BY <1>1, <2>1, <2>2, <2>3 DEF Earlier
<1> QED
  BY <1>5, <1>6, <1>7

-----------------------------------------------------------------------------
LEMMA QueueStart == Queue!LocklessQueueAssumption /\ Queue!Init => QueueInv
<1> SUFFICES ASSUME Queue!LocklessQueueAssumption, Queue!Init PROVE QueueInv
  OBVIOUS
<1>1. 0 \in Queue!Nodes /\ QueuePushes \in Nat /\ Queue!nullptr \in QueuePointers /\ Queue!Unset \in QueuePointers
  BY DEF Queue!LocklessQueueAssumption, Queue!Nodes, QueuePointers
<1>2. q_order = <<0>> /\ q_order \in Seq(Queue!Nodes) /\ Len(q_order) = 1 /\ q_order[1] = 0
  BY <1>1 DEF Queue!Init
<1>3. Places = {1}
  BY <1>2 DEF Places
<1>4. QueueTypes
  BY <1>1, <1>2 DEF Queue!Init, QueueTypes, QueuePointers, Queue!Threads
<1>5. Roles
  BY <1>1 DEF Queue!Init, Roles, Queue!Threads
<1>6. Ordered
  BY <1>2, <1>3 DEF Queue!Init, Ordered
<1>7. Placed = {0} /\ Follows = {}
  BY <1>1, <1>2, <1>3 DEF Placed, Follows
<1>8. Fresh /\ Popping
  BY <1>7 DEF Queue!Init, Fresh, Popping, Queue!Threads
<1>9. LinksRight /\ Linked
  <2>1. \A n \in Queue!Nodes : q_next[n] \notin Queue!Nodes
    BY DEF Queue!Init, Queue!Nodes, Queue!nullptr, Queue!Unset
  <2> QED
    BY <1>7, <2>1 DEF Queue!Init, LinksRight, Linked, Queue!Threads
<1> QED
  BY <1>4, <1>5, <1>6, <1>8, <1>9 DEF QueueInv

\* Steps that leave the order alone, the links, and what producers do.
LEMMA PopQuiet ==
  ASSUME QueueInv, UNCHANGED <<q_tail, q_next, q_pushes, q_order>>,
         \A p \in Producers : q_pc'[p] = q_pc[p] /\ q_shadow'[p] = q_shadow[p] /\ q_node'[p] = q_node[p]
  PROVE  /\ Placed' = Placed /\ Follows' = Follows /\ Earlier' = Earlier
         /\ Ordered' /\ Fresh' /\ Linked'
         /\ \A p \in Producers : q_pc'[p] = "link" => <<q_shadow'[p], q_node'[p]>> \in Follows'
         /\ \A n \in Queue!Nodes : q_next'[n] \in Queue!Nodes => <<n, q_next'[n]>> \in Follows'
<1>1. Placed' = Placed /\ Follows' = Follows /\ Earlier' = Earlier /\ Places' = Places
  BY OrderSame DEF Places
<1>2. Ordered'
  BY <1>1 DEF QueueInv, Ordered
<1>3. Fresh'
  BY <1>1 DEF QueueInv, Fresh
<1>4. Linked'
  BY <1>1 DEF QueueInv, Linked
<1> QED
  BY <1>1, <1>2, <1>3, <1>4 DEF QueueInv, LinksRight

LEMMA QueueDisjoint ==
  ASSUME Queue!LocklessQueueAssumption
  PROVE  \A p \in Producers, c \in Consumers : p # c /\ p \in Queue!Threads /\ c \in Queue!Threads
BY DEF Queue!LocklessQueueAssumption, Queue!Threads

LEMMA PopLoadKeeps ==
  ASSUME Queue!LocklessQueueAssumption, QueueInv, NEW c \in Consumers, Queue!PopLoad(c)
  PROVE  QueueInv'
<1>1. c \in Queue!Threads /\ \A p \in Producers : p # c /\ p \in Queue!Threads
  BY QueueDisjoint DEF Queue!Threads
<1>2. /\ q_pc'[c] = "test" /\ q_shadow'[c] = q_head
      /\ \A t \in Queue!Threads \ {c} : q_pc'[t] = q_pc[t] /\ q_shadow'[t] = q_shadow[t]
      /\ q_node' = q_node
  BY <1>1 DEF Queue!PopLoad, Queue!Goto, QueueInv, QueueTypes
<1>3. /\ Placed' = Placed /\ Follows' = Follows /\ Earlier' = Earlier
      /\ Ordered' /\ Fresh' /\ Linked'
      /\ \A p \in Producers : q_pc'[p] = "link" => <<q_shadow'[p], q_node'[p]>> \in Follows'
      /\ \A n \in Queue!Nodes : q_next'[n] \in Queue!Nodes => <<n, q_next'[n]>> \in Follows'
  BY <1>1, <1>2, PopQuiet DEF Queue!PopLoad
<1>4. QueueTypes' /\ Roles'
  BY <1>1, <1>2 DEF Queue!PopLoad, Queue!Goto, QueueInv, QueueTypes, Roles, Queue!Threads
<1>5. LinksRight'
  BY <1>1, <1>2, <1>3 DEF QueueInv, LinksRight, Queue!Threads
<1>6. Popping'
  BY <1>1, <1>2, <1>3 DEF QueueInv, Popping, Queue!PopLoad, Queue!Threads
<1> QED
  BY <1>3, <1>4, <1>5, <1>6 DEF QueueInv

LEMMA PopTestKeeps ==
  ASSUME Queue!LocklessQueueAssumption, QueueInv, NEW c \in Consumers, Queue!PopTest(c)
  PROVE  QueueInv'
<1>1. c \in Queue!Threads /\ \A p \in Producers : p # c /\ p \in Queue!Threads
  BY QueueDisjoint DEF Queue!Threads
<1>2. /\ q_pc[c] = "test"
      /\ q_pc'[c] = "idle" \/ (q_pc'[c] = "next" /\ q_shadow[c] # q_tail)
      /\ \A t \in Queue!Threads \ {c} : q_pc'[t] = q_pc[t]
      /\ q_shadow' = q_shadow /\ q_node' = q_node /\ q_head' = q_head
  BY <1>1 DEF Queue!PopTest, Queue!Goto, Queue!Empty, QueueInv, QueueTypes
<1>3. /\ Placed' = Placed /\ Follows' = Follows /\ Earlier' = Earlier
      /\ Ordered' /\ Fresh' /\ Linked'
      /\ \A p \in Producers : q_pc'[p] = "link" => <<q_shadow'[p], q_node'[p]>> \in Follows'
      /\ \A n \in Queue!Nodes : q_next'[n] \in Queue!Nodes => <<n, q_next'[n]>> \in Follows'
  BY <1>1, <1>2, PopQuiet DEF Queue!PopTest
<1>4. QueueTypes' /\ Roles'
  BY <1>1, <1>2 DEF Queue!PopTest, Queue!Goto, QueueInv, QueueTypes, Roles, Queue!Threads
<1>5. LinksRight'
  BY <1>1, <1>2, <1>3 DEF QueueInv, LinksRight, Queue!Threads
<1>6. q_pc'[c] = "next" /\ q_shadow[c] \in Queue!Nodes => \E m \in Queue!Nodes : <<q_shadow[c], m>> \in Follows
  BY <1>2, NotLast DEF QueueInv, Popping
<1>7. Popping'
  BY <1>1, <1>2, <1>3, <1>6 DEF QueueInv, Popping, Queue!Threads
<1> QED
  BY <1>3, <1>4, <1>5, <1>7 DEF QueueInv

LEMMA PopNextKeeps ==
  ASSUME Queue!LocklessQueueAssumption, QueueInv, NEW c \in Consumers, Queue!PopNext(c)
  PROVE  QueueInv'
<1>1. c \in Queue!Threads /\ \A p \in Producers : p # c /\ p \in Queue!Threads
  BY QueueDisjoint DEF Queue!Threads
<1>2. /\ q_pc'[c] = "cas" /\ q_shadow[c] \in Queue!Nodes /\ q_node'[c] = q_next[q_shadow[c]]
      /\ \A t \in Queue!Threads \ {c} : q_pc'[t] = q_pc[t] /\ q_node'[t] = q_node[t]
      /\ q_shadow' = q_shadow /\ q_head' = q_head
  BY <1>1 DEF Queue!PopNext, Queue!Goto, QueueInv, QueueTypes
<1>3. /\ Placed' = Placed /\ Follows' = Follows /\ Earlier' = Earlier
      /\ Ordered' /\ Fresh' /\ Linked'
      /\ \A p \in Producers : q_pc'[p] = "link" => <<q_shadow'[p], q_node'[p]>> \in Follows'
      /\ \A n \in Queue!Nodes : q_next'[n] \in Queue!Nodes => <<n, q_next'[n]>> \in Follows'
  BY <1>1, <1>2, PopQuiet DEF Queue!PopNext
<1>4. QueueTypes' /\ Roles'
  BY <1>1, <1>2 DEF Queue!PopNext, Queue!Goto, QueueInv, QueueTypes, Roles, Queue!Threads
<1>5. q_node'[c] \in Queue!Nodes => <<q_shadow[c], q_node'[c]>> \in Follows
  BY <1>2 DEF QueueInv, LinksRight
<1>6. LinksRight'
  BY <1>1, <1>2, <1>3, <1>5 DEF QueueInv, LinksRight, Queue!Threads
<1>7. Popping'
  BY <1>1, <1>2, <1>3 DEF QueueInv, Popping, Queue!Threads
<1> QED
  BY <1>3, <1>4, <1>6, <1>7 DEF QueueInv

\* head goes one link on: behind it now, also what line 36 just took.
LEMMA PopCasKeeps ==
  ASSUME Queue!LocklessQueueAssumption, QueueInv, NEW c \in Consumers, Queue!PopCas(c)
  PROVE  QueueInv'
<1>1. c \in Queue!Threads /\ \A p \in Producers : p # c /\ p \in Queue!Threads
  BY QueueDisjoint DEF Queue!Threads
<1>2. /\ q_pc[c] = "cas" /\ q_pc'[c] = "data" /\ q_head = q_shadow[c] /\ q_head' = q_node[c]
      /\ \A t \in Queue!Threads \ {c} : q_pc'[t] = q_pc[t]
      /\ q_shadow' = q_shadow /\ q_node' = q_node /\ q_shadow[c] \in Queue!Nodes
  BY <1>1 DEF Queue!PopCas, Queue!HeadIs, Queue!Goto, QueueInv, QueueTypes, Roles
<1>3. /\ Placed' = Placed /\ Follows' = Follows /\ Earlier' = Earlier
      /\ Ordered' /\ Fresh' /\ Linked'
      /\ \A p \in Producers : q_pc'[p] = "link" => <<q_shadow'[p], q_node'[p]>> \in Follows'
      /\ \A n \in Queue!Nodes : q_next'[n] \in Queue!Nodes => <<n, q_next'[n]>> \in Follows'
  BY <1>1, <1>2, PopQuiet DEF Queue!PopCas
<1>4. QueueTypes' /\ Roles'
  BY <1>1, <1>2 DEF Queue!PopCas, Queue!Goto, QueueInv, QueueTypes, Roles, Queue!Threads
<1>5. LinksRight'
  BY <1>1, <1>2, <1>3 DEF QueueInv, LinksRight, Queue!Threads
<1>6. q_head' \in Queue!Nodes =>
        q_head' \in Placed /\ <<q_shadow[c], q_head'>> \in Follows /\ <<q_shadow[c], q_head'>> \in Earlier
  <2>1. q_node[c] \in Queue!Nodes => <<q_shadow[c], q_node[c]>> \in Follows
    BY <1>2 DEF QueueInv, LinksRight
  <2> QED
    BY <1>2, <2>1, NeighboursPlaced DEF QueueInv
<1>7. ASSUME NEW d \in Consumers, d # c, q_pc[d] = "data"
      PROVE  /\ q_shadow[d] # q_shadow[c]
             /\ q_head' \in Queue!Nodes => <<q_shadow[d], q_head'>> \in Earlier
  <2>1. <<q_shadow[d], q_shadow[c]>> \in Earlier /\ q_shadow[d] \in Queue!Nodes
    BY <1>2, <1>7 DEF QueueInv, Popping, Roles
  <2>2. q_shadow[d] # q_shadow[c]
    BY <1>2, <2>1, EarlierStrict DEF QueueInv
  <2>3. q_head' \in Queue!Nodes => <<q_shadow[d], q_head'>> \in Earlier
    BY <1>2, <1>6, <2>1, EarlierThenNext DEF QueueInv
  <2> QED
    BY <2>2, <2>3
<1>8. \A d \in Consumers : d # c => q_pc'[d] = q_pc[d]
  BY <1>2 DEF Queue!Threads
<1>9. Popping'
  <2>1. q_head' \in Queue!Nodes => q_head' \in Placed'
    BY <1>3, <1>6
  <2>2. ASSUME NEW d \in Consumers
        PROVE  /\ q_pc'[d] \in {"test", "next"} /\ q_shadow'[d] \in Queue!Nodes => q_shadow'[d] \in Placed'
               /\ q_pc'[d] = "next" /\ q_shadow'[d] \in Queue!Nodes
                    => \E m \in Queue!Nodes : <<q_shadow'[d], m>> \in Follows'
               /\ q_pc'[d] = "data" /\ q_head' \in Queue!Nodes => <<q_shadow'[d], q_head'>> \in Earlier'
    BY <1>2, <1>3, <1>6, <1>7, <1>8 DEF QueueInv, Popping
  <2>3. ASSUME NEW d \in Consumers, NEW e \in Consumers, d # e, q_pc'[d] = "data", q_pc'[e] = "data"
        PROVE  q_shadow'[d] # q_shadow'[e]
    BY <1>2, <1>7, <1>8, <2>3 DEF QueueInv, Popping
  <2> QED
    BY <2>1, <2>2, <2>3 DEF Popping
<1> QED
  BY <1>3, <1>4, <1>5, <1>9 DEF QueueInv

LEMMA PopRestKeeps ==
  ASSUME Queue!LocklessQueueAssumption, QueueInv, NEW c \in Consumers, Queue!PopData(c) \/ Queue!Crash(c)
  PROVE  QueueInv'
<1>1. c \in Queue!Threads /\ \A p \in Producers : p # c /\ p \in Queue!Threads
  BY QueueDisjoint DEF Queue!Threads
<1>2. /\ q_pc' = q_pc \/ q_pc' = [q_pc EXCEPT ![c] = "idle"]
      /\ q_shadow' = q_shadow /\ q_node' = q_node /\ q_head' = q_head
      /\ UNCHANGED <<q_tail, q_next, q_pushes, q_order>>
  BY DEF Queue!PopData, Queue!Crash, Queue!Goto
<1>3. /\ q_pc'[c] = q_pc[c] \/ q_pc'[c] = "idle"
      /\ \A t \in Queue!Threads \ {c} : q_pc'[t] = q_pc[t]
  BY <1>1, <1>2 DEF QueueInv, QueueTypes
<1>4. /\ Placed' = Placed /\ Follows' = Follows /\ Earlier' = Earlier
      /\ Ordered' /\ Fresh' /\ Linked'
      /\ \A p \in Producers : q_pc'[p] = "link" => <<q_shadow'[p], q_node'[p]>> \in Follows'
      /\ \A n \in Queue!Nodes : q_next'[n] \in Queue!Nodes => <<n, q_next'[n]>> \in Follows'
  BY <1>1, <1>2, <1>3, PopQuiet
<1>5. QueueTypes' /\ Roles'
  BY <1>1, <1>2, <1>3 DEF QueueInv, QueueTypes, Roles, Queue!Threads
<1>6. LinksRight'
  BY <1>1, <1>2, <1>3, <1>4 DEF QueueInv, LinksRight, Queue!Threads
<1>7. Popping'
  BY <1>1, <1>2, <1>3, <1>4 DEF QueueInv, Popping, Queue!Threads
<1> QED
  BY <1>4, <1>5, <1>6, <1>7 DEF QueueInv

LEMMA PushNewKeeps ==
  ASSUME Queue!LocklessQueueAssumption, QueueInv, NEW p \in Producers, Queue!PushNew(p)
  PROVE  QueueInv'
<1>1. p \in Queue!Threads /\ \A c \in Consumers : p # c /\ c \in Queue!Threads
  BY QueueDisjoint DEF Queue!Threads
<1>2. /\ q_pushes \in Nat /\ q_pushes + 1 \in Queue!Nodes
      /\ q_pushes' = q_pushes + 1
  BY DEF Queue!PushNew, QueueInv, QueueTypes, Queue!Nodes, Queue!LocklessQueueAssumption
<1>3. /\ q_pc[p] = "idle" /\ q_pc'[p] = "load" /\ q_node'[p] = q_pushes + 1
      /\ \A t \in Queue!Threads \ {p} : q_pc'[t] = q_pc[t] /\ q_node'[t] = q_node[t]
      /\ q_shadow' = q_shadow /\ UNCHANGED <<q_head, q_tail, q_next, q_order>>
  BY <1>1 DEF Queue!PushNew, Queue!Goto, QueueInv, QueueTypes
<1>4. Placed' = Placed /\ Follows' = Follows /\ Earlier' = Earlier /\ Places' = Places
  BY <1>3, OrderSame DEF Places
<1>5. QueueTypes'
  <2>1. q_pushes' \in 0..QueuePushes /\ q_node'[p] \in QueuePointers
    BY <1>2, <1>3 DEF Queue!Nodes, QueuePointers
  <2>2. q_node' \in [Queue!Threads -> QueuePointers]
    BY <1>1, <1>2, <1>3, <2>1 DEF Queue!PushNew, QueueInv, QueueTypes
  <2> QED
    BY <1>1, <1>3, <2>1, <2>2 DEF Queue!PushNew, Queue!Goto, QueueInv, QueueTypes
<1>6. Roles'
  BY <1>1, <1>2, <1>3 DEF QueueInv, Roles, Queue!Threads
<1>7. \A k \in Places : q_order[k] \in Int /\ q_order[k] <= q_pushes
  <2>1. \A k \in Places : q_order[k] \in Queue!Nodes
    BY DEF QueueInv, QueueTypes, Places
  <2> QED
    BY <2>1 DEF QueueInv, Ordered, Queue!Nodes
<1>8. Ordered'
  <2>1. Len(q_order') = Len(q_order) /\ q_order'[Len(q_order')] = q_order[Len(q_order)]
    BY <1>3
  <2>2. \A k \in Places : q_order[k] <= q_pushes'
    BY <1>2, <1>7
  <2> QED
    BY <1>3, <1>4, <2>1, <2>2 DEF QueueInv, Ordered
<1>9. q_pushes + 1 \notin Placed
  BY <1>2, <1>7 DEF Placed
<1>10. \A q \in Producers : q_node[q] \in Int
  BY DEF QueueInv, Roles, Queue!Nodes
<1>11. Fresh'
  BY <1>2, <1>3, <1>4, <1>9, <1>10 DEF QueueInv, Fresh, Queue!Threads
<1>12. LinksRight' /\ Linked'
  BY <1>1, <1>3, <1>4 DEF QueueInv, LinksRight, Linked, Queue!Threads
<1>13. Popping'
  BY <1>1, <1>3, <1>4 DEF QueueInv, Popping, Queue!Threads
<1> QED
  BY <1>5, <1>6, <1>8, <1>11, <1>12, <1>13 DEF QueueInv

LEMMA PushLoadKeeps ==
  ASSUME Queue!LocklessQueueAssumption, QueueInv, NEW p \in Producers, Queue!PushLoad(p)
  PROVE  QueueInv'
<1>1. p \in Queue!Threads /\ \A c \in Consumers : p # c /\ c \in Queue!Threads
  BY QueueDisjoint DEF Queue!Threads
<1>2. /\ q_pc[p] \in {"load", "cas"} /\ q_pc'[p] = "cas" /\ q_shadow'[p] = q_tail
      /\ \A t \in Queue!Threads \ {p} : q_pc'[t] = q_pc[t] /\ q_shadow'[t] = q_shadow[t]
      /\ q_node' = q_node /\ UNCHANGED <<q_head, q_tail, q_next, q_order, q_pushes>>
  BY <1>1 DEF Queue!PushLoad, Queue!Goto, QueueInv, QueueTypes
<1>3. Placed' = Placed /\ Follows' = Follows /\ Earlier' = Earlier /\ Places' = Places
  BY <1>2, OrderSame DEF Places
<1>4. QueueTypes' /\ Roles'
  BY <1>1, <1>2
     DEF Queue!PushLoad, Queue!Goto, QueueInv, QueueTypes, Roles, Queue!Threads, QueuePointers
<1>5. Ordered' /\ Fresh'
  BY <1>2, <1>3 DEF QueueInv, Ordered, Fresh, Queue!Threads
<1>6. LinksRight' /\ Linked'
  BY <1>1, <1>2, <1>3 DEF QueueInv, LinksRight, Linked, Queue!Threads
<1>7. Popping'
  BY <1>1, <1>2, <1>3 DEF QueueInv, Popping, Queue!Threads
<1> QED
  BY <1>4, <1>5, <1>6, <1>7 DEF QueueInv

\* The producer that moves tail owes the link from the old tail to its node.
LEMMA PushCasKeeps ==
  ASSUME Queue!LocklessQueueAssumption, QueueInv, NEW p \in Producers, Queue!PushCas(p)
  PROVE  QueueInv'
<1>1. p \in Queue!Threads /\ \A c \in Consumers : p # c /\ c \in Queue!Threads
  BY QueueDisjoint DEF Queue!Threads
<1>2. /\ q_pc[p] = "cas" /\ q_pc'[p] = "link" /\ q_shadow[p] = q_tail /\ q_tail' = q_node[p]
      /\ \A t \in Queue!Threads \ {p} : q_pc'[t] = q_pc[t]
      /\ UNCHANGED <<q_shadow, q_node, q_head, q_next, q_pushes>>
  BY <1>1 DEF Queue!PushCas, Queue!TailIs, Queue!Goto, QueueInv, QueueTypes
<1>3. DEFINE x == q_node[p]
<1>4. x \in Queue!Nodes /\ x \notin Placed /\ x <= q_pushes /\ q_tail \in Queue!Nodes
  BY <1>2 DEF QueueInv, Roles, Fresh, QueueTypes
<1>5. q_order' = Append(q_order, x)
  BY DEF Queue!PushCas
<1>6. PICK n \in Nat :
        /\ n >= 1 /\ Places = 1..n /\ Places' = 1..n + 1 /\ q_order[n] = q_tail
        /\ \A k \in 1..n : q_order'[k] = q_order[k] /\ q_order[k] \in Queue!Nodes
        /\ q_order'[n + 1] = x /\ Len(q_order) = n /\ Len(q_order') = n + 1
  BY <1>4, <1>5, Appended DEF QueueInv
<1>7. /\ Placed' = Placed \cup {x} /\ Follows' = Follows \cup {<<q_tail, x>>}
      /\ Earlier \subseteq Earlier'
  <2> HIDE DEF x
  <2> QED
    BY <1>4, <1>6, OrderGrows
<1>8. q_order' \in Seq(Queue!Nodes)
  BY <1>4, <1>5 DEF QueueInv, QueueTypes
<1> HIDE DEF x
<1>9. QueueTypes' /\ Roles'
  <2>1. q_pc' \in [Queue!Threads -> {"idle", "load", "cas", "link", "test", "next", "data"}]
    BY DEF Queue!PushCas, Queue!Goto, QueueInv, QueueTypes
  <2>2. q_tail' \in Queue!Nodes
    BY <1>2, <1>4 DEF x
  <2> QED
    BY <1>1, <1>2, <1>8, <2>1, <2>2 DEF QueueInv, QueueTypes, Roles, Queue!Threads
<1>10. Ordered'
  <2>1. q_tail' = x /\ n + 1 \in Nat /\ n + 1 >= 1
    BY <1>2, <1>6 DEF x
  <2>2. \A k \in 1..n + 1 : k \in 1..n \/ k = n + 1
    OBVIOUS
  <2>3. \A k \in 1..n : q_order'[k] # x /\ q_order'[k] <= q_pushes
    BY <1>4, <1>6 DEF QueueInv, Placed, Ordered
  <2>4. \A k, l \in 1..n : q_order'[k] = q_order'[l] => k = l
    BY <1>6 DEF QueueInv, Ordered
  <2>5. \A k \in 1..n + 1 : q_order'[k] <= q_pushes'
    BY <1>2, <1>4, <1>6, <2>2, <2>3
  <2>6. \A k, l \in 1..n + 1 : q_order'[k] = q_order'[l] => k = l
    BY <1>6, <2>2, <2>3, <2>4
  <2> QED
    BY <1>6, <2>1, <2>5, <2>6 DEF Ordered
<1>11. Fresh'
  BY <1>2, <1>7 DEF QueueInv, Fresh, Queue!Threads, x
<1>12. LinksRight'
  <2>1. <<q_shadow'[p], q_node'[p]>> \in Follows'
    BY <1>2, <1>7 DEF x
  <2> QED
    BY <1>1, <1>2, <1>7, <2>1 DEF QueueInv, LinksRight, Queue!Threads
<1>13. Linked'
  <2> SUFFICES ASSUME NEW a \in Queue!Nodes, NEW b \in Queue!Nodes, <<a, b>> \in Follows'
               PROVE  \/ q_next'[a] = b
                      \/ \E q \in Producers : q_pc'[q] = "link" /\ q_shadow'[q] = a /\ q_node'[q] = b
    BY DEF Linked
  <2>1. CASE <<a, b>> \in Follows
    BY <1>2, <2>1 DEF QueueInv, Linked, Queue!Threads
  <2>2. CASE <<a, b>> = <<q_tail, x>>
    BY <1>2, <2>2 DEF x
  <2> QED
    BY <1>7, <2>1, <2>2
<1>14. Popping'
  BY <1>1, <1>2, <1>7 DEF QueueInv, Popping, Queue!Threads
<1> QED
  BY <1>9, <1>10, <1>11, <1>12, <1>13, <1>14 DEF QueueInv

LEMMA PushLinkKeeps ==
  ASSUME Queue!LocklessQueueAssumption, QueueInv, NEW p \in Producers, Queue!PushLink(p)
  PROVE  QueueInv'
<1>1. p \in Queue!Threads /\ \A c \in Consumers : p # c /\ c \in Queue!Threads
  BY QueueDisjoint DEF Queue!Threads
<1>2. /\ q_pc[p] = "link" /\ q_pc'[p] = "idle"
      /\ \A t \in Queue!Threads \ {p} : q_pc'[t] = q_pc[t]
      /\ UNCHANGED <<q_shadow, q_node, q_head, q_tail, q_order, q_pushes>>
  BY <1>1 DEF Queue!PushLink, Queue!Goto, QueueInv, QueueTypes
<1>3. /\ q_shadow[p] \in Queue!Nodes /\ q_node[p] \in Queue!Nodes /\ <<q_shadow[p], q_node[p]>> \in Follows
      /\ q_next'[q_shadow[p]] = q_node[p] /\ \A a \in Queue!Nodes \ {q_shadow[p]} : q_next'[a] = q_next[a]
  BY <1>2 DEF Queue!PushLink, QueueInv, QueueTypes, Roles, LinksRight
<1>4. Placed' = Placed /\ Follows' = Follows /\ Earlier' = Earlier /\ Places' = Places
  BY <1>2, OrderSame DEF Places
<1>5. QueueTypes' /\ Roles'
  BY <1>1, <1>2, <1>3
     DEF Queue!PushLink, Queue!Goto, QueueInv, QueueTypes, Roles, Queue!Threads, QueuePointers
<1>6. Ordered' /\ Fresh'
  BY <1>2, <1>4 DEF QueueInv, Ordered, Fresh, Queue!Threads
<1>7. LinksRight'
  BY <1>1, <1>2, <1>3, <1>4 DEF QueueInv, LinksRight, Queue!Threads
<1>8. Linked'
  <2> SUFFICES ASSUME NEW a \in Queue!Nodes, NEW b \in Queue!Nodes, <<a, b>> \in Follows
               PROVE  \/ q_next'[a] = b
                      \/ \E q \in Producers : q_pc'[q] = "link" /\ q_shadow'[q] = a /\ q_node'[q] = b
    BY <1>4 DEF Linked
  <2>1. CASE a = q_shadow[p]
    <3>1. q_node[p] = b
      BY <1>3, <2>1, FollowsUnique DEF QueueInv
    <3> QED
      BY <1>3, <2>1, <3>1
  <2>2. CASE a # q_shadow[p]
    BY <1>2, <1>3, <2>2 DEF QueueInv, Linked, Queue!Threads
  <2> QED
    BY <2>1, <2>2
<1>9. Popping'
  BY <1>1, <1>2, <1>4 DEF QueueInv, Popping, Queue!Threads
<1> QED
  BY <1>5, <1>6, <1>7, <1>8, <1>9 DEF QueueInv

LEMMA QueueInductive ==
  Queue!LocklessQueueAssumption /\ QueueInv /\ [Queue!Next]_queueVars => QueueInv'
<1> SUFFICES ASSUME Queue!LocklessQueueAssumption, QueueInv, [Queue!Next]_queueVars
             PROVE  QueueInv'
  OBVIOUS
<1>1. ASSUME NEW p \in Producers, Queue!Push(p) PROVE QueueInv'
  BY <1>1, PushNewKeeps, PushLoadKeeps, PushCasKeeps, PushLinkKeeps DEF Queue!Push
<1>2. ASSUME NEW c \in Consumers, Queue!Pop(c) PROVE QueueInv'
  BY <1>2, PopLoadKeeps, PopTestKeeps, PopNextKeeps, PopCasKeeps, PopRestKeeps DEF Queue!Pop
<1>3. CASE UNCHANGED queueVars
  <2>1. UNCHANGED <<q_head, q_tail, q_next, q_pc, q_shadow, q_node, q_pushes, q_order>>
    BY <1>3 DEF queueVars
  <2>2. Placed' = Placed /\ Follows' = Follows /\ Earlier' = Earlier /\ Places' = Places
    BY <2>1, OrderSame DEF Places
  <2>3. QueueTypes' /\ Roles' /\ Fresh'
    BY <2>1, <2>2 DEF QueueInv, QueueTypes, Roles, Fresh
  <2>4. Ordered'
    BY <2>1, <2>2 DEF QueueInv, Ordered
  <2>5. LinksRight' /\ Linked'
    BY <2>1, <2>2 DEF QueueInv, LinksRight, Linked
  <2>6. Popping'
    BY <2>1, <2>2 DEF QueueInv, Popping
  <2> QED
    BY <2>3, <2>4, <2>5, <2>6 DEF QueueInv
<1> QED
  BY <1>1, <1>2, <1>3 DEF Queue!Next

-----------------------------------------------------------------------------
LEMMA QueueImplied ==
  Queue!LocklessQueueAssumption /\ QueueInv => Queue!TakesInOrder /\ Queue!NothingLost
<1> SUFFICES ASSUME Queue!LocklessQueueAssumption, QueueInv
             PROVE  Queue!TakesInOrder /\ Queue!NothingLost
  OBVIOUS
<1>1. Len(q_order) \in Nat /\ Places = 1..Len(q_order)
  BY DEF QueueInv, QueueTypes, Places
<1>2. ASSUME NEW n \in Queue!Nodes, NEW m \in Queue!Nodes, <<n, m>> \in Follows
      PROVE  Queue!Successor(n) = m
  <2>1. PICK k \in Places : k + 1 \in Places /\ q_order[k] = n /\ q_order[k + 1] = m
    BY <1>2 DEF Follows
  <2>2. k \in 1..Len(q_order)-1
    BY <1>1, <2>1
  <2>3. ASSUME NEW x \in Queue!Nodes, NEW l \in 1..Len(q_order)-1, q_order[l] = n, q_order[l + 1] = x
        PROVE  x = m
    <3>1. l \in Places /\ l + 1 \in Places
      BY <1>1
    <3>2. <<n, x>> \in Follows
      BY <2>3, <3>1 DEF Follows
    <3> QED
      BY <1>2, <3>2, FollowsUnique DEF QueueInv
  <2>4. \E x \in Queue!Nodes : \E l \in 1..Len(q_order)-1 : q_order[l] = n /\ q_order[l + 1] = x
    BY <2>1, <2>2
  <2>5. /\ Queue!Successor(n) \in Queue!Nodes
        /\ \E l \in 1..Len(q_order)-1 : q_order[l] = n /\ q_order[l + 1] = Queue!Successor(n)
    BY <2>4, Zenon DEF Queue!Successor
  <2> QED
    BY <2>3, <2>5
<1>3. Queue!TakesInOrder
  BY <1>2 DEF QueueInv, LinksRight, Popping, Queue!TakesInOrder
<1>4. Queue!NothingLost
  <2> SUFFICES ASSUME q_head \in Queue!Nodes
               PROVE  \E k \in 1..Len(q_order) :
                        /\ q_order[k] = q_head
                        /\ \A j \in k..Len(q_order)-1 :
                             \/ q_next[q_order[j]] = q_order[j+1]
                             \/ \E p \in Producers :
                                  q_pc[p] = "link" /\ q_shadow[p] = q_order[j] /\ q_node[p] = q_order[j+1]
    BY DEF Queue!NothingLost
  <2>1. PICK k \in Places : q_order[k] = q_head
    BY DEF QueueInv, Popping, Placed
  <2>2. ASSUME NEW j \in k..Len(q_order)-1
        PROVE  \/ q_next[q_order[j]] = q_order[j+1]
               \/ \E p \in Producers :
                    q_pc[p] = "link" /\ q_shadow[p] = q_order[j] /\ q_node[p] = q_order[j+1]
    <3>1. j \in Places /\ j + 1 \in Places
      BY <1>1
    <3>2. q_order[j] \in Queue!Nodes /\ q_order[j + 1] \in Queue!Nodes
      BY <1>1, <3>1 DEF QueueInv, QueueTypes
    <3>3. <<q_order[j], q_order[j + 1]>> \in Follows
      BY <3>1, <3>2 DEF Follows
    <3> QED
      BY <3>2, <3>3 DEF QueueInv, Linked
  <2> QED
    BY <1>1, <2>1, <2>2
<1> QED
  BY <1>3, <1>4

LEMMA MissStep ==
  ASSUME Queue!LocklessQueueAssumption, QueueInv, Queue!Next, NEW c \in Consumers,
         q_pc[c] = "next", q_pc'[c] = "cas", q_node'[c] \notin Queue!Nodes
  PROVE  \E p \in Producers : q_pc[p] = "link" /\ q_shadow[p] = q_shadow[c]
<1>1. c \in Queue!Threads
  BY DEF Queue!Threads
<1>2. Queue!PopNext(c)
  <2>1. ASSUME NEW p \in Producers, Queue!Push(p) PROVE FALSE
    <3>1. q_pc'[c] = q_pc[c]
      BY <2>1, <1>1, QueueDisjoint
         DEF Queue!Push, Queue!PushNew, Queue!PushLoad, Queue!PushCas, Queue!PushLink,
             Queue!Goto, QueueInv, QueueTypes
    <3> QED
      BY <3>1
  <2>2. ASSUME NEW d \in Consumers, Queue!Pop(d), d # c PROVE FALSE
    <3>1. q_pc'[c] = q_pc[c]
      BY <2>2, <1>1
         DEF Queue!Pop, Queue!PopLoad, Queue!PopTest, Queue!PopNext, Queue!PopCas,
             Queue!PopData, Queue!Crash, Queue!Goto, QueueInv, QueueTypes
    <3> QED
      BY <3>1
  <2>3. ASSUME Queue!Pop(c) PROVE Queue!PopNext(c)
    BY <2>3, <1>1
       DEF Queue!Pop, Queue!PopLoad, Queue!PopTest, Queue!PopCas, Queue!PopData,
           Queue!Crash, Queue!Goto, QueueInv, QueueTypes
  <2> QED
    BY <2>1, <2>2, <2>3 DEF Queue!Next
<1>3. q_shadow[c] \in Queue!Nodes /\ q_node'[c] = q_next[q_shadow[c]]
  BY <1>1, <1>2 DEF Queue!PopNext, QueueInv, QueueTypes
<1>4. PICK m \in Queue!Nodes : <<q_shadow[c], m>> \in Follows
  BY <1>3 DEF QueueInv, Popping
<1> QED
  BY <1>3, <1>4 DEF QueueInv, Linked

LEMMA QueueSteps == Spec => Queue!Init /\ [][Queue!Next]_queueVars
<1>1. Init => Queue!Init
  BY DEF Init
<1>2. [StackStep \/ QueueStep]_<<container, stackVars, queueVars>> => [Queue!Next]_queueVars
  BY DEF StackStep, QueueStep
<1> QED
  BY <1>1, <1>2, PTL DEF Spec

\* The queue keeps the order of the pushes: links lead from each node to the
\* one pushed next, no two pops return the same value, what is behind head is
\* linked or about to be linked by a push past line 28, and only a pop that
\* meets such a push reads a pointer to no node.
THEOREM QueueCorrect == Spec => QueueKeepsOrder
<1>1. Queue!LocklessQueueAssumption
  BY Constants
<1>2. Queue!Init => QueueInv
  BY <1>1, QueueStart
<1>3. QueueInv /\ [Queue!Next]_queueVars => QueueInv'
  BY <1>1, QueueInductive
<1>4. QueueInv => Queue!TakesInOrder /\ Queue!NothingLost
  BY <1>1, QueueImplied
<1>5. QueueInv /\ [Queue!Next]_queueVars
        => [\A c \in Consumers :
              q_pc[c] = "next" /\ q_pc'[c] = "cas" /\ q_node'[c] \notin Queue!Nodes
                => \E p \in Producers : q_pc[p] = "link" /\ q_shadow[p] = q_shadow[c]]_queueVars
  BY <1>1, MissStep
<1>6. Queue!Init /\ [][Queue!Next]_queueVars
        => [](Queue!TakesInOrder /\ Queue!NothingLost)
             /\ [][\A c \in Consumers :
                     q_pc[c] = "next" /\ q_pc'[c] = "cas" /\ q_node'[c] \notin Queue!Nodes
                       => \E p \in Producers : q_pc[p] = "link" /\ q_shadow[p] = q_shadow[c]]_queueVars
  BY <1>2, <1>3, <1>4, <1>5, PTL
<1>7. queueVars = Queue!vars
  BY DEF queueVars, Queue!vars
<1> QED
  BY <1>6, QueueSteps, PTL DEF QueueKeepsOrder, Queue!MissesOnlyUnlinked, queueVars, Queue!vars
=============================================================================
