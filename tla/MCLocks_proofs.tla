--------------------------- MODULE MCLocks_proofs ---------------------------
(***************************************************************************)
(* What the three locks keep, for any threads and iterations.              *)
(*                                                                         *)
(* The ticket lock, when an int has at least as many values as there are   *)
(* threads: tickets in use are distinct and lie between flag and seq, so   *)
(* that equal residues mean equal tickets.                                 *)
(*                                                                         *)
(* The group lock, when the count field has room for the threads: the word *)
(* is the group inside and its size, and a shadow is a word that was       *)
(* possible, of the thread's own group if it is inside.                    *)
(*                                                                         *)
(* The spinlock: its flag is set just while one thread is inside, and cnt  *)
(* is the number of threads that have stored.                              *)
(***************************************************************************)
EXTENDS MCLocks, FiniteSetTheorems, TLAPS

LEMMA LockConstants ==
  /\ IsFiniteSet(Threads) /\ Loops \in Nat
  /\ Wrap \in Nat \ {0} /\ Cardinality(Threads) <= Wrap
  /\ Unit \in Nat \ {0} /\ Cardinality(Threads) < Unit
  /\ Group \in [Threads -> {1, 2}]
<1>1. /\ Tickets!Cardinality(Threads) = Cardinality(Threads)
      /\ Groups!Cardinality(Threads) = Cardinality(Threads)
      /\ Tickets!IsFiniteSet(Threads) <=> IsFiniteSet(Threads)
  BY DEF Tickets!Cardinality, Groups!Cardinality, Cardinality,
         Tickets!IsFiniteSet, IsFiniteSet
<1> QED
  BY <1>1, Constants DEF Tickets!FairSpinlockAssumption, Groups!GroupLockAssumption

USE LockConstants

(* Fewer than n apart, two different numbers have different remainders.    *)
LEMMA ModDistinct ==
  ASSUME NEW n \in Nat \ {0}, NEW i \in Nat, NEW j \in Nat, i < j, j - i < n
  PROVE  i % n # j % n
<1> SUFFICES ASSUME i % n = j % n PROVE FALSE
  OBVIOUS
<1>1. PICK a \in Nat, b \in Nat, r \in 0..n-1 : i = n * a + r /\ j = n * b + r
  <2>1. /\ i = n * (i \div n) + (i % n) /\ i \div n \in Nat /\ i % n \in 0..n-1
        /\ j = n * (j \div n) + (j % n) /\ j \div n \in Nat
    OBVIOUS
  <2> QED
    BY <2>1
<1>2. b > a
  <2>1. b <= a => n * b <= n * a
    OBVIOUS
  <2> QED
    BY <1>1, <2>1
<1>3. n * b >= n * a + n
  <2>1. b - a - 1 \in Nat /\ n * b = n * a + n + n * (b - a - 1) /\ n * (b - a - 1) >= 0
    BY <1>2
  <2> QED
    BY <2>1
<1> QED
  BY <1>1, <1>3

(* The ticket lock *)

Waiters == {t \in Threads : Tickets!Queued(t)}

\* Every ticket between flag and seq belongs to exactly one waiting thread,
\* and the thread inside the lock is the one whose ticket is flag.
Tickets1to1 ==
  /\ \A t \in Threads : Tickets!Queued(t) => flag <= myseq[t] /\ myseq[t] < seq
  /\ \A t, u \in Threads : Tickets!Queued(t) /\ Tickets!Queued(u) /\ t # u => myseq[t] # myseq[u]
  /\ \A t \in Threads : Tickets!Holding(t) => myseq[t] = flag
  /\ seq - flag = Cardinality(Waiters)

TicketTypes ==
  /\ seq \in Nat /\ flag \in Nat /\ count \in Nat
  /\ f_pc \in [Threads -> {"start", "spin", "load", "store", "unlock"}]
  /\ myseq \in [Threads -> Nat]
  /\ f_loaded \in [Threads -> Nat]
  /\ f_done \in [Threads -> 0..Loops]
  /\ \A t \in Threads : f_pc[t] \in {"spin", "load", "store"} => f_done[t] < Loops

TicketInv == TicketTypes /\ Tickets1to1 /\ Tickets!NoLostIncrement

LEMMA WaitersFinite ==
  /\ IsFiniteSet(Waiters)
  /\ Cardinality(Waiters) \in Nat
  /\ Cardinality(Waiters) <= Cardinality(Threads)
  /\ Cardinality(Threads) \in Nat
  BY FS_Subset, FS_CardinalityType DEF Waiters

LEMMA TicketStart == Tickets!Init => TicketInv
<1> SUFFICES ASSUME Tickets!Init PROVE TicketInv
  OBVIOUS
<1>1. Waiters = {}
  BY DEF Tickets!Init, Waiters, Tickets!Queued, Tickets!Holding
<1>2. Cardinality(Waiters) = 0
  BY <1>1, FS_EmptySet
<1>3. QED
  BY <1>2 DEF Tickets!Init, TicketInv, TicketTypes, Tickets1to1, Tickets!NoLostIncrement,
         Tickets!Queued, Tickets!Holding

LEMMA TicketInductive == TicketInv /\ [Tickets!Next]_fairVars => TicketInv'
<1> SUFFICES ASSUME TicketInv, [Tickets!Next]_fairVars PROVE TicketInv'
  OBVIOUS
<1> USE DEF TicketInv, TicketTypes, Tickets!Goto, Tickets!Queued, Tickets!Holding
<1>1. ASSUME NEW t \in Threads, Tickets!TakeTicket(t) PROVE TicketInv'
  <2>1. TicketTypes'
    BY <1>1 DEF Tickets!TakeTicket
  <2>2. Waiters' = Waiters \cup {t} /\ t \notin Waiters
    BY <1>1 DEF Tickets!TakeTicket, Waiters
  <2>3. Cardinality(Waiters') = Cardinality(Waiters) + 1
    BY <2>2, WaitersFinite, FS_AddElement
  <2>4. (seq - flag = Cardinality(Waiters))'
    BY <1>1, <2>3, WaitersFinite DEF Tickets!TakeTicket, Tickets1to1
  <2>5. flag <= seq
    BY WaitersFinite DEF Tickets1to1
  <2>6. Tickets1to1'
    BY <1>1, <2>4, <2>5 DEF Tickets!TakeTicket, Tickets1to1
  <2>7. Tickets!NoLostIncrement'
    BY <1>1 DEF Tickets!TakeTicket, Tickets!NoLostIncrement
  <2>8. QED
    BY <2>1, <2>6, <2>7
<1>2. ASSUME NEW t \in Threads, Tickets!Enter(t) PROVE TicketInv'
  <2>1. myseq[t] = flag
    <3>1. /\ flag <= myseq[t] /\ myseq[t] < seq
          /\ myseq[t] % Wrap = flag % Wrap
      BY <1>2 DEF Tickets!Enter, Tickets!MyTurn, Tickets1to1
    <3>2. myseq[t] - flag < Wrap
      BY <3>1, WaitersFinite DEF Tickets1to1
    <3>3. flag \in Nat /\ myseq[t] \in Nat /\ Wrap \in Nat \ {0}
      OBVIOUS
    <3>4. ~ (flag < myseq[t])
      BY <3>1, <3>2, <3>3, ModDistinct
    <3>5. QED
      BY <3>1, <3>3, <3>4
  <2>2. Waiters' = Waiters
    BY <1>2 DEF Tickets!Enter, Waiters
  <2>3. Tickets1to1'
    BY <1>2, <2>1, <2>2 DEF Tickets!Enter, Tickets1to1
  <2>4. QED
    BY <1>2, <2>3 DEF Tickets!Enter, Tickets!NoLostIncrement
<1>3. ASSUME NEW t \in Threads, Tickets!Load(t) PROVE TicketInv'
  <2>1. Waiters' = Waiters
    BY <1>3 DEF Tickets!Load, Waiters
  <2>2. Tickets1to1'
    BY <1>3, <2>1 DEF Tickets!Load, Tickets1to1
  <2>3. QED
    BY <1>3, <2>2 DEF Tickets!Load, Tickets!NoLostIncrement
<1>4. ASSUME NEW t \in Threads, Tickets!Store(t) PROVE TicketInv'
  <2>1. Waiters' = Waiters
    BY <1>4 DEF Tickets!Store, Waiters
  <2>2. Tickets1to1'
    BY <1>4, <2>1 DEF Tickets!Store, Tickets1to1
  <2>3. \A u \in Threads : u # t => f_pc[u] # "store"
    BY <1>4 DEF Tickets!Store, Tickets1to1
  <2>4. Tickets!NoLostIncrement'
    BY <1>4, <2>3 DEF Tickets!Store, Tickets!NoLostIncrement
  <2>5. TicketTypes'
    BY <1>4 DEF Tickets!Store
  <2>6. QED
    BY <2>2, <2>4, <2>5
<1>5. ASSUME NEW t \in Threads, Tickets!Unlock(t) PROVE TicketInv'
  <2>1. TicketTypes'
    BY <1>5 DEF Tickets!Unlock
  <2>2. Waiters' = Waiters \ {t} /\ t \in Waiters
    BY <1>5 DEF Tickets!Unlock, Waiters
  <2>3. Cardinality(Waiters') = Cardinality(Waiters) - 1
    BY <2>2, WaitersFinite, FS_RemoveElement
  <2>4. (seq - flag = Cardinality(Waiters))'
    BY <1>5, <2>3, WaitersFinite DEF Tickets!Unlock, Tickets1to1
  <2>5. \A u \in Threads : u # t => ~ Tickets!Holding(u)
    BY <1>5 DEF Tickets!Unlock, Tickets1to1
  <2>6. \A u \in Threads : u # t /\ Tickets!Queued(u) => flag + 1 <= myseq[u]
    BY <1>5 DEF Tickets!Unlock, Tickets1to1
  <2>7. Tickets1to1'
    BY <1>5, <2>4, <2>5, <2>6 DEF Tickets!Unlock, Tickets1to1
  <2>8. QED
    BY <1>5, <2>1, <2>7 DEF Tickets!Unlock, Tickets!NoLostIncrement
<1>6. CASE UNCHANGED fairVars
  BY <1>6 DEF fairVars, Tickets1to1, Tickets!NoLostIncrement, Waiters
<1>7. QED
  BY <1>1, <1>2, <1>3, <1>4, <1>5, <1>6
     DEF Tickets!Next, Tickets!Step, Tickets!Terminated, Tickets!vars, fairVars

\* A thread that draws its ticket first enters first, in a step.
LEMMA TicketOrder ==
  TicketInv /\ TicketInv' /\ [Tickets!Next]_fairVars =>
    [\A t, u \in Threads :
       f_pc[t] = "spin" /\ Tickets!Holding(t)' /\ t # u /\ Tickets!Queued(u)
         => myseq[t] < myseq[u]]_(Tickets!vars)
<1> SUFFICES ASSUME TicketInv, TicketInv', [Tickets!Next]_fairVars,
                    NEW t \in Threads, NEW u \in Threads,
                    f_pc[t] = "spin", Tickets!Holding(t)', t # u, Tickets!Queued(u)
             PROVE  myseq[t] < myseq[u]
  OBVIOUS
<1>1. myseq' = myseq /\ flag' = flag
  BY DEF TicketInv, TicketTypes, Tickets!Next, Tickets!Step, Tickets!Terminated,
         Tickets!TakeTicket, Tickets!Enter, Tickets!Load, Tickets!Store, Tickets!Unlock,
         Tickets!Goto, Tickets!Holding, fairVars, Tickets!vars
<1>2. myseq[t] = flag
  BY <1>1 DEF TicketInv, Tickets1to1
<1>3. flag <= myseq[u] /\ myseq[u] # myseq[t]
  BY DEF TicketInv, Tickets1to1, Tickets!Queued
<1>4. QED
  BY <1>2, <1>3 DEF TicketInv, TicketTypes
-----------------------------------------------------------------------------
(* The group lock *)

GroupTypes ==
  /\ lk \in Nat /\ cnt \in Nat
  /\ g_pc \in [Threads -> {"start", "lock", "load", "store", "leave", "unlock"}]
  /\ shadow \in [Threads -> Nat]
  /\ g_loaded \in [Threads -> Nat]

\* The words the lock ever holds: free, or a group and a count that fits.
HeldWords(g) == {g * Unit + n : n \in 1..Unit-1}
Words == {0} \cup HeldWords(1) \cup HeldWords(2)

\* What a thread read may be stale, but a thread inside keeps its own group
\* in the word.
Shadows ==
  /\ \A t \in Threads : g_pc[t] = "lock" => shadow[t] \in Words
  /\ \A t \in Threads : g_pc[t] = "unlock" => shadow[t] \in HeldWords(Group[t])

WordIs ==
  /\ Groups!Holders = {} => lk = 0
  /\ \A t \in Groups!Holders : lk = Group[t] * Unit + Cardinality(Groups!Holders)

GroupInv == GroupTypes /\ WordIs /\ Shadows

LEMMA GroupWord == WordIs <=> Groups!WordExact
<1>1. Groups!Cardinality(Groups!Holders) = Cardinality(Groups!Holders)
  BY DEF Groups!Cardinality, Cardinality
<1> QED
  BY <1>1 DEF WordIs, Groups!WordExact


(* The fields of a word. *)
LEMMA Fields ==
  ASSUME NEW g \in Nat, NEW n \in 0..Unit-1
  PROVE  Groups!State(g * Unit + n) = g /\ Groups!Count(g * Unit + n) = n
<1> DEFINE w == g * Unit + n
           q == w \div Unit
           r == w % Unit
<1>1. w \in Nat
  OBVIOUS
<1>2. w = Unit * q + r /\ r \in 0..Unit-1 /\ q \in Nat
  BY <1>1
<1> HIDE DEF q, r
<1>3. Unit * (q - g) = n - r
  BY <1>2
<1>4. CASE q - g >= 1
  <2>1. Unit * (q - g) >= Unit
    BY <1>4, <1>2
  <2>2. QED
    BY <1>2, <1>3, <2>1
<1>5. CASE q - g <= -1
  <2>1. Unit * (q - g) <= -Unit
    BY <1>5, <1>2
  <2>2. QED
    BY <1>2, <1>3, <2>1
<1>6. CASE q = g
  BY <1>2, <1>3, <1>6 DEF q, r, Groups!State, Groups!Count
<1>7. QED
  BY <1>2, <1>4, <1>5, <1>6

LEMMA HoldersFinite ==
  /\ IsFiniteSet(Groups!Holders)
  /\ Cardinality(Groups!Holders) \in 0..Unit-1
  /\ \A t \in Groups!Holders : Cardinality(Groups!Holders) >= 1
<1>1. IsFiniteSet(Groups!Holders) /\ Cardinality(Groups!Holders) <= Cardinality(Threads)
  BY FS_Subset DEF Groups!Holders
<1>2. Cardinality(Groups!Holders) \in Nat /\ Cardinality(Threads) \in Nat
  BY <1>1, FS_CardinalityType
<1>3. Groups!Holders # {} => Cardinality(Groups!Holders) # 0
  BY <1>1, FS_EmptySet
<1>4. QED
  BY <1>1, <1>2, <1>3

(* Words with holders. *)
LEMMA WordFields ==
  ASSUME GroupInv
  PROVE  /\ lk \in Words
         /\ \A t \in Groups!Holders :
              Groups!State(lk) = Group[t] /\ Groups!Count(lk) = Cardinality(Groups!Holders)
         /\ Groups!Holders = {} => Groups!State(lk) = 0
<1>1. ASSUME NEW t \in Groups!Holders
      PROVE  /\ Groups!State(lk) = Group[t] /\ Groups!Count(lk) = Cardinality(Groups!Holders)
             /\ lk \in Words
  <2>1. /\ lk = Group[t] * Unit + Cardinality(Groups!Holders)
        /\ Group[t] \in {1, 2} /\ Cardinality(Groups!Holders) \in 1..Unit-1
    <3>1. t \in Threads
      BY <1>1 DEF Groups!Holders
    <3>2. Cardinality(Groups!Holders) \in 1..Unit-1
      BY <1>1, HoldersFinite
    <3>3. lk = Group[t] * Unit + Cardinality(Groups!Holders)
      BY <1>1 DEF GroupInv, WordIs
    <3> QED
      BY <3>1, <3>2, <3>3
  <2>2. lk \in Words
    BY <2>1 DEF Words, HeldWords
  <2>3. Group[t] \in Nat /\ Cardinality(Groups!Holders) \in 0..Unit-1
    BY <2>1
  <2>4. QED
    BY <2>1, <2>2, <2>3, Fields
<1>2. ASSUME Groups!Holders = {} PROVE Groups!State(lk) = 0 /\ lk \in Words
  <2>1. lk = 0 * Unit + 0
    BY <1>2 DEF GroupInv, WordIs
  <2>2. QED
    BY <2>1, Fields DEF Words
<1>3. QED
  BY <1>1, <1>2

LEMMA GroupStart == Groups!Init => GroupInv
  BY DEF Groups!Init, GroupInv, GroupTypes, WordIs, Shadows, Groups!Holders, Groups!Inside

LEMMA GroupInductive == GroupInv /\ [Groups!Next]_groupVars => GroupInv'
<1> SUFFICES ASSUME GroupInv, [Groups!Next]_groupVars PROVE GroupInv'
  OBVIOUS
<1> USE DEF Groups!Goto
<1>1. ASSUME NEW t \in Threads, Groups!LoadToLock(t) PROVE GroupInv'
  <2>1. Groups!Holders' = Groups!Holders
    BY <1>1 DEF Groups!LoadToLock, Groups!Holders, Groups!Inside, GroupInv, GroupTypes
  <2>2. Shadows'
    BY <1>1, WordFields DEF Groups!LoadToLock, GroupInv, GroupTypes, Shadows
  <2>3. QED
    BY <1>1, <2>1, <2>2 DEF Groups!LoadToLock, GroupInv, GroupTypes, WordIs
<1>2. ASSUME NEW t \in Threads, Groups!Refused(t) PROVE GroupInv'
  <2>1. Groups!Holders' = Groups!Holders
    BY <1>2 DEF Groups!Refused, Groups!Holders, Groups!Inside, GroupInv, GroupTypes
  <2>2. QED
    BY <1>2, <2>1 DEF Groups!Refused, GroupInv, GroupTypes, WordIs, Shadows
<1>3. ASSUME NEW t \in Threads, Groups!Acquire(t) PROVE GroupInv'
  <2>1. Groups!Holders' = Groups!Holders \cup {t} /\ t \notin Groups!Holders
    BY <1>3 DEF Groups!Acquire, Groups!Holders, Groups!Inside, GroupInv, GroupTypes
  <2>2. Cardinality(Groups!Holders') = Cardinality(Groups!Holders) + 1
    BY <2>1, HoldersFinite, FS_AddElement
  <2>3. \A u \in Groups!Holders : Group[u] = Group[t]
    <3>1. Groups!State(lk) \in {0, Group[t]} /\ \A u \in Groups!Holders : Group[u] \in {1, 2}
      BY <1>3 DEF Groups!Acquire, Groups!Holders
    <3>2. QED
      BY <3>1, WordFields
  <2>4. Cardinality(Groups!Holders) \in Nat
    BY HoldersFinite
  <2>5. lk' = Group[t] * Unit + (Cardinality(Groups!Holders) + 1)
    <3>1. CASE Groups!Holders = {}
      <4>1. lk = 0 /\ Groups!State(lk) = 0 /\ Cardinality(Groups!Holders) = 0
        BY <3>1, WordFields, FS_EmptySet DEF GroupInv, WordIs
      <4>2. QED
        BY <4>1, <1>3 DEF Groups!Acquire, Groups!Admit
    <3>2. CASE Groups!Holders # {}
      <4>1. PICK u \in Groups!Holders : TRUE
        BY <3>2
      <4>2. lk = Group[t] * Unit + Cardinality(Groups!Holders) /\ Groups!State(lk) = Group[t]
        BY <4>1, <2>3, WordFields DEF GroupInv, WordIs
      <4>3. lk' = lk + 1
        BY <4>2, <1>3 DEF Groups!Acquire, Groups!Admit
      <4>4. QED
        BY <4>2, <4>3, <2>4
    <3>3. QED
      BY <3>1, <3>2
  <2>6. WordIs'
    BY <2>1, <2>2, <2>3, <2>5 DEF WordIs
  <2>7. QED
    BY <1>3, <2>4, <2>5, <2>6 DEF Groups!Acquire, GroupInv, GroupTypes, Shadows
<1>4. ASSUME NEW t \in Threads, Groups!Load(t) \/ Groups!Store(t) PROVE GroupInv'
  <2>1. Groups!Holders' = Groups!Holders
    BY <1>4 DEF Groups!Load, Groups!Store, Groups!Holders, Groups!Inside, GroupInv, GroupTypes
  <2>2. QED
    BY <1>4, <2>1 DEF Groups!Load, Groups!Store, GroupInv, GroupTypes, WordIs, Shadows
<1>5. ASSUME NEW t \in Threads, Groups!LoadToUnlock(t) PROVE GroupInv'
  <2>1. Groups!Holders' = Groups!Holders /\ t \in Groups!Holders
    BY <1>5 DEF Groups!LoadToUnlock, Groups!Holders, Groups!Inside, GroupInv, GroupTypes
  <2>2. lk \in HeldWords(Group[t])
    BY <2>1, HoldersFinite DEF GroupInv, WordIs, HeldWords
  <2>3. Shadows'
    BY <1>5, <2>2 DEF Groups!LoadToUnlock, GroupInv, GroupTypes, Shadows
  <2>4. QED
    BY <1>5, <2>1, <2>3 DEF Groups!LoadToUnlock, GroupInv, GroupTypes, WordIs
<1>6. ASSUME NEW t \in Threads, Groups!Release(t) PROVE GroupInv'
  <2>1. Groups!Holders' = Groups!Holders \ {t} /\ t \in Groups!Holders
    BY <1>6 DEF Groups!Release, Groups!Holders, Groups!Inside, GroupInv, GroupTypes
  <2>2. Cardinality(Groups!Holders') = Cardinality(Groups!Holders) - 1
    BY <2>1, HoldersFinite, FS_RemoveElement
  <2>3. PICK n \in 0..Unit-1 : n = Cardinality(Groups!Holders) - 1
    BY <2>1, HoldersFinite
  <2>4. lk - 1 = Group[t] * Unit + n /\ Group[t] \in {1, 2}
    BY <2>1, <2>3, HoldersFinite DEF GroupInv, WordIs
  <2>5. Groups!Count(lk - 1) = n
    BY <2>4, Fields
  <2>6. \A u \in Groups!Holders : Group[u] = Group[t]
    BY <2>1, WordFields
  <2>7. lk' = IF n = 0 THEN 0 ELSE Group[t] * Unit + n
    BY <1>6, <2>4, <2>5 DEF Groups!Release, Groups!Dismiss
  <2>8. n = 0 <=> Groups!Holders' = {}
    <3>1. IsFiniteSet(Groups!Holders')
      BY <2>1, HoldersFinite, FS_RemoveElement
    <3>2. QED
      BY <2>2, <2>3, <3>1, FS_EmptySet
  <2>9. WordIs'
    BY <2>1, <2>2, <2>3, <2>6, <2>7, <2>8 DEF WordIs
  <2>10. QED
    BY <1>6, <2>4, <2>7, <2>9 DEF Groups!Release, GroupInv, GroupTypes, Shadows
<1>7. CASE UNCHANGED groupVars
  BY <1>7 DEF groupVars, GroupInv, GroupTypes, WordIs, Shadows, Groups!Holders,
         Groups!Inside
<1>8. QED
  BY <1>1, <1>2, <1>3, <1>4, <1>5, <1>6, <1>7
     DEF Groups!Next, Groups!Step, Groups!Terminated, Groups!vars, groupVars

\* The assertions of lines 26, 49 and 61 hold.
LEMMA GroupAssertions == GroupInv => Groups!AssertionsHold
<1>1. ASSUME GroupInv, NEW t \in Threads, g_pc[t] = "lock" PROVE Groups!State(shadow[t]) \in 0..2
  <2>1. CASE shadow[t] = 0
    <3>1. shadow[t] = 0 * Unit + 0 /\ 0 \in Nat /\ 0 \in 0..Unit-1
      BY <2>1
    <3>2. Groups!State(0 * Unit + 0) = 0
      BY <3>1, Fields
    <3>3. QED
      BY <3>1, <3>2
  <2>2. CASE shadow[t] # 0
    <3>1. PICK g \in {1, 2}, n \in 1..Unit-1 : shadow[t] = g * Unit + n
      BY <1>1, <2>2 DEF GroupInv, Shadows, Words, HeldWords
    <3>2. g \in Nat /\ n \in 0..Unit-1
      BY <3>1
    <3>3. Groups!State(g * Unit + n) = g
      BY <3>2, Fields
    <3>4. QED
      BY <3>1, <3>3
  <2>3. QED
    BY <2>1, <2>2
<1>2. ASSUME GroupInv, NEW t \in Threads,
       g_pc[t] = "unlock" PROVE Groups!State(shadow[t]) = Group[t]
  <2>1. PICK n \in 1..Unit-1 : shadow[t] = Group[t] * Unit + n
    BY <1>2 DEF GroupInv, Shadows, HeldWords
  <2>2. QED
    BY <2>1, Fields
<1> QED
  BY <1>1, <1>2 DEF Groups!AssertionsHold

\* A won compare_exchange of line 52 enters, one of line 71 leaves, everything
\* else is invisible.
LEMMA GroupRefinement ==
  GroupInv /\ [Groups!Next]_groupVars => [Groups!Abstract!Next]_(Groups!Holders)
<1> SUFFICES ASSUME GroupInv, [Groups!Next]_groupVars PROVE Groups!Abstract!Next
       \/ Groups!Holders' = Groups!Holders
  OBVIOUS
<1> USE DEF Groups!Goto, GroupInv, GroupTypes
<1>1. ASSUME NEW t \in Threads, Groups!Acquire(t) PROVE Groups!Abstract!Next
  <2>1. Groups!Holders' = Groups!Holders \cup {t} /\ t \in Threads \ Groups!Holders
    BY <1>1 DEF Groups!Acquire, Groups!Holders, Groups!Inside
  <2>2. Groups!State(lk) \in {0, Group[t]} /\ \A u \in Groups!Holders : Group[u] \in {1, 2}
    BY <1>1 DEF Groups!Acquire, Groups!Holders
  <2>3. \A u \in Groups!Holders : Group[u] = Group[t]
    BY <2>2, WordFields
  <2>4. QED
    BY <2>1, <2>3 DEF Groups!Abstract!Next, Groups!Abstract!Enter
<1>2. ASSUME NEW t \in Threads, Groups!Release(t) PROVE Groups!Abstract!Next
  <2>1. Groups!Holders' = Groups!Holders \ {t} /\ t \in Groups!Holders
    BY <1>2 DEF Groups!Release, Groups!Holders, Groups!Inside
  <2>2. QED
    BY <2>1 DEF Groups!Abstract!Next, Groups!Abstract!Leave
<1>3. ASSUME NEW t \in Threads,
             Groups!LoadToLock(t) \/ Groups!Refused(t) \/ Groups!Load(t) \/ Groups!Store(t)
                    \/ Groups!LoadToUnlock(t)
      PROVE  Groups!Holders' = Groups!Holders
  BY <1>3 DEF Groups!LoadToLock, Groups!Refused, Groups!Load, Groups!Store, Groups!LoadToUnlock,
         Groups!Holders, Groups!Inside
<1>4. CASE UNCHANGED groupVars
  BY <1>4 DEF groupVars, Groups!Holders, Groups!Inside
<1>5. QED
  BY <1>1, <1>2, <1>3, <1>4 DEF Groups!Next, Groups!Step, Groups!Terminated, Groups!vars, groupVars
-----------------------------------------------------------------------------
(* The spinlock *)

Stored == {t \in Threads : s_pc[t] \in {"unlock", "end"}}

CountIs ==
  /\ s_cnt = Cardinality(Stored)
  /\ \A t \in Threads : s_pc[t] = "store" => tmp[t] = s_cnt

SpinInv ==
  /\ Counter!Types /\ Counter!Exclusion /\ CountIs
  /\ mpc \in {"wait", "printed"} => \A t \in Threads : s_pc[t] # "new"
  /\ mpc = "printed" => \A t \in Threads : s_pc[t] = "end"

LEMMA StoredFinite == IsFiniteSet(Stored) /\ Cardinality(Stored) \in Nat
  BY FS_Subset, FS_CardinalityType DEF Stored

LEMMA SpinCount == CountIs <=> Counter!CountsExact
<1>1. Counter!Cardinality(Stored) = Cardinality(Stored)
  BY DEF Counter!Cardinality, Cardinality
<1> QED
  BY <1>1 DEF CountIs, Counter!CountsExact, Stored

LEMMA SpinStart == Counter!Init => SpinInv
<1> SUFFICES ASSUME Counter!Init PROVE SpinInv
  OBVIOUS
<1>1. Stored = {}
  BY DEF Counter!Init, Stored
<1>2. CountIs
  BY <1>1, FS_EmptySet DEF Counter!Init, CountIs
<1> QED
  BY <1>2 DEF Counter!Init, SpinInv, Counter!Types, Counter!Exclusion, Counter!Inside

\* A step that stores nothing keeps the count.
LEMMA SpinUnstored ==
  ASSUME SpinInv, UNCHANGED s_cnt, Stored' = Stored,
         \A t \in Threads : s_pc'[t] = "store" => tmp'[t] = s_cnt
  PROVE  CountIs'
  BY DEF SpinInv, CountIs

LEMMA SpinInductive == SpinInv /\ [Counter!Next]_spinVars => SpinInv'
<1> SUFFICES ASSUME SpinInv, [Counter!Next]_spinVars PROVE SpinInv'
  OBVIOUS
<1>0. \A t \in Threads : s_pc[t] = "store" => tmp[t] = s_cnt
  BY DEF SpinInv, CountIs
<1> USE DEF Counter!Goto, Counter!Types, Counter!Exclusion, Counter!Inside
<1>1. CASE Counter!JoinLoop \/ Counter!Report \/ UNCHANGED spinVars
  <2>1. UNCHANGED <<s_flag, s_cnt, s_pc, tmp>>
    BY <1>1 DEF Counter!JoinLoop, Counter!Report, spinVars
  <2>2. Stored' = Stored
    BY <2>1 DEF Stored
  <2>3. CountIs'
    BY <1>0, <2>1, <2>2, SpinUnstored
  <2> QED
    BY <1>1, <2>1, <2>3 DEF Counter!JoinLoop, Counter!Report, spinVars, SpinInv
<1>2. ASSUME NEW t \in Threads, Counter!Start(t) PROVE SpinInv'
  <2>1. Stored' = Stored
    BY <1>2 DEF Counter!Start, Stored, SpinInv
  <2>2. CountIs'
    BY <1>0, <1>2, <2>1, SpinUnstored DEF Counter!Start, SpinInv
  <2> QED
    BY <1>2, <2>2 DEF Counter!Start, SpinInv
<1>3. ASSUME NEW t \in Threads, Counter!Lock(t) PROVE SpinInv'
  <2>1. Stored' = Stored
    BY <1>3 DEF Counter!Lock, Stored, SpinInv
  <2>2. CountIs'
    BY <1>0, <1>3, <2>1, SpinUnstored DEF Counter!Lock, SpinInv
  <2> QED
    BY <1>3, <2>2 DEF Counter!Lock, SpinInv
<1>4. ASSUME NEW t \in Threads, Counter!Load(t) PROVE SpinInv'
  <2>1. Stored' = Stored
    BY <1>4 DEF Counter!Load, Stored, SpinInv
  <2>2. CountIs'
    BY <1>0, <1>4, <2>1, SpinUnstored DEF Counter!Load, SpinInv
  <2> QED
    BY <1>4, <2>2 DEF Counter!Load, SpinInv
<1>5. ASSUME NEW t \in Threads, Counter!Store(t) PROVE SpinInv'
  <2>1. Stored' = Stored \cup {t} /\ t \notin Stored
    BY <1>5 DEF Counter!Store, Stored, SpinInv
  <2>2. Cardinality(Stored') = Cardinality(Stored) + 1
    BY <2>1, StoredFinite, FS_AddElement
  <2>3. s_cnt' = Cardinality(Stored')
    BY <1>0, <1>5, <2>2 DEF Counter!Store, SpinInv, CountIs
  <2>4. \A u \in Threads : s_pc'[u] # "store"
    BY <1>5 DEF Counter!Store, SpinInv
  <2>6. CountIs'
    BY <2>3, <2>4 DEF CountIs
  <2> QED
    BY <1>5, <2>6 DEF Counter!Store, SpinInv
<1>6. ASSUME NEW t \in Threads, Counter!Unlock(t) PROVE SpinInv'
  <2>1. Stored' = Stored
    BY <1>6 DEF Counter!Unlock, Stored, SpinInv
  <2>2. CountIs'
    BY <1>0, <1>6, <2>1, SpinUnstored DEF Counter!Unlock, SpinInv
  <2>3. \A u \in Counter!Inside : u = t
    BY <1>6 DEF Counter!Unlock, SpinInv
  <2>4. Counter!Inside' = {}
    BY <1>6, <2>3 DEF Counter!Unlock, SpinInv
  <2>5. Counter!Exclusion'
    BY <1>6, <2>4 DEF Counter!Unlock
  <2> QED
    BY <1>6, <2>2, <2>5 DEF Counter!Unlock, SpinInv
<1> QED
  BY <1>1, <1>2, <1>3, <1>4, <1>5, <1>6
     DEF Counter!Next, Counter!Main, Counter!Thread, Counter!Rest, Counter!vars, spinVars

\* main() prints when all have stored.
LEMMA SpinPrints == SpinInv => Counter!PrintsAll
<1> SUFFICES ASSUME SpinInv, mpc = "printed" PROVE s_cnt = Counter!n
  BY DEF Counter!PrintsAll
<1>1. Stored = Threads
  BY DEF SpinInv, Stored
<1>2. Counter!n = Cardinality(Threads)
  BY DEF Counter!n, Counter!Cardinality, Cardinality
<1> QED
  BY <1>1, <1>2 DEF SpinInv, CountIs
-----------------------------------------------------------------------------
LEMMA LockSteps ==
  [Next]_vars => /\ [Tickets!Next]_fairVars /\ [Groups!Next]_groupVars
                 /\ [Counter!Next]_spinVars
  BY DEF Next, vars, TicketStep, GroupStep, SpinStep

LEMMA LockStart == Init => TicketInv /\ GroupInv /\ SpinInv
<1> SUFFICES ASSUME Init PROVE TicketInv /\ GroupInv /\ SpinInv
  OBVIOUS
<1>1. TicketInv
  <2>1. CASE Tickets!Init
    BY <2>1, TicketStart
  <2>2. CASE ~ Tickets!Init
    <3>1. /\ seq = 0 /\ flag = 0 /\ count = 0
          /\ f_pc = Start /\ myseq = Zero /\ f_loaded = Zero /\ f_done = AllDone
      BY <2>2 DEF Init
    <3>2. Waiters = {}
      BY <3>1 DEF Waiters, Start, Tickets!Queued, Tickets!Holding
    <3>3. Cardinality(Waiters) = 0
      BY <3>2, FS_EmptySet
    <3> QED
      BY <3>1, <3>3 DEF Start, Zero, AllDone, TicketInv, TicketTypes, Tickets1to1,
         Tickets!NoLostIncrement, Tickets!Queued, Tickets!Holding
  <2> QED
    BY <2>1, <2>2
<1>2. GroupInv
  <2>1. CASE Groups!Init
    BY <2>1, GroupStart
  <2>2. CASE ~ Groups!Init
    <3>1. lk = 0 /\ cnt = 0 /\ g_pc = Start /\ shadow = Zero /\ g_loaded = Zero
      BY <2>2 DEF Init
    <3> QED
      BY <3>1 DEF Start, Zero, GroupInv, GroupTypes, WordIs, Shadows,
         Groups!Holders, Groups!Inside
  <2> QED
    BY <2>1, <2>2
<1>3. SpinInv
  BY SpinStart DEF Init
<1> QED
  BY <1>1, <1>2, <1>3

LEMMA LockInvariance == Spec => [](TicketInv /\ GroupInv /\ SpinInv)
<1>1. TicketInv /\ GroupInv /\ SpinInv /\ [Next]_vars => (TicketInv /\ GroupInv /\ SpinInv)'
  BY LockSteps, TicketInductive, GroupInductive, SpinInductive
<1> QED
  BY <1>1, LockStart, PTL DEF Spec

\* fair_spinlock.cxx, lines 11-31: two threads are never inside the lock
\* together although its ints wrap around, count is stored one more than what it
\* has, and no more tickets are out than there are threads.
THEOREM TicketsCorrect == Spec => []OneTicketServed
<1>1. TicketInv => OneTicketServed
  <2> SUFFICES ASSUME TicketInv PROVE OneTicketServed
    OBVIOUS
  <2>1. Tickets!Cardinality(Threads) = Cardinality(Threads)
    BY DEF Tickets!Cardinality, Cardinality
  <2>2. Tickets!TypeOK
    BY <2>1, WaitersFinite DEF TicketInv, TicketTypes, Tickets1to1, Tickets!TypeOK
  <2>3. Tickets!Exclusion
    BY DEF TicketInv, Tickets1to1, Tickets!Exclusion, Tickets!Queued, Tickets!Holding
  <2> QED
    BY <2>2, <2>3 DEF TicketInv, OneTicketServed
<1> QED
  BY <1>1, LockInvariance, PTL

\* fair_spinlock.cxx, lines 12-13: the lock is granted in the order of the
\* fetch_adds.
THEOREM TicketOrderCorrect == Spec => FirstComeFirstServed
  BY TicketOrder, LockInvariance, LockSteps, PTL
     DEF Spec, FirstComeFirstServed, Tickets!FirstComeFirstServed

\* group_lock.cxx, lines 16-72: the word is always the group inside and its
\* size.
THEOREM WordCorrect == Spec => []WordExact
<1>1. GroupInv => WordExact
  BY GroupWord DEF GroupInv, WordExact
<1> QED
  BY <1>1, LockInvariance, PTL

\* group_lock.cxx, lines 26, 49, 61: the assertions of the code, on words that
\* may be stale.
THEOREM AssertionsCorrect == Spec => []AssertionsHold
<1>1. GroupInv => AssertionsHold
  BY GroupAssertions DEF AssertionsHold
<1> QED
  BY <1>1, LockInvariance, PTL

\* group_lock.cxx implements group exclusion.
THEOREM GroupLockCorrect == Spec => GroupSpec
<1>1. GroupInv /\ Init => Groups!Abstract!Init
  <2>1. Init => \A t \in Threads : g_pc[t] = "start"
    BY DEF Init, Groups!Init, Start
  <2> QED
    BY <2>1 DEF Groups!Abstract!Init, Groups!Holders, Groups!Inside
<1> QED
  BY <1>1, LockStart, LockSteps, GroupRefinement, LockInvariance, PTL
     DEF Spec, GroupSpec, Groups!GroupSpec, Groups!Abstract!Spec

\* spinlock.cxx: one thread is inside when the flag is set and none otherwise,
\* no increment is lost, and main() prints the number of threads.
THEOREM SpinlockCorrect == Spec => []SpinlockCounts
<1>1. SpinInv => SpinlockCounts
  BY SpinPrints, SpinCount DEF SpinInv, SpinlockCounts
<1> QED
  BY <1>1, LockInvariance, PTL
=============================================================================
