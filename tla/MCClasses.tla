---------------------------- MODULE MCClasses ----------------------------
(***************************************************************************)
(* The reference counts, the containers that are built on other ones, the  *)
(* strings and the sieve: a behaviour uses one of them.                    *)
(***************************************************************************)
EXTENDS Integers, Sequences

CONSTANTS
  Numbers, MaxQueue,
  Handles, Objects, NoObject,
  SharedHandles, WeakHandles, MaxReuse,
  ListNames, Elements, MaxNodes,
  Strings, Literals, Chars,
  N

VARIABLES
  class,
  container, q_pc, q_cur,
  ptr, going, p_pc, refcnt, state, made, p_crashed,
  use_count, weak_count, object, block, shared, dying, spc, weak, wpc, uc,
  w_crashed, misused,
  head, next, prev, data, live, leaked,
  alive, low, rest, text, failed,
  is_primes, i, j, i_pc

queueVars == <<container, q_pc, q_cur>>
sharedVars == <<ptr, going, p_pc, refcnt, state, made, p_crashed>>
weakVars == <<use_count, weak_count, object, block, shared, dying, spc, weak, wpc, uc,
              w_crashed, misused>>
listVars == <<head, next, prev, data, live, leaked>>
stringVars == <<alive, low, rest, text, failed>>
sieveVars == <<is_primes, i, j, i_pc>>

vars == <<class, queueVars, sharedVars, weakVars, listVars, stringVars, sieveVars>>

Queue == INSTANCE PriorityQueue
           WITH Values <- Numbers, MaxSize <- MaxQueue, pc <- q_pc, cur <- q_cur
Shared == INSTANCE SharedPtr
            WITH null <- NoObject, pc <- p_pc, crashed <- p_crashed
Weak == INSTANCE WeakPtr WITH crashed <- w_crashed
Rings == INSTANCE LinkedList WITH Lists <- ListNames, Values <- Elements
Texts == INSTANCE ShortString
Primes == INSTANCE Sieve WITH pc <- i_pc

ASSUME Constants ==
  /\ Queue!PriorityQueueAssumption /\ Shared!SharedPtrAssumption
  /\ Weak!WeakPtrAssumption /\ Rings!LinkedListAssumption
  /\ Texts!ShortStringAssumption /\ Primes!SieveAssumption

Init ==
  /\ class \in {"queue", "shared", "weak", "list", "string", "sieve"}
  /\ Queue!Init /\ Shared!Init /\ Weak!Init /\ Rings!Init /\ Texts!Init /\ Primes!Init

QueueStep == class = "queue" /\ Queue!Next
  /\ UNCHANGED <<class, sharedVars, weakVars, listVars, stringVars, sieveVars>>
SharedStep == class = "shared" /\ Shared!Next
  /\ UNCHANGED <<class, queueVars, weakVars, listVars, stringVars, sieveVars>>
WeakStep == class = "weak" /\ Weak!Next
  /\ UNCHANGED <<class, queueVars, sharedVars, listVars, stringVars, sieveVars>>
ListStep == class = "list" /\ Rings!Next
  /\ UNCHANGED <<class, queueVars, sharedVars, weakVars, stringVars, sieveVars>>
StringStep == class = "string" /\ Texts!Next
  /\ UNCHANGED <<class, queueVars, sharedVars, weakVars, listVars, sieveVars>>
SieveStep == class = "sieve" /\ Primes!Next
  /\ UNCHANGED <<class, queueVars, sharedVars, weakVars, listVars, stringVars>>

Next ==
  QueueStep \/ SharedStep \/ WeakStep \/ ListStep \/ StringStep \/ SieveStep

Spec == Init /\ [][Next]_vars

-----------------------------------------------------------------------------
(* Values of constants that a configuration cannot write *)

\* Lengths on both sides of the limit and of a byte.
TestLiterals == {[k \in 1..n |-> "a"] : n \in {0, 11, 12, 23, 24, 128}}

-----------------------------------------------------------------------------
\* priority_queue: a bag from which a largest value leaves first, the one that
\* top() shows, because the loops keep or restore the heap.
QueueBagSpec ==
  /\ Queue!BagSpec
  /\ [](class = "queue" => Queue!TypeOK /\ Queue!HeapOrder /\ Queue!TopIsLargest)

\* shared_ptr: objects live as long as their references, and are deleted once.
SharedLifetimes == class = "shared" => Shared!CountsExact /\ Shared!DeletedOnce

\* weak_ptr: the same, with weak references and lock(), until a handle is used
\* after its reset(); the control block, too, is deleted with its last count.
WeakLifetimes ==
  class = "weak" => Weak!CountsExact /\ Weak!LifetimesRight /\ Weak!NothingLeaks

\* linked_list: lists of their own in both directions, whose nodes go when they
\* are popped.
LinkedListSpec == Rings!ListSpec /\ [](class = "list" => Rings!RingsRight)

\* string: the two layouts are told apart, and short texts are kept.
StringsRight == class = "string" => Texts!StringsRight

\* cmp: the sieve leaves the primes.
PrimesFound == class = "sieve" => Primes!PrimesFound
=============================================================================
