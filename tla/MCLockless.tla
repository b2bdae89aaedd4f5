---------------------------- MODULE MCLockless ----------------------------
(***************************************************************************)
(* The unbounded lock-free containers, one or the other: a behaviour runs  *)
(* the threads of the stack or those of the queue.                         *)
(***************************************************************************)
EXTENDS TLC

CONSTANTS Pushers, Poppers, Addresses, StackPushes, \* of the stack
          Producers, Consumers, QueuePushes         \* of the queue

VARIABLES container,
          s_head, s_live, s_next, s_data, s_pc, s_shadow, s_node, s_val, s_pushes,
          s_stale, s_misused,
          q_head, q_tail, q_next, q_pc, q_shadow, q_node, q_pushes, q_order, q_crashed

stackVars == <<s_head, s_live, s_next, s_data, s_pc, s_shadow, s_node, s_val, s_pushes,
               s_stale, s_misused>>
queueVars == <<q_head, q_tail, q_next, q_pc, q_shadow, q_node, q_pushes, q_order, q_crashed>>

Stack == INSTANCE LocklessStack
  WITH MaxPush <- StackPushes,
       head <- s_head, live <- s_live, next <- s_next, data <- s_data, pc <- s_pc,
       shadow_head <- s_shadow, node <- s_node, val <- s_val, pushes <- s_pushes,
       stale <- s_stale, misused <- s_misused

Queue == INSTANCE LocklessQueue
  WITH MaxPush <- QueuePushes,
       head <- q_head, tail <- q_tail, next <- q_next, pc <- q_pc, shadow <- q_shadow,
       node <- q_node, pushes <- q_pushes, order <- q_order, crashed <- q_crashed

ASSUME Constants == Stack!LocklessStackAssumption /\ Queue!LocklessQueueAssumption

\* The threads of one kind run the same code, and no property names one.
Interchangeable ==
  Permutations(Pushers) \cup Permutations(Poppers) \cup Permutations(Consumers)

Init == container \in {"stack", "queue"} /\ Stack!Init /\ Queue!Init

StackStep == container = "stack" /\ Stack!Next /\ UNCHANGED <<container, queueVars>>
QueueStep == container = "queue" /\ Queue!Next /\ UNCHANGED <<container, stackVars>>

Spec == Init /\ [][StackStep \/ QueueStep]_<<container, stackVars, queueVars>>

\* The stack, however many threads pop, until one of them goes by a node that
\* another has deleted since: it is a stack, and no deleted node is accessed.
StackIsLifo == Stack!LifoSpec /\ [](s_misused \/ Stack!NodesHeld)

\* The queue: links and pops follow the order of the pushes, and values are
\* missing only where a push is about to link them, the one window in which a
\* pop reads a pointer to no node.
QueueKeepsOrder == [](Queue!TakesInOrder /\ Queue!NothingLost) /\ Queue!MissesOnlyUnlinked
=============================================================================
