SPECIFICATION Spec
CONSTANTS
  \* The threads of multi_thread_test() of lockless_stack.cxx.
  Pushers = {p1, p2}
  Poppers = {c1, c2, c3}
  Addresses = {1, 2}
  StackPushes = 3
  Producers = {p1, p2}
  Consumers = {d1, d2}
  QueuePushes = 3
SYMMETRY Interchangeable
PROPERTIES StackIsLifo QueueKeepsOrder
\* The stack stops once a popper has gone by a deleted node, the queue once a
\* pop has crashed.
CHECK_DEADLOCK FALSE
