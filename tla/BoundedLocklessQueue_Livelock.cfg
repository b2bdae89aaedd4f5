SPECIFICATION Spec
CONSTANTS
  Producers = {p1, p2}
  Consumers = {c1}
  Cap = 2
  MaxTail = 2
PROPERTY PushReturns
