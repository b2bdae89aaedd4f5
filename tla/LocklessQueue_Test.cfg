SPECIFICATION Spec
CONSTANTS
  Producers = {p1, p2}
  Consumers = {c1, c2}
  MaxPush = 3
INVARIANT NoBadDereference
