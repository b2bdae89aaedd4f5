SPECIFICATION Spec
CONSTANTS
  SharedHandles = {s1, s2}
  WeakHandles = {w1, w2}
  MaxReuse = 1
INVARIANT DestructorsSafe
CHECK_DEADLOCK FALSE
