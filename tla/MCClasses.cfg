SPECIFICATION Spec
CONSTANTS
  Numbers = {1, 2, 3}
  MaxQueue = 6
  Handles = {h1, h2, h3}
  Objects = {o1, o2}
  NoObject = NoObject
  SharedHandles = {s1, s2}
  WeakHandles = {w1, w2}
  MaxReuse = 1
  Elements = {1, 2}
  ListNames = {l1, l2}
  MaxNodes = 4
  Strings = {t1, t2}
  Literals <- TestLiterals
  Chars = {"a", "b"}
  N = 40
INVARIANTS SharedLifetimes WeakLifetimes StringsRight PrimesFound
PROPERTIES QueueBagSpec LinkedListSpec
\* Sieves end, and programs that use memory that is not there stop.
CHECK_DEADLOCK FALSE
