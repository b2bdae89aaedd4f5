SPECIFICATION Spec
CONSTANTS
  Readers = {r1, r2, r3}
  Updates = 3
  MAX_GENERATIONS = 4
INVARIANTS NoUseAfterFree CountsExact Reclaimed
PROPERTIES WriterFinishes LockReturns
