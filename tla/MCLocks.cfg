SPECIFICATION Spec
CONSTANTS
  Threads = {a1, a2, b1}
  Loops = 2
  Wrap = 3
  FirstGroup = {a1, a2}
  Unit = 4
INVARIANTS OneTicketServed WordExact AssertionsHold SpinlockCounts
PROPERTIES FirstComeFirstServed GroupSpec EveryoneThrough
