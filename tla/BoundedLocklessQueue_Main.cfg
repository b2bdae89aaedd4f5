SPECIFICATION Spec
CONSTANTS
  Producers = {p1, p2}
  Consumers = {c1, c2}
  Cap = 2
  MaxTail = 3
INVARIANTS CursorsInOrder PublishedIntact VerdictsReal
PROPERTIES FifoSpec ClaimedIsPublished
