SPECIFICATION Spec
CONSTANTS
  N = 2
  M = 2
PROPERTY WorkersStop
