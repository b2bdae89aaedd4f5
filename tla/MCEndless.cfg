SPECIFICATION Spec
CONSTANTS
  Clients = {c1, c2}
  MAX_EVENTS = 2
  BUFFER_SIZE = 3
  Message = 3
  listening_socket = listening_socket
INVARIANTS WaterRounds ServerEvents
PROPERTIES WaterGoesOn ServerReads TasksInOrder TasksExecuted
