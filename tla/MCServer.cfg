SPECIFICATION ServerSpec
CONSTANTS
  LineSize = 40
  HTTP_HEADER_CAPACITY = 32
  Conns = {1, 2}
  Script <- MCScript
  Capacity = 65536
  Backlog = 6
  Answer = 100
  MaxStalls = 1
INVARIANTS
  ServerTypeOK
  InOrder
  DescriptorsCurrent
  AcceptDebt
PROPERTIES
  SignalStops
  Served
CHECK_DEADLOCK FALSE
