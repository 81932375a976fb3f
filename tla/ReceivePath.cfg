SPECIFICATION Spec
CONSTANTS
  BufferSize = 7
  Packets <- MCPackets
  Faulty <- MCFaulty
  Connacks <- MCConnacks
  MaxPackets = 2
INVARIANTS
  StaysInStep
  ErrorsAreExplained
PROPERTIES
  PacketsAreHandled
CHECK_DEADLOCK FALSE
