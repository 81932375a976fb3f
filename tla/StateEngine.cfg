\* The outgoing table of mqtt_api.c, which four packets share, and one
\* incoming slot.
CONSTANTS
  PacketIds = {p1, p2, p3, p4}
  MQTT_PACKET_ID_INVALID = none
  OutgoingPublishCount = 3
  IncomingPublishCount = 1

SPECIFICATION Spec
SYMMETRY Symmetry
VIEW Tables

INVARIANTS
  TypeOK
  UniquePacketIds
  HandshakeStates
  ResendsAllInOrder
PROPERTIES
  AckNeverOutOfMemory
  FailureChangesNothing
  NoMemoryOnlyWhenFull
  LeavesOnlyWhenDone
  OutgoingInFlight
  IncomingInFlight
