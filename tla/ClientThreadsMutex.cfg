SPECIFICATION Spec
CONSTANTS
  PacketIds = {1, 2, 3}
  MQTT_PACKET_ID_INVALID = 0
  UINT16_MAX = 3
  OutgoingPublishCount = 2
  Publishers = {p1, p2}
  p1 = p1
  p2 = p2
  Client = client
  NoThread = none
  MutexHooks = TRUE
  PublishQoS = {1, 2}
  PublishDup = {FALSE}
  MaxWire = 4
  MaxLinkBreaks = 1
SYMMETRY Symmetry
INVARIANTS
  AcksMeetTheirRecords
  RestFollowsHead
  ConnectComesFirst
  ConnectStartsDisconnected
  WaitingPublishesAreCarried
PROPERTIES
  PacketIdsInTurn
