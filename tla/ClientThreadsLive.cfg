SPECIFICATION FairSpec
CONSTANTS
  PacketIds = {1, 2}
  MQTT_PACKET_ID_INVALID = 0
  UINT16_MAX = 2
  OutgoingPublishCount = 2
  Publishers = {p1}
  p1 = p1
  Client = client
  NoThread = none
  MutexHooks = TRUE
  PublishQoS = {1, 2}
  PublishDup = {FALSE}
  MaxWire = 4
  MaxLinkBreaks = 1
PROPERTIES
  ReconnectsAfterFailure
  PublishReturnsEventually
  WaitingPublishesEnd
