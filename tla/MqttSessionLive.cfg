SPECIFICATION FairSpec
CONSTANTS
  PacketIds = {1, 2}
  MQTT_PACKET_ID_INVALID = 0
  UINT16_MAX = 2
  OutgoingPublishCount = 2
  IncomingPublishCount = 0
  OutMessages = 2
  InMessages = 0
  PublishQoS = {1, 2}
  PublishSendMayFail = FALSE
  StoreMayFail = FALSE
  PublishesWhileResuming = FALSE
  MaxLinkBreaks = 2
  MaxSessionLosses = 0
INVARIANTS
  ResendableIsStored
  AcksMeetTheirRecords
PROPERTIES
  AcceptedIsAcknowledged
  RecordsAreReleased
