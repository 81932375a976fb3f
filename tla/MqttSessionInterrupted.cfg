SPECIFICATION FairSpec
CONSTANTS
  PacketIds = {1, 2, 3, 4}
  MQTT_PACKET_ID_INVALID = 0
  UINT16_MAX = 4
  OutgoingPublishCount = 3
  IncomingPublishCount = 0
  OutMessages = 4
  InMessages = 0
  PublishQoS = {1}
  PublishSendMayFail = FALSE
  StoreMayFail = FALSE
  PublishesWhileResuming = TRUE
  MaxLinkBreaks = 1
  MaxSessionLosses = 0
PROPERTY
  AcceptedIsAcknowledged
