SPECIFICATION Spec
CONSTANTS
  PacketIds = {1, 2, 3}
  MQTT_PACKET_ID_INVALID = 0
  UINT16_MAX = 3
  OutgoingPublishCount = 1
  IncomingPublishCount = 2
  OutMessages = 0
  InMessages = 3
  PublishQoS = {1, 2}
  PublishSendMayFail = FALSE
  StoreMayFail = FALSE
  PublishesWhileResuming = FALSE
  MaxLinkBreaks = 2
  MaxSessionLosses = 1
INVARIANTS
  ReceivedAtMostOnce
  SettledIsReceived
