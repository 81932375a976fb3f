SPECIFICATION Spec
CONSTANTS
  PacketIds = {1, 2, 3}
  MQTT_PACKET_ID_INVALID = 0
  UINT16_MAX = 3
  OutgoingPublishCount = 2
  IncomingPublishCount = 0
  OutMessages = 3
  InMessages = 0
  PublishQoS = {1, 2}
  PublishSendMayFail = TRUE
  StoreMayFail = TRUE
  PublishesWhileResuming = FALSE
  MaxLinkBreaks = 2
  MaxSessionLosses = 1
INVARIANTS
  AcknowledgedIsDelivered
  FirstDeliveriesInOrder
  CopiesBelongToRecords
  DeliveredAtMostOnce
