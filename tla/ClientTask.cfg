SPECIFICATION Spec
CONSTANTS
  Descriptors = {0, 1}
  MQTT_LOOP_CNT = 1
  PACKET_TX_TIMEOUT_MS = 3
  PACKET_RX_TIMEOUT_MS = 3
  MQTT_PINGRESP_TIMEOUT_MS = 1
  MQTT_KEEP_ALIVE = 4
  INITIAL_BACKOFF_MS = 1
  MAX_BACKOFF_MS = 3
  MAX_RETRY_ATTEMPTS = 2
  RetryPause = 2
  ConnackTimeout = 1
  BufferPackets = 2
  MaxArrived = 2
  TimeWrap = 8
INVARIANTS
  BrokerStaysPatient
  PingsAreMatched
  SocketsAreOwned
PROPERTIES
  KeepsTrying
