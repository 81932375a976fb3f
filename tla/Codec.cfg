SPECIFICATION Spec
CONSTANTS
  MQTT_SUB_UNSUB_MAX_VECTORS = 4
  Alphabet <- MCAlphabet
  MaxLength <- MCMaxLength
  TypeBytes <- MCTypeBytes
  Topics <- MCTopics
  RemainingLengths <- MCRemainingLengths
INVARIANTS
  FiltersMatchByLevels
  HeadersAreEncodings
  PacketsAreReadAsWritten
  VectorsCarryThePacket
CHECK_DEADLOCK FALSE
