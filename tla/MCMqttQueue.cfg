SPECIFICATION QueueSpec
CONSTANTS
  QUEUE_BUFFER_SIZE = 13
  MQTT_BUF_SIZE = 11
  Packets <- MCPackets
INVARIANTS
  QueueTypeOK
  StartsAtFrame
PROPERTIES
  ImplementsFifo
