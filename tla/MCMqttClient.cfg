SPECIFICATION FairSpec
CONSTANTS
  MQTT_KEEPALIVE = 6
  MQTT_RECONNECT_TIMEOUT = 2
  MQTT_SEND_TIMOUT = 2
  DNS_TABLE_SIZE = 2
  QueueMax = 3
INVARIANTS
  SessionStates
  ConnectPending
  DisconnectedIsTrue
PROPERTIES
  LookupKeepsPCon
  Reconnects
  QueueWorkedOff
