SPECIFICATION FairSpec
CONSTANTS
  Tests = {"ping", "upnp", "unknown"}
  Creatable = {"ping", "upnp"}
  Blocking = {"upnp"}
  Hanging = {"ping"}
  Modes = {"wlan", "cellular", "down"}
  Mobile = "cellular"
  Down = "down"
  Allowed <- MCAllowed
  MaxCalls = 3
  MaxChanges = 1
INVARIANTS OneInFlight QueueServed
PROPERTIES ImplementsSerial EventuallyDelivered
CHECK_DEADLOCK FALSE
