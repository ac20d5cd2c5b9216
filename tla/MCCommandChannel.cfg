CONSTANTS
  Sender = {s1, s2}
  MaxSends = 2
  Batch = 2
SPECIFICATION ThreadSpec
INVARIANTS
  NoLostWakeup
PROPERTIES
  FifoSpec
  EventuallyReceived
