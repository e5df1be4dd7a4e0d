\* Input and output: rings and FIFOs of two bytes, three bytes written and four received.
CONSTANTS
  RING = 2
  DEPTH = 2
  TXLEVEL = 1
  RXLEVEL = 1
  SIZES = {0, 1, 3}
  MAX_OUT = 3
  MAX_POLL = 1
  MAX_IN = 4
SPECIFICATION Spec
INVARIANTS
  TypeOK
  SentInOrder
  ReceivedInOrder
PROPERTIES
  CallsReturn
  RxByPolling
