\* Output only: a ring of two bytes, FIFOs of three, up to six bytes written.
CONSTANTS
  RING = 2
  DEPTH = 3
  TXLEVEL = 1
  RXLEVEL = 2
  SIZES = {1, 3}
  MAX_OUT = 6
  MAX_POLL = 1
  MAX_IN = 0
SPECIFICATION Spec
INVARIANTS
  TxWakes
PROPERTIES
  TxDrains
