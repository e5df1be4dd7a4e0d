\* A ring of three bytes, dropping up to one byte more than it can hold.
CONSTANTS
  capacity = 3
  Byte = {0, 1, 2}
  FREES = {0, 1, 2, 4}
SPECIFICATION RingSpec
INVARIANTS
  RingInv
PROPERTIES
  RefinesQueue
