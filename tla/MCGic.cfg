\* Registers of 8 bits, fields of 4, 2 and 1.  Interrupts 2 and 3 share every
\* register, 5 those of groups and enable bits only, 9 none.
CONSTANTS
  WORD_BITS = 8
  BYTE_BITS = 4
  TRIGGER_BITS = 2
  IRQS = {2, 3, 5, 9}
  DEVICES = {1}
  PARAMS <- MCParams
  GROUPS <- MCGroups
  RESET <- MCReset
SPECIFICATION Spec
INVARIANTS TypeOK
PROPERTIES RefinesGicAbs
