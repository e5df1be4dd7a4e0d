\* Two values of the registers; two calls of a process and one of a device,
\* and the number behind the table (9); faults whose low half is the number of
\* a call (0, 1, 4) or not (6).
CONSTANTS
  REGS = {r1, r2}
  UNSUPPORTED = r1
  CALLS = {0, 1, 2, 9}
  FAULTS = {0, 1, 4, 6}
  DEVS <- MCDevs
  KPROC_MAX_COUNT = 3
  KDEV_BUFFER_SIZE = 4
  KCALL_BUFFER_SIZE = 9
SPECIFICATION Spec
INVARIANTS
  TypeOK
  NoNullCall
  UserIsUnprivileged
PROPERTIES
  ExceptionIsTransparent
  TicksGoOn
