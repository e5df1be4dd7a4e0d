\* Up to three processes; a block is 4 bitmap entries of 4 pages.
CONSTANTS
  PAGES_PER_ENTRY = 4
  CHECKED_FROM = 2
  ENTRY_COUNT = 21
  BLOCK_ENTRIES = 4
  IMAGE_END = 2
  BITMAP_PAGES = 1
  KERNEL_TABLES = 1
  PERIPH_START = 80
  OPEN_FROM = 64
  KPROC_MAX_COUNT = 3
  PROGS = {0, 1}
  REGS = {r1}
  ADDRS = {entry}
  KPROC_PROG_OFFSET = entry
  DATA = {d1, d2}
SPECIFICATION Spec
INVARIANTS
  TypeOK
  Isolation
  Accounting
  OwnTranslation
  LifoLayout
  IInv
PROPERTIES
  RefinesProcAbs
