\* Up to two processes, with two values of the other registers; a block is 4 bitmap entries of 4 pages.
CONSTANTS
  PAGES_PER_ENTRY = 4
  CHECKED_FROM = 2
  ENTRY_COUNT = 17
  BLOCK_ENTRIES = 4
  IMAGE_END = 2
  BITMAP_PAGES = 1
  KERNEL_TABLES = 1
  PERIPH_START = 64
  OPEN_FROM = 48
  KPROC_MAX_COUNT = 2
  PROGS = {0, 1}
  REGS = {r1, r2}
  ADDRS = {entry, other}
  KPROC_PROG_OFFSET = entry
  DATA = {d1}
SPECIFICATION Spec
PROPERTIES
  RefinesProcAbs
