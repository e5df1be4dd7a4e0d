\* The constants of MCMmu.cfg, with two blocks mapped over a page.
CONSTANTS
  PAGES_PER_ENTRY = 2
  CHECKED_FROM = 1
  ENTRY_COUNT = 14
  ENTRIES <- MCEntries
  PAGE_SIZE = 4
  ADDRESSES = 64
  COUNTS = 16
  TYPES = {0, 1}
  REGIONS <- MCTwoBlocks
  MAP_TYPE = "ALLOC"
  RESERVED <- MCReserved
  INT_PAGES = 20
  FRAMES = 64
SPECIFICATION Spec
INVARIANTS
  AssertsHold
