\* 256 pages of memory; image, bitmap and added tables fill the first block.
CONSTANTS
  PAGES_PER_ENTRY = 4
  CHECKED_FROM = 2
  ENTRY_COUNT = 64
  ENTRIES <- MCEntries
  PAGE_SIZE = 4
  ADDRESSES = 4096
  COUNTS = 1024
  TYPES = {0, 1}
  REGIONS <- MCRegions
  MAP_TYPE = "ONE_TO_ONE"
  RESERVED = {}
  INT_PAGES = 128
  FRAMES = 1024
  MMU_SPACE = 1
  IMAGE_END = 4
  BITMAP_PAGES = 1
  PERIPH_START = 240
  JUNK <- MCJunk
  WATCHED <- MCWatched
SPECIFICATION BootSpec
INVARIANTS
  TlbIsCurrent
  BootLeaves
PROPERTIES
  BootEnds
