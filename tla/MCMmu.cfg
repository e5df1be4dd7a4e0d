\* Two, three, three and two entries per table; 28 pages of memory, of which the
\* search for a block sees every other.
CONSTANTS
  PAGES_PER_ENTRY = 2
  CHECKED_FROM = 1
  ENTRY_COUNT = 14
  ENTRIES <- MCEntries
  PAGE_SIZE = 4
  ADDRESSES = 64
  COUNTS = 16
  TYPES = {0, 1}
  REGIONS <- MCRegions
  MAP_TYPE = "ALLOC"
  RESERVED <- MCUsed
  INT_PAGES = 20
  FRAMES = 64
SPECIFICATION Spec
INVARIANTS
  TypeOK
  TreeIsSound
  Accounting
  Lookups
  AgreesWithContext
PROPERTIES
  RefinesAddressSpace
  CallsReturn
