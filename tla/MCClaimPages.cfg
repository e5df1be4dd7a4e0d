\* Entries of 4 bits of which the search sees the upper two, three entries.
CONSTANTS
  PAGES_PER_ENTRY = 4
  CHECKED_FROM = 2
  ENTRY_COUNT = 3
  NUMBERS = {1, 2, 3, 6}
  ALIGNS = {1, 2, 4}
SPECIFICATION Spec
INVARIANTS
  TypeOK
  SearchInvariant
  ResultIsFirstFit
  NullClaimsNothing
PROPERTIES
  FreeIsExact
  ClaimReturns
