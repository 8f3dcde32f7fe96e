SPECIFICATION CacheSpec
CONSTANTS
  Requests = {r1, r2}
  Admins = {d1, d2}
  MaxVersion = 3
  MaxLists = 8
SYMMETRY Symmetry
INVARIANT ServedIsRequested CachedIsOpen OneEntry
PROPERTY HandedIsCached
