CONSTANTS
  f1 = f1
  f2 = f2
  fast = fast
  all = all
  prefixed = prefixed
  Filters = {f1, f2, fast}
  Fast = {fast}
  Texts = {all, prefixed}
  EmptyText = all
  NoText = NoText
  FiltersOf <- MCFiltersOf
  MaxResults = 1
  MaxCalls = 4
SPECIFICATION FairSpec
INVARIANTS
  OneSearchShown
  FilterOutlivesQuery
  LastSearchShown
PROPERTIES
  ComesToRest
CHECK_DEADLOCK FALSE
