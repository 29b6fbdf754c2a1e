SPECIFICATION CacheSpec
CONSTANTS
  PoolSize = 3
  Pages = {1, 2, 3, 4}
INVARIANTS
  OutcomeAsDefined
  LookupExact
  SlotLeft
CHECK_DEADLOCK FALSE
