CONSTANTS
  MaxTries = 6
SPECIFICATION PoolSpec
CHECK_DEADLOCK FALSE
INVARIANTS
  PostgresStaysReadOnly
