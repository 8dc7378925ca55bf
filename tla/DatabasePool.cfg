SPECIFICATION FairSpec
CONSTANTS
  GC = GC
  None = None
  WDB_GLOB_NAME = global
  Names = {a, global}
  Nodes = {x, y}
  Workers = {w1, w2}
  open_db_limit = 1
  MaxQueries = 3
INVARIANTS RefcountIsUsers UsersHaveTheirNode OneConnection TransactionsAreMarked
PROPERTIES TransactionsEnd PoolShrinks
CHECK_DEADLOCK FALSE
