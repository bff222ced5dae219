CONSTANTS
    Acquirers = {a1, a2, a3}
    Conns = {c1, c2, c3, c4, c5}
    MaxSize = 2
    MaxQueries = 3
SPECIFICATION PgSpec
INVARIANTS PoolAccounted NoTransactionLeaks ResultIsOwn
PROPERTIES PgCallsEnd
CHECK_DEADLOCK FALSE
