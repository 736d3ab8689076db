CONSTANTS
    Request = {r1, r2, r3}
    Threads = 2
    PoolSize = 1
    Nobody = Nobody
SPECIFICATION LiveSpec
INVARIANTS
    TypeOK
    NobodyBlocksEverybody
PROPERTY RequestsEnd
CHECK_DEADLOCK FALSE
