\* Statistics of all inputs; more threads than connections.
SPECIFICATION RowsSpec
CONSTANTS
    IntBits = 4
    Inputs <- AllInputs
    Borrowers = {"a", "b", "c"}
    capacity_ = 2
    conn_trim_linger_ = 1
    MaxConns = 4
    MaxInserts = 1
INVARIANTS CountsTheKept QuantilesInOrder LentOnce StoredIsThere
PROPERTY RequestsEnd
CHECK_DEADLOCK FALSE
