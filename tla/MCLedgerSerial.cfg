CONSTANTS
    u1 = u1
    u2 = u2
    a1 = a1
    a2 = a2
    t1 = t1
    t2 = t2
    t3 = t3
    k1 = k1
    k2 = k2
    k3 = k3
    Requests = {r1, r2, r3}
    Users = {u1, u2}
    AccountIds = {a1, a2, a3, a4}
    TxnIds = {t1, t2, t3}
    Keys = {k1, k2, k3}
    None = None
    Absent = Absent
    MaxBalance = 4
    Operations <- SerialOperations
    InitialDBs <- TwoRows
SPECIFICATION SerialSpec
INVARIANT BalanceIsOpeningPlusRows
INVARIANT RowsAreValid
INVARIANT KeysAreUnique
PROPERTY PromiseIsKept
CHECK_DEADLOCK FALSE
