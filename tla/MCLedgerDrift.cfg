CONSTANTS
    u1 = u1
    u2 = u2
    a1 = a1
    a2 = a2
    t1 = t1
    t2 = t2
    t3 = t3
    k1 = k1
    k2 = k2
    k3 = k3
    Requests = {r1, r2}
    Users = {u1, u2}
    AccountIds = {a1, a2}
    TxnIds = {t1, t2, t3}
    Keys = {k1, k2, k3}
    None = None
    Absent = Absent
    MaxBalance = 4
    Operations <- ChangesOfOneRow
    InitialDBs <- OneRow
SPECIFICATION Spec
INVARIANT BalanceIsOpeningPlusRows
CHECK_DEADLOCK FALSE
