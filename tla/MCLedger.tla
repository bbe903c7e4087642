------------------------------ MODULE MCLedger ------------------------------
(* Instances of Ledger for TLC. *)
EXTENDS Ledger, TLC

CONSTANTS u1, u2, a1, a2, t1, t2, t3, k1, k2, k3

Credit(x, n) == [user |-> u1, amount |-> n, type |-> "Credit",
                 category |-> "Income", creditTo |-> x, debitFrom |-> None]
Debit(x, n) == [user |-> u1, amount |-> n, type |-> "Debit",
                category |-> "Expense", creditTo |-> None, debitFrom |-> x]

\* Accounts a1 and a2 of u1, and the given rows under t1 and t2.
DB(x, y) == [owner |-> [a \in AccountIds |-> IF a \in {a1, a2} THEN u1 ELSE None],
             key |-> [a \in AccountIds |->
                        IF a = a1 THEN k1 ELSE IF a = a2 THEN k2 ELSE None],
             opening |-> [a \in AccountIds |-> IF a \in {a1, a2} THEN 2 ELSE 0],
             row |-> [t \in TxnIds |->
                        IF t = t1 THEN x ELSE IF t = t2 THEN y ELSE None]]

OneRow == {DB(Credit(a1, 1), None), DB(Debit(a1, 1), None)}
TwoRows == {DB(Credit(a1, 1), Debit(a2, 1))}

Create(u, d) == [kind |-> "createTxn", user |-> u, id |-> None, dto |-> d]
Update(u, t, d) == [kind |-> "updateTxn", user |-> u, id |-> t, dto |-> d]
Delete(u, t) == [kind |-> "deleteTxn", user |-> u, id |-> t, dto |-> None]
CreateAcc(u, k, n) == [kind |-> "createAcc", user |-> u, id |-> None,
                       dto |-> [key |-> k, amount |-> n]]
UpdateAcc(u, a, k, n) == [kind |-> "updateAcc", user |-> u, id |-> a,
                          dto |-> [key |-> k, amount |-> n]]
DeleteAcc(u, a) == [kind |-> "deleteAcc", user |-> u, id |-> a, dto |-> None]

Unchanged == [amount |-> Absent, type |-> Absent, category |-> Absent,
              creditTo |-> Absent, debitFrom |-> Absent]

NewCredit(x, c, n) == [amount |-> n, type |-> "Credit", category |-> c,
                       creditTo |-> x, debitFrom |-> None]
NewDebit(x, n) == [amount |-> n, type |-> "Debit", category |-> "Expense",
                   creditTo |-> None, debitFrom |-> x]

Creates == {Create(u1, NewCredit(a1, "Income", 1)), Create(u1, NewDebit(a2, 1)),
            Create(u1, NewCredit(a1, "Expense", 1)), Create(u1, NewDebit(None, 1))}

Changes ==       \* updates that name their account, or keep it
    {[Unchanged EXCEPT !.amount = 2],
     [Unchanged EXCEPT !.category = "Expense"],
     [Unchanged EXCEPT !.creditTo = a2],
     [Unchanged EXCEPT !.debitFrom = a2],
     [Unchanged EXCEPT !.type = "Debit", !.debitFrom = a2, !.category = "Expense"],
     [Unchanged EXCEPT !.type = "Credit", !.creditTo = a1, !.category = "Income"],
     [Unchanged EXCEPT !.type = "Credit"]}

Detaching == {[Unchanged EXCEPT !.creditTo = None], [Unchanged EXCEPT !.debitFrom = None]}

\* Any calls at once on one row and its accounts.
RaceOperations ==
    Creates \cup {Update(u1, t1, d) : d \in Changes \cup Detaching}
    \cup {Update(u2, t1, Unchanged), Delete(u1, t1), DeleteAcc(u1, a1),
          UpdateAcc(u1, a1, Absent, 0), CreateAcc(u1, k1, 0), CreateAcc(u1, k3, 1)}

ChangesOfOneRow == {Update(u1, t1, d) : d \in Changes}

DetachingUpdates == {Update(u1, t1, d) : d \in Detaching}

\* Two rows, moved between the accounts in both directions, while the accounts
\* are created, renamed and deleted; u2 posts to an account of u1.
SerialOperations ==
    {Update(u1, t, d) : t \in {t1, t2}, d \in Changes}
    \cup {Delete(u1, t1), Delete(u2, t3), Create(u2, NewDebit(a1, 1)),
          CreateAcc(u1, k1, 0), CreateAcc(u1, k3, 1), UpdateAcc(u1, a1, k3, Absent),
          UpdateAcc(u2, a1, Absent, 0), UpdateAcc(u1, a2, Absent, 0),
          DeleteAcc(u1, a1), DeleteAcc(u2, a1)}

\* Moves that lock the two accounts in opposite orders.
CircularOperations ==
    {Update(u1, t1, [Unchanged EXCEPT !.creditTo = a2]),
     Update(u1, t2, [Unchanged EXCEPT !.debitFrom = a1]),
     Update(u1, t1, [Unchanged EXCEPT !.category = "Expense"]),
     Delete(u1, t1), DeleteAcc(u1, a1), DeleteAcc(u1, a2),
     UpdateAcc(u1, a1, Absent, 0), Create(u1, NewCredit(a1, "Income", 2))}

=============================================================================
