--------------------------- MODULE LedgerPromise ---------------------------
(***************************************************************************)
(* What the ledger promises its users: accounts and transactions change    *)
(* one call at a time, and a transaction row never changes without the     *)
(* balances: the old row is taken back and the new one is posted in the    *)
(* same step.  No requests, no SQL statements, no locks.                   *)
(***************************************************************************)
EXTENDS TransactionRows

CONSTANTS Users, AccountIds, TxnIds, Keys, Money, Row

VARIABLES owner, key, balance, row

vars == <<owner, key, balance, row>>

Live == {a \in AccountIds : owner[a] # None}

Init == /\ owner \in [AccountIds -> Users \cup {None}]
        /\ key \in [AccountIds -> Keys \cup {None}]
        /\ balance \in [AccountIds -> Money]
        /\ row \in [TxnIds -> Row \cup {None}]

Worth(x, a) == IF x = None THEN 0 ELSE Contribution(x, a)

\* Row t gives way to x; None is no row.
Replace(t, x) ==
    /\ row' = [row EXCEPT ![t] = x]
    /\ balance' = [a \in AccountIds |-> balance[a] - Worth(row[t], a) + Worth(x, a)]
    /\ UNCHANGED <<owner, key>>

\* A row is created or changed to x, which posts to an account there is.
Record(t) == /\ row'[t] \in Row
             /\ OwnAccount(row'[t]) \in Live
             /\ row[t] # None => row'[t].user = row[t].user /\ OwnAccount(row[t]) # None
             /\ Replace(t, row'[t])

\* Only a row that still has its account can be deleted.
Erase(t) == /\ row[t] # None
            /\ OwnAccount(row[t]) # None
            /\ Replace(t, None)

\* An account is opened, or its key or balance is set by its owner.
SetAccount(a) ==
    /\ owner' = [owner EXCEPT ![a] = owner'[a]]
    /\ key' = [key EXCEPT ![a] = key'[a]]
    /\ balance' = [balance EXCEPT ![a] = balance'[a]]
    /\ owner'[a] \in Users /\ key'[a] \in Keys /\ balance'[a] \in Money
    /\ a \in Live => owner'[a] = owner[a]
    /\ \A b \in AccountIds \ {a} : key'[b] # key'[a]
    /\ UNCHANGED row

\* A closed account leaves its rows behind, detached.
CloseAccount(a) ==
    /\ a \in Live
    /\ owner' = [owner EXCEPT ![a] = None]
    /\ key' = [key EXCEPT ![a] = None]
    /\ balance' = [balance EXCEPT ![a] = 0]
    /\ row' = [t \in TxnIds |-> IF row[t] = None THEN None ELSE Detached(row[t], a)]

Next == \/ \E t \in TxnIds : Record(t) \/ Erase(t)
        \/ \E a \in AccountIds : SetAccount(a) \/ CloseAccount(a)

Spec == Init /\ [][Next]_vars

=============================================================================
