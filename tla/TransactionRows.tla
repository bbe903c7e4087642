-------------------------- MODULE TransactionRows --------------------------
(***************************************************************************)
(* What a transaction row means to the accounts, shared by the promise of  *)
(* the ledger and by the ledger itself.                                    *)
(***************************************************************************)
EXTENDS Integers

CONSTANT None      \* SQL NULL; also "no such row"

\* The code finds the account of a row by the row's type.
OwnAccount(x) == IF x.type = "Credit" THEN x.creditTo ELSE x.debitFrom
Signed(x) == IF x.type = "Credit" THEN x.amount ELSE -x.amount

\* What a committed row is worth to account a.
Contribution(x, a) == IF OwnAccount(x) = a THEN Signed(x) ELSE 0

\* ON DELETE SET NULL of the two foreign keys.
Detached(x, a) == [x EXCEPT !.creditTo = IF @ = a THEN None ELSE @,
                            !.debitFrom = IF @ = a THEN None ELSE @]

=============================================================================
