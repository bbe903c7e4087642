-------------------------------- MODULE Cents --------------------------------
(***************************************************************************)
(* Fractions of a cent.  A request may give an amount with any number of   *)
(* decimals, the columns have two: the row of a transaction keeps the      *)
(* rounded amount, and the balance is rounded once the amount as given is  *)
(* added to it or taken from it.  Reversals use the amount of the row.     *)
(*                                                                         *)
(* One account and one call at a time, each a single step; what happens    *)
(* between the statements of a call is modelled in Ledger, for whole       *)
(* amounts.  Money is counted in tenths of a cent here.                    *)
(*                                                                         *)
(* A definition marked SLIP is not the code's: it is the one after it with *)
(* a mistake such code invites, kept to see that a property notices it.    *)
(***************************************************************************)
EXTENDS Integers, FiniteSets, FiniteSetsExt

CONSTANTS RowIds, GivenAmounts, OpeningBalances,
          NoRow, NoAmount,     \* no such row; a DTO without an amount
          MaxChanges           \* bound on the calls followed

ASSUME CentsAssumption ==
    /\ GivenAmounts \subseteq Int
    /\ \A b \in OpeningBalances : b % 10 = 0
    /\ OpeningBalances \subseteq Int
    /\ NoAmount \notin GivenAmounts
    /\ IsFiniteSet(RowIds)
    /\ NoRow \notin [type : {"Credit", "Debit"}, amount : Int]
    /\ MaxChanges \in Nat

VARIABLES opening, balance, row, changes,
          halves               \* history: see IsHalved

centsVars == <<opening, balance, row, changes, halves>>

\* numeric(12,2): to the next cent, half a cent away from zero.
Round(x) == IF x >= 0 THEN ((x + 5) \div 10) * 10 ELSE -(((5 - x) \div 10) * 10)

SignedAmount(type, a) == IF type = "Credit" THEN a ELSE -a
Worth(r) == IF row[r] = NoRow THEN 0 ELSE SignedAmount(row[r].type, row[r].amount)

\* increment and decrement
PostedTo(b, type, a) == Round(b + SignedAmount(type, a))

\* Half a cent is rounded in two directions: in the row away from zero, in the
\* balance the other way if the balance keeps the sign that is not the amount's.
IsHalved(b, type, a) == /\ a % 10 = 5
                        /\ \/ SignedAmount(type, a) > 0 /\ b + SignedAmount(type, a) < 0
                           \/ SignedAmount(type, a) < 0 /\ b + SignedAmount(type, a) > 0

CentsInit == /\ opening \in OpeningBalances /\ balance = opening
             /\ row = [r \in RowIds |-> NoRow]
             /\ changes = 0 /\ halves = 0

\* The row is written first, then the balance, with the amount as it was given.
Posts(r, before, type, a) ==
    /\ row' = [row EXCEPT ![r] = [type |-> type, amount |-> Round(a)]]
    /\ balance' = PostedTo(before, type, a)
    /\ halves' = IF IsHalved(before, type, a) THEN halves + 1 ELSE halves

CreateRow(r, type, a) == /\ row[r] = NoRow
                         /\ Posts(r, balance, type, a)

GivenOr(a, stored) == IF a = NoAmount THEN stored ELSE a

ReversedAsCredit(r) == PostedTo(balance, "Debit", row[r].amount)        \* SLIP
Reversed(r) == PostedTo(balance, IF row[r].type = "Credit" THEN "Debit" ELSE "Credit",
                        row[r].amount)

UpdateRow(r, type, a) == /\ row[r] # NoRow
                         /\ Posts(r, Reversed(r), type, GivenOr(a, row[r].amount))

DeleteRow(r) == /\ row[r] # NoRow
                /\ balance' = Reversed(r)
                /\ row' = [row EXCEPT ![r] = NoRow]
                /\ UNCHANGED halves

CentsNext == /\ changes < MaxChanges
             /\ changes' = changes + 1
             /\ UNCHANGED opening
             /\ \E r \in RowIds :
                   \/ \E type \in {"Credit", "Debit"}, a \in GivenAmounts :
                         CreateRow(r, type, a)
                   \/ \E type \in {"Credit", "Debit"}, a \in GivenAmounts \cup {NoAmount} :
                         UpdateRow(r, type, a)
                   \/ DeleteRow(r)

CentsSpec == CentsInit /\ [][CentsNext]_centsVars

-----------------------------------------------------------------------------
(* Properties.                                                             *)

CentsTypeOK == /\ opening \in Int /\ balance \in Int
               /\ \A r \in RowIds :
                     row[r] = NoRow \/ /\ row[r].type \in {"Credit", "Debit"}
                                       /\ row[r].amount \in Int
               /\ changes \in 0..MaxChanges /\ halves \in 0..changes

\* A balance is what it was opened with and what its rows are worth, and a cent
\* more or less for each half cent that was rounded in two directions: nothing
\* else of what the two roundings do adds up.
OnlyHalvesDrift ==
    LET drift == balance - opening - MapThenSumSet(Worth, RowIds) IN
    /\ drift % 10 = 0
    /\ drift \in -(10 * halves)..(10 * halves)

=============================================================================
