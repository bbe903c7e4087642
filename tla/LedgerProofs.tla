---------------------------- MODULE LedgerProofs ----------------------------
(***************************************************************************)
(* Proofs about Ledger, for every set of calls, users, accounts and rows:  *)
(* its types, the integrity of the pointers from rows to accounts, that a  *)
(* row which no commit has drifted is worth to every live account exactly  *)
(* what the calls on it have posted there, that balances are exact as long *)
(* as nothing drifts, and that the ledger implements its promise for calls *)
(* on a row that come one after the other.                                 *)
(***************************************************************************)
EXTENDS Ledger, SumTheorems

Pointers(x) == {x.creditTo, x.debitFrom}

\* Requests that work on a row: which row they have read or inserted.
Changing(r) == pc[r] \in {"reverse", "write", "remove"}
               \/ (pc[r] \in {"apply", "commit"} /\ op[r].kind # "createTxn")
Inserted(r) == pc[r] \in {"apply", "commit"} /\ op[r].kind = "createTxn"

\* The locks of two requests never overlap, locked accounts exist, and a
\* pending change of a balance is covered by a lock and fits the column.
LockInv ==
    /\ \A r, q \in Requests : r # q => wAcc[r] \cap wAcc[q] = {}
    /\ \A r, q \in Requests : r # q => wRow[r] \cap wRow[q] = {}
    /\ \A r \in Requests : wAcc[r] \cup sAcc[r] \subseteq accounts
    /\ \A r \in Requests : wRow[r] \subseteq rows
    /\ \A r \in Requests, a \in AccountIds : a \notin wAcc[r] => delta[r][a] = 0
    /\ \A r \in Requests, a \in AccountIds : balance[a] + delta[r][a] \in Money

\* Ids in use were handed out, and nothing was ever posted to other accounts.
UsedInv ==
    /\ accounts \subseteq usedAcc
    /\ rows \subseteq usedTxn
    /\ \A t \in TxnIds, a \in AccountIds : a \notin usedAcc => effect[t][a] = 0

\* An inserted row is known to nobody else before it is committed.
FreshInv ==
    \A r \in Requests : Inserted(r) =>
       /\ target[r] \in usedTxn \ rows
       /\ \A q \in Requests \ {r} :
             Changing(q) \/ Inserted(q) => target[q] # target[r]

\* Where each request stands: the call it serves, the row it has read, and
\* what it has pending.
KindOf(r) ==
    /\ Running(r) => op[r] \in Operations
    /\ pc[r] = "insert" => op[r].kind = "createTxn"
    /\ pc[r] \in {"find", "reverse"} => op[r].kind \in {"updateTxn", "deleteTxn"}
    /\ pc[r] = "write" => op[r].kind = "updateTxn"
    /\ pc[r] = "remove" => op[r].kind = "deleteTxn"
    /\ pc[r] = "apply" => op[r].kind \in {"createTxn", "updateTxn"}
    /\ pc[r] = "commit" => op[r].kind \in {"createTxn", "updateTxn", "deleteTxn"}
    /\ pc[r] \in {"accCheck", "accInsert"} => op[r].kind = "createAcc"
    /\ pc[r] \in {"accFind", "accWrite"} => op[r].kind = "updateAcc"
    /\ pc[r] \in {"accDelFind", "accDelete"} => op[r].kind = "deleteAcc"
    /\ pc[r] = "find" => target[r] \in TxnIds
    /\ Changing(r) => snap[r] \in Row /\ target[r] \in usedTxn

KindInv == \A r \in Requests : KindOf(r)

\* What the request has posted so far, per account.
Undone(r, a) == IF OwnAccount(snap[r]) = a THEN -Signed(snap[r]) ELSE 0
Posting(r, a) == IF PostAccount(r) = a THEN PostAmount(r) ELSE 0

PendingOf(r) ==
    /\ pc[r] \notin {"write", "remove", "apply", "commit"} =>
          /\ wAcc[r] = {}
          /\ \A a \in AccountIds : delta[r][a] = 0
    /\ pc[r] \notin {"apply", "commit"} => wRow[r] = {} /\ sAcc[r] = {}
    /\ pc[r] \in {"write", "remove"} =>
          \A a \in AccountIds : delta[r][a] = Undone(r, a)
    /\ pc[r] = "apply" /\ op[r].kind = "updateTxn" =>
          \A a \in AccountIds : delta[r][a] = Undone(r, a)
    /\ pc[r] = "apply" /\ op[r].kind = "createTxn" =>
          \A a \in AccountIds : delta[r][a] = 0
    /\ pc[r] = "commit" =>
          \A a \in AccountIds :
             delta[r][a] = (IF op[r].kind = "createTxn" THEN 0 ELSE Undone(r, a))
                           + (IF op[r].kind = "deleteTxn" THEN 0 ELSE Posting(r, a))
    /\ pc[r] = "commit" /\ op[r].kind = "deleteTxn" => target[r] \in wRow[r]
    /\ pc[r] \in {"apply", "commit"} /\ op[r].kind = "updateTxn" =>
          /\ target[r] \in wRow[r]
          /\ newRow[r] = Merge(row[target[r]], Effective(op[r].dto, snap[r]))
    /\ pc[r] \in {"apply", "commit"} /\ op[r].kind # "deleteTxn" =>
          /\ newRow[r] \in Row
          /\ None \in Pointers(newRow[r])
          /\ Pointers(newRow[r]) \subseteq accounts \cup {None}
    /\ Inserted(r) => Pointers(newRow[r]) \subseteq sAcc[r] \cup {None}
    /\ pc[r] \in {"apply", "commit"} /\ op[r].kind = "updateTxn" =>
          Pointers(newRow[r]) \subseteq
             sAcc[r] \cup Pointers(row[target[r]]) \cup {None}

PendingInv == \A r \in Requests : PendingOf(r)

\* The inductive invariant.
IInv == /\ TypeOK
        /\ LockInv
        /\ UsedInv
        /\ FreshInv
        /\ KindInv
        /\ PendingInv
        /\ RowsPointAtLiveAccounts
        /\ EffectMatchesRow

-----------------------------------------------------------------------------
(* Facts about rows and DTOs.                                              *)

\* The records of a call, by its kind.
LEMMA OpTypes ==
    ASSUME NEW o \in Operations
    PROVE  /\ o.user \in Users
           /\ o.kind \in {"createTxn", "updateTxn", "deleteTxn",
                         "createAcc", "updateAcc", "deleteAcc"}
           /\ o.kind \in {"updateTxn", "deleteTxn"} => o.id \in TxnIds
           /\ o.kind \in {"updateAcc", "deleteAcc"} => o.id \in AccountIds
           /\ o.kind = "updateTxn" => o.dto \in UpdateDto
           /\ o.kind = "updateAcc" => o.dto \in AccountDto
           /\ o.kind = "createAcc" => o.dto \in [key: Keys, amount: Money]
           /\ o.kind = "createTxn" =>
                 o.dto \in [amount: Money, type: Types, category: Categories,
                            creditTo: AccountIds \cup {None},
                            debitFrom: AccountIds \cup {None}]
BY ConstantsAssumption DEF Op

\* Amounts are integers, and each can be taken back.
LEMMA MoneyInt == Money \subseteq Int /\ 0 \in Money /\ \A n \in Money : -n \in Money
BY ConstantsAssumption DEF Money

\* Balances and opening amounts are integers.
LEMMA BalanceTypes ==
    ASSUME TypeOK
    PROVE  \A a \in AccountIds : /\ balance[a] \in Money /\ balance[a] \in Int
                                /\ balance[a] + 0 = balance[a] /\ opening[a] \in Int
<1>1. \A a \in AccountIds : balance[a] \in Money /\ opening[a] \in Int
  BY DEF TypeOK
<1>2. \A n \in Money : n \in Int /\ n + 0 = n
  BY MoneyInt
<1> QED
  BY <1>1, <1>2

\* A row is worth an integer, and names an account or nothing.
LEMMA RowTypes ==
    ASSUME NEW x \in Row
    PROVE  /\ Signed(x) \in Int
           /\ OwnAccount(x) \in AccountIds \cup {None}
           /\ OwnAccount(x) \in Pointers(x)
           /\ \A a : Contribution(x, a) \in Int
           /\ Pointers(x) \subseteq AccountIds \cup {None}
           /\ x # None
BY ConstantsAssumption, MoneyInt DEF Row, Signed, OwnAccount, Contribution, Pointers, Types

\* createTransaction writes a row with the one account its type asks for.
LEMMA CreatedRowTypes ==
    ASSUME NEW o \in Operations, o.kind = "createTxn"
    PROVE  /\ CreatedRow(o) \in Row
           /\ None \in Pointers(CreatedRow(o))
           /\ Pointers(CreatedRow(o)) = {OwnAccount(CreatedRow(o)), None}
BY OpTypes DEF CreatedRow, Row, Pointers, OwnAccount, Types

\* What updateTransaction sends to the row: at most one account.
LEMMA EffectiveTypes ==
    ASSUME NEW d \in UpdateDto, NEW s \in Row
    PROVE  /\ Effective(d, s) \in UpdateDto
           /\ None \in {Effective(d, s).creditTo, Effective(d, s).debitFrom}
BY DEF Effective, UpdateDto

\* A row changed by such a DTO is still a row.
LEMMA MergeTypes ==
    ASSUME NEW x \in Row, NEW s \in Row, NEW d \in UpdateDto
    PROVE  LET e == Effective(d, s)
               n == Merge(x, e)
           IN  /\ n \in Row
               /\ None \in Pointers(n)
               /\ Pointers(n) \subseteq ({e.creditTo, e.debitFrom} \ {None, Absent})
                                       \cup Pointers(x) \cup {None}
<1> DEFINE e == Effective(d, s)
           n == Merge(x, e)
<1>1. e \in UpdateDto /\ None \in {e.creditTo, e.debitFrom}
  BY EffectiveTypes
<1>2. n \in Row
  BY <1>1, ConstantsAssumption DEF Merge, Keep, UpdateDto, Row
<1>3. n.creditTo = Keep(e.creditTo, x.creditTo) /\ n.debitFrom = Keep(e.debitFrom, x.debitFrom)
  BY DEF Merge
<1>4. None # Absent
  BY ConstantsAssumption
<1> HIDE DEF e, n
<1> QED
  BY <1>1, <1>2, <1>3, <1>4 DEF Keep, Pointers, e, n

\* What updateTransaction posts is what the row it has read is worth after the
\* update, unless the update leaves that row without an account.
LEMMA UpdatePosts ==
    ASSUME NEW s \in Row, NEW d \in UpdateDto,
           None \in Pointers(s),
           OwnAccount(Merge(s, Effective(d, s))) # None
    PROVE  /\ UpdateAccount(d, s) = OwnAccount(Merge(s, Effective(d, s)))
           /\ UpdateAmount(d, s) = Signed(Merge(s, Effective(d, s)))
<1> DEFINE e == Effective(d, s)
           n == Merge(s, e)
<1>0. None # Absent /\ s.creditTo # Absent /\ s.debitFrom # Absent
  BY ConstantsAssumption DEF Row
<1>1. /\ n.type = Keep(e.type, s.type)
      /\ n.amount = Keep(e.amount, s.amount)
      /\ n.creditTo = Keep(e.creditTo, s.creditTo)
      /\ n.debitFrom = Keep(e.debitFrom, s.debitFrom)
  BY DEF Merge
<1>2. /\ e.type = d.type
      /\ e.amount = d.amount
      /\ e.creditTo = IF NewIsCredit(d, s) THEN d.creditTo ELSE None
      /\ e.debitFrom = IF NewIsCredit(d, s) THEN None ELSE d.debitFrom
  BY DEF Effective, UpdateDto
<1>3. (n.type = "Credit") <=> NewIsCredit(d, s)
  BY <1>1, <1>2 DEF NewIsCredit
<1>4. OwnAccount(n) # None
  OBVIOUS
<1>5. UpdateAccount(d, s) = Or(e.creditTo, Or(e.debitFrom, Or(s.creditTo, s.debitFrom)))
  BY DEF UpdateAccount
<1>6. UpdateAmount(d, s) = Signed(n)
  BY <1>1, <1>2, <1>3 DEF UpdateAmount, Signed
<1> HIDE DEF e, n
<1>7. UpdateAccount(d, s) = OwnAccount(n)
  BY <1>0, <1>1, <1>2, <1>3, <1>4, <1>5 DEF Keep, Or, OwnAccount, Pointers
<1> QED
  BY <1>6, <1>7 DEF e, n

-----------------------------------------------------------------------------
(* Every step preserves the invariant.                                     *)

\* Nothing of request q changes.
Untouched(q) ==
    /\ pc'[q] = pc[q] /\ op'[q] = op[q] /\ target'[q] = target[q]
    /\ snap'[q] = snap[q] /\ newRow'[q] = newRow[q] /\ delta'[q] = delta[q]
    /\ wAcc'[q] = wAcc[q] /\ sAcc'[q] = sAcc[q] /\ wRow'[q] = wRow[q]

\* What a request has read stays of its type when others take steps.
LEMMA KindKept ==
    ASSUME NEW q \in Requests, KindOf(q), Untouched(q), usedTxn \subseteq usedTxn'
    PROVE  KindOf(q)'
BY DEF KindOf, Untouched, Running, Changing

\* What a request has pending stays right when others take steps: they do not
\* touch the row it has locked nor the accounts its new row points at.
LEMMA PendingKept ==
    ASSUME NEW q \in Requests, PendingOf(q), Untouched(q),
           target[q] \in wRow[q] => row'[target[q]] = row[target[q]],
           pc[q] \in {"apply", "commit"} /\ op[q].kind # "deleteTxn" =>
              Pointers(newRow[q]) \subseteq accounts' \cup {None}
    PROVE  PendingOf(q)'
BY DEF PendingOf, Untouched, Undone, Posting, PostAccount, PostAmount, Inserted

\* So does what they know of inserted rows.
LEMMA FreshKept ==
    ASSUME NEW r \in Requests, FreshInv, UNCHANGED <<target, usedTxn, row, op>>,
           \A q \in Requests \ {r} : pc'[q] = pc[q],
           Inserted(r)' => Inserted(r), Changing(r)' => Changing(r)
    PROVE  FreshInv'
<1>1. \A q \in Requests : Inserted(q)' => Inserted(q)
  BY DEF Inserted
<1>2. \A q \in Requests : Changing(q)' => Changing(q)
  BY DEF Changing
<1>3. rows' = rows
  BY DEF rows
<1> QED
  BY <1>1, <1>2, <1>3 DEF FreshInv

\* Rolling back takes away a request's locks and what it has pending.
LEMMA RollbackInv ==
    ASSUME IInv, NEW r \in Requests, Rollback(r)
    PROVE  IInv'
<1> USE DEF Rollback, Release, Goto, database, history
<1>1. TypeOK'
  BY DEF IInv, TypeOK, Steps, Zero
<1>2. LockInv'
  BY DEF IInv, TypeOK, LockInv, Zero, Money, accounts, rows
<1>3. UsedInv'
  BY DEF IInv, UsedInv, accounts, rows
<1>4. FreshInv'
  BY DEF IInv, TypeOK, FreshInv, Inserted, Changing, rows
<1>5. \A q \in Requests \ {r} : Untouched(q)
  BY DEF IInv, TypeOK, Untouched
<1>6. pc'[r] = "failed"
  BY DEF IInv, TypeOK
<1>7. KindInv'
  <2>1. KindOf(r)'
    BY <1>6 DEF KindOf, Running, Changing
  <2>2. \A q \in Requests \ {r} : KindOf(q)'
    BY <1>5, KindKept DEF IInv, KindInv
  <2> QED
    BY <2>1, <2>2 DEF KindInv
<1>8. PendingInv'
  <2>1. PendingOf(r)'
    BY <1>6 DEF IInv, TypeOK, PendingOf, Zero, Inserted
  <2>2. \A q \in Requests \ {r} : PendingOf(q)'
    BY <1>5, PendingKept DEF IInv, PendingInv, PendingOf, accounts
  <2> QED
    BY <2>1, <2>2 DEF PendingInv
<1>9. RowsPointAtLiveAccounts' /\ EffectMatchesRow'
  BY DEF IInv, RowsPointAtLiveAccounts, EffectMatchesRow, accounts, rows
<1> QED
  BY <1>1, <1>2, <1>3, <1>4, <1>7, <1>8, <1>9 DEF IInv

\* A call that is received has nothing pending; a rejected one is rolled back.
LEMMA ReceiveInv ==
    ASSUME IInv, NEW r \in Requests, Receive(r)
    PROVE  IInv'
<1>1. PICK o \in Operations :
         \/ Rollback(r)
         \/ /\ ~Rejected(o)
            /\ op' = [op EXCEPT ![r] = o]
            /\ target' = [target EXCEPT ![r] =
                             IF o.kind \in {"updateTxn", "deleteTxn"} THEN o.id ELSE None]
            /\ Goto(r, FirstStep(o))
            /\ UNCHANGED <<database, snap, newRow, pending, history>>
  BY DEF Receive
<1>2. CASE Rollback(r)
  BY <1>2, RollbackInv
<1>3. CASE ~Rollback(r)
  <2>1. /\ o.kind \in {"createTxn", "updateTxn", "deleteTxn",
                      "createAcc", "updateAcc", "deleteAcc"}
        /\ o.kind \in {"updateTxn", "deleteTxn"} => o.id \in TxnIds
    BY OpTypes
  <2>2. /\ FirstStep(o) \in {"insert", "find", "accCheck", "accFind", "accDelFind"}
        /\ FirstStep(o) = "insert" => o.kind = "createTxn"
        /\ FirstStep(o) = "find" => o.kind \in {"updateTxn", "deleteTxn"}
        /\ FirstStep(o) = "accCheck" => o.kind = "createAcc"
        /\ FirstStep(o) = "accFind" => o.kind = "updateAcc"
        /\ FirstStep(o) = "accDelFind" => o.kind = "deleteAcc"
    BY <2>1 DEF FirstStep
  <2>3. /\ pc[r] = "idle" /\ pc' = [pc EXCEPT ![r] = FirstStep(o)]
        /\ op' = [op EXCEPT ![r] = o]
        /\ target' = [target EXCEPT ![r] =
                         IF o.kind \in {"updateTxn", "deleteTxn"} THEN o.id ELSE None]
        /\ UNCHANGED <<database, snap, newRow, pending, history>>
    BY <1>1, <1>3 DEF Receive, Goto
  <2> USE <2>3 DEF database, pending, history
  <2>4. TypeOK'
    <3>1. FirstStep(o) \in Steps
      BY <2>2 DEF Steps
    <3>2. (IF o.kind \in {"updateTxn", "deleteTxn"} THEN o.id ELSE None) \in TxnIds \cup {None}
      BY <2>1
    <3> QED
      BY <3>1, <3>2 DEF IInv, TypeOK
  <2>5. LockInv' /\ UsedInv'
    BY DEF IInv, LockInv, UsedInv, accounts, rows
  <2>6. FreshInv'
    BY <2>2 DEF IInv, TypeOK, FreshInv, Inserted, Changing, rows
  <2>7. \A q \in Requests \ {r} : Untouched(q)
    BY DEF IInv, TypeOK, Untouched
  <2>8. KindInv'
    <3>1. KindOf(r)'
      BY <2>1, <2>2 DEF IInv, TypeOK, KindInv, KindOf, Changing, Running
    <3>2. \A q \in Requests \ {r} : KindOf(q)'
      BY <2>7, KindKept DEF IInv, KindInv
    <3> QED
      BY <3>1, <3>2 DEF KindInv
  <2>9. PendingInv'
    <3>1. PendingOf(r)'
      BY <2>2 DEF IInv, TypeOK, PendingInv, PendingOf, Inserted
    <3>2. \A q \in Requests \ {r} : PendingOf(q)'
      BY <2>7, PendingKept DEF IInv, PendingInv, PendingOf, accounts
    <3> QED
      BY <3>1, <3>2 DEF PendingInv
  <2>10. RowsPointAtLiveAccounts' /\ EffectMatchesRow'
    BY DEF IInv, RowsPointAtLiveAccounts, EffectMatchesRow, accounts, rows
  <2> QED
    BY <2>4, <2>5, <2>6, <2>8, <2>9, <2>10 DEF IInv
<1> QED
  BY <1>2, <1>3

\* The handlers of accounts before their writing statement.
LEMMA AccReadInv ==
    ASSUME IInv, NEW r \in Requests, AccCheck(r) \/ AccFind(r) \/ AccDelFind(r)
    PROVE  IInv'
<1>1. CASE Rollback(r)
  BY <1>1, RollbackInv
<1>2. CASE ~Rollback(r)
  <2>1. /\ UNCHANGED <<database, locals, pending, history>>
        /\ \/ pc[r] = "accCheck" /\ pc' = [pc EXCEPT ![r] = "accInsert"]
           \/ pc[r] = "accFind" /\ pc' = [pc EXCEPT ![r] = "accWrite"]
           \/ pc[r] = "accDelFind" /\ pc' = [pc EXCEPT ![r] = "accDelete"]
    BY <1>2 DEF AccCheck, AccFind, AccDelFind, Goto
  <2> USE <2>1 DEF database, locals, pending, history
  <2>2. TypeOK'
    BY DEF IInv, TypeOK, Steps
  <2>3. LockInv' /\ UsedInv'
    BY DEF IInv, LockInv, UsedInv, accounts, rows
  <2>4. FreshInv'
    BY DEF IInv, TypeOK, FreshInv, Inserted, Changing, rows
  <2>5. \A q \in Requests \ {r} : Untouched(q)
    BY DEF IInv, TypeOK, Untouched
  <2>6. KindInv'
    <3>1. KindOf(r)'
      BY DEF IInv, TypeOK, KindInv, KindOf, Changing, Running
    <3>2. \A q \in Requests \ {r} : KindOf(q)'
      BY <2>5, KindKept DEF IInv, KindInv
    <3> QED
      BY <3>1, <3>2 DEF KindInv
  <2>7. PendingInv'
    <3>0. /\ pc'[r] \in {"accInsert", "accWrite", "accDelete"}
          /\ wAcc'[r] = {} /\ wRow'[r] = {} /\ sAcc'[r] = {}
          /\ \A a \in AccountIds : delta'[r][a] = 0
      BY DEF IInv, TypeOK, PendingInv, PendingOf
    <3>1. PendingOf(r)'
      BY <3>0 DEF PendingOf, Inserted
    <3>2. \A q \in Requests \ {r} : PendingOf(q)'
      BY <2>5, PendingKept DEF IInv, PendingInv, PendingOf, accounts
    <3> QED
      BY <3>1, <3>2 DEF PendingInv
  <2>8. RowsPointAtLiveAccounts' /\ EffectMatchesRow'
    BY DEF IInv, RowsPointAtLiveAccounts, EffectMatchesRow, accounts, rows
  <2> QED
    BY <2>2, <2>3, <2>4, <2>6, <2>7, <2>8 DEF IInv
<1> QED
  BY <1>1, <1>2

\* findUnique gives the request a committed row and no lock.
LEMMA FindTxnInv ==
    ASSUME IInv, NEW r \in Requests, FindTxn(r)
    PROVE  IInv'
<1>1. CASE Rollback(r)
  BY <1>1, RollbackInv
<1>2. CASE ~Rollback(r)
  <2>1. /\ pc[r] = "find"
        /\ target[r] \in rows
        /\ snap' = [snap EXCEPT ![r] = row[target[r]]]
        /\ pc' = [pc EXCEPT ![r] = "reverse"]
        /\ UNCHANGED <<database, op, target, newRow, pending, history>>
    BY <1>2 DEF FindTxn, Goto
  <2> USE <2>1 DEF database, pending, history
  <2>2. row[target[r]] \in Row /\ target[r] \in usedTxn
    BY DEF IInv, TypeOK, UsedInv, rows
  <2>3. TypeOK'
    BY <2>2 DEF IInv, TypeOK, Steps
  <2>4. LockInv' /\ UsedInv'
    BY DEF IInv, LockInv, UsedInv, accounts, rows
  <2>5. FreshInv'
    BY DEF IInv, TypeOK, FreshInv, Inserted, Changing, rows
  <2>6. \A q \in Requests \ {r} : Untouched(q)
    BY DEF IInv, TypeOK, Untouched
  <2>7. KindInv'
    <3>1. KindOf(r)'
      BY <2>2 DEF IInv, TypeOK, KindInv, KindOf, Changing, Running
    <3>2. \A q \in Requests \ {r} : KindOf(q)'
      BY <2>6, KindKept DEF IInv, KindInv
    <3> QED
      BY <3>1, <3>2 DEF KindInv
  <2>8. PendingInv'
    <3>1. PendingOf(r)'
      BY DEF IInv, TypeOK, PendingInv, PendingOf, Inserted
    <3>2. \A q \in Requests \ {r} : PendingOf(q)'
      BY <2>6, PendingKept DEF IInv, PendingInv, PendingOf, accounts
    <3> QED
      BY <3>1, <3>2 DEF PendingInv
  <2>9. RowsPointAtLiveAccounts' /\ EffectMatchesRow'
    BY DEF IInv, RowsPointAtLiveAccounts, EffectMatchesRow, accounts, rows
  <2> QED
    BY <2>3, <2>4, <2>5, <2>7, <2>8, <2>9 DEF IInv
<1> QED
  BY <1>1, <1>2

\* An inserted row is fresh, and its account is kept alive by the shared lock.
LEMMA InsertTxnInv ==
    ASSUME IInv, NEW r \in Requests, InsertTxn(r)
    PROVE  IInv'
<1>1. CASE Rollback(r)
  BY <1>1, RollbackInv
<1>2. CASE ~Rollback(r)
  <2> DEFINE n == CreatedRow(op[r])
  <2>1. /\ pc[r] = "insert" /\ op[r] \in Operations /\ op[r].kind = "createTxn"
    BY DEF InsertTxn, IInv, KindInv, KindOf, Running
  <2>2. n \in Row /\ None \in Pointers(n) /\ Pointers(n) = {OwnAccount(n), None}
    BY <2>1, CreatedRowTypes
  <2> HIDE DEF n
  <2>3. PICK t \in TxnIds \ usedTxn :
           /\ OwnAccount(n) \in accounts
           /\ usedTxn' = usedTxn \cup {t}
           /\ target' = [target EXCEPT ![r] = t]
           /\ newRow' = [newRow EXCEPT ![r] = n]
           /\ sAcc' = [sAcc EXCEPT ![r] = {OwnAccount(n)}]
           /\ pc' = [pc EXCEPT ![r] = "apply"]
           /\ UNCHANGED <<owner, key, balance, row, usedAcc, op, snap,
                          delta, wAcc, wRow, history>>
    BY <1>2 DEF InsertTxn, Goto, n
  <2> USE <2>3 DEF history
  <2>4. TypeOK'
    BY <2>2 DEF IInv, TypeOK, Steps, accounts
  <2>5. LockInv'
    BY DEF IInv, TypeOK, LockInv, accounts, rows
  <2>6. UsedInv'
    BY DEF IInv, UsedInv, accounts, rows
  <2>7. FreshInv'
    <3>1. \A q \in Requests : Changing(q) \/ Inserted(q) => target[q] \in usedTxn
      BY DEF IInv, KindInv, KindOf, FreshInv
    <3>2. \A q \in Requests \ {r} : /\ Changing(q)' <=> Changing(q)
                                    /\ Inserted(q)' <=> Inserted(q)
                                    /\ target'[q] = target[q]
      BY DEF IInv, TypeOK, Changing, Inserted
    <3>3. target'[r] = t /\ t \notin usedTxn /\ t \notin rows
      BY DEF IInv, TypeOK, UsedInv
    <3>4. ~Changing(r)' /\ Inserted(r)'
      BY <2>1 DEF IInv, TypeOK, Changing, Inserted
    <3> QED
      BY <3>1, <3>2, <3>3, <3>4 DEF IInv, FreshInv, rows
  <2>8. \A q \in Requests \ {r} : Untouched(q)
    BY DEF IInv, TypeOK, Untouched
  <2>9. KindInv'
    <3>1. KindOf(r)'
      BY <2>1 DEF IInv, TypeOK, KindOf, Changing, Running
    <3>2. \A q \in Requests \ {r} : KindOf(q)'
      BY <2>8, KindKept DEF IInv, KindInv
    <3> QED
      BY <3>1, <3>2 DEF KindInv
  <2>10. PendingInv'
    <3>1. /\ pc'[r] = "apply" /\ op'[r].kind = "createTxn"
          /\ wRow'[r] = {} /\ sAcc'[r] = {OwnAccount(n)} /\ newRow'[r] = n
          /\ \A a \in AccountIds : delta'[r][a] = 0
      BY <2>1 DEF IInv, TypeOK, PendingInv, PendingOf
    <3>2. PendingOf(r)'
      BY <2>2, <3>1 DEF PendingOf, Inserted, accounts
    <3>3. \A q \in Requests \ {r} : PendingOf(q)'
      BY <2>8, PendingKept DEF IInv, PendingInv, PendingOf, accounts
    <3> QED
      BY <3>2, <3>3 DEF PendingInv
  <2>11. RowsPointAtLiveAccounts' /\ EffectMatchesRow'
    BY DEF IInv, RowsPointAtLiveAccounts, EffectMatchesRow, accounts, rows
  <2> QED
    BY <2>4, <2>5, <2>6, <2>7, <2>9, <2>10, <2>11 DEF IInv
<1> QED
  BY <1>1, <1>2

\* A successful increment or decrement: the account was not locked by others
\* and the new balance fits the column.
LEMMA PostToInv ==
    ASSUME IInv, NEW r \in Requests, NEW a \in accounts, NEW n \in Int,
           NEW next \in Steps,
           a \in AccNeeded(r), Blockers(r) = {},
           pc[r] \in {"reverse", "apply"},
           balance[a] + delta[r][a] + n \in Money,
           delta' = [delta EXCEPT ![r][a] = @ + n],
           wAcc' = [wAcc EXCEPT ![r] = @ \cup {a}],
           pc' = [pc EXCEPT ![r] = next],
           UNCHANGED <<database, locals, sAcc, wRow, history>>
    PROVE  /\ TypeOK' /\ LockInv' /\ UsedInv'
           /\ RowsPointAtLiveAccounts' /\ EffectMatchesRow'
           /\ \A q \in Requests \ {r} : Untouched(q) /\ KindOf(q)' /\ PendingOf(q)'
<1> USE DEF database, locals, history
<1>0. a \in AccountIds
  BY DEF accounts
<1>1. TypeOK'
  BY <1>0 DEF IInv, TypeOK
<1>2. LockInv'
  <2>1. \A q \in Requests \ {r} : a \notin wAcc[q]
    BY DEF Blockers
  <2>2. \A q \in Requests \ {r} : wAcc'[q] = wAcc[q] /\ delta'[q] = delta[q]
    BY DEF IInv, TypeOK
  <2>3. /\ wAcc'[r] = wAcc[r] \cup {a}
        /\ delta'[r][a] = delta[r][a] + n
        /\ \A b \in AccountIds \ {a} : delta'[r][b] = delta[r][b]
    BY <1>0 DEF IInv, TypeOK
  <2>4. balance[a] + delta'[r][a] \in Money
    <3>1. balance[a] \in Int /\ delta[r][a] \in Int
      BY <1>0, MoneyInt DEF IInv, TypeOK
    <3> QED
      BY <2>3, <3>1
  <2>5. \A q \in Requests, b \in AccountIds : balance[b] + delta'[q][b] \in Money
    BY <2>2, <2>3, <2>4 DEF IInv, LockInv
  <2>6. \A q \in Requests, b \in AccountIds : b \notin wAcc'[q] => delta'[q][b] = 0
    BY <2>2, <2>3 DEF IInv, LockInv
  <2> QED
    BY <2>1, <2>2, <2>3, <2>5, <2>6 DEF IInv, LockInv, accounts, rows
<1>3. UsedInv'
  BY DEF IInv, UsedInv, accounts, rows
<1>4. RowsPointAtLiveAccounts' /\ EffectMatchesRow'
  BY DEF IInv, RowsPointAtLiveAccounts, EffectMatchesRow, accounts, rows
<1>5. \A q \in Requests \ {r} : Untouched(q)
  BY DEF IInv, TypeOK, Untouched
<1>6. \A q \in Requests \ {r} : KindOf(q)' /\ PendingOf(q)'
  BY <1>5, KindKept, PendingKept DEF IInv, KindInv, PendingInv, PendingOf, accounts
<1> QED
  BY <1>1, <1>2, <1>3, <1>4, <1>5, <1>6

\* The reversal takes from the account what the row read is worth.
LEMMA ReverseAccountInv ==
    ASSUME IInv, NEW r \in Requests, ReverseAccount(r)
    PROVE  IInv'
<1>1. CASE Rollback(r)
  BY <1>1, RollbackInv
<1>2. CASE ~Rollback(r)
  <2> DEFINE a == OwnAccount(snap[r])
             n == -Signed(snap[r])
             next == IF op[r].kind = "updateTxn" THEN "write" ELSE "remove"
  <2>1. /\ pc[r] = "reverse" /\ op[r] \in Operations /\ snap[r] \in Row
        /\ op[r].kind \in {"updateTxn", "deleteTxn"} /\ target[r] \in usedTxn
    BY DEF ReverseAccount, IInv, KindInv, KindOf, Running, Changing
  <2>2. n \in Int
    BY <2>1, RowTypes
  <2>3. a \in AccNeeded(r)
    BY <2>1 DEF AccNeeded
  <2>4. next \in Steps
    BY DEF Steps
  <2>5. /\ a \in accounts /\ Blockers(r) = {}
        /\ balance[a] + delta[r][a] + n \in Money
        /\ delta' = [delta EXCEPT ![r][a] = @ + n]
        /\ wAcc' = [wAcc EXCEPT ![r] = @ \cup {a}]
        /\ pc' = [pc EXCEPT ![r] = next]
        /\ UNCHANGED <<database, locals, sAcc, wRow, history>>
    BY <1>2 DEF ReverseAccount, PostTo, Fits, Goto
  <2> HIDE DEF next, n
  <2>6. /\ TypeOK' /\ LockInv' /\ UsedInv'
        /\ RowsPointAtLiveAccounts' /\ EffectMatchesRow'
        /\ \A q \in Requests \ {r} : Untouched(q) /\ KindOf(q)' /\ PendingOf(q)'
    BY <2>1, <2>2, <2>3, <2>4, <2>5, PostToInv
  <2>7. /\ pc'[r] = next
        /\ \/ op[r].kind = "updateTxn" /\ next = "write"
           \/ op[r].kind = "deleteTxn" /\ next = "remove"
    <3>1. pc'[r] = next
      BY <2>5 DEF IInv, TypeOK
    <3> QED
      BY <2>1, <3>1 DEF next
  <2>8. FreshInv'
    <3>1. \A q \in Requests \ {r} : pc'[q] = pc[q]
      BY <2>5 DEF IInv, TypeOK
    <3>2. (Inserted(r)' => Inserted(r)) /\ (Changing(r)' => Changing(r))
      BY <2>1, <2>5, <2>7, <3>1 DEF Inserted, Changing, locals
    <3>3. UNCHANGED <<target, usedTxn, row, op>>
      BY <2>5 DEF database, locals
    <3> QED
      BY <3>1, <3>2, <3>3, FreshKept DEF IInv
  <2>9. KindOf(r)'
    BY <2>1, <2>5, <2>7 DEF KindOf, Changing, Running, database, locals
  <2>10. PendingOf(r)'
    <3>1. \A b \in AccountIds : delta[r][b] = 0
      BY <2>1 DEF IInv, PendingInv, PendingOf
    <3>2. a \in AccountIds
      BY <2>5 DEF accounts
    <3>3. \A b \in AccountIds : delta'[r][b] = IF b = a THEN n ELSE 0
      BY <2>2, <2>5, <3>1, <3>2 DEF IInv, TypeOK
    <3>4. \A b \in AccountIds : delta'[r][b] = Undone(r, b)'
      BY <2>5, <3>3 DEF Undone, n, locals
    <3>5. wRow'[r] = {} /\ sAcc'[r] = {}
      BY <2>1, <2>5 DEF IInv, PendingInv, PendingOf
    <3> QED
      BY <2>7, <3>4, <3>5 DEF PendingOf, Inserted
  <2> QED
    BY <2>6, <2>8, <2>9, <2>10 DEF IInv, KindInv, PendingInv
<1> QED
  BY <1>1, <1>2

\* The posting adds to the account what the new row is worth.
LEMMA ApplyAccountInv ==
    ASSUME IInv, NEW r \in Requests, ApplyAccount(r)
    PROVE  IInv'
<1>1. CASE Rollback(r)
  BY <1>1, RollbackInv
<1>2. CASE ~Rollback(r)
  <2> DEFINE a == PostAccount(r)
             n == PostAmount(r)
  <2>1. /\ pc[r] = "apply" /\ op[r] \in Operations
        /\ op[r].kind \in {"createTxn", "updateTxn"}
        /\ op[r].kind = "updateTxn" => snap[r] \in Row
        /\ newRow[r] \in Row
    BY DEF ApplyAccount, IInv, KindInv, KindOf, PendingInv, PendingOf, Running, Changing
  <2>2. n \in Int
    <3>1. CASE op[r].kind = "createTxn"
      BY <2>1, <3>1, RowTypes DEF PostAmount
    <3>2. CASE op[r].kind = "updateTxn"
      <4>1. op[r].dto \in UpdateDto
        BY <2>1, <3>2, OpTypes
      <4>2. Keep(op[r].dto.amount, snap[r].amount) \in Int
        BY <2>1, <3>2, <4>1, MoneyInt DEF Keep, UpdateDto, Row
      <4> QED
        BY <3>2, <4>2 DEF PostAmount, UpdateAmount
    <3> QED
      BY <2>1, <3>1, <3>2
  <2>3. a \in AccNeeded(r)
    BY <2>1 DEF AccNeeded
  <2>4. "commit" \in Steps
    BY DEF Steps
  <2>5. /\ a \in accounts /\ Blockers(r) = {}
        /\ balance[a] + delta[r][a] + n \in Money
        /\ delta' = [delta EXCEPT ![r][a] = @ + n]
        /\ wAcc' = [wAcc EXCEPT ![r] = @ \cup {a}]
        /\ pc' = [pc EXCEPT ![r] = "commit"]
        /\ UNCHANGED <<database, locals, sAcc, wRow, history>>
    BY <1>2 DEF ApplyAccount, PostTo, Fits, Goto
  <2>6. /\ TypeOK' /\ LockInv' /\ UsedInv'
        /\ RowsPointAtLiveAccounts' /\ EffectMatchesRow'
        /\ \A q \in Requests \ {r} : Untouched(q) /\ KindOf(q)' /\ PendingOf(q)'
    <3> HIDE DEF a, n
    <3> QED
      BY <2>1, <2>2, <2>3, <2>4, <2>5, PostToInv
  <2>7. pc'[r] = "commit"
    BY <2>5 DEF IInv, TypeOK
  <2>8. FreshInv'
    <3>1. \A q \in Requests \ {r} : pc'[q] = pc[q]
      BY <2>5 DEF IInv, TypeOK
    <3>2. (Inserted(r)' => Inserted(r)) /\ (Changing(r)' => Changing(r))
      BY <2>1, <2>5, <2>7, <3>1 DEF Inserted, Changing, locals
    <3>3. UNCHANGED <<target, usedTxn, row, op>>
      BY <2>5 DEF database, locals
    <3> QED
      BY <3>1, <3>2, <3>3, FreshKept DEF IInv
  <2>9. KindOf(r)'
    BY <2>1, <2>5, <2>7 DEF IInv, KindInv, KindOf, Changing, Running, database, locals
  <2>10. PendingOf(r)'
    <3> DEFINE before(b) == IF op[r].kind = "createTxn" THEN 0 ELSE Undone(r, b)
    <3>1. \A b \in AccountIds : delta[r][b] = before(b)
      BY <2>1 DEF IInv, PendingInv, PendingOf
    <3>2. a \in AccountIds
      BY <2>5 DEF accounts
    <3>3. /\ \A b \in AccountIds : delta[r][b] \in Int
          /\ delta'[r][a] = delta[r][a] + n
          /\ \A b \in AccountIds \ {a} : delta'[r][b] = delta[r][b]
      BY <2>5, <3>2 DEF IInv, TypeOK
    <3>4. /\ Posting(r, a) = n
          /\ \A b \in AccountIds \ {a} : Posting(r, b) = 0
      BY DEF Posting
    <3> HIDE DEF a, n, before
    <3>5. \A b \in AccountIds : delta'[r][b] = before(b) + Posting(r, b)
      BY <3>1, <3>2, <3>3, <3>4
    <3>6. \A b \in AccountIds : Posting(r, b)' = Posting(r, b) /\ Undone(r, b)' = Undone(r, b)
      BY <2>5 DEF Posting, Undone, PostAccount, PostAmount, locals
    <3>7. \A b \in AccountIds :
             delta'[r][b] = (IF op'[r].kind = "createTxn" THEN 0 ELSE Undone(r, b)')
                            + (IF op'[r].kind = "deleteTxn" THEN 0 ELSE Posting(r, b)')
      BY <2>1, <2>5, <3>5, <3>6 DEF locals, before
    <3> QED
      BY <2>1, <2>5, <2>7, <3>7
      DEF IInv, PendingInv, PendingOf, Inserted, database, locals, accounts
  <2> QED
    BY <2>6, <2>8, <2>9, <2>10 DEF IInv, KindInv, PendingInv
<1> QED
  BY <1>1, <1>2

\* The update of the row locks it and keeps the accounts it names alive.
LEMMA WriteTxnInv ==
    ASSUME IInv, NEW r \in Requests, WriteTxn(r)
    PROVE  IInv'
<1>1. CASE Rollback(r)
  BY <1>1, RollbackInv
<1>2. CASE ~Rollback(r)
  <2> DEFINE t == target[r]
             d == Effective(op[r].dto, snap[r])
             fk == {d.creditTo, d.debitFrom} \ {None, Absent}
             n == Merge(row[t], d)
  <2>1. /\ pc[r] = "write" /\ op[r] \in Operations /\ op[r].kind = "updateTxn"
        /\ snap[r] \in Row /\ t \in usedTxn
    BY DEF WriteTxn, IInv, KindInv, KindOf, Running, Changing
  <2>2. /\ t \in rows /\ Blockers(r) = {} /\ fk \subseteq accounts
        /\ newRow' = [newRow EXCEPT ![r] = n]
        /\ wRow' = [wRow EXCEPT ![r] = {t}]
        /\ sAcc' = [sAcc EXCEPT ![r] = fk]
        /\ pc' = [pc EXCEPT ![r] = "apply"]
        /\ UNCHANGED <<database, op, target, snap, delta, wAcc, history>>
    BY <1>2 DEF WriteTxn, Goto
  <2>3. t \in TxnIds /\ row[t] \in Row
    BY <2>2 DEF IInv, TypeOK, rows
  <2>4. n \in Row /\ None \in Pointers(n) /\ Pointers(n) \subseteq fk \cup Pointers(row[t]) \cup {None}
    BY <2>1, <2>3, OpTypes, MergeTypes
  <2>5. Pointers(row[t]) \subseteq accounts \cup {None}
    BY <2>2 DEF IInv, RowsPointAtLiveAccounts, Pointers
  <2> HIDE DEF fk
  <2>6. TypeOK'
    BY <2>2, <2>3, <2>4 DEF IInv, TypeOK, Steps, database, history, accounts
  <2>7. LockInv'
    <3>1. \A q \in Requests \ {r} : t \notin wRow[q]
      BY <2>1, <2>2 DEF Blockers, RowNeeded
    <3> QED
      BY <2>2, <3>1 DEF IInv, TypeOK, LockInv, accounts, rows, database
  <2>8. UsedInv'
    BY <2>2 DEF IInv, UsedInv, accounts, rows, database, history
  <2>9. FreshInv'
    <3>1. /\ pc'[r] = "apply"
          /\ \A q \in Requests \ {r} : pc'[q] = pc[q]
      BY <2>2 DEF IInv, TypeOK
    <3>2. (Inserted(r)' => Inserted(r)) /\ (Changing(r)' => Changing(r))
      BY <2>1, <2>2, <3>1 DEF Inserted, Changing
    <3>3. UNCHANGED <<target, usedTxn, row, op>>
      BY <2>2 DEF database
    <3> QED
      BY <3>1, <3>2, <3>3, FreshKept DEF IInv
  <2>10. \A q \in Requests \ {r} : Untouched(q)
    BY <2>2 DEF IInv, TypeOK, Untouched
  <2>11. KindInv'
    <3>1. KindOf(r)'
      BY <2>1, <2>2 DEF IInv, TypeOK, KindOf, Changing, Running, database
    <3>2. \A q \in Requests \ {r} : KindOf(q)'
      BY <2>2, <2>10, KindKept DEF IInv, KindInv, database
    <3> QED
      BY <3>1, <3>2 DEF KindInv
  <2>12. PendingInv'
    <3>1. /\ pc'[r] = "apply" /\ op'[r].kind = "updateTxn" /\ target'[r] = t
          /\ wRow'[r] = {t} /\ sAcc'[r] = fk /\ newRow'[r] = n
          /\ n = Merge(row'[t], Effective(op'[r].dto, snap'[r]))
      BY <2>1, <2>2 DEF IInv, TypeOK, database
    <3>2. \A a \in AccountIds : delta'[r][a] = Undone(r, a)'
      BY <2>1, <2>2 DEF IInv, PendingInv, PendingOf, Undone
    <3>3. accounts' = accounts /\ row' = row
      BY <2>2 DEF accounts, database
    <3> HIDE DEF n, d, t
    <3>4. PendingOf(r)'
      BY <2>2, <2>4, <2>5, <3>1, <3>2, <3>3 DEF PendingOf, Inserted
    <3>5. \A q \in Requests \ {r} : PendingOf(q)'
      BY <2>2, <2>10, <3>3, PendingKept DEF IInv, PendingInv, PendingOf
    <3> QED
      BY <3>4, <3>5 DEF PendingInv
  <2>13. RowsPointAtLiveAccounts' /\ EffectMatchesRow'
    BY <2>2 DEF IInv, RowsPointAtLiveAccounts, EffectMatchesRow, accounts, rows, database, history
  <2> QED
    BY <2>6, <2>7, <2>8, <2>9, <2>11, <2>12, <2>13 DEF IInv
<1> QED
  BY <1>1, <1>2

\* The delete of the row locks it until the commit.
LEMMA RemoveTxnInv ==
    ASSUME IInv, NEW r \in Requests, RemoveTxn(r)
    PROVE  IInv'
<1>1. CASE Rollback(r)
  BY <1>1, RollbackInv
<1>2. CASE ~Rollback(r)
  <2> DEFINE t == target[r]
  <2>1. /\ pc[r] = "remove" /\ op[r] \in Operations /\ op[r].kind = "deleteTxn"
        /\ snap[r] \in Row /\ t \in usedTxn
    BY DEF RemoveTxn, IInv, KindInv, KindOf, Running, Changing
  <2>2. /\ t \in rows /\ Blockers(r) = {}
        /\ wRow' = [wRow EXCEPT ![r] = {t}]
        /\ pc' = [pc EXCEPT ![r] = "commit"]
        /\ UNCHANGED <<database, locals, delta, wAcc, sAcc, history>>
    BY <1>2 DEF RemoveTxn, Goto
  <2>3. TypeOK'
    BY <2>2 DEF IInv, TypeOK, Steps, database, history, locals, rows
  <2>4. LockInv'
    <3>1. \A q \in Requests \ {r} : t \notin wRow[q]
      BY <2>1, <2>2 DEF Blockers, RowNeeded
    <3> QED
      BY <2>2, <3>1 DEF IInv, TypeOK, LockInv, accounts, rows, database
  <2>5. UsedInv'
    BY <2>2 DEF IInv, UsedInv, accounts, rows, database, history
  <2>6. FreshInv'
    <3>1. /\ pc'[r] = "commit"
          /\ \A q \in Requests \ {r} : pc'[q] = pc[q]
      BY <2>2 DEF IInv, TypeOK
    <3>2. (Inserted(r)' => Inserted(r)) /\ (Changing(r)' => Changing(r))
      BY <2>1, <2>2, <3>1 DEF Inserted, Changing, locals
    <3>3. UNCHANGED <<target, usedTxn, row, op>>
      BY <2>2 DEF database, locals
    <3> QED
      BY <3>1, <3>2, <3>3, FreshKept DEF IInv
  <2>7. \A q \in Requests \ {r} : Untouched(q)
    BY <2>2 DEF IInv, TypeOK, Untouched, locals
  <2>8. KindInv'
    <3>1. KindOf(r)'
      BY <2>1, <2>2 DEF IInv, TypeOK, KindOf, Changing, Running, database, locals
    <3>2. \A q \in Requests \ {r} : KindOf(q)'
      BY <2>2, <2>7, KindKept DEF IInv, KindInv, database
    <3> QED
      BY <3>1, <3>2 DEF KindInv
  <2>9. PendingInv'
    <3>1. /\ pc'[r] = "commit" /\ op'[r].kind = "deleteTxn"
          /\ target'[r] = t /\ t \in wRow'[r]
      BY <2>1, <2>2 DEF IInv, TypeOK, locals
    <3>2. \A a \in AccountIds : delta'[r][a] \in Int /\ delta'[r][a] = Undone(r, a)'
      BY <2>1, <2>2 DEF IInv, TypeOK, PendingInv, PendingOf, Undone, locals
    <3>3. PendingOf(r)'
      BY <3>1, <3>2 DEF PendingOf, Inserted
    <3>4. \A q \in Requests \ {r} : PendingOf(q)'
      BY <2>2, <2>7, PendingKept DEF IInv, PendingInv, PendingOf, accounts, database
    <3> QED
      BY <3>3, <3>4 DEF PendingInv
  <2>10. RowsPointAtLiveAccounts' /\ EffectMatchesRow'
    BY <2>2 DEF IInv, RowsPointAtLiveAccounts, EffectMatchesRow, accounts, rows, database, history
  <2> QED
    BY <2>3, <2>4, <2>5, <2>6, <2>8, <2>9, <2>10 DEF IInv
<1> QED
  BY <1>1, <1>2

\* A commit makes the row and the balances visible together: what it adds to
\* the balances is what it changes of the row, unless it drifts.
LEMMA CommitInv ==
    ASSUME IInv, NEW r \in Requests, Commit(r)
    PROVE  IInv'
<1> DEFINE t == target[r]
           n == IF op[r].kind = "deleteTxn" THEN None ELSE newRow[r]
<1>1. /\ pc[r] = "commit" /\ op[r] \in Operations
      /\ op[r].kind \in {"createTxn", "updateTxn", "deleteTxn"}
      /\ op[r].kind # "createTxn" => snap[r] \in Row /\ Changing(r) /\ t \in wRow[r] \cap rows
      /\ op[r].kind = "createTxn" => Inserted(r) /\ t \notin rows
      /\ t \in usedTxn /\ t \in TxnIds
  <2>1. pc[r] = "commit" /\ op[r] \in Operations
        /\ op[r].kind \in {"createTxn", "updateTxn", "deleteTxn"}
    BY DEF Commit, IInv, KindInv, KindOf, Running
  <2>2. op[r].kind # "createTxn" => snap[r] \in Row /\ Changing(r) /\ t \in usedTxn
    BY <2>1 DEF IInv, KindInv, KindOf, Changing
  <2>3. op[r].kind # "createTxn" => t \in wRow[r] /\ t \in rows
    BY <2>1 DEF IInv, PendingInv, PendingOf, LockInv
  <2>4. op[r].kind = "createTxn" => Inserted(r) /\ t \in usedTxn \ rows
    BY <2>1 DEF IInv, FreshInv, Inserted
  <2>5. usedTxn \subseteq TxnIds
    BY DEF IInv, TypeOK
  <2> QED
    BY <2>1, <2>2, <2>3, <2>4, <2>5
<1>2. /\ n \in Row \cup {None}
      /\ n # None => None \in Pointers(n) /\ Pointers(n) \subseteq accounts \cup {None}
  BY <1>1 DEF IInv, PendingInv, PendingOf
<1>3. /\ balance' = [a \in AccountIds |-> balance[a] + delta[r][a]]
      /\ row' = [row EXCEPT ![t] = n]
      /\ effect' = [effect EXCEPT ![t] = [a \in AccountIds |-> @[a] + delta[r][a]]]
      /\ drifted' = IF Drifts(r) THEN drifted \cup {t} ELSE drifted
      /\ pc' = [pc EXCEPT ![r] = "done"]
      /\ UNCHANGED <<owner, key, usedAcc, usedTxn, opening>>
  BY DEF Commit, Goto
<1>4. /\ op' = [op EXCEPT ![r] = None]
      /\ target' = [target EXCEPT ![r] = None]
      /\ snap' = [snap EXCEPT ![r] = None]
      /\ newRow' = [newRow EXCEPT ![r] = None]
      /\ delta' = [delta EXCEPT ![r] = Zero]
      /\ wAcc' = [wAcc EXCEPT ![r] = {}]
      /\ sAcc' = [sAcc EXCEPT ![r] = {}]
      /\ wRow' = [wRow EXCEPT ![r] = {}]
  BY DEF Commit, Release
<1>5. accounts' = accounts
  BY <1>3 DEF accounts
<1>6. /\ \A u \in TxnIds \ {t} : row'[u] = row[u] /\ effect'[u] = effect[u]
      /\ row'[t] = n
      /\ \A a \in AccountIds : effect'[t][a] = effect[t][a] + delta[r][a]
  BY <1>1, <1>3 DEF IInv, TypeOK
<1>7. rows' \subseteq rows \cup {t} /\ rows \ {t} \subseteq rows'
  BY <1>6 DEF rows
<1>8. \A a \in AccountIds : /\ delta[r][a] \in Int /\ balance[a] \in Int
                            /\ balance'[a] = balance[a] + delta[r][a]
                            /\ balance'[a] \in Money
  <2>1. \A a \in AccountIds : delta[r][a] \in Int /\ balance[a] \in Int
    BY MoneyInt DEF IInv, TypeOK
  <2>2. \A a \in AccountIds : balance'[a] = balance[a] + delta[r][a]
    BY <1>3
  <2>3. \A a \in AccountIds : balance[a] + delta[r][a] \in Money
    BY DEF IInv, LockInv
  <2> QED
    BY <2>1, <2>2, <2>3
<1>9. \A q \in Requests \ {r} : Untouched(q)
  BY <1>3, <1>4 DEF IInv, TypeOK, Untouched
<1>10. \A q \in Requests \ {r} : t \notin wRow[q]
  BY <1>1 DEF IInv, LockInv
<1> HIDE DEF t, n
<1>11. TypeOK'
  <2>1. row' \in [TxnIds -> Row \cup {None}]
    BY <1>2, <1>3 DEF IInv, TypeOK
  <2>2. effect' \in [TxnIds -> [AccountIds -> Int]]
    <3>1. effect \in [TxnIds -> [AccountIds -> Int]]
      BY DEF IInv, TypeOK
    <3>2. [a \in AccountIds |-> effect[t][a] + delta[r][a]] \in [AccountIds -> Int]
      BY <1>1, <1>8, <3>1 DEF t
    <3>3. effect' = [effect EXCEPT ![t] = [a \in AccountIds |-> effect[t][a] + delta[r][a]]]
      BY <1>1, <1>3, <3>1 DEF t
    <3> QED
      BY <3>1, <3>2, <3>3
  <2>3. balance' \in [AccountIds -> Money]
    BY <1>3, <1>8
  <2>4. drifted' \in SUBSET TxnIds
    BY <1>1, <1>3 DEF IInv, TypeOK
  <2>5. Zero \in [AccountIds -> Int]
    BY DEF Zero
  <2> QED
    BY <1>3, <1>4, <2>1, <2>2, <2>3, <2>4, <2>5 DEF IInv, TypeOK, Steps
<1>12. LockInv'
  <2>1. /\ wAcc'[r] = {} /\ sAcc'[r] = {} /\ wRow'[r] = {}
        /\ \A a \in AccountIds : delta'[r][a] = 0
    BY <1>4 DEF IInv, TypeOK, Zero
  <2>2. \A q \in Requests, a \in AccountIds : balance'[a] + delta'[q][a] \in Money
    <3> SUFFICES ASSUME NEW q \in Requests, NEW a \in AccountIds
                 PROVE  balance'[a] + delta'[q][a] \in Money
      OBVIOUS
    <3>1. CASE q = r
      BY <1>8, <2>1, <3>1, MoneyInt
    <3>2. CASE q # r /\ a \in wAcc[q]
      <4>1. delta[r][a] = 0
        BY <3>2 DEF IInv, LockInv
      <4>2. balance'[a] = balance[a]
        BY <1>8, <4>1
      <4> QED
        BY <1>9, <3>2, <4>2 DEF IInv, LockInv, Untouched
    <3>3. CASE q # r /\ a \notin wAcc[q]
      <4>1. delta'[q][a] = 0
        BY <1>9, <3>3 DEF IInv, LockInv, Untouched
      <4> QED
        BY <1>8, <4>1, MoneyInt
    <3> QED
      BY <3>1, <3>2, <3>3
  <2>3. \A q \in Requests : wRow'[q] \subseteq rows'
    BY <1>7, <1>9, <1>10, <2>1 DEF IInv, LockInv, Untouched
  <2> QED
    BY <1>5, <1>9, <2>1, <2>2, <2>3 DEF IInv, LockInv, Untouched
<1>13. UsedInv'
  <2>1. \A a \in AccountIds : a \notin usedAcc => delta[r][a] = 0
    BY DEF IInv, LockInv, UsedInv
  <2>2. \A u \in TxnIds, a \in AccountIds : a \notin usedAcc => effect'[u][a] = 0
    BY <1>6, <2>1 DEF IInv, UsedInv
  <2> QED
    BY <1>1, <1>3, <1>5, <1>7, <2>2 DEF IInv, UsedInv
<1>14. FreshInv'
  <2>1. ~Inserted(r)' /\ ~Changing(r)'
    BY <1>3 DEF IInv, TypeOK, Inserted, Changing
  <2>2. \A q \in Requests \ {r} : /\ Inserted(q)' => Inserted(q)
                                  /\ Changing(q)' => Changing(q)
                                  /\ target'[q] = target[q]
    BY <1>9 DEF Untouched, Inserted, Changing
  <2>3. \A q \in Requests \ {r} : Inserted(q) => target[q] # t /\ target[q] \notin rows
    BY <1>1 DEF IInv, FreshInv, t
  <2> QED
    BY <1>3, <1>7, <2>1, <2>2, <2>3 DEF IInv, FreshInv
<1>15. KindInv'
  <2>1. KindOf(r)'
    BY <1>3 DEF IInv, TypeOK, KindOf, Running, Changing
  <2>2. \A q \in Requests \ {r} : KindOf(q)'
    BY <1>3, <1>9, KindKept DEF IInv, KindInv
  <2> QED
    BY <2>1, <2>2 DEF KindInv
<1>16. PendingInv'
  <2>1. PendingOf(r)'
    BY <1>3, <1>4 DEF IInv, TypeOK, PendingOf, Zero, Inserted
  <2>2. \A q \in Requests \ {r} : target[q] \in wRow[q] => row'[target[q]] = row[target[q]]
    BY <1>6, <1>10 DEF IInv, TypeOK
  <2>3. \A q \in Requests \ {r} : PendingOf(q)'
    BY <1>5, <1>9, <2>2, PendingKept DEF IInv, PendingInv, PendingOf
  <2> QED
    BY <2>1, <2>3 DEF PendingInv
<1>17. RowsPointAtLiveAccounts'
  BY <1>2, <1>5, <1>6 DEF IInv, RowsPointAtLiveAccounts, rows, Pointers
<1>18. EffectMatchesRow'
  <2> SUFFICES ASSUME t \notin drifted, ~Drifts(r), NEW a \in accounts
               PROVE  effect'[t][a] = IF n = None THEN 0 ELSE Contribution(n, a)
    <3> SUFFICES ASSUME NEW u \in TxnIds, u \notin drifted', NEW b \in accounts
                 PROVE  effect'[u][b] = IF row'[u] = None THEN 0 ELSE Contribution(row'[u], b)
      BY <1>5 DEF EffectMatchesRow, Contribution
    <3>1. CASE u = t
      <4>1. t \notin drifted /\ ~Drifts(r)
        BY <1>3, <3>1
      <4> QED
        BY <1>6, <3>1, <4>1
    <3>2. CASE u # t
      <4>1. u \notin drifted
        BY <1>3
      <4> QED
        BY <1>6, <3>2, <4>1 DEF IInv, EffectMatchesRow
    <3> QED
      BY <3>1, <3>2
  <2>1. /\ a \in AccountIds
        /\ effect'[t][a] = effect[t][a] + delta[r][a]
        /\ effect[t][a] = IF row[t] = None THEN 0 ELSE Contribution(row[t], a)
    BY <1>1, <1>6 DEF IInv, EffectMatchesRow, accounts
  <2>2. delta[r][a] = (IF op[r].kind = "createTxn" THEN 0 ELSE Undone(r, a))
                      + (IF op[r].kind = "deleteTxn" THEN 0 ELSE Posting(r, a))
    BY <1>1, <2>1 DEF IInv, PendingInv, PendingOf
  <2>3. CASE op[r].kind = "createTxn"
    <3>1. row[t] = None /\ n = newRow[r] /\ newRow[r] \in Row
      BY <1>1, <2>3 DEF IInv, PendingInv, PendingOf, rows, n
    <3>2. Posting(r, a) = Contribution(newRow[r], a)
      BY <2>3 DEF Posting, PostAccount, PostAmount, Contribution
    <3>3. Contribution(newRow[r], a) \in Int /\ newRow[r] # None
      BY <3>1, RowTypes
    <3> QED
      BY <2>1, <2>2, <2>3, <3>1, <3>2, <3>3
  <2>4. CASE op[r].kind = "deleteTxn"
    <3>1. row[t] = snap[r] /\ n = None /\ snap[r] \in Row
      BY <1>1, <2>4 DEF Drifts, t, n
    <3>2. /\ snap[r] # None /\ Signed(snap[r]) \in Int
          /\ Undone(r, a) = IF OwnAccount(snap[r]) = a THEN -Signed(snap[r]) ELSE 0
          /\ Contribution(snap[r], a) = IF OwnAccount(snap[r]) = a THEN Signed(snap[r]) ELSE 0
      BY <3>1, RowTypes DEF Undone, Contribution
    <3> QED
      BY <2>1, <2>2, <2>4, <3>1, <3>2
  <2>5. CASE op[r].kind = "updateTxn"
    <3> DEFINE s == snap[r]
               d == op[r].dto
               m == Merge(s, Effective(d, s))
    <3>1. /\ row[t] = s /\ s \in Row /\ d \in UpdateDto
          /\ n = m /\ newRow[r] = m /\ m \in Row
      <4>1. row[t] = s /\ s \in Row /\ n = newRow[r]
        BY <1>1, <2>5 DEF Drifts, t, n
      <4>2. newRow[r] \in Row /\ newRow[r] = Merge(row[t], Effective(d, s))
        BY <1>1, <2>5 DEF IInv, PendingInv, PendingOf, t
      <4> QED
        BY <1>1, <2>5, <4>1, <4>2, OpTypes
    <3>2. None \in Pointers(s)
      BY <1>1, <2>5, <3>1 DEF IInv, RowsPointAtLiveAccounts, Pointers
    <3>3. OwnAccount(m) # None
      BY <2>5, <3>1 DEF Drifts
    <3>4. UpdateAccount(d, s) = OwnAccount(m) /\ UpdateAmount(d, s) = Signed(m)
      BY <3>1, <3>2, <3>3, UpdatePosts
    <3>5. Posting(r, a) = Contribution(m, a)
      BY <2>5, <3>4 DEF Posting, PostAccount, PostAmount, Contribution
    <3> HIDE DEF m
    <3>6. /\ s # None /\ Signed(s) \in Int /\ Contribution(m, a) \in Int /\ m # None
          /\ Undone(r, a) = IF OwnAccount(s) = a THEN -Signed(s) ELSE 0
          /\ Contribution(s, a) = IF OwnAccount(s) = a THEN Signed(s) ELSE 0
      BY <3>1, RowTypes DEF Undone, Contribution
    <3> QED
      BY <2>1, <2>2, <2>5, <3>1, <3>5, <3>6
  <2> QED
    BY <1>1, <2>3, <2>4, <2>5
<1> QED
  BY <1>11, <1>12, <1>13, <1>14, <1>15, <1>16, <1>17, <1>18 DEF IInv

\* A new account has an id no row and no earlier posting knows.
LEMMA AccInsertInv ==
    ASSUME IInv, NEW r \in Requests, AccInsert(r)
    PROVE  IInv'
<1>1. CASE Rollback(r)
  BY <1>1, RollbackInv
<1>2. CASE ~Rollback(r)
  <2> DEFINE m == op[r].dto.amount
             k == op[r].dto.key
             w == op[r].user
  <2>1. m \in Money /\ k \in Keys /\ w \in Users /\ w # None /\ m \in Int
    <3>1. op[r] \in Operations /\ op[r].kind = "createAcc"
      BY DEF AccInsert, IInv, KindInv, KindOf, Running
    <3>2. m \in Money /\ k \in Keys /\ w \in Users
      BY <3>1, OpTypes
    <3> HIDE DEF m, k, w
    <3> QED
      BY <3>2, MoneyInt, ConstantsAssumption
  <2> HIDE DEF m, k, w
  <2>2. PICK a \in AccountIds \ usedAcc :
           /\ usedAcc' = usedAcc \cup {a}
           /\ owner' = [owner EXCEPT ![a] = w]
           /\ key' = [key EXCEPT ![a] = k]
           /\ balance' = [balance EXCEPT ![a] = m]
           /\ opening' = [opening EXCEPT ![a] = m]
           /\ pc' = [pc EXCEPT ![r] = "done"]
           /\ Release(r)
           /\ UNCHANGED <<row, usedTxn, effect, drifted>>
    BY <1>2 DEF AccInsert, Goto, m, k, w
  <2>3. accounts' = accounts \cup {a} /\ rows' = rows /\ a \notin accounts
    BY <2>1, <2>2 DEF accounts, rows, IInv, TypeOK, UsedInv
  <2>4. \A q \in Requests \ {r} : Untouched(q)
    BY <2>2 DEF IInv, TypeOK, Untouched, Release
  <2>5. /\ wAcc'[r] = {} /\ sAcc'[r] = {} /\ wRow'[r] = {}
        /\ \A b \in AccountIds : delta'[r][b] = 0
    BY <2>2 DEF IInv, TypeOK, Release, Zero
  <2>6. TypeOK'
    BY <2>1, <2>2 DEF IInv, TypeOK, Steps, Release, Zero
  <2>7. LockInv'
    <3>1. \A q \in Requests : a \notin wAcc[q]
      BY <2>3 DEF IInv, LockInv
    <3>2. balance'[a] = m /\ \A b \in AccountIds \ {a} : balance'[b] = balance[b]
      BY <2>2 DEF IInv, TypeOK
    <3>3. \A q \in Requests \ {r} : /\ wAcc'[q] = wAcc[q] /\ sAcc'[q] = sAcc[q]
                                    /\ wRow'[q] = wRow[q] /\ delta'[q] = delta[q]
      BY <2>4 DEF Untouched
    <3>4. \A q \in Requests : delta'[q][a] = 0
      BY <2>5, <3>1, <3>3 DEF IInv, LockInv
    <3>5. \A q \in Requests, b \in AccountIds \ {a} : balance'[b] + delta'[q][b] \in Money
      <4>1. \A b \in AccountIds : balance[b] \in Money /\ balance[b] + 0 = balance[b]
        BY BalanceTypes DEF IInv
      <4> QED
        BY <2>5, <3>2, <3>3, <4>1 DEF IInv, LockInv
    <3>6. m + 0 \in Money
      BY <2>1
    <3> QED
      BY <2>3, <2>5, <3>2, <3>3, <3>4, <3>5, <3>6 DEF IInv, LockInv
  <2>8. UsedInv'
    BY <2>2, <2>3 DEF IInv, UsedInv
  <2>9. FreshInv'
    <3>1. ~Inserted(r)' /\ ~Changing(r)' /\ rows' = rows
      BY <2>2 DEF IInv, TypeOK, Inserted, Changing, rows
    <3>2. \A q \in Requests \ {r} : /\ Inserted(q)' => Inserted(q)
                                    /\ Changing(q)' => Changing(q)
                                    /\ target'[q] = target[q]
      BY <2>4 DEF Untouched, Inserted, Changing
    <3> QED
      BY <2>2, <3>1, <3>2 DEF IInv, FreshInv
  <2>10. KindInv'
    <3>1. KindOf(r)'
      BY <2>2 DEF IInv, TypeOK, KindOf, Running, Changing
    <3>2. \A q \in Requests \ {r} : KindOf(q)'
      BY <2>2, <2>4, KindKept DEF IInv, KindInv
    <3> QED
      BY <3>1, <3>2 DEF KindInv
  <2>11. PendingInv'
    <3>1. PendingOf(r)'
      BY <2>2, <2>5 DEF IInv, TypeOK, PendingOf, Inserted
    <3>2. \A q \in Requests \ {r} : /\ target[q] \in wRow[q] => row'[target[q]] = row[target[q]]
                                    /\ pc[q] \in {"apply", "commit"} /\ op[q].kind # "deleteTxn" =>
                                          Pointers(newRow[q]) \subseteq accounts' \cup {None}
      BY <2>2, <2>3 DEF IInv, PendingInv, PendingOf
    <3>3. \A q \in Requests \ {r} : PendingOf(q)'
      BY <2>4, <3>2, PendingKept DEF IInv, PendingInv
    <3> QED
      BY <3>1, <3>3 DEF PendingInv
  <2>12. RowsPointAtLiveAccounts'
    BY <2>2, <2>3 DEF IInv, RowsPointAtLiveAccounts
  <2>13. EffectMatchesRow'
    <3>1. \A t \in TxnIds : effect[t][a] = 0
      BY DEF IInv, UsedInv
    <3>2. \A t \in rows : OwnAccount(row[t]) # a
      BY <2>3, ConstantsAssumption DEF IInv, RowsPointAtLiveAccounts, OwnAccount
    <3>3. \A t \in rows : Contribution(row[t], a) = 0
      BY <3>2 DEF Contribution
    <3>4. \A t \in TxnIds : Contribution(row[t], a)' = Contribution(row[t], a)
      BY <2>2 DEF Contribution, OwnAccount, Signed
    <3> QED
      BY <2>2, <2>3, <3>1, <3>3, <3>4 DEF IInv, EffectMatchesRow, rows
  <2> QED
    BY <2>6, <2>7, <2>8, <2>9, <2>10, <2>11, <2>12, <2>13 DEF IInv
<1> QED
  BY <1>1, <1>2

\* Setting a balance waits for the requests that have changed it.
LEMMA AccWriteInv ==
    ASSUME IInv, NEW r \in Requests, AccWrite(r)
    PROVE  IInv'
<1>1. CASE Rollback(r)
  BY <1>1, RollbackInv
<1>2. CASE ~Rollback(r)
  <2> DEFINE a == op[r].id
             k == Keep(op[r].dto.key, key[a])
             m == Keep(op[r].dto.amount, balance[a])
  <2>1. /\ pc[r] = "accWrite" /\ a \in accounts /\ Blockers(r) = {}
        /\ key' = [key EXCEPT ![a] = k]
        /\ balance' = [balance EXCEPT ![a] = m]
        /\ opening' = [opening EXCEPT ![a] = @ + m - balance[a]]
        /\ pc' = [pc EXCEPT ![r] = "done"]
        /\ Release(r)
        /\ UNCHANGED <<owner, row, usedAcc, usedTxn, effect, drifted>>
    BY <1>2 DEF AccWrite, Goto
  <2>2. a \in AccountIds /\ k \in Keys \cup {None} /\ m \in Money /\ m \in Int
    <3>1. op[r] \in Operations /\ op[r].kind = "updateAcc"
      BY <2>1 DEF IInv, KindInv, KindOf, Running
    <3>2. a \in AccountIds /\ op[r].dto \in AccountDto
      BY <3>1, OpTypes
    <3>3. key[a] \in Keys \cup {None} /\ balance[a] \in Money
      BY <3>2 DEF IInv, TypeOK
    <3> QED
      BY <3>2, <3>3, MoneyInt DEF AccountDto, Keep
  <2>3. \A q \in Requests \ {r} : a \notin wAcc[q]
    BY <2>1 DEF Blockers, AccNeeded
  <2> HIDE DEF a, k, m
  <2>4. accounts' = accounts /\ rows' = rows
    BY <2>1 DEF accounts, rows
  <2>5. \A q \in Requests \ {r} : Untouched(q)
    BY <2>1 DEF IInv, TypeOK, Untouched, Release
  <2>6. /\ wAcc'[r] = {} /\ sAcc'[r] = {} /\ wRow'[r] = {}
        /\ \A b \in AccountIds : delta'[r][b] = 0
    BY <2>1 DEF IInv, TypeOK, Release, Zero
  <2>7. TypeOK'
    <3>1. opening[a] + m - balance[a] \in Int
      BY <2>2, BalanceTypes DEF IInv
    <3> QED
      BY <2>1, <2>2, <3>1 DEF IInv, TypeOK, Steps, Release, Zero
  <2>8. LockInv'
    <3>2. balance'[a] = m /\ \A b \in AccountIds \ {a} : balance'[b] = balance[b]
      BY <2>1, <2>2 DEF IInv, TypeOK
    <3>3. \A q \in Requests \ {r} : /\ wAcc'[q] = wAcc[q] /\ sAcc'[q] = sAcc[q]
                                    /\ wRow'[q] = wRow[q] /\ delta'[q] = delta[q]
      BY <2>5 DEF Untouched
    <3>4. \A q \in Requests : delta'[q][a] = 0
      BY <2>2, <2>3, <2>6, <3>3 DEF IInv, LockInv
    <3>5. \A q \in Requests, b \in AccountIds \ {a} : balance'[b] + delta'[q][b] \in Money
      <4>1. \A b \in AccountIds : balance[b] \in Money /\ balance[b] + 0 = balance[b]
        BY BalanceTypes DEF IInv
      <4> QED
        BY <2>6, <3>2, <3>3, <4>1 DEF IInv, LockInv
    <3>6. m + 0 \in Money
      BY <2>2
    <3> QED
      BY <2>4, <2>6, <3>2, <3>3, <3>4, <3>5, <3>6 DEF IInv, LockInv
  <2>9. UsedInv'
    BY <2>1, <2>4 DEF IInv, UsedInv
  <2>10. FreshInv'
    <3>1. ~Inserted(r)' /\ ~Changing(r)' /\ rows' = rows
      BY <2>1 DEF IInv, TypeOK, Inserted, Changing, rows
    <3>2. \A q \in Requests \ {r} : /\ Inserted(q)' => Inserted(q)
                                    /\ Changing(q)' => Changing(q)
                                    /\ target'[q] = target[q]
      BY <2>5 DEF Untouched, Inserted, Changing
    <3> QED
      BY <2>1, <3>1, <3>2 DEF IInv, FreshInv
  <2>11. KindInv'
    <3>1. KindOf(r)'
      BY <2>1 DEF IInv, TypeOK, KindOf, Running, Changing
    <3>2. \A q \in Requests \ {r} : KindOf(q)'
      BY <2>1, <2>5, KindKept DEF IInv, KindInv
    <3> QED
      BY <3>1, <3>2 DEF KindInv
  <2>12. PendingInv'
    <3>1. PendingOf(r)'
      BY <2>1, <2>6 DEF IInv, TypeOK, PendingOf, Inserted
    <3>2. \A q \in Requests \ {r} : /\ target[q] \in wRow[q] => row'[target[q]] = row[target[q]]
                                    /\ pc[q] \in {"apply", "commit"} /\ op[q].kind # "deleteTxn" =>
                                          Pointers(newRow[q]) \subseteq accounts' \cup {None}
      BY <2>1, <2>4 DEF IInv, PendingInv, PendingOf
    <3>3. \A q \in Requests \ {r} : PendingOf(q)'
      BY <2>5, <3>2, PendingKept DEF IInv, PendingInv
    <3> QED
      BY <3>1, <3>3 DEF PendingInv
  <2>13. RowsPointAtLiveAccounts' /\ EffectMatchesRow'
    BY <2>1, <2>4 DEF IInv, RowsPointAtLiveAccounts, EffectMatchesRow, Contribution,
                      OwnAccount, Signed
  <2> QED
    BY <2>7, <2>8, <2>9, <2>10, <2>11, <2>12, <2>13 DEF IInv
<1> QED
  BY <1>1, <1>2

\* Deleting an account detaches its rows in the same statement; no request
\* that has locked or is about to point at the account is under way.
LEMMA AccDeleteInv ==
    ASSUME IInv, NEW r \in Requests, AccDelete(r)
    PROVE  IInv'
<1>1. CASE Rollback(r)
  BY <1>1, RollbackInv
<1>2. CASE ~Rollback(r)
  <2> DEFINE a == op[r].id
  <2>1. /\ pc[r] = "accDelete" /\ Blockers(r) = {}
        /\ owner' = [owner EXCEPT ![a] = None]
        /\ key' = [key EXCEPT ![a] = None]
        /\ balance' = [balance EXCEPT ![a] = 0]
        /\ opening' = [opening EXCEPT ![a] = 0]
        /\ row' = [t \in TxnIds |-> IF t \in rows THEN Detached(row[t], a) ELSE None]
        /\ pc' = [pc EXCEPT ![r] = "done"]
        /\ Release(r)
        /\ UNCHANGED <<usedAcc, usedTxn, effect, drifted>>
    BY <1>2 DEF AccDelete, Goto
  <2>2. a \in AccountIds /\ a # None
    BY <2>1, OpTypes, ConstantsAssumption DEF IInv, KindInv, KindOf, Running
  <2>3. /\ \A q \in Requests \ {r} : a \notin wAcc[q] /\ a \notin sAcc[q]
        /\ \A q \in Requests \ {r} : \A t \in wRow[q] : t \notin AttachedTo(a)
    BY <2>1 DEF Blockers, AccNeeded, RowNeeded, NeedsExclusive
  <2> HIDE DEF a
  <2>4. \A t \in rows : /\ row[t] \in Row /\ t \in TxnIds
                       /\ row'[t] \in Row /\ row'[t] # None
                       /\ row'[t].type = row[t].type /\ row'[t].amount = row[t].amount
                       /\ row'[t].creditTo = (IF row[t].creditTo = a THEN None ELSE row[t].creditTo)
                       /\ row'[t].debitFrom = (IF row[t].debitFrom = a THEN None ELSE row[t].debitFrom)
    <3> SUFFICES ASSUME NEW t \in rows
                 PROVE  /\ row[t] \in Row /\ t \in TxnIds
                        /\ row'[t] \in Row /\ row'[t] # None
                        /\ row'[t].type = row[t].type /\ row'[t].amount = row[t].amount
                        /\ row'[t].creditTo = (IF row[t].creditTo = a THEN None ELSE row[t].creditTo)
                        /\ row'[t].debitFrom = (IF row[t].debitFrom = a THEN None ELSE row[t].debitFrom)
      OBVIOUS
    <3>1. row[t] \in Row /\ t \in TxnIds
      BY DEF IInv, TypeOK, rows
    <3>2. row'[t] = Detached(row[t], a)
      BY <2>1, <3>1
    <3>3. Detached(row[t], a) \in Row
      BY <3>1 DEF Detached, Row
    <3>4. /\ Detached(row[t], a).type = row[t].type /\ Detached(row[t], a).amount = row[t].amount
          /\ Detached(row[t], a).creditTo = (IF row[t].creditTo = a THEN None ELSE row[t].creditTo)
          /\ Detached(row[t], a).debitFrom = (IF row[t].debitFrom = a THEN None ELSE row[t].debitFrom)
      BY <3>1 DEF Detached, Row
    <3> QED
      BY <3>1, <3>2, <3>3, <3>4, RowTypes
  <2>5. \A t \in TxnIds \ rows : row'[t] = None /\ row[t] = None
    BY <2>1 DEF rows
  <2>6. accounts' = accounts \ {a} /\ rows' = rows
    <3>1. accounts' = accounts \ {a}
      BY <2>1, <2>2 DEF accounts, IInv, TypeOK
    <3>2. rows' = rows
      BY <2>4, <2>5 DEF rows
    <3> QED
      BY <3>1, <3>2
  <2>7. \A q \in Requests \ {r} : Untouched(q)
    BY <2>1 DEF IInv, TypeOK, Untouched, Release
  <2>8. /\ wAcc'[r] = {} /\ sAcc'[r] = {} /\ wRow'[r] = {}
        /\ \A b \in AccountIds : delta'[r][b] = 0
    BY <2>1 DEF IInv, TypeOK, Release, Zero
  <2>9. TypeOK'
    <3>1. row' \in [TxnIds -> Row \cup {None}]
      <4>1. row' = [t \in TxnIds |-> row'[t]]
        BY <2>1
      <4> QED
        BY <2>4, <2>5, <4>1
    <3> QED
      BY <2>1, <2>2, <3>1, MoneyInt DEF IInv, TypeOK, Steps, Release, Zero
  <2>10. LockInv'
    <3>1. balance'[a] = 0 /\ \A b \in AccountIds \ {a} : balance'[b] = balance[b]
      BY <2>1, <2>2 DEF IInv, TypeOK
    <3>2. \A q \in Requests \ {r} : /\ wAcc'[q] = wAcc[q] /\ sAcc'[q] = sAcc[q]
                                    /\ wRow'[q] = wRow[q] /\ delta'[q] = delta[q]
      BY <2>7 DEF Untouched
    <3>3. \A q \in Requests : delta'[q][a] = 0
      BY <2>2, <2>3, <2>8, <3>2 DEF IInv, LockInv
    <3>4. \A q \in Requests, b \in AccountIds \ {a} : balance'[b] + delta'[q][b] \in Money
      <4>1. \A b \in AccountIds : balance[b] \in Money /\ balance[b] + 0 = balance[b]
        BY BalanceTypes DEF IInv
      <4> QED
        BY <2>8, <3>1, <3>2, <4>1 DEF IInv, LockInv
    <3>5. \A q \in Requests : wAcc'[q] \cup sAcc'[q] \subseteq accounts \ {a}
      BY <2>3, <2>8, <3>2 DEF IInv, LockInv
    <3> QED
      BY <2>6, <2>8, <3>1, <3>2, <3>3, <3>4, <3>5, MoneyInt DEF IInv, LockInv
  <2>11. UsedInv'
    BY <2>1, <2>6 DEF IInv, UsedInv
  <2>12. FreshInv'
    <3>1. ~Inserted(r)' /\ ~Changing(r)' /\ rows' = rows
      BY <2>1, <2>6 DEF IInv, TypeOK, Inserted, Changing
    <3>2. \A q \in Requests \ {r} : /\ Inserted(q)' => Inserted(q)
                                    /\ Changing(q)' => Changing(q)
                                    /\ target'[q] = target[q]
      BY <2>7 DEF Untouched, Inserted, Changing
    <3> QED
      BY <2>1, <2>6, <3>1, <3>2 DEF IInv, FreshInv
  <2>13. KindInv'
    <3>1. KindOf(r)'
      BY <2>1, <2>6 DEF IInv, TypeOK, KindOf, Running, Changing
    <3>2. \A q \in Requests \ {r} : KindOf(q)'
      BY <2>1, <2>6, <2>7, KindKept DEF IInv, KindInv
    <3> QED
      BY <3>1, <3>2 DEF KindInv
  <2>14. PendingInv'
    <3>1. PendingOf(r)'
      BY <2>1, <2>6, <2>8 DEF IInv, TypeOK, PendingOf, Inserted
    <3>2. \A q \in Requests \ {r} : /\ target[q] \in wRow[q] => row'[target[q]] = row[target[q]]
                                    /\ pc[q] \in {"apply", "commit"} /\ op[q].kind # "deleteTxn" =>
                                          Pointers(newRow[q]) \subseteq accounts' \cup {None}
      <4> SUFFICES ASSUME NEW q \in Requests \ {r}
                   PROVE  /\ target[q] \in wRow[q] => row'[target[q]] = row[target[q]]
                          /\ pc[q] \in {"apply", "commit"} /\ op[q].kind # "deleteTxn" =>
                                Pointers(newRow[q]) \subseteq accounts' \cup {None}
        OBVIOUS
      <4>1. \A t \in wRow[q] : t \in rows /\ a \notin Pointers(row[t])
        BY <2>3 DEF IInv, LockInv, AttachedTo, Pointers
      <4>2. \A t \in wRow[q] : row'[t] = row[t]
        <5> SUFFICES ASSUME NEW t \in wRow[q]
                     PROVE  row'[t] = row[t]
          OBVIOUS
        <5>1. row[t] \in Row /\ t \in TxnIds /\ row'[t] = Detached(row[t], a)
          BY <2>1, <4>1 DEF IInv, TypeOK, rows
        <5> QED
          BY <4>1, <5>1 DEF Detached, Pointers, Row
      <4>3. pc[q] \in {"apply", "commit"} /\ op[q].kind = "createTxn" =>
               Pointers(newRow[q]) \subseteq sAcc[q] \cup {None}
        BY DEF IInv, PendingInv, PendingOf, Inserted
      <4>4. pc[q] \in {"apply", "commit"} /\ op[q].kind = "updateTxn" =>
               /\ target[q] \in wRow[q]
               /\ Pointers(newRow[q]) \subseteq sAcc[q] \cup Pointers(row[target[q]]) \cup {None}
        BY DEF IInv, PendingInv, PendingOf
      <4>5. pc[q] \in {"apply", "commit"} => op[q].kind \in {"createTxn", "updateTxn", "deleteTxn"}
        BY DEF IInv, KindInv, KindOf
      <4>6. pc[q] \in {"apply", "commit"} /\ op[q].kind # "deleteTxn" =>
               a \notin Pointers(newRow[q]) /\ Pointers(newRow[q]) \subseteq accounts \cup {None}
        BY <2>2, <2>3, <4>1, <4>3, <4>4, <4>5 DEF IInv, PendingInv, PendingOf
      <4> QED
        BY <2>6, <4>2, <4>6
    <3>3. \A q \in Requests \ {r} : PendingOf(q)'
      BY <2>7, <3>2, PendingKept DEF IInv, PendingInv
    <3> QED
      BY <3>1, <3>3 DEF PendingInv
  <2>15. RowsPointAtLiveAccounts'
    BY <2>4, <2>6 DEF IInv, RowsPointAtLiveAccounts
  <2>16. EffectMatchesRow'
    <3> SUFFICES ASSUME NEW t \in TxnIds \ drifted, NEW b \in accounts, b # a
                 PROVE  effect[t][b] = IF row'[t] = None THEN 0 ELSE Contribution(row'[t], b)
      BY <2>1, <2>6 DEF EffectMatchesRow, Contribution
    <3>1. effect[t][b] = IF row[t] = None THEN 0 ELSE Contribution(row[t], b)
      BY DEF IInv, EffectMatchesRow
    <3>2. b # None
      BY ConstantsAssumption DEF accounts
    <3>3. CASE t \in rows
      <4>1. Contribution(row'[t], b) = Contribution(row[t], b)
        BY <2>4, <3>2, <3>3 DEF Contribution, OwnAccount, Signed
      <4> QED
        BY <2>4, <3>1, <3>3, <4>1 DEF rows
    <3>4. CASE t \notin rows
      BY <2>5, <3>1, <3>4
    <3> QED
      BY <3>3, <3>4
  <2> QED
    BY <2>9, <2>10, <2>11, <2>12, <2>13, <2>14, <2>15, <2>16 DEF IInv
<1> QED
  BY <1>1, <1>2

-----------------------------------------------------------------------------
(* The theorems.                                                           *)

\* The databases the requests may find satisfy the invariant.
LEMMA InitInv == Init => IInv
<1> SUFFICES ASSUME Init PROVE IInv
  OBVIOUS
<1>1. PICK db \in InitialDBs :
         /\ owner = db.owner /\ key = db.key /\ row = db.row
         /\ opening = db.opening
         /\ balance = [a \in AccountIds |-> db.opening[a] + Posted(db.row, a)]
         /\ usedAcc = {a \in AccountIds : db.owner[a] # None}
         /\ usedTxn = {t \in TxnIds : db.row[t] # None}
         /\ effect = [t \in TxnIds |-> [a \in AccountIds |->
                         IF db.row[t] = None THEN 0 ELSE Contribution(db.row[t], a)]]
  BY DEF Init
<1>2. /\ owner \in [AccountIds -> Users \cup {None}]
      /\ key \in [AccountIds -> Keys \cup {None}]
      /\ opening \in [AccountIds -> Int]
      /\ row \in [TxnIds -> Row \cup {None}]
      /\ balance \in [AccountIds -> Money]
      /\ \A t \in TxnIds : row[t] # None =>
            /\ OwnAccount(row[t]) # None
            /\ owner[OwnAccount(row[t])] # None
            /\ row[t].type = "Credit" => row[t].debitFrom = None
            /\ row[t].type = "Debit" => row[t].creditTo = None
  <2> HIDE DEF Posted
  <2> QED
    BY <1>1, InitialAssumption DEF InitialDB
<1>3. /\ drifted = {}
      /\ pc = [r \in Requests |-> "idle"]
      /\ op = [r \in Requests |-> None]
      /\ target = [r \in Requests |-> None]
      /\ snap = [r \in Requests |-> None]
      /\ newRow = [r \in Requests |-> None]
      /\ delta = [r \in Requests |-> Zero]
      /\ wAcc = [r \in Requests |-> {}]
      /\ sAcc = [r \in Requests |-> {}]
      /\ wRow = [r \in Requests |-> {}]
  BY DEF Init
<1>4. \A t \in rows : row[t] \in Row /\ t \in TxnIds
  BY <1>2 DEF rows
<1>5. TypeOK
  <2>1. \A t \in TxnIds, a \in AccountIds :
           (IF row[t] = None THEN 0 ELSE Contribution(row[t], a)) \in Int
    BY <1>2, RowTypes
  <2>2. effect \in [TxnIds -> [AccountIds -> Int]]
    BY <1>1, <2>1
  <2>3. Zero \in [AccountIds -> Int]
    BY DEF Zero
  <2>4. usedAcc \subseteq AccountIds /\ usedTxn \subseteq TxnIds
    BY <1>1
  <2> QED
    BY <1>2, <1>3, <2>2, <2>3, <2>4 DEF TypeOK, Steps
<1>6. LockInv
  BY <1>3, <1>5, BalanceTypes DEF LockInv, Zero
<1>7. RowsPointAtLiveAccounts
  <2> SUFFICES ASSUME NEW t \in rows
               PROVE  /\ {row[t].creditTo, row[t].debitFrom} \subseteq accounts \cup {None}
                      /\ None \in {row[t].creditTo, row[t].debitFrom}
    BY DEF RowsPointAtLiveAccounts
  <2>1. row[t] \in Row /\ t \in TxnIds /\ row[t] # None
    BY <1>4 DEF rows
  <2>2. OwnAccount(row[t]) \in accounts
    BY <1>2, <2>1, RowTypes DEF accounts
  <2> QED
    BY <1>2, <2>1, <2>2 DEF OwnAccount, Row, Types
<1>8. \A t \in TxnIds, a \in AccountIds :
         effect[t][a] = IF row[t] = None THEN 0 ELSE Contribution(row[t], a)
  BY <1>1
<1>9. UsedInv
  <2>1. accounts = usedAcc /\ rows = usedTxn
    BY <1>1 DEF accounts, rows
  <2>2. \A t \in TxnIds, a \in AccountIds : a \notin usedAcc => effect[t][a] = 0
    <3> SUFFICES ASSUME NEW t \in TxnIds, NEW a \in AccountIds, a \notin usedAcc
                 PROVE  effect[t][a] = 0
      OBVIOUS
    <3>1. row[t] # None => OwnAccount(row[t]) \in accounts
      BY <1>2, <1>4, RowTypes DEF accounts, rows
    <3> QED
      BY <1>8, <2>1, <3>1 DEF Contribution
  <2> QED
    BY <2>1, <2>2 DEF UsedInv
<1>10. EffectMatchesRow
  BY <1>3, <1>8 DEF EffectMatchesRow, accounts
<1>11. FreshInv
  BY <1>3 DEF FreshInv, Inserted
<1>12. KindInv
  BY <1>3 DEF KindInv, KindOf, Running, Changing
<1>13. PendingInv
  BY <1>3 DEF PendingInv, PendingOf, Inserted, Zero
<1> QED
  BY <1>5, <1>6, <1>7, <1>9, <1>10, <1>11, <1>12, <1>13 DEF IInv

\* Every step of every request keeps the invariant.
LEMMA NextInv == IInv /\ [Next]_vars => IInv'
<1> SUFFICES ASSUME IInv, [Next]_vars PROVE IInv'
  OBVIOUS
<1>1. CASE UNCHANGED vars
  BY <1>1 DEF IInv, vars, database, locals, pending, history, TypeOK, LockInv, UsedInv,
     FreshInv, KindInv, KindOf, PendingInv, PendingOf, Running, Changing, Inserted, Undone,
     Posting, PostAccount, PostAmount, accounts, rows, RowsPointAtLiveAccounts,
     EffectMatchesRow
<1>2. ASSUME NEW r \in Requests, Receive(r) \/ Step(r) \/ Abort(r) \/ DeadlockVictim(r)
      PROVE  IInv'
  <2>1. CASE Receive(r)
    BY <2>1, ReceiveInv
  <2>2. CASE InsertTxn(r)
    BY <2>2, InsertTxnInv
  <2>3. CASE FindTxn(r)
    BY <2>3, FindTxnInv
  <2>4. CASE ReverseAccount(r)
    BY <2>4, ReverseAccountInv
  <2>5. CASE WriteTxn(r)
    BY <2>5, WriteTxnInv
  <2>6. CASE RemoveTxn(r)
    BY <2>6, RemoveTxnInv
  <2>7. CASE ApplyAccount(r)
    BY <2>7, ApplyAccountInv
  <2>8. CASE Commit(r)
    BY <2>8, CommitInv
  <2>9. CASE AccCheck(r) \/ AccFind(r) \/ AccDelFind(r)
    BY <2>9, AccReadInv
  <2>10. CASE AccInsert(r)
    BY <2>10, AccInsertInv
  <2>11. CASE AccWrite(r)
    BY <2>11, AccWriteInv
  <2>12. CASE AccDelete(r)
    BY <2>12, AccDeleteInv
  <2>13. CASE Abort(r) \/ DeadlockVictim(r)
    BY <2>13, RollbackInv DEF Abort, DeadlockVictim
  <2> QED
    BY <1>2, <2>1, <2>2, <2>3, <2>4, <2>5, <2>6, <2>7, <2>8, <2>9, <2>10, <2>11,
       <2>12, <2>13 DEF Step
<1> QED
  BY <1>1, <1>2 DEF Next

\* The invariant holds always.
LEMMA Inductive == Spec => []IInv
BY InitInv, NextInv, PTL DEF Spec

\* Every variable keeps its type; in particular no balance leaves the range of
\* Decimal(12,2), because each statement checks the value it produces under a
\* lock that is held until the commit.
THEOREM TypesAreKept == Spec => []TypeOK
BY Inductive, PTL DEF IInv

\* Whatever creates, updates, deletes and account deletions interleave, every
\* transaction row points at accounts that exist, and at no more than one.
THEOREM RowsKeepLiveAccounts == Spec => []RowsPointAtLiveAccounts
BY Inductive, PTL DEF IInv

\* As long as no committed update or delete worked from a replaced row version
\* or detached its row, what the calls on a row have posted to each live account
\* is exactly what the row says, and nothing once it is deleted.
THEOREM RowsArePostedOnce == Spec => []EffectMatchesRow
BY Inductive, PTL DEF IInv

-----------------------------------------------------------------------------
(* The unique key of the accounts.                                         *)

\* A statement that writes accounts has looked for the key among the others.
LEMMA KeysStayUnique ==
    ASSUME IInv, KeysAreUnique, [Next]_vars
    PROVE  KeysAreUnique'
<1>1. ASSUME owner' = owner, key' = key PROVE KeysAreUnique'
  BY <1>1 DEF KeysAreUnique, accounts
<1>2. CASE UNCHANGED vars
  BY <1>1, <1>2 DEF vars, database
<1>3. ASSUME NEW r \in Requests, Rollback(r) PROVE KeysAreUnique'
  BY <1>1, <1>3 DEF Rollback, database
<1>4. ASSUME NEW r \in Requests, Receive(r) PROVE KeysAreUnique'
  BY <1>1, <1>3, <1>4 DEF Receive, database
<1>5. ASSUME NEW r \in Requests,
             \/ InsertTxn(r) \/ FindTxn(r) \/ ReverseAccount(r) \/ WriteTxn(r)
             \/ RemoveTxn(r) \/ ApplyAccount(r) \/ Commit(r)
             \/ AccCheck(r) \/ AccFind(r) \/ AccDelFind(r)
      PROVE  KeysAreUnique'
  BY <1>1, <1>3, <1>5 DEF InsertTxn, FindTxn, ReverseAccount, WriteTxn, RemoveTxn,
     ApplyAccount, Commit, AccCheck, AccFind, AccDelFind, PostTo, Goto, database
<1>6. ASSUME NEW r \in Requests, AccInsert(r) PROVE KeysAreUnique'
  <2>1. CASE \E a \in AccountIds \ usedAcc :
               /\ ~KeyTaken(op[r].dto.key, None)
               /\ owner' = [owner EXCEPT ![a] = op[r].user]
               /\ key' = [key EXCEPT ![a] = op[r].dto.key]
    <3> PICK a \in AccountIds :
               /\ ~KeyTaken(op[r].dto.key, None)
               /\ owner' = [owner EXCEPT ![a] = op[r].user]
               /\ key' = [key EXCEPT ![a] = op[r].dto.key]
      BY <2>1
    <3>1. \A b \in accounts : key[b] # op[r].dto.key
      BY ConstantsAssumption DEF KeyTaken, accounts
    <3> DEFINE k == op[r].dto.key  u == op[r].user
    <3>2. key' = [key EXCEPT ![a] = k] /\ owner' = [owner EXCEPT ![a] = u]
          /\ \A b \in accounts : key[b] # k
      BY <3>1
    <3> HIDE DEF k, u
    <3> QED BY <3>2 DEF KeysAreUnique, accounts, IInv, TypeOK
  <2> QED BY <1>3, <1>6, <2>1 DEF AccInsert
<1>7. ASSUME NEW r \in Requests, AccWrite(r) PROVE KeysAreUnique'
  <2> DEFINE a == op[r].id
             k == Keep(op[r].dto.key, key[a])
  <2>1. CASE a \in accounts /\ ~KeyTaken(k, a) /\ key' = [key EXCEPT ![a] = k]
             /\ owner' = owner
    <3>1. \A b \in accounts \ {a} : key[b] # k
      BY <2>1 DEF KeyTaken
    <3> HIDE DEF a, k
    <3> QED BY <2>1, <3>1 DEF KeysAreUnique, accounts, IInv, TypeOK
  <2> QED BY <1>3, <1>7, <2>1 DEF AccWrite
<1>8. ASSUME NEW r \in Requests, AccDelete(r) PROVE KeysAreUnique'
  <2>1. CASE /\ owner' = [owner EXCEPT ![op[r].id] = None]
             /\ key' = [key EXCEPT ![op[r].id] = None]
    <3> DEFINE a == op[r].id
    <3>1. owner' = [owner EXCEPT ![a] = None] /\ key' = [key EXCEPT ![a] = None]
      BY <2>1
    <3> HIDE DEF a
    <3> QED BY <3>1 DEF KeysAreUnique, accounts, IInv, TypeOK
  <2> QED BY <1>3, <1>8, <2>1 DEF AccDelete
<1> QED
  BY <1>2, <1>3, <1>4, <1>5, <1>6, <1>7, <1>8 DEF Next, Step, Abort, DeadlockVictim

\* No two accounts ever have the same number at the same bank: whatever the
\* checks before them have seen, the statements that write a key respect it.
THEOREM AccountKeysAreUnique == Spec => []KeysAreUnique
<1>1. Init => KeysAreUnique
  BY InitialAssumption DEF Init, InitialDB, KeysAreUnique, accounts
<1>2. IInv /\ KeysAreUnique /\ [Next]_vars => KeysAreUnique'
  BY KeysStayUnique
<1> QED BY <1>1, <1>2, Inductive, PTL DEF Spec

-----------------------------------------------------------------------------
(* Sums of rows.                                                           *)

\* What a row adds to an account; null adds nothing.
Worth(x, a) == IF x = None THEN 0 ELSE Contribution(x, a)

\* The rows of a table are worth to an account what a total says they are.
LEMMA PostedIsTotal ==
    ASSUME NEW table \in [TxnIds -> Row \cup {None}], NEW a
    PROVE  Posted(table, a) = Total([t \in TxnIds |-> Worth(table[t], a)], TxnIds)
<1> DEFINE R == {t \in TxnIds : table[t] # None}
           f == [t \in TxnIds |-> Worth(table[t], a)]
           Unfolds(g) == g = [s \in SUBSET R |->
                                IF s = {} THEN 0
                                ELSE LET x == CHOOSE y \in s : TRUE
                                     IN  Contribution(table[x], a) + g[s \ {x}]]
<1>1. ASSUME NEW g
      PROVE  Unfolds(g) <=> IsSum(g, f, R)
  <2> DEFINE G == [s \in SUBSET R |->
                     IF s = {} THEN 0 ELSE f[Chosen(s)] + g[s \ {Chosen(s)}]]
             H == [s \in SUBSET R |->
                     IF s = {} THEN 0
                     ELSE LET x == CHOOSE y \in s : TRUE
                          IN  Contribution(table[x], a) + g[s \ {x}]]
  <2>1. ASSUME NEW s \in SUBSET R
        PROVE  G[s] = H[s]
    <3>1. CASE s = {}
      BY <3>1
    <3>2. CASE s # {}
      <4>1. Chosen(s) \in s
        BY <3>2, ChosenIsOne
      <4>2. f[Chosen(s)] = Contribution(table[Chosen(s)], a)
        BY <4>1 DEF Worth
      <4>3. G[s] = f[Chosen(s)] + g[s \ {Chosen(s)}]
        BY <3>2
      <4>4. H[s] = Contribution(table[Chosen(s)], a) + g[s \ {Chosen(s)}]
        BY <3>2 DEF Chosen
      <4> QED BY <4>2, <4>3, <4>4
    <3> QED BY <3>1, <3>2
  <2>2. G = [s \in SUBSET R |-> G[s]] /\ H = [s \in SUBSET R |-> H[s]]
    OBVIOUS
  <2>3. G = H
    <3> HIDE DEF G, H
    <3> QED BY <2>1, <2>2
  <2>4. Unfolds(g) <=> g = H
    OBVIOUS
  <2>5. IsSum(g, f, R) <=> g = G
    BY DEF IsSum
  <2> QED
    <3> HIDE DEF G, H, Unfolds
    <3> QED BY <2>3, <2>4, <2>5
<1>2. IsFiniteSet(R) /\ R \subseteq TxnIds /\ IsFiniteSet(TxnIds)
  BY ConstantsAssumption, FS_Subset
<1> HIDE DEF f
<1>3. \E g : Unfolds(g)
  <2> HIDE DEF R, Unfolds
  <2>1. PICK g : IsSum(g, f, R)
    BY <1>2, SumExists
  <2> QED BY <1>1, <2>1
<1>4. Posted(table, a) = (CHOOSE g : Unfolds(g))[R]
  BY DEF Posted, MapThenSumSet, MapThenFoldSet
<1>5. PICK g : IsSum(g, f, R) /\ Posted(table, a) = g[R]
  BY <1>1, <1>3, <1>4
<1>6. Posted(table, a) = Total(f, R)
  <2> HIDE DEF R, Unfolds
  <2>1. PICK h : IsSum(h, f, R) /\ Total(f, R) = h[R]
    BY <1>2, TotalIsSum
  <2>2. R \subseteq R /\ \A x \in R : f[x] = f[x]
    OBVIOUS
  <2>3. g[R] = h[R]
    BY <1>2, <1>5, <2>1, <2>2, SumCongruence
  <2> QED BY <1>5, <2>1, <2>3
<1>7. \A t \in TxnIds : f[t] \in Int
  BY RowTypes DEF f, Worth
<1>8. \A t \in TxnIds \ R : f[t] = 0
  BY DEF f, Worth
<1>9. Total(f, TxnIds) = Total(f, R)
  <2> HIDE DEF R
  <2> QED BY <1>2, <1>7, <1>8, TotalWithoutZeros
<1> QED BY <1>6, <1>9 DEF f

-----------------------------------------------------------------------------
(* Balances.                                                               *)

\* What the committed calls on all rows have posted to account a.
Received(a) == Total([t \in TxnIds |-> effect[t][a]], TxnIds)

\* A live account holds its opening amount and what it has received.
ConservationInv == \A a \in accounts : balance[a] = opening[a] + Received(a)

\* What an account has received is an integer, and it is nothing as long as no
\* call has posted to the account.
LEMMA ReceivedTypes ==
    ASSUME TypeOK, NEW a \in AccountIds
    PROVE  /\ Received(a) \in Int
           /\ (\A t \in TxnIds : effect[t][a] = 0) => Received(a) = 0
<1> DEFINE f == [t \in TxnIds |-> effect[t][a]]
<1>1. IsFiniteSet(TxnIds)
  BY ConstantsAssumption
<1>2. \A t \in TxnIds : f[t] = effect[t][a] /\ f[t] \in Int
  BY DEF TypeOK
<1>3. Received(a) = Total(f, TxnIds)
  BY DEF Received
<1> HIDE DEF f
<1>4. Total(f, TxnIds) \in Int
  BY <1>1, <1>2, TotalTakesOne
<1>5. ASSUME \A t \in TxnIds : f[t] = 0
      PROVE  Total(f, TxnIds) = Total(f, {})
  BY <1>1, <1>2, <1>5, TotalWithoutZeros
<1> QED BY <1>2, <1>3, <1>4, <1>5, EmptyTotal

\* When the call on row t commits, the account receives what the call has posted.
LEMMA ReceivedByCommit ==
    ASSUME TypeOK, TypeOK', NEW t \in TxnIds, NEW a \in AccountIds, NEW n \in Int,
           \A u \in TxnIds \ {t} : effect'[u] = effect[u],
           effect'[t][a] = effect[t][a] + n
    PROVE  Received(a)' = Received(a) + n
<1> DEFINE f == [u \in TxnIds |-> effect[u][a]]
           e == [u \in TxnIds |-> effect'[u][a]]
<1>1. IsFiniteSet(TxnIds)
  BY ConstantsAssumption
<1>2. \A u \in TxnIds : f[u] \in Int /\ e[u] \in Int
  BY DEF TypeOK
<1>3. \A u \in TxnIds \ {t} : e[u] = f[u]
  OBVIOUS
<1>4. e[t] = f[t] + n
  OBVIOUS
<1>5. Received(a) = Total(f, TxnIds) /\ Received(a)' = Total(e, TxnIds)
  BY DEF Received
<1> HIDE DEF f, e
<1>6. Total(e, TxnIds) = Total(f, TxnIds) - f[t] + e[t]
  BY <1>1, <1>2, <1>3, TotalChangesByOne
<1>7. Total(f, TxnIds) \in Int /\ f[t] \in Int
  BY <1>1, <1>2, TotalTakesOne
<1> QED BY <1>4, <1>5, <1>6, <1>7

\* Committing moves balances by what it adds to the effects of one row.
LEMMA CommitConserves ==
    ASSUME IInv, IInv', ConservationInv, NEW r \in Requests, Commit(r)
    PROVE  ConservationInv'
<1> DEFINE t == target[r]
<1>1. t \in TxnIds
  <2>1. op[r].kind \in {"createTxn", "updateTxn", "deleteTxn"} /\ pc[r] = "commit"
    BY DEF Commit, IInv, KindInv, KindOf
  <2>2. usedTxn \subseteq TxnIds
    BY DEF IInv, TypeOK
  <2> QED BY <2>1, <2>2 DEF IInv, KindInv, KindOf, Changing, FreshInv, Inserted
<1>2. /\ accounts' = accounts /\ opening' = opening
      /\ \A a \in AccountIds : balance'[a] = balance[a] + delta[r][a]
  BY DEF Commit, accounts
<1>3. /\ \A u \in TxnIds \ {t} : effect'[u] = effect[u]
      /\ \A a \in AccountIds : effect'[t][a] = effect[t][a] + delta[r][a]
  BY <1>1 DEF Commit, IInv, TypeOK
<1>4. \A a \in AccountIds : delta[r][a] \in Int
  BY DEF IInv, TypeOK
<1> HIDE DEF t
<1>5. ASSUME NEW a \in accounts
      PROVE  balance'[a] = opening'[a] + Received(a)'
  <2>1. a \in AccountIds /\ opening[a] \in Int /\ balance[a] \in Int /\ delta[r][a] \in Int
    BY <1>4, BalanceTypes DEF accounts, IInv
  <2>2. Received(a)' = Received(a) + delta[r][a]
    BY <1>1, <1>3, <2>1, ReceivedByCommit DEF IInv
  <2>3. Received(a) \in Int
    BY <2>1, ReceivedTypes DEF IInv
  <2>4. balance[a] = opening[a] + Received(a)
    BY DEF ConservationInv
  <2> QED BY <1>2, <2>1, <2>2, <2>3, <2>4
<1> QED BY <1>2, <1>5 DEF ConservationInv

\* No step takes or gives money but what it posts for a row or sets.
LEMMA NextConserves ==
    ASSUME IInv, IInv', ConservationInv, [Next]_vars
    PROVE  ConservationInv'
<1>1. ASSUME owner' = owner, balance' = balance, opening' = opening, effect' = effect
      PROVE  ConservationInv'
  BY <1>1 DEF ConservationInv, accounts, Received
<1>2. CASE UNCHANGED vars
  BY <1>1, <1>2 DEF vars, database, history
<1>3. ASSUME NEW r \in Requests, Rollback(r) PROVE ConservationInv'
  BY <1>1, <1>3 DEF Rollback, database, history
<1>4. ASSUME NEW r \in Requests, Receive(r) PROVE ConservationInv'
  BY <1>1, <1>3, <1>4 DEF Receive, database, history
<1>5. ASSUME NEW r \in Requests,
             \/ InsertTxn(r) \/ FindTxn(r) \/ ReverseAccount(r) \/ WriteTxn(r)
             \/ RemoveTxn(r) \/ ApplyAccount(r) \/ AccCheck(r) \/ AccFind(r)
             \/ AccDelFind(r)
      PROVE  ConservationInv'
  BY <1>1, <1>3, <1>5 DEF InsertTxn, FindTxn, ReverseAccount, WriteTxn, RemoveTxn,
     ApplyAccount, AccCheck, AccFind, AccDelFind, PostTo, Goto, database, history
<1>6. ASSUME NEW r \in Requests, AccInsert(r) PROVE ConservationInv'
  <2>1. CASE \E a \in AccountIds \ usedAcc :
               /\ owner' = [owner EXCEPT ![a] = op[r].user]
               /\ balance' = [balance EXCEPT ![a] = op[r].dto.amount]
               /\ opening' = [opening EXCEPT ![a] = op[r].dto.amount]
               /\ effect' = effect
    <3>1. PICK a \in AccountIds \ usedAcc :
               /\ owner' = [owner EXCEPT ![a] = op[r].user]
               /\ balance' = [balance EXCEPT ![a] = op[r].dto.amount]
               /\ opening' = [opening EXCEPT ![a] = op[r].dto.amount]
               /\ effect' = effect
      BY <2>1
    <3>2. accounts' \subseteq accounts \cup {a}
      BY <3>1 DEF accounts, IInv, TypeOK
    <3>3. \A b \in AccountIds \ {a} : balance'[b] = balance[b] /\ opening'[b] = opening[b]
      BY <3>1 DEF IInv, TypeOK
    <3>4. Received(a) = 0
      BY ReceivedTypes DEF IInv, UsedInv
    <3>5. balance'[a] = opening'[a] /\ opening'[a] \in Int
      BY <3>1 DEF IInv, TypeOK
    <3>6. \A b : Received(b)' = Received(b)
      BY <3>1 DEF Received
    <3>7. accounts' \subseteq AccountIds
      BY DEF accounts
    <3>8. balance'[a] = opening'[a] + Received(a)'
      BY <3>4, <3>5, <3>6
    <3>9. \A b \in accounts' \ {a} : balance'[b] = opening'[b] + Received(b)'
      BY <3>2, <3>3, <3>6, <3>7 DEF ConservationInv
    <3> QED BY <3>8, <3>9 DEF ConservationInv
  <2> QED BY <1>3, <1>6, <2>1 DEF AccInsert
<1>7. ASSUME NEW r \in Requests, AccWrite(r) PROVE ConservationInv'
  <2>1. CASE \E a \in accounts : \E m :
               /\ balance' = [balance EXCEPT ![a] = m]
               /\ opening' = [opening EXCEPT ![a] = @ + m - balance[a]]
               /\ owner' = owner /\ effect' = effect
    <3>0. PICK a \in accounts : \E m :
             /\ balance' = [balance EXCEPT ![a] = m]
             /\ opening' = [opening EXCEPT ![a] = @ + m - balance[a]]
             /\ owner' = owner /\ effect' = effect
      BY <2>1
    <3>m. PICK m :
             /\ balance' = [balance EXCEPT ![a] = m]
             /\ opening' = [opening EXCEPT ![a] = @ + m - balance[a]]
             /\ owner' = owner /\ effect' = effect
      BY <3>0
    <3>1. accounts' = accounts /\ \A b : Received(b)' = Received(b)
      BY <3>m DEF accounts, Received
    <3>2. a \in AccountIds
      BY DEF accounts
    <3>3. \A b \in AccountIds \ {a} : balance'[b] = balance[b] /\ opening'[b] = opening[b]
      BY <3>m DEF IInv, TypeOK
    <3>4. balance'[a] = m /\ opening'[a] = opening[a] + m - balance[a]
      BY <3>m, <3>2 DEF IInv, TypeOK
    <3>5. balance[a] \in Int /\ opening[a] \in Int /\ Received(a) \in Int
      BY <3>2, BalanceTypes, ReceivedTypes DEF IInv
    <3>6. balance'[a] \in Int
      BY <3>2, MoneyInt DEF IInv, TypeOK
    <3>7. balance[a] = opening[a] + Received(a)
      BY DEF ConservationInv
    <3>8. balance'[a] = opening'[a] + Received(a)'
      BY <3>1, <3>4, <3>5, <3>6, <3>7
    <3>9. \A b \in accounts \ {a} : balance'[b] = opening'[b] + Received(b)'
      BY <3>1, <3>3 DEF ConservationInv, accounts
    <3> QED BY <3>1, <3>8, <3>9 DEF ConservationInv
  <2> QED BY <1>3, <1>7, <2>1 DEF AccWrite
<1>8. ASSUME NEW r \in Requests, AccDelete(r) PROVE ConservationInv'
  <2> DEFINE a == op[r].id
  <2>1. CASE /\ owner' = [owner EXCEPT ![a] = None]
             /\ balance' = [balance EXCEPT ![a] = 0]
             /\ opening' = [opening EXCEPT ![a] = 0]
             /\ effect' = effect
    <3> HIDE DEF a
    <3>1. \A b : Received(b)' = Received(b)
      BY <2>1 DEF Received
    <3>2. accounts' \subseteq accounts \ {a}
      BY <2>1 DEF accounts, IInv, TypeOK
    <3>3. \A b \in accounts \ {a} : balance'[b] = balance[b] /\ opening'[b] = opening[b]
      BY <2>1 DEF accounts, IInv, TypeOK
    <3> QED BY <3>1, <3>2, <3>3 DEF ConservationInv
  <2> QED BY <1>3, <1>8, <2>1 DEF AccDelete
<1>9. ASSUME NEW r \in Requests, Commit(r) PROVE ConservationInv'
  BY <1>9, CommitConserves
<1> QED
  BY <1>2, <1>3, <1>4, <1>5, <1>6, <1>7, <1>8, <1>9
     DEF Next, Step, Abort, DeadlockVictim

\* What all rows are worth to account a is what the calls on them have posted
\* there, when each row is worth what the calls on it have posted.
LEMMA PostedIsReceived ==
    ASSUME TypeOK, NEW a \in AccountIds,
           \A t \in TxnIds : effect[t][a] = Worth(row[t], a)
    PROVE  Posted(row, a) = Received(a)
<1> DEFINE f == [t \in TxnIds |-> Worth(row[t], a)]
           e == [t \in TxnIds |-> effect[t][a]]
<1>1. f = e
  OBVIOUS
<1>2. Posted(row, a) = Total(f, TxnIds)
  BY PostedIsTotal DEF TypeOK
<1> QED BY <1>1, <1>2 DEF Received

\* At the start the effects are what the rows are worth.
LEMMA InitConserves == Init => ConservationInv
<1> SUFFICES ASSUME Init PROVE ConservationInv
  OBVIOUS
<1>1. TypeOK
  BY InitInv DEF IInv
<1>2. ASSUME NEW a \in AccountIds
      PROVE  \A t \in TxnIds : effect[t][a] = Worth(row[t], a)
  BY DEF Init, Worth
<1>3. \A a \in AccountIds : balance[a] = opening[a] + Posted(row, a)
  BY DEF Init
<1> QED BY <1>1, <1>2, <1>3, PostedIsReceived DEF ConservationInv, accounts

\* The balance of a live account is always its opening amount and everything
\* that was ever posted to it, also when commits have drifted.
LEMMA MoneyIsConserved == Spec => []ConservationInv
<1>1. IInv /\ IInv' /\ ConservationInv /\ [Next]_vars => ConservationInv'
  BY NextConserves
<1> QED BY <1>1, InitConserves, Inductive, PTL DEF Spec

\* Until a commit works from a replaced row version or leaves its row without an
\* account, every live account holds exactly its opening amount and the sum of
\* the rows attached to it, whatever calls on rows and accounts interleave, wait
\* for each other or are rolled back.
THEOREM BalancesAreExactUntilDrift == Spec => []BalanceExactUntilDrift
<1>1. IInv /\ ConservationInv => BalanceExactUntilDrift
  <2> SUFFICES ASSUME IInv, ConservationInv, drifted = {}, NEW a \in accounts
               PROVE  balance[a] = opening[a] + Posted(row, a)
    BY DEF BalanceExactUntilDrift, BalanceIsOpeningPlusRows
  <2>1. a \in AccountIds /\ TypeOK
    BY DEF accounts, IInv
  <2>2. \A t \in TxnIds : effect[t][a] = Worth(row[t], a)
    BY DEF IInv, EffectMatchesRow, Worth
  <2>3. Posted(row, a) = Received(a)
    BY <2>1, <2>2, PostedIsReceived
  <2> QED BY <2>3 DEF ConservationInv
<1> QED BY <1>1, MoneyIsConserved, Inductive, PTL

-----------------------------------------------------------------------------
(* Calls on one row one after the other.                                   *)

ValidRow(x) == /\ x.type = "Credit" => x.category = "Income" /\ x.debitFrom = None
               /\ x.type = "Debit" => x.creditTo = None

\* The row a request has read is current until the request ends, but that the
\* account may be deleted before the request has locked it; such an account
\* never comes back.  The row it writes is valid.
CurrentOf(r) ==
    /\ Running(r) => ~Rejected(op[r])
    /\ Changing(r) =>
          \/ row[target[r]] = snap[r]
          \/ pc[r] = "reverse" /\ OwnAccount(snap[r]) \in usedAcc \ accounts
    /\ Changing(r) /\ pc[r] # "reverse" => OwnAccount(snap[r]) \in wAcc[r]
    /\ pc[r] \in {"apply", "commit"} /\ op[r].kind # "deleteTxn" => ValidRow(newRow[r])
    /\ Inserted(r) => newRow[r] = CreatedRow(op[r])

SerialInv == /\ \A r \in Requests : CurrentOf(r)
             /\ \A t \in rows : ValidRow(row[t])
             /\ \A a \in AccountIds : key[a] # None <=> owner[a] # None
             /\ OneCallPerRow

\* No update sends null for an account without naming a type; with a type,
\* validation asks for its account.
NoDetaching ==
    \A o \in Operations : o.kind = "updateTxn" =>
        o.dto.type # Absent \/ None \notin {o.dto.creditTo, o.dto.debitFrom}

\* A row changed by a DTO that passes validation is valid if it was valid.
LEMMA MergeIsValid ==
    ASSUME NEW s \in Row, NEW d \in UpdateDto, ValidRow(s),
           NewIsCredit(d, s) => NewCategory(d, s) = "Income"
    PROVE  ValidRow(Merge(s, Effective(d, s)))
<1> DEFINE e == Effective(d, s)
           n == Merge(s, e)
<1>0. None # Absent
  BY ConstantsAssumption
<1>1. /\ n.type = Keep(e.type, s.type)
      /\ n.category = Keep(e.category, s.category)
      /\ n.creditTo = Keep(e.creditTo, s.creditTo)
      /\ n.debitFrom = Keep(e.debitFrom, s.debitFrom)
  BY DEF Merge
<1>2. /\ e.type = d.type /\ e.category = d.category
      /\ NewIsCredit(d, s) => e.debitFrom = None
      /\ ~NewIsCredit(d, s) => e.creditTo = None
  BY DEF Effective, UpdateDto
<1>3. (n.type = "Credit") <=> NewIsCredit(d, s)
  BY <1>1, <1>2 DEF NewIsCredit
<1>4. n.category = NewCategory(d, s)
  BY <1>1, <1>2 DEF NewCategory
<1> HIDE DEF e, n
<1>5. n.type = "Credit" => n.category = "Income" /\ n.debitFrom = None
  BY <1>0, <1>1, <1>2, <1>3, <1>4 DEF Keep
<1>6. n.type = "Debit" => n.creditTo = None
  BY <1>0, <1>1, <1>2, <1>3 DEF Keep
<1> QED BY <1>5, <1>6 DEF ValidRow, e, n

\* The row of a create that passed validation is valid and has an account.
LEMMA CreatedIsValid ==
    ASSUME NEW o \in Operations, o.kind = "createTxn", ~Rejected(o)
    PROVE  /\ ValidRow(CreatedRow(o))
           /\ OwnAccount(CreatedRow(o)) # None
BY OpTypes, ConstantsAssumption
   DEF Rejected, SideMissing, CreatedRow, ValidRow, OwnAccount, Types

\* Deleting an account changes a valid row only if it is the row's own.
LEMMA DetachedRow ==
    ASSUME NEW x \in Row, ValidRow(x), NEW a \in AccountIds
    PROVE  /\ ValidRow(Detached(x, a))
           /\ OwnAccount(x) # a => Detached(x, a) = x
<1>1. None # a
  BY ConstantsAssumption
<1>2. /\ Detached(x, a).type = x.type /\ Detached(x, a).category = x.category
      /\ Detached(x, a).creditTo = IF x.creditTo = a THEN None ELSE x.creditTo
      /\ Detached(x, a).debitFrom = IF x.debitFrom = a THEN None ELSE x.debitFrom
  BY DEF Detached, Row
<1>3. ValidRow(Detached(x, a))
  BY <1>2 DEF ValidRow
<1>4. ASSUME OwnAccount(x) # a
      PROVE  Detached(x, a) = x
  <2>1. x.creditTo # a /\ x.debitFrom # a
    BY <1>1, <1>4 DEF ValidRow, OwnAccount, Row, Types
  <2> QED BY <2>1 DEF Detached, Row
<1> QED BY <1>3, <1>4

\* Calls on the same row do not overlap.
LEMMA OneChanges ==
    ASSUME IInv, OneCallPerRow, NEW r \in Requests, NEW q \in Requests, r # q,
           Changing(q), Changing(r) \/ Inserted(r)
    PROVE  target[q] # target[r]
<1>1. CASE Inserted(r)
  BY <1>1 DEF IInv, FreshInv
<1>2. CASE Changing(r)
  <2>1. \A p \in Requests : Changing(p) => p \in RowCalls
    BY DEF IInv, KindInv, KindOf, Changing, RowCalls, Running
  <2> QED BY <1>2, <2>1 DEF OneCallPerRow
<1> QED BY <1>1, <1>2

\* What a request knows of its row stays true when others take steps.
LEMMA CurrentKept ==
    ASSUME NEW q \in Requests, CurrentOf(q), Untouched(q), usedAcc \subseteq usedAcc',
           accounts' \cap usedAcc \subseteq accounts,
           Changing(q) =>
              \/ row'[target[q]] = row[target[q]]
              \/ pc[q] = "reverse" /\ OwnAccount(snap[q]) \in usedAcc' \ accounts'
    PROVE  CurrentOf(q)'
BY DEF CurrentOf, Untouched, Running, Changing, Inserted

\* A step that writes no table keeps what the others know.
LEMMA SerialKept ==
    ASSUME IInv, SerialInv, OneCallPerRow', NEW r \in Requests, CurrentOf(r)',
           \A q \in Requests \ {r} : Untouched(q),
           UNCHANGED <<owner, key, row, usedAcc>>
    PROVE  SerialInv'
<1>1. accounts' = accounts /\ rows' = rows
  BY DEF accounts, rows
<1>2. \A q \in Requests : CurrentOf(q)'
  BY <1>1, CurrentKept DEF SerialInv
<1>3. (\A t \in rows : ValidRow(row[t]))'
  BY <1>1 DEF SerialInv
<1>4. (\A a \in AccountIds : key[a] # None <=> owner[a] # None)'
  BY DEF SerialInv
<1> QED BY <1>2, <1>3, <1>4 DEF SerialInv

\* A request that ends knows nothing.
LEMMA EndIsCurrent ==
    ASSUME NEW r \in Requests, pc'[r] \in {"done", "failed"}
    PROVE  CurrentOf(r)'
BY DEF CurrentOf, Running, Changing, Inserted

\* A rollback ends the request and writes nothing.
LEMMA RollbackSerial ==
    ASSUME IInv, SerialInv, OneCallPerRow', NEW r \in Requests, Rollback(r)
    PROVE  SerialInv'
<1>1. \A q \in Requests \ {r} : Untouched(q)
  BY DEF IInv, TypeOK, Untouched, Rollback, Release, Goto
<1>2. pc'[r] = "failed" /\ UNCHANGED <<owner, key, row, usedAcc>>
  BY DEF Rollback, Goto, database, IInv, TypeOK
<1> QED BY <1>1, <1>2, EndIsCurrent, SerialKept

\* Statements that write no table: validation has passed, the row read is the
\* row there is, and its account is locked as soon as it was found to exist.
LEMMA StatementSerial ==
    ASSUME IInv, SerialInv, OneCallPerRow', NEW r \in Requests, ~Rollback(r),
           \/ Receive(r) \/ InsertTxn(r) \/ FindTxn(r) \/ ReverseAccount(r)
           \/ WriteTxn(r) \/ RemoveTxn(r) \/ ApplyAccount(r)
           \/ AccCheck(r) \/ AccFind(r) \/ AccDelFind(r)
    PROVE  SerialInv'
<1> USE DEF Goto, database, locals, pending, history
<1>a. CurrentOf(r) /\ KindOf(r)
  BY DEF IInv, SerialInv, KindInv
<1>b. op[r] \in Operations \/ ~Running(r)
  BY <1>a DEF KindOf
<1>1. CASE Receive(r)
  <2>1. PICK o \in Operations :
           /\ ~Rejected(o)
           /\ op' = [op EXCEPT ![r] = o]
           /\ target' = [target EXCEPT ![r] =
                            IF o.kind \in {"updateTxn", "deleteTxn"} THEN o.id ELSE None]
           /\ pc' = [pc EXCEPT ![r] = FirstStep(o)]
           /\ UNCHANGED <<database, snap, newRow, pending, history>>
    BY <1>1 DEF Receive
  <2>2. FirstStep(o) \in {"insert", "find", "accCheck", "accFind", "accDelFind"}
    BY OpTypes DEF FirstStep
  <2>3. pc'[r] = FirstStep(o) /\ op'[r] = o
    BY <2>1 DEF IInv, TypeOK
  <2>4. CurrentOf(r)'
    BY <2>1, <2>2, <2>3 DEF CurrentOf, Changing, Inserted
  <2>5. \A q \in Requests \ {r} : Untouched(q)
    BY <2>1 DEF IInv, TypeOK, Untouched
  <2> QED BY <2>1, <2>4, <2>5, SerialKept
<1>2. CASE InsertTxn(r)
  <2> DEFINE n == CreatedRow(op[r])
  <2>1. pc[r] = "insert" /\ op[r] \in Operations /\ op[r].kind = "createTxn"
        /\ ~Rejected(op[r])
    BY <1>2, <1>a DEF InsertTxn, KindOf, CurrentOf, Running
  <2>2. PICK t \in TxnIds \ usedTxn :
           /\ target' = [target EXCEPT ![r] = t]
           /\ newRow' = [newRow EXCEPT ![r] = n]
           /\ sAcc' = [sAcc EXCEPT ![r] = {OwnAccount(n)}]
           /\ pc' = [pc EXCEPT ![r] = "apply"]
           /\ UNCHANGED <<owner, key, balance, row, usedAcc, op, snap,
                          delta, wAcc, wRow, history>>
    BY <1>2 DEF InsertTxn
  <2>3. ValidRow(n)
    BY <2>1, CreatedIsValid
  <2> HIDE DEF n
  <2>4. pc'[r] = "apply" /\ op'[r] = op[r] /\ newRow'[r] = n
    BY <2>2 DEF IInv, TypeOK
  <2>5. CurrentOf(r)'
    BY <2>1, <2>3, <2>4 DEF CurrentOf, Changing, Inserted, n
  <2>6. \A q \in Requests \ {r} : Untouched(q)
    BY <2>2 DEF IInv, TypeOK, Untouched
  <2> QED BY <2>2, <2>5, <2>6, SerialKept
<1>3. CASE FindTxn(r)
  <2>1. /\ pc[r] = "find"
        /\ snap' = [snap EXCEPT ![r] = row[target[r]]]
        /\ pc' = [pc EXCEPT ![r] = "reverse"]
        /\ UNCHANGED <<database, op, target, newRow, pending, history>>
    BY <1>3 DEF FindTxn
  <2>2. pc'[r] = "reverse" /\ op'[r] = op[r] /\ snap'[r] = row'[target'[r]]
    BY <2>1 DEF IInv, TypeOK
  <2>3. CurrentOf(r)'
    BY <1>a, <2>1, <2>2 DEF CurrentOf, Changing, Inserted, Running
  <2>4. \A q \in Requests \ {r} : Untouched(q)
    BY <2>1 DEF IInv, TypeOK, Untouched
  <2> QED BY <2>1, <2>3, <2>4, SerialKept
<1>4. CASE ReverseAccount(r)
  <2> DEFINE a == OwnAccount(snap[r])
  <2>1. /\ pc[r] = "reverse" /\ a \in accounts
        /\ op[r].kind \in {"updateTxn", "deleteTxn"}
        /\ wAcc' = [wAcc EXCEPT ![r] = @ \cup {a}]
        /\ delta' = [delta EXCEPT ![r][a] = @ + -Signed(snap[r])]
        /\ pc' = [pc EXCEPT ![r] =
                     IF op[r].kind = "updateTxn" THEN "write" ELSE "remove"]
        /\ UNCHANGED <<database, locals, sAcc, wRow, history>>
    BY <1>4, <1>a DEF ReverseAccount, PostTo, KindOf
  <2>2. row[target[r]] = snap[r]
    BY <1>a, <2>1 DEF CurrentOf, Changing
  <2>3. pc'[r] \in {"write", "remove"} /\ a \in wAcc'[r]
    BY <2>1 DEF IInv, TypeOK
  <2>4. CurrentOf(r)'
    BY <1>a, <2>1, <2>2, <2>3 DEF CurrentOf, Changing, Inserted, Running
  <2>5. \A q \in Requests \ {r} : Untouched(q)
    BY <2>1 DEF IInv, TypeOK, Untouched
  <2> QED BY <2>1, <2>4, <2>5, SerialKept
<1>5. CASE WriteTxn(r)
  <2> DEFINE d == op[r].dto
             e == Effective(op[r].dto, snap[r])
  <2>1. /\ pc[r] = "write" /\ op[r] \in Operations /\ op[r].kind = "updateTxn"
        /\ snap[r] \in Row /\ Changing(r)
    BY <1>5, <1>a DEF WriteTxn, KindOf, Running, Changing
  <2>2. /\ NewIsCredit(d, snap[r]) => NewCategory(d, snap[r]) = "Income"
        /\ target[r] \in rows
        /\ newRow' = [newRow EXCEPT ![r] = Merge(row[target[r]], e)]
        /\ wRow' = [wRow EXCEPT ![r] = {target[r]}]
        /\ sAcc' = [sAcc EXCEPT ![r] = {e.creditTo, e.debitFrom} \ {None, Absent}]
        /\ pc' = [pc EXCEPT ![r] = "apply"]
        /\ UNCHANGED <<database, op, target, snap, delta, wAcc, history>>
    BY <1>5 DEF WriteTxn
  <2>3. row[target[r]] = snap[r] /\ OwnAccount(snap[r]) \in wAcc[r]
    BY <1>a, <2>1 DEF CurrentOf
  <2>4. ValidRow(snap[r])
    BY <2>2, <2>3 DEF SerialInv
  <2>5. d \in UpdateDto
    BY <2>1, OpTypes
  <2>6. ValidRow(Merge(snap[r], e))
    BY <2>1, <2>2, <2>4, <2>5, MergeIsValid
  <2> HIDE DEF d, e
  <2>7. pc'[r] = "apply" /\ newRow'[r] = Merge(snap[r], e)
    BY <2>2, <2>3 DEF IInv, TypeOK
  <2>8. CurrentOf(r)'
    BY <1>a, <2>1, <2>2, <2>3, <2>6, <2>7 DEF CurrentOf, Changing, Inserted, Running
  <2>9. \A q \in Requests \ {r} : Untouched(q)
    BY <2>2 DEF IInv, TypeOK, Untouched
  <2> QED BY <2>2, <2>8, <2>9, SerialKept
<1>6. CASE RemoveTxn(r)
  <2>1. /\ pc[r] = "remove" /\ op[r].kind = "deleteTxn"
        /\ wRow' = [wRow EXCEPT ![r] = {target[r]}]
        /\ pc' = [pc EXCEPT ![r] = "commit"]
        /\ UNCHANGED <<database, locals, delta, wAcc, sAcc, history>>
    BY <1>6, <1>a DEF RemoveTxn, KindOf
  <2>2. pc'[r] = "commit"
    BY <2>1 DEF IInv, TypeOK
  <2>3. CurrentOf(r)'
    BY <1>a, <2>1, <2>2 DEF CurrentOf, Changing, Inserted, Running
  <2>4. \A q \in Requests \ {r} : Untouched(q)
    BY <2>1 DEF IInv, TypeOK, Untouched
  <2> QED BY <2>1, <2>3, <2>4, SerialKept
<1>7. CASE ApplyAccount(r)
  <2> DEFINE a == PostAccount(r)
  <2>1. /\ pc[r] = "apply" /\ op[r].kind \in {"createTxn", "updateTxn"}
        /\ delta' = [delta EXCEPT ![r][a] = @ + PostAmount(r)]
        /\ wAcc' = [wAcc EXCEPT ![r] = @ \cup {a}]
        /\ pc' = [pc EXCEPT ![r] = "commit"]
        /\ UNCHANGED <<database, locals, sAcc, wRow, history>>
    BY <1>7, <1>a DEF ApplyAccount, PostTo, KindOf
  <2> HIDE DEF a
  <2>2. pc'[r] = "commit" /\ wAcc[r] \subseteq wAcc'[r]
    BY <2>1 DEF IInv, TypeOK
  <2>3. CurrentOf(r)'
    BY <1>a, <2>1, <2>2 DEF CurrentOf, Changing, Inserted, Running
  <2>4. \A q \in Requests \ {r} : Untouched(q)
    BY <2>1 DEF IInv, TypeOK, Untouched
  <2> QED BY <2>1, <2>3, <2>4, SerialKept
<1>8. CASE AccCheck(r) \/ AccFind(r) \/ AccDelFind(r)
  <2>1. /\ pc[r] \in {"accCheck", "accFind", "accDelFind"}
        /\ \E step \in {"accInsert", "accWrite", "accDelete"} :
              pc' = [pc EXCEPT ![r] = step]
        /\ UNCHANGED <<database, locals, pending, history>>
    BY <1>8 DEF AccCheck, AccFind, AccDelFind
  <2>2. pc'[r] \in {"accInsert", "accWrite", "accDelete"}
    BY <2>1 DEF IInv, TypeOK
  <2>3. CurrentOf(r)'
    BY <1>a, <2>1, <2>2 DEF CurrentOf, Changing, Inserted, Running
  <2>4. \A q \in Requests \ {r} : Untouched(q)
    BY <2>1 DEF IInv, TypeOK, Untouched
  <2> QED BY <2>1, <2>3, <2>4, SerialKept
<1> QED BY <1>1, <1>2, <1>3, <1>4, <1>5, <1>6, <1>7, <1>8

\* A commit changes no row that another request works on.
LEMMA CommitSerial ==
    ASSUME IInv, SerialInv, OneCallPerRow', NEW r \in Requests, Commit(r)
    PROVE  SerialInv'
<1> DEFINE t == target[r]
           n == IF op[r].kind = "deleteTxn" THEN None ELSE newRow[r]
<1>1. /\ pc[r] = "commit"
      /\ Changing(r) \/ Inserted(r)
      /\ t \in TxnIds
  <2>1. pc[r] = "commit"
    BY DEF Commit
  <2>2. Changing(r) \/ Inserted(r)
    BY <2>1 DEF Changing, Inserted
  <2>3. usedTxn \subseteq TxnIds
    BY DEF IInv, TypeOK
  <2> QED BY <2>1, <2>2, <2>3 DEF IInv, KindInv, KindOf, FreshInv
<1>2. n # None => ValidRow(n)
  BY <1>1 DEF SerialInv, CurrentOf, Commit
<1>3. row' = [row EXCEPT ![t] = n] /\ UNCHANGED <<owner, key, usedAcc>>
  BY DEF Commit
<1>4. \A q \in Requests \ {r} : Untouched(q)
  BY DEF Commit, Goto, Release, IInv, TypeOK, Untouched
<1>5. CurrentOf(r)'
  <2>1. pc'[r] = "done"
    BY DEF Commit, Goto, IInv, TypeOK
  <2> QED BY <2>1, EndIsCurrent
<1>6. accounts' = accounts
  BY <1>3 DEF accounts
<1>7. ASSUME NEW q \in Requests \ {r} PROVE CurrentOf(q)'
  <2>1. Changing(q) => target[q] # t
    BY <1>1, OneChanges DEF SerialInv
  <2> HIDE DEF t, n
  <2>2. Changing(q) => row'[target[q]] = row[target[q]]
    BY <1>3, <2>1 DEF IInv, TypeOK
  <2> QED BY <1>3, <1>4, <1>6, <2>2, CurrentKept DEF SerialInv
<1> HIDE DEF t, n
<1>8. \A u \in TxnIds : row'[u] = IF u = t THEN n ELSE row[u]
  BY <1>3 DEF IInv, TypeOK
<1>9. (\A u \in rows : ValidRow(row[u]))'
  BY <1>2, <1>8 DEF SerialInv, rows
<1>10. (\A a \in AccountIds : key[a] # None <=> owner[a] # None)'
  BY <1>3 DEF SerialInv
<1> QED BY <1>5, <1>7, <1>9, <1>10 DEF SerialInv

\* A new account has an id that no row was ever posted to.
LEMMA AccInsertSerial ==
    ASSUME IInv, SerialInv, OneCallPerRow', NEW r \in Requests, ~Rollback(r), AccInsert(r)
    PROVE  SerialInv'
<1>1. PICK a \in AccountIds \ usedAcc :
         /\ usedAcc' = usedAcc \cup {a}
         /\ owner' = [owner EXCEPT ![a] = op[r].user]
         /\ key' = [key EXCEPT ![a] = op[r].dto.key]
         /\ Goto(r, "done") /\ Release(r) /\ row' = row
  BY DEF AccInsert
<1>2. op[r].user # None /\ op[r].dto.key # None
  <2>1. op[r] \in Operations /\ op[r].kind = "createAcc"
    BY DEF AccInsert, IInv, KindInv, KindOf, Running
  <2> QED BY <2>1, OpTypes, ConstantsAssumption
<1>3. \A q \in Requests \ {r} : Untouched(q)
  BY <1>1 DEF Goto, Release, IInv, TypeOK, Untouched
<1>4. CurrentOf(r)'
  <2>1. pc'[r] = "done"
    BY <1>1 DEF Goto, IInv, TypeOK
  <2> QED BY <2>1, EndIsCurrent
<1>5. accounts' \cap usedAcc \subseteq accounts
  BY <1>1 DEF accounts, IInv, TypeOK
<1>6. \A q \in Requests \ {r} : CurrentOf(q)'
  BY <1>1, <1>3, <1>5, CurrentKept DEF SerialInv
<1>7. (\A b \in AccountIds : key[b] # None <=> owner[b] # None)'
  BY <1>1, <1>2 DEF SerialInv, IInv, TypeOK
<1>8. (\A u \in rows : ValidRow(row[u]))'
  BY <1>1 DEF SerialInv, rows
<1> QED BY <1>4, <1>6, <1>7, <1>8 DEF SerialInv

\* Setting a key or a balance changes no row and no owner.
LEMMA AccWriteSerial ==
    ASSUME IInv, SerialInv, OneCallPerRow', NEW r \in Requests, ~Rollback(r), AccWrite(r)
    PROVE  SerialInv'
<1> DEFINE a == op[r].id
           k == Keep(op[r].dto.key, key[a])
<1>1. /\ a \in accounts
      /\ key' = [key EXCEPT ![a] = k]
      /\ Goto(r, "done") /\ Release(r)
      /\ UNCHANGED <<owner, row, usedAcc>>
  BY DEF AccWrite
<1>2. k # None
  <2>1. op[r] \in Operations /\ op[r].kind = "updateAcc"
    BY DEF AccWrite, IInv, KindInv, KindOf, Running
  <2>2. op[r].dto.key \in Keys \cup {Absent}
    BY <2>1, OpTypes DEF AccountDto
  <2>3. key[a] # None
    BY <1>1 DEF SerialInv, accounts
  <2> QED BY <2>2, <2>3, ConstantsAssumption DEF Keep
<1> HIDE DEF a, k
<1>3. \A q \in Requests \ {r} : Untouched(q)
  BY <1>1 DEF Goto, Release, IInv, TypeOK, Untouched
<1>4. CurrentOf(r)'
  <2>1. pc'[r] = "done"
    BY <1>1 DEF Goto, IInv, TypeOK
  <2> QED BY <2>1, EndIsCurrent
<1>5. accounts' = accounts /\ rows' = rows
  BY <1>1 DEF accounts, rows
<1>6. \A q \in Requests \ {r} : CurrentOf(q)'
  BY <1>1, <1>3, <1>5, CurrentKept DEF SerialInv
<1>7. (\A b \in AccountIds : key[b] # None <=> owner[b] # None)'
  BY <1>1, <1>2 DEF SerialInv, IInv, TypeOK, accounts
<1>8. (\A u \in rows : ValidRow(row[u]))'
  BY <1>1, <1>5 DEF SerialInv
<1> QED BY <1>4, <1>6, <1>7, <1>8 DEF SerialInv

\* Deleting an account detaches the rows that other requests have read, but not
\* those whose account they have locked.
LEMMA AccDeleteSerial ==
    ASSUME IInv, SerialInv, OneCallPerRow', NEW r \in Requests, ~Rollback(r), AccDelete(r)
    PROVE  SerialInv'
<1>1. PICK a \in AccountIds :
         /\ a = op[r].id /\ a \in accounts
         /\ Blockers(r) = {} /\ pc[r] = "accDelete"
         /\ owner' = [owner EXCEPT ![a] = None]
         /\ key' = [key EXCEPT ![a] = None]
         /\ row' = [t \in TxnIds |-> IF t \in rows THEN Detached(row[t], a) ELSE None]
         /\ Goto(r, "done") /\ Release(r) /\ usedAcc' = usedAcc
  <2>1. op[r] \in Operations /\ op[r].kind = "deleteAcc"
    BY DEF AccDelete, IInv, KindInv, KindOf, Running
  <2>2. op[r].id \in AccountIds /\ op[r].user # None
    BY <2>1, OpTypes, ConstantsAssumption
  <2> QED BY <2>2 DEF AccDelete, accounts
<1>2. \A q \in Requests \ {r} : Untouched(q)
  BY <1>1 DEF Goto, Release, IInv, TypeOK, Untouched
<1>3. CurrentOf(r)'
  <2>1. pc'[r] = "done"
    BY <1>1 DEF Goto, IInv, TypeOK
  <2> QED BY <2>1, EndIsCurrent
<1>4. accounts' = accounts \ {a}
  BY <1>1 DEF accounts, IInv, TypeOK
<1>5. \A t \in rows : row[t] \in Row /\ ValidRow(row[t]) /\ t \in TxnIds
  BY DEF SerialInv, rows, IInv, TypeOK
<1>6. ASSUME NEW q \in Requests \ {r} PROVE CurrentOf(q)'
  <2>1. a \notin wAcc[q]
    BY <1>1 DEF Blockers, AccNeeded
  <2>2. CurrentOf(q)
    BY DEF SerialInv
  <2>3. ASSUME Changing(q)
        PROVE  \/ row'[target[q]] = row[target[q]]
               \/ pc[q] = "reverse" /\ OwnAccount(snap[q]) \in usedAcc' \ accounts'
    <3>1. CASE row[target[q]] # snap[q]
      BY <1>1, <1>4, <2>2, <2>3, <3>1 DEF CurrentOf
    <3>2. CASE row[target[q]] = snap[q] /\ OwnAccount(snap[q]) = a
      <4>1. pc[q] = "reverse"
        BY <2>1, <2>2, <2>3, <3>2 DEF CurrentOf
      <4>2. a \in usedAcc
        BY <1>1 DEF IInv, UsedInv
      <4> QED BY <1>1, <1>4, <3>2, <4>1, <4>2
    <3>3. CASE row[target[q]] = snap[q] /\ OwnAccount(snap[q]) # a
      <4>1. target[q] \in rows
        <5>1. snap[q] \in Row /\ target[q] \in usedTxn
          BY <2>3 DEF IInv, KindInv, KindOf
        <5>2. usedTxn \subseteq TxnIds
          BY DEF IInv, TypeOK
        <5> QED BY <3>3, <5>1, <5>2, RowTypes DEF rows
      <4>2. Detached(row[target[q]], a) = row[target[q]]
        BY <1>1, <1>5, <3>3, <4>1, DetachedRow
      <4> QED BY <1>1, <1>5, <4>1, <4>2
    <3> QED BY <3>1, <3>2, <3>3
  <2> QED BY <1>1, <1>2, <1>4, <2>2, <2>3, CurrentKept
<1>7. (\A b \in AccountIds : key[b] # None <=> owner[b] # None)'
  BY <1>1 DEF SerialInv, IInv, TypeOK
<1>8. (\A u \in rows : ValidRow(row[u]))'
  <2> SUFFICES ASSUME NEW u \in rows' PROVE ValidRow(row'[u])
    OBVIOUS
  <2>1. u \in rows /\ row'[u] = Detached(row[u], a)
    BY <1>1 DEF rows
  <2> QED BY <1>1, <1>5, <2>1, DetachedRow
<1> QED BY <1>3, <1>6, <1>7, <1>8 DEF SerialInv

\* At the start nobody has read anything.
LEMMA InitSerial == Init => SerialInv
<1> SUFFICES ASSUME Init PROVE SerialInv
  OBVIOUS
<1>1. \A r \in Requests : pc[r] = "idle"
  BY DEF Init
<1>2. \A r \in Requests : CurrentOf(r)
  BY <1>1 DEF CurrentOf, Running, Changing, Inserted
<1>3. OneCallPerRow
  BY <1>1 DEF OneCallPerRow, RowCalls, Running
<1>4. PICK db \in InitialDBs : owner = db.owner /\ key = db.key /\ row = db.row
  BY DEF Init
<1>5. InitialDB(db)
  BY InitialAssumption
<1>6. \A a \in AccountIds : key[a] # None <=> owner[a] # None
  BY <1>4, <1>5 DEF InitialDB
<1>7. \A t \in rows : ValidRow(row[t])
  BY <1>4, <1>5 DEF InitialDB, ValidRow, rows
<1> QED BY <1>2, <1>3, <1>6, <1>7 DEF SerialInv

\* Every step of clients that wait for their answers keeps the invariant.
LEMMA NextSerial ==
    ASSUME IInv, SerialInv, [Next /\ OneCallPerRow']_vars
    PROVE  SerialInv'
<1>1. CASE UNCHANGED vars
  BY <1>1 DEF vars, database, locals, pending, SerialInv, CurrentOf, Running, Changing,
     Inserted, accounts, rows, OneCallPerRow, RowCalls
<1>2. ASSUME NEW r \in Requests, OneCallPerRow',
             Receive(r) \/ Step(r) \/ Abort(r) \/ DeadlockVictim(r)
      PROVE  SerialInv'
  <2>1. CASE Rollback(r)
    BY <1>2, <2>1, RollbackSerial
  <2>2. CASE ~Rollback(r)
    BY <1>2, <2>2, StatementSerial, CommitSerial, AccInsertSerial, AccWriteSerial,
       AccDeleteSerial DEF Step, Abort, DeadlockVictim
  <2> QED BY <2>1, <2>2
<1> QED BY <1>1, <1>2 DEF Next

\* The invariant of clients that wait for their answers holds always.
LEMMA SerialInductive == SerialSpec => [](IInv /\ SerialInv)
<1>1. Init => IInv /\ SerialInv
  BY InitInv, InitSerial
<1>2. IInv /\ SerialInv /\ [Next /\ OneCallPerRow']_vars => (IInv /\ SerialInv)'
  <2>1. [Next /\ OneCallPerRow']_vars => [Next]_vars
    OBVIOUS
  <2> QED BY <2>1, NextInv, NextSerial
<1> QED BY <1>1, <1>2, PTL DEF SerialSpec

\* When the calls on one row do not overlap, every committed row is valid: a
\* credit is income and has no debit side, a debit has no credit side, though an
\* update is validated against a row that was read some statements earlier.
THEOREM RowsStayValid == SerialSpec => []RowsAreValid
<1>1. SerialInv => RowsAreValid
  BY DEF SerialInv, ValidRow, RowsAreValid
<1> QED BY <1>1, SerialInductive, PTL

-----------------------------------------------------------------------------
(* The promise of the ledger.                                              *)

\* Validation and clients that detach nothing keep a row on an account.
LEMMA UpdateKeepsAccount ==
    ASSUME NoDetaching, NEW o \in Operations, o.kind = "updateTxn", ~Rejected(o),
           NEW s \in Row, OwnAccount(s) # None
    PROVE  OwnAccount(Merge(s, Effective(o.dto, s))) # None
<1> DEFINE d == o.dto
           e == Effective(d, s)
           n == Merge(s, e)
<1>0. None # Absent
  BY ConstantsAssumption
<1>1. /\ d \in UpdateDto
      /\ d.type # Absent => ~SideMissing(d)
      /\ d.type = Absent => d.creditTo # None /\ d.debitFrom # None
  BY OpTypes DEF NoDetaching, Rejected
<1>2. /\ n.type = Keep(e.type, s.type)
      /\ n.creditTo = Keep(e.creditTo, s.creditTo)
      /\ n.debitFrom = Keep(e.debitFrom, s.debitFrom)
  BY DEF Merge
<1> HIDE DEF d
<1>3. /\ e.type = d.type
      /\ e.creditTo = IF NewIsCredit(d, s) THEN d.creditTo ELSE None
      /\ e.debitFrom = IF NewIsCredit(d, s) THEN None ELSE d.debitFrom
  BY <1>1 DEF Effective, UpdateDto
<1>4. (n.type = "Credit") <=> NewIsCredit(d, s)
  BY <1>2, <1>3 DEF NewIsCredit
<1>5. d.type \in {"Credit", "Debit", Absent} /\ s.type \in {"Credit", "Debit"}
  BY <1>1 DEF UpdateDto, Row, Types
<1> HIDE DEF e, n
<1>6. OwnAccount(n) = IF NewIsCredit(d, s) THEN Keep(d.creditTo, s.creditTo)
                                          ELSE Keep(d.debitFrom, s.debitFrom)
  BY <1>2, <1>3, <1>4 DEF OwnAccount
<1>7. OwnAccount(n) # None
  BY <1>0, <1>1, <1>5, <1>6 DEF NewIsCredit, Keep, SideMissing, OwnAccount
<1> QED BY <1>7 DEF d, e, n

\* The calls on a row do not overlap and detach nothing.
OrderlyInv == IInv /\ SerialInv /\ drifted = {}

\* A commit takes the current row back from its account and posts the new one.
LEMMA CommitReplaces ==
    ASSUME NoDetaching, OrderlyInv, NEW r \in Requests, Commit(r)
    PROVE  /\ ~Drifts(r)
           /\ \E t \in TxnIds : Promise!Record(t) \/ Promise!Erase(t)
<1> USE DEF OrderlyInv
<1> DEFINE t == target[r]
           x == row[t]
           n == IF op[r].kind = "deleteTxn" THEN None ELSE newRow[r]
<1>1. /\ pc[r] = "commit" /\ op[r] \in Operations
      /\ op[r].kind \in {"createTxn", "updateTxn", "deleteTxn"}
      /\ KindOf(r) /\ PendingOf(r) /\ CurrentOf(r)
  BY DEF Commit, IInv, KindInv, KindOf, PendingInv, SerialInv, Running
<1>2. t \in TxnIds
  <2>1. usedTxn \subseteq TxnIds
    BY DEF IInv, TypeOK
  <2> QED BY <1>1, <2>1 DEF KindOf, IInv, FreshInv, Changing, Inserted
<1>3. /\ row' = [row EXCEPT ![t] = n]
      /\ balance' = [a \in AccountIds |-> balance[a] + delta[r][a]]
      /\ UNCHANGED <<owner, key>>
  BY DEF Commit
<1>4. row'[t] = n
  BY <1>2, <1>3 DEF IInv, TypeOK
<1>5. /\ Promise!Live = accounts
      /\ \A y, a : Promise!Worth(y, a) = Worth(y, a)
      /\ \A y : Promise!OwnAccount(y) = OwnAccount(y)
  BY DEF Promise!Live, accounts, Promise!Worth, Worth, Promise!Contribution, Contribution,
         Promise!OwnAccount, OwnAccount, Promise!Signed, Signed
<1>6. CASE op[r].kind = "createTxn"
  <2>1. x = None
    BY <1>1, <1>2, <1>6 DEF IInv, FreshInv, Inserted, rows
  <2>2. n \in Row /\ n = CreatedRow(op[r]) /\ Pointers(n) \subseteq accounts \cup {None}
    BY <1>1, <1>6 DEF PendingOf, CurrentOf, Inserted
  <2>3. OwnAccount(n) # None
    BY <1>1, <1>6, <2>2, CreatedIsValid DEF CurrentOf, Running
  <2>4. OwnAccount(n) \in accounts
    BY <2>2, <2>3, RowTypes
  <2>5. \A a \in AccountIds : balance'[a] = balance[a] - Worth(x, a) + Worth(n, a)
    <3> SUFFICES ASSUME NEW a \in AccountIds
                 PROVE  balance'[a] = balance[a] - Worth(x, a) + Worth(n, a)
      OBVIOUS
    <3>1. delta[r][a] = 0 + Posting(r, a)
      BY <1>1, <1>6 DEF PendingOf
    <3>2. Posting(r, a) = Contribution(n, a)
      BY <1>6 DEF Posting, PostAccount, PostAmount, Contribution
    <3>3. Worth(x, a) = 0 /\ Worth(n, a) = Contribution(n, a)
      BY <2>1, <2>2, RowTypes DEF Worth
    <3>4. Contribution(n, a) \in Int /\ balance[a] \in Int
      BY <2>2, RowTypes, BalanceTypes DEF IInv
    <3>5. balance'[a] = balance[a] + delta[r][a]
      BY <1>3
    <3> QED BY <3>1, <3>2, <3>3, <3>4, <3>5
  <2>6. ~Drifts(r)
    BY <1>6 DEF Drifts
  <2> HIDE DEF t, n
  <2>7. balance' = [a \in AccountIds |-> balance[a] - Promise!Worth(row[t], a)
                                                   + Promise!Worth(row'[t], a)]
    BY <1>3, <1>4, <1>5, <2>5
  <2>8. Promise!Replace(t, row'[t])
    BY <1>3, <1>4, <2>7 DEF Promise!Replace
  <2>9. Promise!Record(t)
    BY <1>4, <1>5, <2>1, <2>2, <2>4, <2>8 DEF Promise!Record
  <2> QED BY <1>2, <2>6, <2>9
<1>7. CASE op[r].kind # "createTxn"
  <2>1. Changing(r) /\ snap[r] \in Row /\ x = snap[r] /\ OwnAccount(x) \in accounts
    BY <1>1, <1>7 DEF Changing, KindOf, CurrentOf, IInv, LockInv
  <2>2. OwnAccount(x) # None /\ x # None
    BY <2>1, RowTypes, ConstantsAssumption DEF accounts
  <2>3. t \in rows /\ None \in Pointers(x)
    BY <1>2, <2>2 DEF rows, IInv, RowsPointAtLiveAccounts, Pointers
  <2>4. \A a \in AccountIds : Undone(r, a) = -Worth(x, a) /\ Worth(x, a) \in Int
    <3>1. Signed(x) \in Int
      BY <2>1, RowTypes
    <3> QED BY <2>1, <2>2, <3>1 DEF Undone, Worth, Contribution
  <2>5. CASE op[r].kind = "deleteTxn"
    <3>1. n = None
      BY <2>5
    <3>2. \A a \in AccountIds : balance'[a] = balance[a] - Worth(x, a) + Worth(n, a)
      <4> SUFFICES ASSUME NEW a \in AccountIds
                   PROVE  balance'[a] = balance[a] - Worth(x, a) + Worth(n, a)
        OBVIOUS
      <4>1. delta[r][a] = Undone(r, a) + 0
        BY <1>1, <2>5 DEF PendingOf
      <4>2. Worth(n, a) = 0
        BY <3>1 DEF Worth
      <4>3. balance[a] \in Int /\ balance'[a] = balance[a] + delta[r][a]
        BY <1>3, BalanceTypes DEF IInv
      <4> QED BY <2>4, <4>1, <4>2, <4>3
    <3>3. ~Drifts(r)
      BY <2>1, <2>5 DEF Drifts
    <3> HIDE DEF t, n
    <3>4. balance' = [a \in AccountIds |-> balance[a] - Worth(row[t], a) + Worth(n, a)]
      BY <1>3, <3>2
    <3>5. Promise!Erase(t)
      BY <1>3, <1>5, <2>2, <3>1, <3>4 DEF Promise!Erase, Promise!Replace
    <3> QED BY <1>2, <3>3, <3>5
  <2>6. CASE op[r].kind = "updateTxn"
    <3> DEFINE d == op[r].dto
    <3>1. d \in UpdateDto /\ n = Merge(x, Effective(d, x)) /\ n = newRow[r]
      BY <1>1, <2>1, <2>6, OpTypes DEF PendingOf
    <3>2. OwnAccount(n) # None
      BY <1>1, <2>1, <2>2, <2>6, <3>1, UpdateKeepsAccount DEF CurrentOf, Running
    <3>3. n \in Row /\ OwnAccount(n) \in accounts /\ n.user = x.user
      <4>1. n \in Row /\ Pointers(n) \subseteq accounts \cup {None}
        BY <1>1, <2>6 DEF PendingOf
      <4> QED BY <3>1, <3>2, <4>1, RowTypes DEF Merge
    <3>4. \A a \in AccountIds : balance'[a] = balance[a] - Worth(x, a) + Worth(n, a)
      <4> SUFFICES ASSUME NEW a \in AccountIds
                   PROVE  balance'[a] = balance[a] - Worth(x, a) + Worth(n, a)
        OBVIOUS
      <4>1. delta[r][a] = Undone(r, a) + Posting(r, a)
        BY <1>1, <2>6 DEF PendingOf
      <4>2. UpdateAccount(d, x) = OwnAccount(n) /\ UpdateAmount(d, x) = Signed(n)
        BY <2>1, <2>3, <3>1, <3>2, UpdatePosts
      <4>3. Posting(r, a) = Contribution(n, a)
        BY <2>1, <2>6, <4>2 DEF Posting, PostAccount, PostAmount, Contribution
      <4>4. Worth(n, a) = Contribution(n, a) /\ Contribution(n, a) \in Int
        BY <3>3, RowTypes DEF Worth
      <4>5. balance[a] \in Int /\ balance'[a] = balance[a] + delta[r][a]
        BY <1>3, BalanceTypes DEF IInv
      <4> QED BY <2>4, <4>1, <4>3, <4>4, <4>5
    <3>5. ~Drifts(r)
      BY <2>1, <3>1, <3>2 DEF Drifts
    <3> HIDE DEF t, n
    <3>6. balance' = [a \in AccountIds |-> balance[a] - Promise!Worth(row[t], a)
                                                     + Promise!Worth(row'[t], a)]
      BY <1>3, <1>4, <1>5, <3>4
    <3>7. Promise!Replace(t, row'[t])
      BY <1>3, <1>4, <3>6 DEF Promise!Replace
    <3>8. Promise!Record(t)
      BY <1>4, <1>5, <2>2, <3>3, <3>7 DEF Promise!Record
    <3> QED BY <1>2, <3>5, <3>8
  <2> QED BY <1>1, <1>7, <2>5, <2>6
<1> QED BY <1>6, <1>7

\* Statements that open, change or close an account do so in one step.
LEMMA AccountsAsPromised ==
    ASSUME OrderlyInv, IInv', NEW r \in Requests, ~Rollback(r),
           AccInsert(r) \/ AccWrite(r) \/ AccDelete(r)
    PROVE  \E a \in AccountIds : Promise!SetAccount(a) \/ Promise!CloseAccount(a)
<1> USE DEF OrderlyInv
<1>1. /\ Promise!Live = accounts
      /\ \A x, a : Promise!Detached(x, a) = Detached(x, a)
  BY DEF Promise!Live, accounts, Promise!Detached, Detached
<1>2. op[r] \in Operations /\ KindOf(r)
  BY DEF AccInsert, AccWrite, AccDelete, IInv, KindInv, KindOf, Running
<1>3. /\ owner' \in [AccountIds -> Users \cup {None}]
      /\ key' \in [AccountIds -> Keys \cup {None}]
      /\ balance' \in [AccountIds -> Money]
  BY DEF IInv, TypeOK
<1>4. CASE AccInsert(r)
  <2>1. PICK a \in AccountIds \ usedAcc :
           /\ ~KeyTaken(op[r].dto.key, None)
           /\ owner' = [owner EXCEPT ![a] = op[r].user]
           /\ key' = [key EXCEPT ![a] = op[r].dto.key]
           /\ balance' = [balance EXCEPT ![a] = op[r].dto.amount]
           /\ row' = row
    BY <1>4 DEF AccInsert
  <2>2. op[r].user \in Users /\ op[r].dto.key \in Keys
    BY <1>2, <1>4, OpTypes DEF AccInsert, KindOf
  <2>3. a \notin accounts /\ a \in AccountIds
    BY DEF IInv, UsedInv
  <2>4. \A b \in AccountIds \ {a} : key[b] # op[r].dto.key
    BY <2>1, <2>2, ConstantsAssumption DEF KeyTaken, SerialInv, accounts
  <2> DEFINE k == op[r].dto.key  u == op[r].user
  <2>5. /\ owner' = [owner EXCEPT ![a] = u] /\ key' = [key EXCEPT ![a] = k]
        /\ u \in Users /\ k \in Keys /\ \A b \in AccountIds \ {a} : key[b] # k
    BY <2>1, <2>2, <2>4
  <2> HIDE DEF k, u
  <2>6. /\ owner'[a] = u /\ key'[a] = k
        /\ \A b \in AccountIds \ {a} : key'[b] = key[b]
    BY <2>3, <2>5 DEF IInv, TypeOK
  <2>7. Promise!SetAccount(a)
    BY <1>1, <1>3, <2>1, <2>3, <2>5, <2>6 DEF Promise!SetAccount, IInv, TypeOK
  <2> QED BY <2>3, <2>7
<1>5. CASE AccWrite(r)
  <2>1. PICK a \in accounts : \E k :
           /\ k \in Keys /\ ~KeyTaken(k, a)
           /\ key' = [key EXCEPT ![a] = k]
           /\ \E m : balance' = [balance EXCEPT ![a] = m]
           /\ owner' = owner /\ row' = row
    <3> DEFINE k == Keep(op[r].dto.key, key[op[r].id])
    <3>1. op[r].id \in accounts /\ op[r].dto \in AccountDto
      BY <1>2, <1>5, OpTypes DEF AccWrite, KindOf
    <3>2. op[r].dto.key \in Keys \cup {Absent} /\ key[op[r].id] \in Keys
      BY <3>1 DEF AccountDto, SerialInv, IInv, TypeOK, accounts
    <3>3. k \in Keys
      BY <3>2 DEF Keep
    <3> QED BY <1>5, <3>1, <3>3 DEF AccWrite
  <2>2. PICK k : /\ k \in Keys /\ ~KeyTaken(k, a)
                 /\ key' = [key EXCEPT ![a] = k]
                 /\ \E m : balance' = [balance EXCEPT ![a] = m]
                 /\ owner' = owner /\ row' = row
    BY <2>1
  <2>3. a \in AccountIds /\ owner[a] \in Users
    BY DEF accounts, IInv, TypeOK
  <2>4. \A b \in AccountIds \ {a} : key[b] # k
    BY <2>2, ConstantsAssumption DEF KeyTaken, SerialInv, accounts
  <2>5. /\ key'[a] = k
        /\ \A b \in AccountIds \ {a} : key'[b] = key[b]
    BY <2>2, <2>3 DEF IInv, TypeOK
  <2>6. balance' = [balance EXCEPT ![a] = balance'[a]]
    BY <2>2, <2>3 DEF IInv, TypeOK
  <2>7. owner' = [owner EXCEPT ![a] = owner'[a]] /\ key' = [key EXCEPT ![a] = key'[a]]
    BY <2>2, <2>3, <2>5 DEF IInv, TypeOK
  <2>8. Promise!SetAccount(a)
    BY <1>1, <1>3, <2>2, <2>3, <2>4, <2>5, <2>6, <2>7 DEF Promise!SetAccount
  <2> QED BY <2>3, <2>8
<1>6. CASE AccDelete(r)
  <2>1. PICK a \in AccountIds :
           /\ a \in accounts
           /\ owner' = [owner EXCEPT ![a] = None]
           /\ key' = [key EXCEPT ![a] = None]
           /\ balance' = [balance EXCEPT ![a] = 0]
           /\ row' = [t \in TxnIds |-> IF t \in rows THEN Detached(row[t], a) ELSE None]
    <3>1. op[r].id \in AccountIds /\ op[r].user # None
      BY <1>2, <1>6, OpTypes, ConstantsAssumption DEF AccDelete, KindOf
    <3> QED BY <1>6, <3>1 DEF AccDelete, accounts
  <2>2. row' = [t \in TxnIds |-> IF row[t] = None THEN None
                                 ELSE Promise!Detached(row[t], a)]
    BY <1>1, <2>1 DEF rows
  <2>3. Promise!CloseAccount(a)
    BY <1>1, <2>1, <2>2 DEF Promise!CloseAccount
  <2> QED BY <2>3
<1> QED BY <1>4, <1>5, <1>6

\* Every step is a step of the promise, or the promise does not see it.
LEMMA StepsAsPromised ==
    ASSUME NoDetaching, OrderlyInv, IInv', SerialInv', [Next /\ OneCallPerRow']_vars
    PROVE  drifted' = {} /\ [Promise!Next]_(Promise!vars)
<1> USE DEF OrderlyInv
<1>1. CASE UNCHANGED vars
  BY <1>1 DEF vars, database, history, Promise!vars
<1>2. ASSUME NEW r \in Requests, Rollback(r)
      PROVE  drifted' = {} /\ UNCHANGED Promise!vars
  BY <1>2 DEF Rollback, database, history, Promise!vars
<1>3. ASSUME NEW r \in Requests, ~Rollback(r),
             \/ Receive(r) \/ InsertTxn(r) \/ FindTxn(r) \/ ReverseAccount(r)
             \/ WriteTxn(r) \/ RemoveTxn(r) \/ ApplyAccount(r)
             \/ AccCheck(r) \/ AccFind(r) \/ AccDelFind(r)
      PROVE  drifted' = {} /\ UNCHANGED Promise!vars
  BY <1>3 DEF Receive, InsertTxn, FindTxn, ReverseAccount, WriteTxn, RemoveTxn,
     ApplyAccount, AccCheck, AccFind, AccDelFind, PostTo, database, history, Promise!vars
<1>4. ASSUME NEW r \in Requests, Commit(r)
      PROVE  drifted' = {} /\ Promise!Next
  BY <1>4, CommitReplaces DEF Commit, Promise!Next
<1>5. ASSUME NEW r \in Requests, ~Rollback(r), AccInsert(r) \/ AccWrite(r) \/ AccDelete(r)
      PROVE  drifted' = {} /\ Promise!Next
  <2>1. drifted' = drifted
    BY <1>5 DEF AccInsert, AccWrite, AccDelete
  <2> QED BY <1>5, <2>1, AccountsAsPromised DEF Promise!Next
<1> QED
  BY <1>1, <1>2, <1>3, <1>4, <1>5 DEF Next, Step, Abort, DeadlockVictim

\* An orderly ledger stays orderly.
LEMMA OrderlyInductive ==
    ASSUME NoDetaching
    PROVE  SerialSpec => []OrderlyInv
<1>1. Init => OrderlyInv
  BY InitInv, InitSerial DEF OrderlyInv, Init
<1>2. OrderlyInv /\ [Next /\ OneCallPerRow']_vars => OrderlyInv'
  <2> SUFFICES ASSUME OrderlyInv, [Next /\ OneCallPerRow']_vars PROVE OrderlyInv'
    OBVIOUS
  <2>1. [Next]_vars
    OBVIOUS
  <2>2. IInv' /\ SerialInv'
    BY <2>1, NextInv, NextSerial DEF OrderlyInv
  <2> QED BY <2>2, StepsAsPromised DEF OrderlyInv
<1> QED BY <1>1, <1>2, PTL DEF SerialSpec

\* Clients that wait for the answer to one change of a row before they send the
\* next, and detach nothing, get what the promise says: every commit changes one
\* row and moves the balances by exactly as much, accounts change one at a time,
\* and no other statement shows.
THEOREM LedgerKeepsItsPromise ==
    ASSUME NoDetaching
    PROVE  SerialSpec => PromiseIsKept
<1>1. Init => Promise!Init
  BY InitInv DEF IInv, TypeOK, Promise!Init
<1>2. OrderlyInv /\ OrderlyInv' /\ [Next /\ OneCallPerRow']_vars
         => [Promise!Next]_(Promise!vars)
  BY StepsAsPromised DEF OrderlyInv
<1> QED BY <1>1, <1>2, OrderlyInductive, PTL DEF SerialSpec, PromiseIsKept, Promise!Spec

\* For such clients every live account holds exactly its opening amount and the
\* rows attached to it: no reversal or posting of an update or a delete is ever
\* lost or done twice.
THEOREM BalancesAreExact ==
    ASSUME NoDetaching
    PROVE  SerialSpec => []BalanceIsOpeningPlusRows
<1>1. SerialSpec => Spec
  <2>1. [Next /\ OneCallPerRow']_vars => [Next]_vars
    OBVIOUS
  <2> QED BY <2>1, PTL DEF SerialSpec, Spec
<1>2. OrderlyInv /\ BalanceExactUntilDrift => BalanceIsOpeningPlusRows
  BY DEF OrderlyInv, BalanceExactUntilDrift
<1> QED BY <1>1, <1>2, OrderlyInductive, BalancesAreExactUntilDrift, PTL

=============================================================================
