------------------------------- MODULE Ledger -------------------------------
(***************************************************************************)
(* The money core: AccountsService and TransactionsService over one        *)
(* Postgres database.  Every request is one HTTP call; a step is one SQL   *)
(* statement of its handler, so that requests interleave where the code    *)
(* awaits the database.  The three operations on transactions run in an    *)
(* interactive Prisma transaction at READ COMMITTED: plain reads see the   *)
(* last committed row and take no lock, writes lock what they write until  *)
(* the end, nothing is visible before Commit.                              *)
(*                                                                         *)
(* A definition marked SLIP is not the code's: it is the one after it with *)
(* a mistake such code invites, kept to see that a property notices it.    *)
(***************************************************************************)
EXTENDS Integers, FiniteSets, FiniteSetsExt, TransactionRows

CONSTANTS Requests,      \* the HTTP calls in flight
          Users, AccountIds, TxnIds,
          Keys,          \* (account number, bank name) pairs
          Absent,        \* a DTO field the client did not send (undefined)
          MaxBalance,    \* what Decimal(12,2) can hold
          Operations,    \* the calls clients may make
          InitialDBs     \* the databases the calls may find

Money == (-MaxBalance)..MaxBalance

Types == {"Credit", "Debit"}
Categories == {"Income", "Expense"}   \* Expense: every category but Income

Row == [user: Users, amount: Money, type: Types, category: Categories,
        creditTo: AccountIds \cup {None}, debitFrom: AccountIds \cup {None}]

UpdateDto == [amount: Money \cup {Absent}, type: Types \cup {Absent},
              category: Categories \cup {Absent},
              creditTo: AccountIds \cup {None, Absent},
              debitFrom: AccountIds \cup {None, Absent}]

AccountDto == [key: Keys \cup {Absent}, amount: Money \cup {Absent}]

Op == [kind: {"createTxn"}, user: Users, id: {None}, dto: [
          amount: Money, type: Types, category: Categories,
          creditTo: AccountIds \cup {None}, debitFrom: AccountIds \cup {None}]]
      \cup [kind: {"updateTxn"}, user: Users, id: TxnIds, dto: UpdateDto]
      \cup [kind: {"deleteTxn"}, user: Users, id: TxnIds, dto: {None}]
      \cup [kind: {"createAcc"}, user: Users, id: {None},
            dto: [key: Keys, amount: Money]]
      \cup [kind: {"updateAcc"}, user: Users, id: AccountIds, dto: AccountDto]
      \cup [kind: {"deleteAcc"}, user: Users, id: AccountIds, dto: {None}]

-----------------------------------------------------------------------------
Posted(rows, a) ==
    MapThenSumSet(LAMBDA t : Contribution(rows[t], a),
                  {t \in TxnIds : rows[t] # None})

\* A quiet database: every row points at exactly the live account its type
\* asks for, credits are income, and keys are unique.
InitialDB(db) ==
    /\ db.owner \in [AccountIds -> Users \cup {None}]
    /\ db.key \in [AccountIds -> Keys \cup {None}]
    /\ db.opening \in [AccountIds -> Int]
    /\ db.row \in [TxnIds -> Row \cup {None}]
    /\ \A a \in AccountIds : db.opening[a] + Posted(db.row, a) \in Money
    /\ \A a, b \in AccountIds :
          /\ db.owner[a] # None <=> db.key[a] # None
          /\ a # b /\ db.key[a] # None => db.key[a] # db.key[b]
    /\ \A t \in TxnIds : db.row[t] # None =>
          LET x == db.row[t] IN
          /\ OwnAccount(x) # None
          /\ db.owner[OwnAccount(x)] # None
          /\ x.type = "Credit" => x.debitFrom = None /\ x.category = "Income"
          /\ x.type = "Debit" => x.creditTo = None

ASSUME ConstantsAssumption ==
    /\ MaxBalance \in Nat
    /\ IsFiniteSet(TxnIds)
    /\ None \notin Users \cup AccountIds \cup TxnIds \cup Keys \cup Row
    /\ Absent \notin AccountIds \cup Keys \cup Types \cup Categories \cup {None}
    /\ Absent \notin Int
    /\ Operations \subseteq Op

ASSUME InitialAssumption == \A db \in InitialDBs : InitialDB(db)

-----------------------------------------------------------------------------
VARIABLES
    owner, key, balance,  \* the account table; a row exists iff it has an owner
    row,                  \* the transaction table; None where no row exists
    usedAcc, usedTxn,     \* ids the autoincrement sequences have handed out
    pc, op,               \* per request: next statement, the call being served
    target,               \* the transaction row it works on
    snap,                 \* the row its findUnique returned
    newRow,               \* the row version it has written, not yet committed
    delta,                \* the balance changes it has made, not yet committed
    wAcc, sAcc, wRow,     \* its locks: account rows written, account rows
                          \* shared by a foreign-key check, transaction rows
    opening, effect, drifted   \* history, read by no action: see below

database == <<owner, key, balance, row, usedAcc, usedTxn>>
locals   == <<op, target, snap, newRow>>
pending  == <<delta, wAcc, sAcc, wRow>>
history  == <<opening, effect, drifted>>
vars     == <<database, pc, locals, pending, history>>

accounts == {a \in AccountIds : owner[a] # None}
rows     == {t \in TxnIds : row[t] # None}

Zero == [a \in AccountIds |-> 0]

Steps == {"idle", "insert", "find", "reverse", "write", "remove", "apply",
          "commit", "accCheck", "accInsert", "accFind", "accWrite",
          "accDelFind", "accDelete", "done", "failed"}

\* Steps between statements of an open interactive transaction or of a
\* handler that is still running.
Running(r) == pc[r] \notin {"idle", "done", "failed"}

\* opening[a] is what account a would hold had no row ever been posted to it;
\* effect[t][a] is what committed requests working on row
\* t have added to account a in total; drifted is the set of rows some
\* committed request treated wrongly (see Drifts).
Init ==
    /\ \E db \in InitialDBs :
          /\ owner = db.owner /\ key = db.key /\ row = db.row
          /\ opening = db.opening
          /\ balance = [a \in AccountIds |-> db.opening[a] + Posted(db.row, a)]
          /\ usedAcc = {a \in AccountIds : db.owner[a] # None}
          /\ usedTxn = {t \in TxnIds : db.row[t] # None}
          /\ effect = [t \in TxnIds |-> [a \in AccountIds |->
                          IF db.row[t] = None THEN 0
                          ELSE Contribution(db.row[t], a)]]
    /\ drifted = {}
    /\ pc = [r \in Requests |-> "idle"]
    /\ op = [r \in Requests |-> None]
    /\ target = [r \in Requests |-> None]
    /\ snap = [r \in Requests |-> None]
    /\ newRow = [r \in Requests |-> None]
    /\ delta = [r \in Requests |-> Zero]
    /\ wAcc = [r \in Requests |-> {}]
    /\ sAcc = [r \in Requests |-> {}]
    /\ wRow = [r \in Requests |-> {}]

-----------------------------------------------------------------------------
(* What an update computes from its DTO and from the row it has read.      *)

Keep(new, old) == IF new = Absent THEN old ELSE new           \* SET col = new
Or(x, y) == IF x \in {None, Absent} THEN y ELSE x             \* x ?? y

\* d is the DTO, s the row the handler has read.
NewIsCredit(d, s) == Keep(d.type, s.type) = "Credit"
StoredCategory(d, s) == s.category                          \* SLIP
NewCategory(d, s) == Keep(d.category, s.category)

EffectiveAsSent(d, s) == d                                   \* SLIP

\* The DTO after the handler has nulled the side the new type does not use.
Effective(d, s) == IF NewIsCredit(d, s) THEN [d EXCEPT !.debitFrom = None]
                                        ELSE [d EXCEPT !.creditTo = None]

\* UPDATE ... SET on the row x as it is when the statement gets it.
Merge(x, d) == [user |-> x.user,
                amount |-> Keep(d.amount, x.amount),
                type |-> Keep(d.type, x.type),
                category |-> Keep(d.category, x.category),
                creditTo |-> Keep(d.creditTo, x.creditTo),
                debitFrom |-> Keep(d.debitFrom, x.debitFrom)]

OldAccountFirst(d, s) ==                                     \* SLIP
    LET e == Effective(d, s)
    IN  Or(s.creditTo, Or(s.debitFrom, Or(e.creditTo, e.debitFrom)))

\* newAccountId, and the change made to it.
UpdateAccount(d, s) ==
    LET e == Effective(d, s)
    IN  Or(e.creditTo, Or(e.debitFrom, Or(s.creditTo, s.debitFrom)))

UnsignedAmount(d, s) == Keep(d.amount, s.amount)             \* SLIP

UpdateAmount(d, s) ==
    IF NewIsCredit(d, s) THEN Keep(d.amount, s.amount) ELSE -Keep(d.amount, s.amount)

\* The last statement of create and update.
PostAccount(r) == IF op[r].kind = "createTxn" THEN OwnAccount(newRow[r])
                  ELSE UpdateAccount(op[r].dto, snap[r])
CreateAlwaysAdds(r) == IF op[r].kind = "createTxn" THEN newRow[r].amount
                       ELSE UpdateAmount(op[r].dto, snap[r]) \* SLIP
PostAmount(r) == IF op[r].kind = "createTxn" THEN Signed(newRow[r])
                 ELSE UpdateAmount(op[r].dto, snap[r])

-----------------------------------------------------------------------------
(* Row locks.  A statement waits for the requests that hold what it needs. *)

AttachedTo(a) == {t \in rows : a \in {row[t].creditTo, row[t].debitFrom}}

AccNeeded(r) ==
    CASE pc[r] = "reverse" -> {OwnAccount(snap[r])}
      [] pc[r] = "apply" -> {PostAccount(r)}
      [] pc[r] \in {"accWrite", "accDelete"} -> {op[r].id}
      [] OTHER -> {}

\* Deleting an account also writes every row attached to it (ON DELETE SET
\* NULL).
RowNeeded(r) ==
    CASE pc[r] \in {"write", "remove"} -> {target[r]}
      [] pc[r] = "accDelete" -> AttachedTo(op[r].id)
      [] OTHER -> {}

\* Only a delete, or a change of the unique key, conflicts with the key-share
\* lock a foreign-key check takes.
NeedsExclusive(r) ==
    \/ pc[r] = "accDelete"
    \/ pc[r] = "accWrite" /\ op[r].dto.key \notin {Absent, key[op[r].id]}

Blockers(r) ==
    {q \in Requests \ {r} :
        \/ AccNeeded(r) \cap wAcc[q] # {}
        \/ NeedsExclusive(r) /\ AccNeeded(r) \cap sAcc[q] # {}
        \/ RowNeeded(r) \cap wRow[q] # {}}

NoDeadlockDetection(r) == FALSE                              \* SLIP

\* r belongs to a set of requests each of which waits for another of the set.
Deadlocked(r) == \E S \in SUBSET Requests :
                    r \in S /\ \A s \in S : Blockers(s) \cap S # {}

-----------------------------------------------------------------------------
(* Ends of a request.                                                      *)

\* The handler's frame and its locks go when it returns or throws.
Release(r) == /\ op' = [op EXCEPT ![r] = None]
              /\ target' = [target EXCEPT ![r] = None]
              /\ snap' = [snap EXCEPT ![r] = None]
              /\ newRow' = [newRow EXCEPT ![r] = None]
              /\ delta' = [delta EXCEPT ![r] = Zero]
              /\ wAcc' = [wAcc EXCEPT ![r] = {}]
              /\ sAcc' = [sAcc EXCEPT ![r] = {}]
              /\ wRow' = [wRow EXCEPT ![r] = {}]

Goto(r, step) == pc' = [pc EXCEPT ![r] = step]

\* An exception leaves the callback: everything pending is rolled back.
Rollback(r) == /\ Goto(r, "failed")
               /\ Release(r)
               /\ UNCHANGED <<database, history>>

\* The 5 s limit of an interactive transaction, a deadlock victim, a lost
\* connection, a crash of the process: a rollback at any point.
Abort(r) == Running(r) /\ Rollback(r)

\* Postgres aborts one of the requests that wait for each other.
DeadlockVictim(r) == Running(r) /\ Deadlocked(r) /\ Rollback(r)

-----------------------------------------------------------------------------
(* Receiving a call: what a handler checks before it reads the database.   *)

FirstStep(o) ==
    CASE o.kind = "createTxn" -> "insert"
      [] o.kind \in {"updateTxn", "deleteTxn"} -> "find"
      [] o.kind = "createAcc" -> "accCheck"
      [] o.kind = "updateAcc" -> "accFind"
      [] o.kind = "deleteAcc" -> "accDelFind"

\* The side of a DTO its type asks for is null or was not sent.
SideMissing(d) ==
    (IF d.type = "Credit" THEN d.creditTo ELSE d.debitFrom) \in {None, Absent}

Rejected(o) ==
    \/ /\ o.kind = "createTxn"
       /\ SideMissing(o.dto) \/ (o.dto.type = "Credit" /\ o.dto.category # "Income")
    \/ /\ o.kind = "updateTxn"
       /\ o.dto.type # Absent /\ SideMissing(o.dto)

Receive(r) ==
    /\ pc[r] = "idle"
    /\ \E o \in Operations :
          \/ /\ Rejected(o)
             /\ Rollback(r)
          \/ /\ ~Rejected(o)
             /\ op' = [op EXCEPT ![r] = o]
             /\ target' = [target EXCEPT ![r] =
                              IF o.kind \in {"updateTxn", "deleteTxn"} THEN o.id ELSE None]
             /\ Goto(r, FirstStep(o))
             /\ UNCHANGED <<database, snap, newRow, pending, history>>

-----------------------------------------------------------------------------
(* Statements of the three transaction handlers.                           *)

\* The row createTransaction writes: the side its type does not use is null.
CreatedRow(o) ==
    [user |-> o.user, amount |-> o.dto.amount, type |-> o.dto.type,
     category |-> o.dto.category,
     creditTo |-> IF o.dto.type = "Credit" THEN o.dto.creditTo ELSE None,
     debitFrom |-> IF o.dto.type = "Credit" THEN None ELSE o.dto.debitFrom]

InsertTxn(r) ==
    /\ pc[r] = "insert"
    /\ \/ /\ OwnAccount(CreatedRow(op[r])) \notin accounts   \* foreign key
          /\ Rollback(r)
       \/ \E t \in TxnIds \ usedTxn :
             /\ OwnAccount(CreatedRow(op[r])) \in accounts
             /\ usedTxn' = usedTxn \cup {t}
             /\ target' = [target EXCEPT ![r] = t]
             /\ newRow' = [newRow EXCEPT ![r] = CreatedRow(op[r])]
             /\ sAcc' = [sAcc EXCEPT ![r] = {OwnAccount(CreatedRow(op[r]))}]
             /\ Goto(r, "apply")
             /\ UNCHANGED <<owner, key, balance, row, usedAcc, op, snap,
                            delta, wAcc, wRow, history>>

\* findUnique by id and user: the last committed row, without a lock.
FindTxn(r) ==
    /\ pc[r] = "find"
    /\ LET t == target[r] IN
       IF t \in rows /\ row[t].user = op[r].user
       THEN /\ snap' = [snap EXCEPT ![r] = row[t]]
            /\ Goto(r, "reverse")
            /\ UNCHANGED <<database, op, target, newRow, pending, history>>
       ELSE Rollback(r)

AnythingFits(r, a, amount) == TRUE                           \* SLIP

Fits(r, a, amount) == balance[a] + delta[r][a] + amount \in Money

\* accounts.update with increment or decrement: fails when no row matches or
\* when the result does not fit the column, else waits for the row.
PostTo(r, a, matches, amount, next) ==
    \/ /\ ~matches
       /\ Rollback(r)
    \/ /\ matches
       /\ Blockers(r) = {}
       /\ ~Fits(r, a, amount)
       /\ Rollback(r)
    \/ /\ matches
       /\ Blockers(r) = {}
       /\ Fits(r, a, amount)
       /\ delta' = [delta EXCEPT ![r][a] = @ + amount]
       /\ wAcc' = [wAcc EXCEPT ![r] = @ \cup {a}]
       /\ Goto(r, next)
       /\ UNCHANGED <<database, locals, sAcc, wRow, history>>

SkipOrphans(r) ==                                            \* SLIP
    /\ pc[r] = "reverse"
    /\ LET a == OwnAccount(snap[r])
           next == IF op[r].kind = "updateTxn" THEN "write" ELSE "remove"
       IN  \/ /\ a = None
              /\ Goto(r, next)
              /\ UNCHANGED <<database, locals, pending, history>>
           \/ /\ a # None
              /\ PostTo(r, a, a \in accounts, -Signed(snap[r]), next)

\* Take the old row back from its account; delete also asks for an account of
\* the same user, update does not.
ReverseAccount(r) ==
    /\ pc[r] = "reverse"
    /\ LET a == OwnAccount(snap[r]) IN
       PostTo(r, a,
              a \in accounts /\ (op[r].kind = "deleteTxn" => owner[a] = op[r].user),
              -Signed(snap[r]),
              IF op[r].kind = "updateTxn" THEN "write" ELSE "remove")

WriteTxn(r) ==
    /\ pc[r] = "write"
    /\ LET t == target[r]
           d == Effective(op[r].dto, snap[r])
           fk == {d.creditTo, d.debitFrom} \ {None, Absent}
           valid == /\ NewIsCredit(op[r].dto, snap[r])
                          => NewCategory(op[r].dto, snap[r]) = "Income"
                    /\ t \in rows
       IN  \/ /\ ~valid
              /\ Rollback(r)
           \/ /\ valid
              /\ Blockers(r) = {}
              /\ ~(fk \subseteq accounts)
              /\ Rollback(r)
           \/ /\ valid
              /\ Blockers(r) = {}
              /\ fk \subseteq accounts
              /\ newRow' = [newRow EXCEPT ![r] = Merge(row[t], d)]
              /\ wRow' = [wRow EXCEPT ![r] = {t}]
              /\ sAcc' = [sAcc EXCEPT ![r] = fk]
              /\ Goto(r, "apply")
              /\ UNCHANGED <<database, op, target, snap, delta, wAcc, history>>

RemoveTxn(r) ==
    /\ pc[r] = "remove"
    /\ LET t == target[r] IN
       \/ /\ t \notin rows
          /\ Rollback(r)
       \/ /\ t \in rows
          /\ Blockers(r) = {}
          /\ wRow' = [wRow EXCEPT ![r] = {t}]
          /\ Goto(r, "commit")
          /\ UNCHANGED <<database, locals, delta, wAcc, sAcc, history>>

\* Post the new row; an update without any account id throws.
ApplyAccount(r) ==
    /\ pc[r] = "apply"
    /\ PostTo(r, PostAccount(r), PostAccount(r) \in accounts, PostAmount(r), "commit")

\* How a commit can part a row from the balances: it undid a row that was no
\* longer the current one, or it left the row without the account it posted to.
Drifts(r) ==
    \/ op[r].kind \in {"updateTxn", "deleteTxn"} /\ snap[r] # row[target[r]]
    \/ op[r].kind = "updateTxn" /\ OwnAccount(newRow[r]) = None

Commit(r) ==
    /\ pc[r] = "commit"
    /\ balance' = [a \in AccountIds |-> balance[a] + delta[r][a]]
    /\ row' = [row EXCEPT ![target[r]] =
                  IF op[r].kind = "deleteTxn" THEN None ELSE newRow[r]]
    /\ effect' = [effect EXCEPT ![target[r]] =
                     [a \in AccountIds |-> @[a] + delta[r][a]]]
    /\ drifted' = IF Drifts(r) THEN drifted \cup {target[r]} ELSE drifted
    /\ Goto(r, "done")
    /\ Release(r)
    /\ UNCHANGED <<owner, key, usedAcc, usedTxn, opening>>

-----------------------------------------------------------------------------
(* Account handlers: statements of their own, no transaction around them.  *)

NoUniqueKey(k, a) == FALSE                                   \* SLIP
KeyTaken(k, a) == \E b \in accounts \ {a} : key[b] = k

AccCheck(r) ==      \* isDuplicateAccount
    /\ pc[r] = "accCheck"
    /\ IF KeyTaken(op[r].dto.key, None)
       THEN Rollback(r)
       ELSE Goto(r, "accInsert") /\ UNCHANGED <<database, locals, pending, history>>

AccInsert(r) ==
    /\ pc[r] = "accInsert"
    /\ \/ /\ KeyTaken(op[r].dto.key, None)      \* unique constraint
          /\ Rollback(r)
       \/ \E a \in AccountIds \ usedAcc :
             /\ ~KeyTaken(op[r].dto.key, None)
             /\ usedAcc' = usedAcc \cup {a}
             /\ owner' = [owner EXCEPT ![a] = op[r].user]
             /\ key' = [key EXCEPT ![a] = op[r].dto.key]
             /\ balance' = [balance EXCEPT ![a] = op[r].dto.amount]
             /\ opening' = [opening EXCEPT ![a] = op[r].dto.amount]
             /\ Goto(r, "done")
             /\ Release(r)
             /\ UNCHANGED <<row, usedTxn, effect, drifted>>

AccFind(r) ==
    /\ pc[r] = "accFind"
    /\ IF owner[op[r].id] = op[r].user
       THEN Goto(r, "accWrite") /\ UNCHANGED <<database, locals, pending, history>>
       ELSE Rollback(r)

\* The amount, when sent, overwrites the balance.
AccWrite(r) ==
    /\ pc[r] = "accWrite"
    /\ LET a == op[r].id
           k == Keep(op[r].dto.key, key[a])
           m == Keep(op[r].dto.amount, balance[a])
       IN  \/ /\ a \notin accounts
              /\ Rollback(r)
           \/ /\ a \in accounts
              /\ Blockers(r) = {}
              /\ KeyTaken(k, a)
              /\ Rollback(r)
           \/ /\ a \in accounts
              /\ Blockers(r) = {}
              /\ ~KeyTaken(k, a)
              /\ key' = [key EXCEPT ![a] = k]
              /\ balance' = [balance EXCEPT ![a] = m]
              /\ opening' = [opening EXCEPT ![a] = @ + m - balance[a]]
              /\ Goto(r, "done")
              /\ Release(r)
              /\ UNCHANGED <<owner, row, usedAcc, usedTxn, effect, drifted>>

AccDelFind(r) ==    \* the controller looks for the account of any user
    /\ pc[r] = "accDelFind"
    /\ IF op[r].id \in accounts
       THEN Goto(r, "accDelete") /\ UNCHANGED <<database, locals, pending, history>>
       ELSE Rollback(r)

AccDelete(r) ==
    /\ pc[r] = "accDelete"
    /\ LET a == op[r].id IN
       \/ /\ owner[a] # op[r].user
          /\ Rollback(r)
       \/ /\ owner[a] = op[r].user
          /\ Blockers(r) = {}
          /\ owner' = [owner EXCEPT ![a] = None]
          /\ key' = [key EXCEPT ![a] = None]
          /\ balance' = [balance EXCEPT ![a] = 0]
          /\ opening' = [opening EXCEPT ![a] = 0]
          /\ row' = [t \in TxnIds |-> IF t \in rows THEN Detached(row[t], a) ELSE None]
          /\ Goto(r, "done")
          /\ Release(r)
          /\ UNCHANGED <<usedAcc, usedTxn, effect, drifted>>

-----------------------------------------------------------------------------
Step(r) == \/ InsertTxn(r) \/ FindTxn(r) \/ ReverseAccount(r) \/ WriteTxn(r)
           \/ RemoveTxn(r) \/ ApplyAccount(r) \/ Commit(r)
           \/ AccCheck(r) \/ AccInsert(r) \/ AccFind(r) \/ AccWrite(r)
           \/ AccDelFind(r) \/ AccDelete(r)

Next == \E r \in Requests :
           Receive(r) \/ Step(r) \/ Abort(r) \/ DeadlockVictim(r)

Spec == Init /\ [][Next]_vars

\* Clients that wait for the answer to one change of a row before they send
\* the next; calls on other rows and on accounts still interleave.
RowCalls == {r \in Requests : Running(r) /\ op[r].kind \in {"updateTxn", "deleteTxn"}}

OneCallPerRow == \A r, q \in RowCalls : target[r] = target[q] => r = q

SerialSpec == Init /\ [][Next /\ OneCallPerRow']_vars

\* Node runs every continuation it is given and Postgres answers every
\* statement that does not wait, and breaks every deadlock; clients need not call.
Fairness == /\ \A r \in Requests : WF_vars(Step(r))
            /\ WF_vars(\E r \in Requests : DeadlockVictim(r))

FairSpec == Spec /\ Fairness

-----------------------------------------------------------------------------
(* Properties.                                                             *)

TypeOK ==
    /\ owner \in [AccountIds -> Users \cup {None}]
    /\ key \in [AccountIds -> Keys \cup {None}]
    /\ balance \in [AccountIds -> Money]
    /\ row \in [TxnIds -> Row \cup {None}]
    /\ usedAcc \subseteq AccountIds /\ usedTxn \subseteq TxnIds
    /\ pc \in [Requests -> Steps]
    /\ op \in [Requests -> Operations \cup {None}]
    /\ target \in [Requests -> TxnIds \cup {None}]
    /\ snap \in [Requests -> Row \cup {None}]
    /\ newRow \in [Requests -> Row \cup {None}]
    /\ delta \in [Requests -> [AccountIds -> Int]]
    /\ wAcc \in [Requests -> SUBSET AccountIds]
    /\ sAcc \in [Requests -> SUBSET AccountIds]
    /\ wRow \in [Requests -> SUBSET TxnIds]
    /\ opening \in [AccountIds -> Int]
    /\ effect \in [TxnIds -> [AccountIds -> Int]]
    /\ drifted \in SUBSET TxnIds

\* Every transaction row points at accounts that exist and at no more than one
\* of them, whatever updates, account deletions and rollbacks interleave.
RowsPointAtLiveAccounts ==
    \A t \in rows :
       /\ {row[t].creditTo, row[t].debitFrom} \subseteq accounts \cup {None}
       /\ None \in {row[t].creditTo, row[t].debitFrom}

\* What the committed create, update and delete calls on a row have together
\* done to a live account is what the row now says (nothing once it is
\* deleted), unless one of them committed against a row version that had been
\* replaced or left the row without the account it posted to.
EffectMatchesRow ==
    \A t \in TxnIds \ drifted, a \in accounts :
       effect[t][a] = IF row[t] = None THEN 0 ELSE Contribution(row[t], a)

\* The balance of every live account is its opening amount plus the rows
\* attached to it: what the reversal and the posting in updateTransaction and
\* deleteTransaction are for.
BalanceIsOpeningPlusRows ==
    \A a \in accounts : balance[a] = opening[a] + Posted(row, a)

\* The same for as long as no commit has drifted.
BalanceExactUntilDrift == drifted = {} => BalanceIsOpeningPlusRows

\* A committed credit is income, has no debit side, and a debit has no credit
\* side: what create and update validate.
RowsAreValid ==
    \A t \in rows :
       /\ row[t].type = "Credit" => row[t].category = "Income"
       /\ row[t].type = "Credit" => row[t].debitFrom = None
       /\ row[t].type = "Debit" => row[t].creditTo = None

\* The ledger implements its promise, when the calls on a row do not overlap:
\* every commit moves the balances by exactly what it changes of the rows,
\* though it read the row some statements earlier and accounts came and went
\* meanwhile.
Promise == INSTANCE LedgerPromise
PromiseIsKept == Promise!Spec

\* No two accounts have the same number at the same bank, though the check
\* for duplicates and the insert are separate statements.
KeysAreUnique ==
    \A a, b \in accounts : a # b => key[a] # key[b]

\* Every call that was received ends, also when calls wait for each other in
\* a circle.
CallsEnd == \A r \in Requests : Running(r) ~> ~Running(r)

=============================================================================
