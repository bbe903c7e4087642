# Verification of the personal finance tracker

A NestJS server over one Postgres database (Prisma), with an in-memory cache,
a BullMQ mail queue on Redis and files on disk. Paths below are relative to the
repository's root.

## 1. The system

| component | state | operations that change it | talks to |
|---|---|---|---|
| Accounts (`src/accounts`) | table `account`, unique (number, bank) | create (check, insert), partial update (find, update), delete (find, delete) | Postgres |
| Transactions (`src/transactions`) | table `transaction`, and the balances of `account` | create, update, delete, each one interactive transaction | Postgres |
| One-time codes (`src/otp`) | table `otp`, one row per (transport, address) | send, verify: read, decide, write | Postgres, mail queue, SMS |
| Access guard (`src/common/guards`) | cache entry per user, 5 minutes | validate, before every guarded request | user table, cache |
| Response cache (`src/app-cache.interceptor.ts`) | cache entry per URL (per user for `/me`), default time to live | every GET | cache |
| Users (`src/users`) | tables `user`, `user_meta`, image files | create, Google login, profile, image, passwords, status | Postgres, Otp, Storage |
| Registration, password reset (`src/auth`) | none of its own | sendCode, registerUser, forgotPassword, resetPassword | Users, Otp |
| Login strategies (`src/auth/strategies`) | none of their own | local: a password of a user, else of an administrator; Google: find, link or create | Users, Admins |
| Admins (`src/admin`) | tables `admin`, `admin_meta`, image files | profile, image, password, authenticate | Postgres, Storage |
| Settings (`src/settings`) | tables `user_setting`, `system_setting` | update of one setting | Postgres |
| System settings (`src/system`) | none of its own | updateSettings: a batch of updates | Utilities, Settings |
| Storage (`src/common/providers`) | files on disk | upload, move, remove, rename | file system |
| Utilities (`src/common/providers`) | none | retry loops, worker pool | |
| Mail queue (`src/mail`, `src/queue`) | jobs in Redis | send, process | Redis, SMTP |

There is one Node process: handlers run in turns and interleave at every
`await`. So two requests meet where one awaits the database, the cache or a
file, and the hard behaviours are those of statements that interleave: values
read in one statement and used in a later one, checks followed by an insert,
transactions that lock rows in different orders, rollbacks, caches that outlive
what they copy, and clocks. `PROJECT.json` lists the places, each with the
properties that watch it. Beside the requests work the loops of a batch, the
retry helpers and the workers of the mail queue, which outlives the process.

What makes the components correct:

* Accounts and transactions: the balance of an account is what it was opened
  or set to plus the transactions that name it; a transaction names one
  account, which exists; no call is left waiting for ever.
* One-time codes: the numbers of codes sent and of wrong guesses are limited;
  a block lasts as long as it should and ends.
* Guard and response cache: what the caches say is out of date for a bounded
  time only.
* Users and administrators: email, mobile, username and Google id belong to one
  of them; a user appears with proved addresses only; a password changes only
  after a code or the old password was presented; what an administrator changes
  is changed all or not at all.
* Profile images: the image a row names exists, and only its person's requests,
  or a move of a directory it is in, take it away; no image is left without a
  row. The code does not keep all of this; the properties say how far it does.
* Settings: what was accepted as a selection is shown as it was selected.
* Retry helpers and worker pool: as many calls as promised, every element once,
  an answer that is true.
* Mail queue: a code is mailed once, again only after a crash; the last mail
  holds the code that counts; no job stays for ever.

## 2. Modules

| module | models | extends / uses |
|---|---|---|
| `TransactionRows` | what a transaction row is worth to an account, and what deleting the account leaves of it | |
| `LedgerPromise` | the abstract ledger: a row and the balances change in one step | `TransactionRows` |
| `Ledger` | AccountsService, TransactionsService and their controllers' checks, one SQL statement per step, with locks, rollback and deadlocks | `TransactionRows`, `LedgerPromise` (as `Promise`) |
| `MCLedger` | databases and calls for TLC | `Ledger` |
| `SumTheorems` | laws of the sum over a finite set, for the proofs | |
| `LedgerProofs` | proofs about `Ledger`, that it keeps the promise among them | `Ledger`, `SumTheorems` |
| `Otp` | OtpService.send and verify | |
| `OtpProofs` | proofs about `Otp` | `Otp`, `TLAPS` |
| `RequestPath` | AccessGuard, AppCacheInterceptor and CacheInterceptor, UsersService.setStatus | |
| `MCRequestPath`, `RequestPathProofs` | symmetry for TLC; proofs | `RequestPath` |
| `Users` | UsersService, AdminService, AuthService and the login strategies: keys, rows, passwords | |
| `MCUsers`, `UsersProofs` | three users, an administrator and their calls for TLC; proofs | `Users` |
| `ProfileImages` | updateProfileImage of users and administrators, and StorageService, over a tree of files and directories | |
| `MCProfileImages`, `ProfileImagesProofs` | an instance for TLC; proofs | `ProfileImages` |
| `ForEach` | the abstract worker pool: every element once, at most so many at a time | |
| `Batch` | UtilsService.batchable | `ForEach` (as `Each`) |
| `Settings` | SettingsService: validation, storing and listing of selections | |
| `SystemSettings` | SystemService.updateSettings: a batch of updates of settings | `Batch`, `Settings` |
| `Retry` | the other loops of UtilsService | |
| `CodeMail` | OtpService.sendCodeOnTarget, MailService, MailProcessor and the queue | |
| `Cents` | the rounding of amounts to two decimals in rows and balances | |
| `CodeMailProofs` | proofs about `CodeMail` | `CodeMail`, `TLAPS` |
| `MCBackground` | the smaller parts, which share no state, for one run of TLC | `SystemSettings`, `Retry`, `CodeMail`, `Cents` |
| `BackgroundProofs` | proofs about the smaller parts: that the batch implements `ForEach`, and that the system settings run on the batch, among them | `MCBackground`, `CodeMailProofs`, `SumTheorems` |

Some definitions are marked `SLIP`. They are no part of the model: each is a
variant of the definition after it with a mistake such code invites (a dropped
sign, a check against the wrong field), and replacing the one by the other makes
one of the properties fail. `PROJECT.json` pairs them under "mutants".

### Ledger

`Requests` is the set of HTTP calls; each is received once, runs through the
statements of its handler and is `done` or `failed`. `pc[r]` names the
statement that comes next: `insert`, `apply`, `commit` for createTransaction;
`find`, `reverse`, `write`, `apply`, `commit` for updateTransaction; `find`,
`reverse`, `remove`, `commit` for deleteTransaction; two statements of their own
for each account call. `snap[r]` is the row `findUnique` returned, `newRow[r]`
and `delta[r]` are what the transaction has written and not yet committed,
`wAcc`, `sAcc` and `wRow` are its row locks.

What the database does is modelled by what the code relies on: a plain read
sees the last committed row and takes no lock; UPDATE and DELETE wait for and
take the row's lock until the end of the transaction, and see the row as it
then is; the foreign key of a written row takes a shared lock that a delete of
the account, or a change of its unique key, waits for; deleting an account
writes every row attached to it; of requests that wait for each other in a
circle one is aborted. A transaction may be aborted at any statement (its 5 s
limit, a lost connection, the end of the process).

Amounts are whole numbers between plus and minus `MaxBalance`; every category
but Income is `Expense`; a DTO field is a value, null or `Absent`, for these
three take different ways through the code. Left out: names and types of
accounts, dates, fractions of a cent (see `Cents`), and DTOs in which Prisma refuses an
explicit null (amount, type, category), which end in a rollback of everything.

`opening`, `effect` and `drifted` are history variables that no action reads:
what an account would hold without any transaction, what the committed calls on
a row have posted to each account, and the rows some commit has treated wrongly
(it reversed a version that was no longer current, or left the row without the
account it posted to). The runs show that these two are the only ways a balance
can part from its rows.

`SerialSpec` is the same system with clients that wait for the answer to one
change of a row before they send the next; calls on other rows and on accounts
interleave as before. Under it, and if no update detaches a row (finding 2),
`PromiseIsKept` says that `Ledger` implements `LedgerPromise`, with the identity
as refinement mapping on `owner`, `key`, `balance` and `row`: every step is a step
of the promise or changes none of them.

### Cents

The DTO admits any number of decimals, the columns have two. The row gets the
rounded amount, the balance is rounded after the amount as given was added or
taken, and a reversal takes the amount of the row. One account, one call per
step: interleavings are the business of `Ledger`, which has whole amounts only.
A half cent is rounded away from zero in the row; in the balance this is the other
direction if the balance keeps the sign that is not the amount's (100.00 - 0.005 is
stored as 100.00, and the row says 0.01). So balances do part from their rows
by a cent, and `OnlyHalvesDrift` says that such half cents (`halves`, a history
variable) are the only cause, however rows are created, changed and deleted.

### Otp

A call reads the row (`FirstSend`, `FurtherSend`, `RightCode`, `WrongCode`
decide from it, as the code does, what to write) and writes in a second step
(`Create`, `Resend`, `BlockTarget`, `Matched`, `Mismatched`), which may also
fail or never happen (`Fail`). `lastSentAt` is kept as the age of the code in
ticks, up to the age at which a block is over. Codes are not kept: a guess is
right or wrong for the row it is compared with. `sent`, `wrong`, `accepted` and
`current` are history variables. `SerialSpec` is the system when calls for one
target do not overlap.

### RequestPath

A request passes the guard (`Arrive`, `ReadStatus`, then `Admit` or `Deny`)
and the cache (`Lookup`, and on a miss `Handle` and `Store`), each await a step.
`SetStatus` and `Change` are the writes that happen beside it; neither clears a
cache. Entries only expire (`Tick`). A response is known by whose data it shows
and since when these are out of date. `Delay` bounds the ticks a request may
take between reading the database and filling the cache; without such a bound
nothing limits how old a fill can be, and with it the bounds proved name it.
A list URL has one key for all users and a `/me` URL one per user, as `trackBy`
builds them. The cached `false` of the guard is read like a missing entry
(access.guard.ts:35), so the model keeps no difference.

### Users

A request stands at a statement, `at[r]`. `Path` gives for each call the first
statement and what comes after each, as the handler awaits them (a statement for a
field that is not sent is skipped); what a statement finds may end the call or
lead elsewhere. So `register` is `verify`, `freeEmail`, `freeMobile`, `insert`; a
Google login is `byGoogle`, `countEmail`, then `link` or `freeEmail` and `insert`.
A call that carries a token is received only if the person of the token has a row:
a token is handed out for a row, and no code deletes one. An administrator may
name a user who is not there; then the update finds no row and fails. `self[r]` is
the person a request works on, `draft[r]` what the transaction of
updateProfileDetailsByAdministrator has written: its checks run outside of it, on
committed rows, as they do in the code. A row stands for the rows of `user` and
`user_meta` (or `admin` and `admin_meta`). A write waits for a transaction that
holds its row or one of its keys, and ends as `conflict` if a unique index refuses
it.

Addresses exist as typed and in lower case, for `email` is compared and stored
in lower case and everything else as it is typed. A username the pattern of
isValidUsername refuses is the one value `BadName`; the pattern admits no capitals,
so that storing a valid name in lower case changes nothing. null and a missing field are
told apart: explicit nulls pass the DTOs, skip the checks and are written, but
for the email, which Prisma refuses. Hashing is left out, for equal
passwords are what the comparison of the hashes decides.

OtpService is used by its contract: a check throws, answers "wrong", or, for an
address a code was sent to, "right". Limits, time and the row of the code are
the business of `Otp`; nothing here is assumed of them. Both checks of a
registration are one step, which loses no behaviour, since neither changes
anything kept here and the code goes on only when both have answered.

What the model shows without a property, since nothing promises otherwise:
resetPassword asks for both codes if both addresses are given and looks at the
answer for the email only; a wrong mobile code passes. authenticate compares
`!validation` with null, so that an unknown address is not refused there; it is
reached only if the administrator's address changes between two reads.

`overtaken` is a history variable, the requests that name a row which another
request has written meanwhile. Several properties hold but for these.

### ProfileImages

`pc[r]` is the statement of updateProfileImage or of the StorageService method it
is in: `read`, `update` (which opens the transaction and locks the row), `findOld`
and `unlink` of removeFile, `findNew`, `makeDir` and `rename` of move, `commit`.
`open[r]` is the database transaction: it may run into its limit at any time
(`Expire`), and the callback, with its file operations, goes on until it next
uses it.

A path is the sequence of its components below the storage directory, and `disk`
the set of the paths that exist, of files and directories. Uploads lie in the
storage directory itself, beside `user` and `admin`, which hold the directories of
profile images. The client names what is moved: a file it has uploaded, one of
another person, the one its row already holds (then the file is removed, move
finds nothing and the call fails), but also a directory, or a path in one.
move asks of it only that it exists. So a request that names `admin` moves that
directory with every image in it to `user/profile/admin`, commits, and the rows of
administrators name files that are no longer there; `user` in a request of an
administrator does the same to the users' images. `CanRename` is what the file
system asks for, which leaves this possible, but not the move of a directory
into itself: a request that names its own kind's directory fails. So do the
removal of an old "image" that is a directory (unlink refuses it) and a rename
whose target directory has been moved away after it was made.

`spoiled`, `leaked` and `taken` are history variables: people whose image a failed
request has removed, files that no request will remove, and paths a move has
taken away. The three kinds of damage happen in the model and in the code, since
files are not rolled back with the row and directories can be named; the
properties say that there is no other: `ImagesExist` and `ImagesAreNamed` up to
this damage, and `PeersNeverRemove`, for any names, that a user's image is never
taken away by another user, nor an administrator's by another administrator, and
that one of the other kind takes it only with a move that names it or a directory
it is in. From this it follows, and is proved as `OwnersRemove`, that nobody but
the person takes an image away where clients name files only (`NamesAreFiles`),
which is all the controllers have in mind.

Names that lead out of the storage directory (`..`) are not modelled: there the
answer depends on what else the machine holds.

### Batch, ForEach, Settings, SystemSettings

A loop of batchable runs alone between two awaits, so storing a result and taking
the next element is one step. `at[w]` is the element a loop awaits, `answer` what
the caller of Promise.all has. `ForEach` is the promise: an element is waiting,
running, finished or failed. The refinement mapping computes that state from the
index, the loops and the results. When one element fails, the answer is there at
once although the comment at `utils.service.ts:289` speaks of waiting for all:
the others go on and write after it, which `Return` allows in every state.

`Settings` has the two tables and, as operators, what updateUserSetting and
updateSystemSetting store and what mapSettings shows. A text becomes the id of
an option by `Number`, a constant in which several texts may mean one id; a list
shows the ids that are options (`HasOptions`, `OptionsOf`).
`SystemSettings` runs updateSystemSetting as the function of the batch, with the
read and the write as two steps, beside calls of updateUserSetting (which has no
caller in `src` and stands for one to come). Sub settings and settings of
the other context can be stored and are never listed; `SelectionsAreShown` is
about those that are.

### Retry

One of four loops runs: a call of the function, then its return, a throw, or a
sleep. Delays are counted in halves of the base delay, since the first
exponential delay is half of it (`2 ** (attempt - 2)`, first with attempt 1);
`Power` is the power of two, as a recursive function the provers can unfold.
The value waitUntilValue waits for is a parameter: nothing changes it in the loop,
so that it returns at once or never. `MaxCalls` bounds how far the endless loops
are followed.

### CodeMail

Codes are numbered in the order of their generation, and each code is also its
job. A code is written to the row (`Send`), its job is on its way (`adding`), in
the queue (`waiting`) or with a worker (`active`, at `render`, `send` or `finish`).
Adding may fail, which OtpService swallows; a step of a job may throw, which ends
the job, since the options of the queue name no attempts; the process may end
(`Crash`): what it was adding is lost, and BullMQ gives each job its workers had
to another one, once (`stalls`). When a code may be sent is the business of
`Otp`; here it may be sent at any time. `crossed` is a history variable: addresses
that had two jobs under way at a time or lost one.

## 3. Runs

| run | specification | instance | states | shows |
|---|---|---|---|---|
| `ledger_race` | `Spec` | 3 requests, 1 row, 2 accounts and a spare id, 19 calls of every kind, also for a foreign user | 657 k | types; a row points at one live account; what was posted for a row is what it says; balances are exact until a commit drifts |
| `ledger_serial` | `SerialSpec` | 3 requests, 2 rows of opposite type on 2 accounts, 24 calls, 2 spare account ids, 3 keys | 346 k | exact balances, valid rows, unique keys, `LedgerPromise` |
| `ledger_live` | `FairSpec` | 3 requests, 2 rows, moves that lock 2 accounts in both orders | 62 k | every received call ends |
| `ledger_drift` | `Spec` | 2 requests, 7 updates of one row | violated | finding 1 |
| `ledger_detach` | `Spec` | 1 request | violated | finding 2 |
| `otp_serial` | `SerialSpec` | 2 calls, 1 target, limits 3 and 3, Timeout 1, BlockTimeout 3 | 2 k | limits and block when calls do not overlap, with failures |
| `otp_race` | `FairSpec` | 2 calls, 1 target, limits 2 and 2 | 157 k | types, no count steps over its limit, blocks end |
| `otp_guesses` | `Spec` | the same | violated | finding 3 |
| `request_path` | `Spec` | 2 requests, 2 users, times to live 2 and 1, Delay 1, symmetry of users and requests | 1.8 M | how old cache entries can be |
| `users` | `Spec` | 3 requests (symmetric), 3 users of whom one may appear, 1 administrator, 26 calls of every kind that meet in their keys | 829 k | unique keys, what an index may refuse, who may appear, why a password changes, all-or-nothing of the administrator, whom a login lets in |
| `profile_images` | `Spec` | 3 requests (symmetric), 2 users and 1 administrator, 3 files; the names are a file, the directories `user` and `admin`, and `admin/profile/f3` | 1.8 M | types; the files rows name and the files no row names, when files are removed and directories are moved; who takes an image away |
| `background` | `Spec` | batches of 3 updates out of 8 with 2 loops; 2 retries, timeout 2, 5 calls; 3 codes of 2 addresses, 2 workers; 5 changes of 2 rows by 5 amounts, 3 opening balances | 141 k | types, `ForEach`, true answers, stored and shown selections, calls and delays, mails once and in the end the right one, jobs end, drift by half cents only |

Why the bounds are enough: a balance parts from its rows through two requests on
one row, and a third one lets an account disappear or a deadlock form meanwhile;
amounts 1 and 2 tell "old" from "new" and a lost sign from a kept one, and
`MaxBalance` is low enough to be hit. In Otp the targets do not influence each
other, so one is enough; two calls are the smallest overlap, and limits of 2 and 3
separate "first", "last" and "between". In RequestPath two requests are needed to
overwrite each other's entry and two users to share a list entry. In Users the
conflicts are between two requests over one key, and a third one changes the row,
or takes the address, between the two; the calls share every key in both cases of
spelling. In ProfileImages two requests race for one person's image while a third
names the same file or a directory, and three files are the old images of both
kinds and a new one, which is not there before it is uploaded. With directories, one request brings an image, another moves the
directory it is in, of either kind, and a third goes on below it, or fails
because it is gone; `admin/profile/f3` is a file that a path in a directory names,
once it is in its place. One new file does: a file is moved once only by its own
name, and an overlapping request that names a directory leaves it behind. In the batch three elements and two loops are the least with which
one loop takes a second element while the other still works, and one loop is left
after a throw. In CodeMail two addresses with three codes have a resend and a
bystander, and two workers overtake each other. In Cents the balance crosses zero
in both directions, with amounts of both signs that have a half, another fraction
or none. The four parts of `background` share no variable: a behaviour is one of a
single part, which the variable `part` names, so that their states add up and do
not multiply. The theorems of section 4 hold for all sizes.

The Ledger runs do not check for deadlock of the model: a request is received
once, so a behaviour ends when all have been answered. Requests that wait for
ever are what `CallsEnd` is about. The same holds for `users` and
`profile_images`; in `background` a batch and a loop end, and so do the codes.

Fairness. `Ledger`: each request that can run its next statement continuously
does so (Node resumes a continuation, Postgres answers a statement that does not
wait), and Postgres breaks a deadlock that persists (`deadlock_timeout`). No
client has to call and nothing has to be aborted otherwise. `Otp`: time
passes, a handler that is run again and again has its write succeed at some time
(strong fairness, for a failing statement disables it), and somebody keeps asking
for codes: the block is only lifted by the next send, so without requests it
rightly stays. `CodeMail`: the workers go on working (weak fairness of `Work` as
a whole, which is what one worker that takes its next turn gives); sends, failures
and crashes need not happen, and a job is queued again after a crash once only.

### Findings

1. `ledger_drift`: overlapping updates or deletes of a row reverse the same old
   version twice; the balance is wrong from then on. `transactions.service.ts:155`
   reads without a lock, `:169` relies on it.
2. `ledger_detach`: an explicit null account without a type leaves a row without
   account while its amount stays posted to the old one
   (`transactions.service.ts:200`).
3. `otp_guesses`: overlapping checks of wrong codes are counted once, and one of
   them can take back the block another has set (`otp.service.ts:359-364`).

## 4. Proofs

All proofs are checked by TLAPS to the last leaf. They assume what the modules
assume of their constants, which TLC evaluates in every run:

* values that stand for "null", "not sent" and "no row" (`None`, `Absent`,
  `NoRow`, `NoAmount`, `BadName`) are none of the values they are told apart from;
* limits and durations are natural numbers, positive where the code needs it
  (`LimitsAssumption`, `DurationsAssumption`, `RetryAssumption`; at least one loop
  and one worker in `BatchAssumption`, `MailAssumption`);
* the tables are finite (`TxnIds`, `RowIds`), which a sum over them asks for;
* the database that is found is one the code leaves behind: consistent balances
  (`InitialAssumption`), keys held once and administrators with a row (Users),
  no image shared by two people, and names below the storage directory
  (`ImagesAssumption`), opening balances in whole
  cents (`CentsAssumption`);
* what is sent has the shape of its DTO. In `UpdatesAssumption` this is asked of the
  updates of a known setting only; an unknown one is refused by the handler.

**LedgerProofs**, for every set of requests, users, accounts, rows and calls and
every consistent database:

* `TypesAreKept`: `Spec => []TypeOK`, which includes that no balance leaves the
  range of Decimal(12,2);
* `RowsKeepLiveAccounts`: `Spec => []RowsPointAtLiveAccounts`;
* `RowsArePostedOnce`: `Spec => []EffectMatchesRow`;
* `AccountKeysAreUnique`: `Spec => []KeysAreUnique`, from the unique index that
  the statements themselves meet: the check that precedes them is not used;
* `BalancesAreExactUntilDrift`: `Spec => []BalanceExactUntilDrift`;
* `RowsStayValid`: `SerialSpec => []RowsAreValid`;
* `LedgerKeepsItsPromise`: `SerialSpec => PromiseIsKept`, the refinement, and
  `BalancesAreExact`: `SerialSpec => []BalanceIsOpeningPlusRows`, both under
  `NoDetaching`.

`NoDetaching` says that no update sends null for an account without naming a type.
Finding 2 is such an update, and without the hypothesis both theorems are false;
the calls of `ledger_serial` satisfy it. Calls on other rows and on accounts still
interleave with those on a row.

The first three are not inductive alone. `IInv` adds: the exclusive locks of two
requests are disjoint, locked accounts and rows exist, and a pending change is
covered by a lock and fits the column (`LockInv`); ids in use were handed out and
nothing was ever posted to an account id that was not (`UsedInv`); a row
inserted and not yet committed is known to its request only (`FreshInv`); a
request stands where its kind of call can stand and has read a row that is one
(`KindInv`); and what it has pending is what its statements up to here have
computed, while the account its new row names is held by its lock
(`PendingInv`). The last is the heart of it: a commit moves `delta` into the
balances and `newRow` into the table, and only if the two belong together does
`effect` still match the row. `UpdatePosts` is the arithmetic of that: what an
update posts is what the row is worth after it, unless the update detaches it.

The balances need a sum over all rows. `ConservationInv` says that a live account
holds its opening amount and the sum of what was ever posted to it (`effect`); it
holds under `Spec`, drift or no drift, and with `EffectMatchesRow` it gives
`BalanceExactUntilDrift`: while nothing has drifted, what was posted for a row is
what it says. The laws of the sum (`SumTheorems`: it exists, splits off any
element, and changes by what one addend changes) concern a recursive
function on finite sets, and the induction theorems of the library cannot be
instantiated here. They are proved by a minimal counterexample instead: of the
subsets that break a law one is minimal, by the well-founded order on the subsets of
a finite set, and removing its chosen element gives a smaller one that keeps it.

`SerialInv` is what waiting clients give: a row that was read is current until its
request ends, or gone with its account, and in that case the reversal that comes
next finds nothing; once the reversal is done the account is locked, so that the row can
no longer be touched by its deletion. From that a row that is written is valid, for
it was merged into a valid one (`MergeIsValid`), and a commit takes back exactly
what the row had posted (`CommitReplaces`), which is a step of the promise.

**OtpProofs**, for all limits, durations, targets and calls:

* for any interleaving (`IInv`: what a call at its second statement has read):
  `TypesAreKept`, `RetriesNeverPassTheLimit`;
* for calls that do not overlap on a target (`SerialInv`: the row and the
  history agree except for the one call under way, whose copy is the row as it
  is): `GuessesAreAlwaysLimited`, `SendsAreAlwaysLimited`, `VerifiedIsAccepted`,
  and the action property `BlocksLast`.

**RequestPathProofs**, for all users, requests and durations: `TypesAreKept`,
`ResponsesStayRecent`, and the action property `BlocksTakeEffect`. `IInv` is a
conservation argument: since a block, or a change of data, each tick has taken
as much from the entry as it added to its age, but for the ticks the request
took to make the entry.

**ProfileImagesProofs**, for all people, files and requests and any set of names
below the storage directory, directories and paths in them included:

* `TypesAreKept`, `ImagesAlwaysExist`, `ImagesStayNamed`;
* the action property `PeersKeepAway`: `Spec => PeersNeverRemove`;
* `OwnersRemove`: `Spec => OnlyOwnersRemove`, that nobody but the person takes an
  image away, if clients name files only (`NamesAreFiles`). The hypothesis is needed: with `admin` among the names a user's
  request takes the administrators' images away.

The heart of `IInv` is that a file belongs to one person (`HomeInv`): to the one
whose row names it or named it when a request read it, or whose request moved it.
Nobody else can have moved a file by the same name, because each move takes it
deeper: once it is held under the name `n` it is on no path as short as `n` again
(`Gone`), though moves of directories may carry it on. This takes that a file is
in one place and was uploaded before (`FilesInv`), and that no directory of profile
images lies below itself (`Apart`), from which it follows that what can be moved
is never beside the directory it is moved to: hence a user cannot take a user's
image away (`MovesFromElsewhere`). A request that is about to commit has its file
in place, unless a move has taken it on, and nobody else is about to remove it
(`FreshInv`). For the files no row names, `GoneInv` adds that a request past the
removal knows that the old file is gone, and stays so (`StaysGone`).

**UsersProofs**, for all people, calls, addresses and requests in flight:

* `TypesHold`, `KeysStayUnique`, `AddressesAreProved`;
* the action properties `ConflictsAreOvertaken`, `TransactionsAreAtomic`,
  `PasswordsAreBacked` and `LoginsAreDecided`.

They share three invariants. `CallsInv`: a statement of a call determines what the
call knows there (`Stands`: which fields it carries, on whom it works, which addresses
it has proved; `HasRow`: when that person must have a row), and an open transaction
has written what its call asks for so far and nothing else (`DraftOf`). This holds whatever others
do, and it gives the properties of passwords, addresses and transactions.
`KeysInv`: no two rows share a key, and what a transaction has written and not yet
committed is held by no row and no other transaction (`DraftsApart`), since a
write that would meet it waits. `FactsInv`: what the reads of a request have told it
about the rows (`Told`: this address is free, this row has this address) is still
true unless the request is `overtaken`; so only an overtaken request can meet a
unique index, and only an overtaken login can let in somebody its password does not
belong to. `FactsInv` needs the other two, for a fact is about rows that a
commit, not only a single statement, may change.

**BackgroundProofs**, each part for all values of its constants:

* Batch, for any number of elements and any batch size: `BatchTypesAreKept`,
  `AnswersStayTrue` and `BatchImplementsForEach`, the refinement. `BatchInv` says
  that the loops hold different elements, below the index and not stored
  (`HoldsInv`), and what a loop that is over implies for the index and the answer
  (`EndsInv`). That the loops that run have different numbers up to the batch size,
  as the promise's initial states ask, is given by the loops themselves.
* SystemSettings, for any definitions of settings and any requests:
  `SystemRunsOnBatch`, `SystemSpec => BatchSpec`, so that what is proved of the batch
  holds of the handler that runs on it; `ResolvedIsAlwaysStored`, by an invariant
  (`SystemInv`) which says that an item whose write comes next has passed the checks
  and that the setting of an item that is done holds what some item for it selects;
  and `SelectionsAreAlwaysShown`, by `SelectionInv`: what is stored for a setting
  with options consists of them, and a list of options is shown as it is
  (`AllOptionsAreShown`).
* Retry, for any limits and delays: `LoopsAlwaysEndRight`. `RetryInv` gives the
  attempt, the calls and the time slept at each point of each loop; the time is a power of two
  times the base delay (`PowerDoubles`). That `Power` is a function with that law is
  proved by a least counterexample on the naturals (`LeastNumber`).
* Cents, for any finite table, amounts and opening balances: `OnlyHalvesEverDrift`.
  `CentsInv` keeps the balance in whole cents and within the halves counted so far of
  the opening balance and its rows, again with `SumTheorems`.
* all parts together: `PartsKeepTheirTypes`, the type invariant of the `background`
  run, for the `Spec` it runs.

**CodeMailProofs**, for any addresses, number of codes and workers:
`MailTypesAreKept` (which includes that the queue holds no job twice and that a
worker has no job that waits), `CodesAreMailedOnce` and `LastMailsAreCurrent`.
`MailInv` counts mails against stalls by the step a job is at (`JobInv`), and says
of an address that is not `crossed` that it has one job at most, which is its
newest code (`CurrentInv`). The lemmas on queues without repetition carry it
through a crash, which puts jobs back in any order.

Only model-checked: `CallsEnd`, `BlockEnds` and `JobsLeaveTheQueue`, for liveness
is out of reach of the prover. Every other property a passing run checks is a
theorem. TLC has also checked each inductive invariant on the instances of the
runs, but for the conjuncts with a sum of `SumTheorems`, which it cannot evaluate;
what these say it checks through `BalanceExactUntilDrift`,
`BalanceIsOpeningPlusRows` and `OnlyHalvesDrift`.

## 5. Plan

1. *(done)* Ledger with its promise, Otp, RequestPath, and their first theorems.
2. *(done)* Users: registration, Google login, profiles, passwords, logins.
3. *(done)* ProfileImages, with the theorems about who takes an image away.
4. *(done)* Batch and its promise, Settings, SystemSettings, Retry, CodeMail, Cents.
5. *(done)* Proofs about the Ledger: balances, rows, and that it keeps its
   promise when calls on a row do not overlap.
6. *(done)* Proofs about Users, ProfileImages and the background parts.
7. Open: the converse of finding 1 as a theorem (a commit that drifts was
   overtaken by another on its row), and a bound for the drift of `Cents`
   per call.

Not modelled:

* Reads that change nothing: lists and totals, profiles, URLs of images.
* Signing and checking tokens, cookies, password hashing and role checks, which
  are stateless.
* Names of images that lead out of the storage directory (`..`).
* AdminService.setStatus (no caller, and a status of one value); moveAll and
  removeDir of StorageService (no caller).
* Names, country and dial code of people, which no check reads; the wording of
  mails and SMS.
* Bootstrap, configuration, logging, filters and DTO plumbing; SMS, whose
  service does nothing; seeds and constraints scripts, which are run by hand.
