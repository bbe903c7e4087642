-------------------------------- MODULE Users --------------------------------
(***************************************************************************)
(* People: the users and the administrators, what identifies them and      *)
(* their passwords.  UsersService and AdminService with the calls of       *)
(* AuthService and the controllers that lead to them, one statement that   *)
(* is awaited per step: checks, reads and writes of other requests come    *)
(* between.  user and user_meta (admin and admin_meta) are one row here;   *)
(* they are written together but for google and password, which are meta.  *)
(*                                                                         *)
(* OtpService is used by its contract: verify throws, or answers "wrong",  *)
(* or, for an address a code was sent to, "right" (see Otp).               *)
(*                                                                         *)
(* A definition marked SLIP is not the code's: it is the one after it with *)
(* a mistake such code invites, kept to see that a property notices it.    *)
(***************************************************************************)

CONSTANTS Requests,
          Users, Admins,   \* ids; some of Users are not in use at first
          Typed, Emails,   \* addresses as typed; those in lower case
          Lower,           \* [Typed -> Emails]
          Mobiles, Names, GoogleIds, Passwords,
          BadName,         \* a username isValidUsername refuses
          None, Absent,    \* null; a field that is not there
          Calls, InitialRow, InitialSent

People == Users \cup Admins
Keys == {"email", "username", "mobile", "google"}
Row == [email: Emails, username: Names \cup {None}, mobile: Mobiles \cup {None},
        google: GoogleIds \cup {None}, password: Passwords \cup {None}]

Columns == {"email", "username", "mobile", "password"}   \* those a transaction writes

Peers(p) == IF p \in Admins THEN Admins ELSE Users

-----------------------------------------------------------------------------
(* The calls, as the controllers pass them on.                             *)

RegisterCall == [op: {"register"}, email: Typed, mobile: Mobiles \cup {None},
                 password: Passwords]
GoogleCall == [op: {"google"}, email: Typed, google: GoogleIds]
SendCall == [op: {"send"}, email: Typed \cup {None}, mobile: Mobiles \cup {None}]
ForgotCall == {c \in [op: {"forgot"}, email: Typed \cup {None},
                      mobile: Mobiles \cup {None}] :
                 c.email # None \/ c.mobile # None}
ResetCall == {c \in [op: {"reset"}, email: Typed \cup {None},
                     mobile: Mobiles \cup {None}, password: Passwords] :
                 c.email # None \/ c.mobile # None}
ProfileCall == [op: {"profile"}, id: Users, email: Typed \cup {None, Absent},
                username: Names \cup {BadName, None, Absent},
                mobile: Mobiles \cup {None, Absent}, password: {Absent}]
AdministerCall == [op: {"administer"}, id: Users, email: Typed \cup {None, Absent},
                   username: Names \cup {BadName, None, Absent},
                   mobile: Mobiles \cup {None, Absent},
                   password: Passwords \cup {None, Absent}]
AdminProfileCall == [op: {"profile"}, id: Admins, email: Typed \cup {None, Absent},
                     username: {Absent}, mobile: {Absent}, password: {Absent}]
ChangeCall == [op: {"change"}, id: People, old: Passwords, password: Passwords]
LoginCall == [op: {"login"}, email: Typed, password: Passwords]
\* The address is filled in when the administrator's row has been read.
AuthenticateCall == [op: {"authenticate"}, id: Admins, email: Emails \cup {None},
                     password: Passwords]

Call == UNION {RegisterCall, GoogleCall, SendCall, ForgotCall, ResetCall, ProfileCall,
               AdministerCall, AdminProfileCall, ChangeCall, LoginCall,
               AuthenticateCall}

Statements == {"verify", "freeEmail", "freeUsername", "freeMobile", "byGoogle", "countEmail",
               "byEmail", "byMobile", "readAdmin", "byAdmin", "meta", "oldPassword",
               "verifyEmail", "verifyMobile", "sendEmail", "sendMobile",
               "insert", "link", "update", "setPassword", "commit"}

Given(v) == v \notin {None, Absent}
If(b, statement, other) == IF b THEN statement ELSE other

\* The statements of a call, each with the next one, unless what it finds leads
\* the call elsewhere: data.x && await this.isXExist(data.x), if (mobile), ...
Path(c) ==
    CASE c.op = "register" ->
            [start |-> "verify", verify |-> "freeEmail",
             freeEmail |-> If(Given(c.mobile), "freeMobile", "insert"),
             freeMobile |-> "insert", insert |-> "end"]
      [] c.op = "google" ->
            [start |-> "byGoogle", byGoogle |-> "countEmail", freeEmail |-> "insert",
             insert |-> "end", link |-> "end"]
      [] c.op = "send" ->
            LET mobile == If(Given(c.mobile), "freeMobile", "end") IN
            [start |-> If(Given(c.email), "freeEmail", mobile),
             freeEmail |-> "sendEmail", sendEmail |-> mobile,
             freeMobile |-> "sendMobile", sendMobile |-> "end"]
      [] c.op = "forgot" ->
            [start |-> If(Given(c.email), "byEmail", "byMobile"),
             byEmail |-> If(Given(c.mobile), "sendMobile", "sendEmail"),
             byMobile |-> "sendMobile",
             sendMobile |-> If(Given(c.email), "sendEmail", "end"), sendEmail |-> "end"]
      [] c.op = "reset" ->
            [start |-> If(Given(c.email), "byEmail", "byMobile"),
             byEmail |-> If(Given(c.mobile), "verifyMobile", "verifyEmail"),
             byMobile |-> "verifyMobile",
             verifyMobile |-> If(Given(c.email), "verifyEmail", "setPassword"),
             verifyEmail |-> "setPassword", setPassword |-> "end"]
      [] c.op \in {"profile", "administer"} ->
            LET mobile == If(Given(c.mobile), "freeMobile", "update")
                username == If(Given(c.username), "freeUsername", mobile) IN
            [start |-> If(Given(c.email), "freeEmail", username),
             freeEmail |-> username, freeUsername |-> mobile, freeMobile |-> "update",
             update |-> If(c.op = "profile", "end",
                           If(Given(c.password), "setPassword", "commit")),
             setPassword |-> "commit", commit |-> "end"]
      [] c.op = "change" ->
            [start |-> "oldPassword", oldPassword |-> "setPassword", setPassword |-> "end"]
      [] c.op = "login" -> [start |-> "byEmail", byEmail |-> "meta", byAdmin |-> "meta"]
      [] c.op = "authenticate" ->
            [start |-> "readAdmin", readAdmin |-> "byAdmin", byAdmin |-> "meta"]

-----------------------------------------------------------------------------
VARIABLES
    row,        \* the tables: a row or None for each person
    sent,       \* the addresses a code was sent to
    call, at,   \* per request: its call, and the statement it runs next
    self,       \* the person it works on, once known
    draft,      \* what its open transaction has written, or None
    proved,     \* the addresses whose code verify accepted for it
    outcome,
    overtaken   \* history, read by no action: the requests that name a row
                \* another request has written since they were received

vars == <<row, sent, call, at, self, draft, proved, outcome, overtaken>>

ASSUME ConstantsAssumption ==
    /\ Lower \in [Typed -> Emails] /\ Emails \subseteq Typed
    /\ \A e \in Emails : Lower[e] = e
    /\ Users \cap Admins = {}
    /\ None \notin People \cup Typed \cup Mobiles \cup Names \cup GoogleIds \cup Passwords
    /\ Absent \notin Typed \cup Mobiles \cup Names \cup GoogleIds \cup Passwords \cup {None}
    /\ BadName \notin Names \cup {None, Absent}
    /\ Calls \subseteq Call
    /\ InitialRow \in [People -> Row \cup {None}] /\ InitialSent \subseteq Emails \cup Mobiles
    /\ None \notin Row
    /\ \A D \in SUBSET Columns : None \notin [D -> Typed \cup Names \cup Mobiles \cup Passwords
                                                  \cup {BadName, None, Absent}]
    /\ \A a \in Admins : InitialRow[a] # None
    /\ \A p \in People : \A q \in Peers(p) \ {p} : \A f \in Keys :
          InitialRow[p] # None /\ InitialRow[q] # None /\ InitialRow[p][f] # None
             => InitialRow[p][f] # InitialRow[q][f]

Init == /\ row = InitialRow
        /\ sent = InitialSent
        /\ call = [r \in Requests |-> None]
        /\ at = [r \in Requests |-> "end"]
        /\ self = [r \in Requests |-> None]
        /\ draft = [r \in Requests |-> None]
        /\ proved = [r \in Requests |-> {}]
        /\ outcome = [r \in Requests |-> "none"]
        /\ overtaken = {}

Active(r) == call[r] # None /\ outcome[r] = "none"
At(r, statement) == Active(r) /\ at[r] = statement

\* The person of a token is there: nobody is ever deleted.
Receive(r, c) == /\ call[r] = None
                 /\ c.op \in {"profile", "change", "authenticate"} => row[c.id] # None
                 /\ call' = [call EXCEPT ![r] = c]
                 /\ at' = [at EXCEPT ![r] = Path(c).start]
                 /\ self' = [self EXCEPT ![r] = IF "id" \in DOMAIN c THEN c.id ELSE None]
                 /\ outcome' = [outcome EXCEPT ![r] =
                                  IF Path(c).start = "end" THEN "done" ELSE "none"]
                 /\ UNCHANGED <<row, sent, draft, proved, overtaken>>

Goto(r, statement) ==
    /\ at' = [at EXCEPT ![r] = statement]
    /\ outcome' = [outcome EXCEPT ![r] = IF statement = "end" THEN "done" ELSE @]
GoOn(r) == Goto(r, Path(call[r])[at[r]])
End(r, how) == /\ at' = [at EXCEPT ![r] = "end"]
               /\ outcome' = [outcome EXCEPT ![r] = how]

\* A statement fails (a lost connection, the limit of a transaction); what is
\* not committed is gone.
Fail(r) == /\ Active(r)
           /\ End(r, "failed")
           /\ draft' = [draft EXCEPT ![r] = None]
           /\ UNCHANGED <<row, sent, call, self, proved, overtaken>>

-----------------------------------------------------------------------------
(* Reads.                                                                  *)

Holders(P, f, v) == {p \in P : row[p] # None /\ row[p][f] = v}

AsTyped(c, f) == c[f]                                             \* SLIP
Wanted(c, f) == IF f = "email" THEN Lower[c.email] ELSE c[f]

FieldOf == [freeEmail |-> "email", freeUsername |-> "username", freeMobile |-> "mobile"]

IsAnything(name) == TRUE                                          \* SLIP
IsValidUsername(name) == name # BadName

\* isEmailExist, isUsernameExist and isMobileExist, and what all their callers
\* but one do with the answer.  A new user (self is None) excludes nobody.
IsFree(r) ==
    /\ Active(r) /\ at[r] \in DOMAIN FieldOf
    /\ LET f == FieldOf[at[r]]
           v == Wanted(call[r], f) IN
       IF \/ f = "username" /\ ~IsValidUsername(v)
          \/ Holders(Peers(self[r]), f, v) \ {self[r]} # {}
       THEN End(r, "refused") ELSE GoOn(r)
    /\ UNCHANGED <<row, sent, call, self, draft, proved, overtaken>>

\* The address is looked up among the users; login goes on to the
\* administrators, the others to the mobile number if there is one.
ByEmail(r) ==
    /\ At(r, "byEmail")
    /\ LET found == Holders(Users, "email", Wanted(call[r], "email")) IN
       \/ /\ found # {}
          /\ self' = [self EXCEPT ![r] = CHOOSE p \in found : TRUE]
          /\ GoOn(r)
       \/ /\ found = {}
          /\ UNCHANGED self
          /\ CASE call[r].op = "login" -> Goto(r, "byAdmin")
               [] call[r].op # "login" /\ Given(call[r].mobile) -> Goto(r, "byMobile")
               [] OTHER -> End(r, "refused")
    /\ UNCHANGED <<row, sent, call, draft, proved, overtaken>>

ByMobile(r) ==
    /\ At(r, "byMobile")
    /\ LET found == Holders(Users, "mobile", call[r].mobile) IN
       \/ /\ found # {}
          /\ self' = [self EXCEPT ![r] = CHOOSE p \in found : TRUE]
          /\ GoOn(r)
       \/ found = {} /\ End(r, "refused") /\ UNCHANGED self
    /\ UNCHANGED <<row, sent, call, draft, proved, overtaken>>

ReadAdmin(r) ==
    /\ At(r, "readAdmin")
    /\ call' = [call EXCEPT ![r].email = row[self[r]].email]
    /\ GoOn(r)
    /\ UNCHANGED <<row, sent, self, draft, proved, overtaken>>

\* authenticate means to refuse an unknown address, but its test
\* (!validation === null) is false for every answer.
ByAdmin(r) ==
    /\ At(r, "byAdmin")
    /\ LET found == Holders(Admins, "email", Wanted(call[r], "email")) IN
       \/ /\ found # {}
          /\ self' = [self EXCEPT ![r] = CHOOSE p \in found : TRUE]
          /\ GoOn(r)
       \/ /\ found = {}
          /\ UNCHANGED self
          /\ End(r, IF call[r].op = "authenticate" THEN "done" ELSE "refused")
    /\ UNCHANGED <<row, sent, call, draft, proved, overtaken>>

MatchesUnset(p, password) == row[p].password \in {None, password}  \* SLIP
Matches(p, password) == row[p].password = password

Meta(r) == /\ At(r, "meta")
           /\ End(r, IF Matches(self[r], call[r].password) THEN "done" ELSE "refused")
           /\ UNCHANGED <<row, sent, call, self, draft, proved, overtaken>>

OldPassword(r) ==
    /\ At(r, "oldPassword")
    /\ IF Matches(self[r], call[r].old) THEN GoOn(r) ELSE End(r, "refused")
    /\ UNCHANGED <<row, sent, call, self, draft, proved, overtaken>>

\* getOrCreateByGoogle: known by the Google id, else by the address.
ByGoogle(r) ==
    /\ At(r, "byGoogle")
    /\ LET found == Holders(Users, "google", call[r].google) IN
       IF found = {} THEN GoOn(r) ELSE End(r, "done")
    /\ UNCHANGED <<row, sent, call, self, draft, proved, overtaken>>

CountEmail(r) ==
    /\ At(r, "countEmail")
    /\ Goto(r, IF Holders(Users, "email", Wanted(call[r], "email")) # {}
               THEN "link" ELSE "freeEmail")
    /\ UNCHANGED <<row, sent, call, self, draft, proved, overtaken>>

-----------------------------------------------------------------------------
(* Codes.  No answer changes what is kept here, so the two parallel checks *)
(* of a registration are one step, at the time the second one answers.     *)

Address(c, transport) == IF transport = "email" THEN Lower[c.email] ELSE c.mobile
Answers(a) == {"thrown", "wrong"} \cup (IF a \in sent THEN {"right"} ELSE {})

BothWrong(answers) == \A t \in DOMAIN answers : answers[t] = "wrong"   \* SLIP
AnyWrong(answers) == \E t \in DOMAIN answers : answers[t] = "wrong"

\* registerUser goes on if no code is wrong.
VerifyBoth(r) ==
    /\ At(r, "verify")
    /\ LET c == call[r]
           asked == {"email"} \cup (IF Given(c.mobile) THEN {"mobile"} ELSE {}) IN
       \E answers \in [asked -> {"thrown", "wrong", "right"}] :
          /\ \A t \in asked : answers[t] \in Answers(Address(c, t))
          /\ proved' = [proved EXCEPT ![r] =
                          {Address(c, t) : t \in {u \in asked : answers[u] = "right"}}]
          /\ CASE \E t \in asked : answers[t] = "thrown" -> End(r, "failed")
               [] AnyWrong(answers) -> End(r, "refused")
               [] OTHER -> GoOn(r)
    /\ UNCHANGED <<row, sent, call, self, draft, overtaken>>

\* resetPassword asks for one code after the other and looks at the last
\* answer only; an earlier one counts if verify throws.
Overruled(statement, r) == TRUE                                   \* SLIP
IsOverruled(statement, r) == statement = "verifyMobile" /\ call[r].email # None

VerifyOne(r, transport) ==
    LET statement == [email |-> "verifyEmail", mobile |-> "verifyMobile"][transport]
        a == Address(call[r], transport) IN
    /\ At(r, statement)
    /\ \E answer \in Answers(a) :
          /\ proved' = IF answer = "right" THEN [proved EXCEPT ![r] = @ \cup {a}] ELSE proved
          /\ CASE answer = "thrown" -> End(r, "failed")
               [] answer = "wrong" /\ ~IsOverruled(statement, r) -> End(r, "refused")
               [] OTHER -> GoOn(r)
    /\ UNCHANGED <<row, sent, call, self, draft, overtaken>>

SendCode(r, transport) ==
    /\ At(r, [email |-> "sendEmail", mobile |-> "sendMobile"][transport])
    /\ sent' = sent \cup {Address(call[r], transport)}
    /\ GoOn(r)
    /\ UNCHANGED <<row, call, self, draft, proved, overtaken>>

-----------------------------------------------------------------------------
(* Writes.  A statement that writes a row, or a key in it, which an open   *)
(* transaction has written waits for the end of that transaction.          *)

Patch(old, changes) == [f \in DOMAIN old |->
                          IF f \in DOMAIN changes THEN changes[f] ELSE old[f]]
Drafted(r) == IF draft[r] = None THEN <<>> ELSE draft[r]
Locked(r, p) == \E q \in Requests \ {r} : draft[q] # None /\ self[q] = p
PasswordLocked(r, p) == \E q \in Requests \ {r} :
                           draft[q] # None /\ self[q] = p /\ "password" \in DOMAIN draft[q]
KeyPending(r, new) ==
    \E q \in Requests \ {r} :
       /\ draft[q] # None
       /\ \E f \in DOMAIN draft[q] \cap DOMAIN new \cap Keys :
             new[f] # None /\ new[f] \in {draft[q][f], row[self[q]][f]}

\* The unique indexes of p's table.
Taken(p, new) == \E f \in DOMAIN new \cap Keys :
                    new[f] # None /\ Holders(Peers(p), f, new[f]) \ {p} # {}

IsNamed(c, r) ==
    /\ r # None
    /\ \/ "email" \in DOMAIN c /\ Given(c.email) /\ Lower[c.email] = r.email
       \/ \E f \in DOMAIN c \cap {"username", "mobile", "google"} :
             Given(c[f]) /\ c[f] = r[f]

Put(r, p, new) ==
    /\ row' = [row EXCEPT ![p] = new]
    /\ overtaken' = overtaken \cup {q \in Requests \ {r} :
          Active(q) /\ (self[q] = p \/ IsNamed(call[q], row[p]) \/ IsNamed(call[q], new))}

StoredAsTyped(email) == email                                     \* SLIP
Stored(email) == Lower[email]

NewRow(c) ==
    [email |-> Stored(c.email), username |-> None,
     mobile |-> IF c.op = "register" THEN c.mobile ELSE None,
     google |-> IF c.op = "google" THEN c.google ELSE None,
     password |-> IF c.op = "register" THEN c.password ELSE None]

Insert(r) ==
    /\ At(r, "insert")
    /\ LET new == NewRow(call[r]) IN
       /\ ~KeyPending(r, new)
       /\ \/ /\ Taken(None, new)
             /\ End(r, "conflict")
             /\ UNCHANGED <<row, self, overtaken>>
          \/ \E u \in Users :
                /\ ~Taken(None, new) /\ row[u] = None
                /\ Put(r, u, new)
                /\ self' = [self EXCEPT ![r] = u]
                /\ GoOn(r)
    /\ UNCHANGED <<sent, call, draft, proved>>

\* The user with the address is given the Google id, whatever it had before.
Link(r) ==
    /\ At(r, "link")
    /\ LET found == Holders(Users, "email", Wanted(call[r], "email"))
           u == CHOOSE p \in found : TRUE IN
       \/ /\ found = {}                                           \* P2025
          /\ End(r, "conflict")
          /\ UNCHANGED <<row, self, overtaken>>
       \/ /\ found # {} /\ ~PasswordLocked(r, u)
          /\ self' = [self EXCEPT ![r] = u]
          /\ IF Taken(u, [google |-> call[r].google])
             THEN End(r, "conflict") /\ UNCHANGED <<row, overtaken>>
             ELSE /\ Put(r, u, [row[u] EXCEPT !.google = call[r].google])
                  /\ GoOn(r)
    /\ UNCHANGED <<sent, call, draft, proved>>

Written(c) == [f \in {g \in {"email", "username", "mobile"} : c[g] # Absent} |->
                 IF f = "email" THEN Stored(c.email) ELSE c[f]]

NeverWithin(c) == FALSE                                           \* SLIP
IsWithin(c) == c.op = "administer"

\* updateProfileDetails, on its own or with the transaction it is given.
Update(r) ==
    /\ At(r, "update")
    /\ LET c == call[r]
           p == self[r] IN
       \/ /\ c.email = None \/ row[p] = None      \* refused; P2025
          /\ End(r, "failed")
          /\ UNCHANGED <<row, draft, overtaken>>
       \/ /\ c.email # None /\ row[p] # None
          /\ ~Locked(r, p) /\ ~KeyPending(r, Written(c))
          /\ CASE Taken(p, Written(c)) ->
                     End(r, "conflict") /\ UNCHANGED <<row, draft, overtaken>>
               [] ~Taken(p, Written(c)) /\ IsWithin(c) ->
                     /\ draft' = [draft EXCEPT ![r] = Written(c)]
                     /\ GoOn(r) /\ UNCHANGED <<row, overtaken>>
               [] OTHER ->
                     /\ Put(r, p, Patch(row[p], Written(c)))
                     /\ GoOn(r) /\ UNCHANGED draft
    /\ UNCHANGED <<sent, call, self, proved>>

SetPassword(r) ==
    /\ At(r, "setPassword")
    /\ LET c == call[r]
           p == self[r] IN
       /\ ~PasswordLocked(r, p)
       /\ IF c.op = "administer"
          THEN /\ draft' = [draft EXCEPT ![r] =
                              [f \in DOMAIN Drafted(r) \cup {"password"} |->
                                 IF f = "password" THEN c.password ELSE Drafted(r)[f]]]
               /\ UNCHANGED <<row, overtaken>>
          ELSE /\ Put(r, p, [row[p] EXCEPT !.password = c.password])
               /\ UNCHANGED draft
       /\ GoOn(r)
    /\ UNCHANGED <<sent, call, self, proved>>

Commit(r) == /\ At(r, "commit")
             /\ Put(r, self[r], Patch(row[self[r]], Drafted(r)))
             /\ draft' = [draft EXCEPT ![r] = None]
             /\ GoOn(r)
             /\ UNCHANGED <<sent, call, self, proved>>

-----------------------------------------------------------------------------
Read(r) == \/ IsFree(r) \/ ByEmail(r) \/ ByMobile(r) \/ ReadAdmin(r) \/ ByAdmin(r)
           \/ Meta(r) \/ OldPassword(r) \/ ByGoogle(r) \/ CountEmail(r)
Code(r) == \/ VerifyBoth(r)
           \/ \E t \in {"email", "mobile"} : VerifyOne(r, t) \/ SendCode(r, t)
Write(r) == \/ Insert(r) \/ Link(r) \/ Update(r) \/ SetPassword(r) \/ Commit(r)

Next == \E r \in Requests : \/ \E c \in Calls : Receive(r, c)
                            \/ Read(r) \/ Code(r) \/ Write(r) \/ Fail(r)

Spec == Init /\ [][Next]_vars

-----------------------------------------------------------------------------
(* Properties.                                                             *)

TypeOK ==
    /\ row \in [People -> Row \cup {None}]
    /\ sent \subseteq Emails \cup Mobiles
    /\ call \in [Requests -> Call \cup {None}]
    /\ at \in [Requests -> Statements \cup {"end"}]
    /\ proved \in [Requests -> SUBSET (Emails \cup Mobiles)]
    /\ self \in [Requests -> People \cup {None}]
    /\ outcome \in [Requests -> {"none", "done", "refused", "conflict", "failed"}]
    /\ overtaken \subseteq Requests

\* An address, username, mobile number or Google id is one person's, addresses
\* compared without regard to case, as every lookup by them assumes.
KeysAreUnique ==
    \A p \in People : \A q \in Peers(p) \ {p} : \A f \in Keys :
       row[p] # None /\ row[q] # None /\ row[p][f] # None
          => IF f = "email" THEN Lower[row[p].email] # Lower[row[q].email]
                            ELSE row[p][f] # row[q][f]

\* The checks before a write answer for the unique index behind them: a call is
\* turned away by the database itself only after another one has written a row
\* it names since it was received.
ConflictsComeFromOthers ==
    [][\A r \in Requests :
          outcome[r] = "none" /\ outcome'[r] = "conflict" => r \in overtaken]_vars

\* A user appears by a Google login, or with every address it is stored with
\* proved by a code of the same registration.
RegisteredAddressesAreProved ==
    [][\A u \in Users :
          row[u] = None /\ row'[u] # None =>
             \E r \in Requests :
                /\ at'[r] # at[r] /\ self'[r] = u
                /\ \/ call[r].op = "google" /\ row'[u].google = call[r].google
                   \/ {row'[u].email, row'[u].mobile} \ {None} \subseteq proved[r]]_vars

\* A password is replaced by an administrator; by its owner, who gave the one
\* it replaces unless others wrote the row meanwhile; or with the code of the
\* address, the email address if there is one, of a call that names the person.
Backs(r, p) ==
    LET c == call[r] IN
    \/ c.op = "administer" /\ c.id = p
    \/ c.op = "change" /\ c.id = p /\ (row[p].password = c.old \/ r \in overtaken)
    \/ /\ c.op = "reset"
       /\ Address(c, IF c.email # None THEN "email" ELSE "mobile") \in proved[r]
       /\ IsNamed(c, row[p]) \/ r \in overtaken

PasswordsChangeForAReason ==
    [][\A p \in People :
          row[p] # None /\ row'[p].password # row[p].password =>
             \E r \in Requests : at'[r] # at[r] /\ Backs(r, p)]_vars

\* Of what an administrator changes in a profile and its password everything
\* appears at once or nothing does, wherever the call fails.
AdministratorWritesAllOrNothing ==
    [][\A r \in Requests :
          row' # row /\ at'[r] # at[r] /\ call[r].op = "administer" =>
             LET c == call[r] IN
             row'[c.id] = Patch(row[c.id],
                [f \in {g \in {"email", "username", "mobile"} : c[g] # Absent}
                       \cup (IF Given(c.password) THEN {"password"} ELSE {}) |->
                   IF f = "email" THEN Lower[c.email] ELSE c[f]])]_vars

\* If nobody writes meanwhile, a login lets in the person whose address and
\* password were given and turns everybody else away; only an administrator
\* whose address a user has too is turned away as well.  authenticate
\* succeeds with the password of that administrator only.
HasCredentials(p, c) == /\ row[p] # None /\ row[p].email = Lower[c.email]
                        /\ row[p].password = c.password

CredentialsDecide ==
    [][\A r \in Requests \ overtaken :
          LET c == call[r] IN
          /\ Active(r) /\ outcome'[r] = "done" =>
                /\ c.op = "login" => HasCredentials(self'[r], c)
                /\ c.op = "authenticate" => row[c.id].password = c.password
          /\ Active(r) /\ outcome'[r] = "refused" /\ c.op = "login" =>
                \A p \in People : HasCredentials(p, c) =>
                   p \in Admins /\ Holders(Users, "email", Lower[c.email]) # {}]_vars

=============================================================================
