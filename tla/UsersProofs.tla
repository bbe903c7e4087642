---------------------------- MODULE UsersProofs ----------------------------
(***************************************************************************)
(* Proofs about Users, for every set of people, calls and requests in      *)
(* flight: types, the unique keys, and why rows and passwords change.      *)
(***************************************************************************)
EXTENDS Users, TLAPS

\* The statements of each kind of call.
StatementsOf ==
    [register |-> {"verify", "freeEmail", "freeMobile", "insert"},
     google |-> {"byGoogle", "countEmail", "link", "freeEmail", "insert"},
     send |-> {"freeEmail", "sendEmail", "freeMobile", "sendMobile"},
     forgot |-> {"byEmail", "byMobile", "sendMobile", "sendEmail"},
     reset |-> {"byEmail", "byMobile", "verifyMobile", "verifyEmail", "setPassword"},
     profile |-> {"freeEmail", "freeUsername", "freeMobile", "update"},
     administer |-> {"freeEmail", "freeUsername", "freeMobile", "update",
                     "setPassword", "commit"},
     change |-> {"oldPassword", "setPassword"},
     login |-> {"byEmail", "byAdmin", "meta"},
     authenticate |-> {"readAdmin", "byAdmin", "meta"}]

\* What a call is made of, by its kind.
LEMMA CallTypes ==
    ASSUME NEW c \in Call
    PROVE  /\ c.op \in DOMAIN StatementsOf
           /\ c.op # "change" => "email" \in DOMAIN c
           /\ c.op \in {"register", "google", "login"} => c.email \in Typed
           /\ c.op \in {"send", "forgot", "reset"} => c.email \in Typed \cup {None}
           /\ c.op \in {"profile", "administer"} => c.email \in Typed \cup {None, Absent}
           /\ c.op = "authenticate" => c.email \in Emails \cup {None}
           /\ c.op \in {"register", "send", "forgot", "reset", "profile", "administer"}
                 => "mobile" \in DOMAIN c /\ c.mobile \in Mobiles \cup {None, Absent}
           /\ c.op \in {"register", "send", "forgot", "reset"} => c.mobile # Absent
           /\ c.op \in {"forgot", "reset"} => c.email # None \/ c.mobile # None
           /\ c.op \in {"profile", "administer"}
                 => "username" \in DOMAIN c
                    /\ c.username \in Names \cup {BadName, None, Absent}
           /\ "google" \in DOMAIN c <=> c.op = "google"
           /\ c.op = "google" => "mobile" \notin DOMAIN c
           /\ "username" \in DOMAIN c => c.op \in {"profile", "administer"}
           /\ c.op = "google" => c.google \in GoogleIds
           /\ "id" \in DOMAIN c <=> c.op \in {"profile", "administer", "change", "authenticate"}
           /\ "id" \in DOMAIN c => c.id \in People
           /\ c.op = "administer" => c.id \in Users
           /\ c.op = "authenticate" => c.id \in Admins /\ c \in AuthenticateCall
           /\ c.op \in {"register", "reset", "change", "login", "authenticate"}
                 => c.password \in Passwords
           /\ c.op = "administer" => c.password \in Passwords \cup {None, Absent}
<1>0. Absent \notin Mobiles \cup {None}
  BY ConstantsAssumption
<1> USE DEF StatementsOf, People
<1>1. CASE c \in RegisterCall
  BY <1>0, <1>1 DEF RegisterCall
<1>2. CASE c \in GoogleCall
  BY <1>0, <1>2 DEF GoogleCall
<1>3. CASE c \in SendCall
  BY <1>0, <1>3 DEF SendCall
<1>4. CASE c \in ForgotCall
  BY <1>0, <1>4 DEF ForgotCall
<1>5. CASE c \in ResetCall
  BY <1>0, <1>5 DEF ResetCall
<1>6. CASE c \in ProfileCall
  BY <1>0, <1>6 DEF ProfileCall
<1>7. CASE c \in AdministerCall
  BY <1>0, <1>7 DEF AdministerCall
<1>8. CASE c \in AdminProfileCall
  BY <1>0, <1>8 DEF AdminProfileCall
<1>9. CASE c \in ChangeCall
  BY <1>0, <1>9 DEF ChangeCall
<1>10. CASE c \in LoginCall
  BY <1>0, <1>10 DEF LoginCall
<1>11. CASE c \in AuthenticateCall
  BY <1>0, <1>11 DEF AuthenticateCall
<1> QED BY <1>1, <1>2, <1>3, <1>4, <1>5, <1>6, <1>7, <1>8, <1>9, <1>10, <1>11 DEF Call

(***************************************************************************)
(* What is known of a call from the statement it has come to.              *)
(***************************************************************************)

\* The call c at statement s works on p, with the addresses in proof proved:
\* what the statements before it have made sure of, whatever others do.
Stands(c, s, p, proof) ==
    /\ s \in StatementsOf[c.op]
    /\ s \in {"freeEmail", "byEmail", "sendEmail", "verifyEmail"} => Given(c.email)
    /\ s \in {"freeMobile", "byMobile", "sendMobile", "verifyMobile"} => Given(c.mobile)
    /\ s = "freeUsername" => Given(c.username)
    /\ c.op \in {"profile", "administer"} /\ s \notin {"freeEmail", "freeUsername"}
          => c.username # BadName
    /\ c.op = "administer" /\ s = "setPassword" => Given(c.password)
    /\ s \in {"setPassword", "commit"} /\ c.op = "administer" => c.email # None
    /\ (c.op \in {"register", "google", "send"} \/ s \in {"byEmail", "byMobile"})
          => p = None
    /\ c.op = "login" /\ s = "byAdmin" => p = None
    /\ c.op \in {"profile", "administer", "change"} => p = c.id
    /\ c.op = "authenticate" /\ s # "meta" => p = c.id
    /\ c.op \in {"forgot", "reset"} /\ s \notin {"byEmail", "byMobile"} => p \in Users
    /\ s = "meta" => p \in (IF c.op = "login" THEN People ELSE Admins)
    /\ c.op = "register" /\ s # "verify" => {Lower[c.email], c.mobile} \ {None} \subseteq proof
    /\ c.op = "reset" /\ s = "setPassword"
          => Address(c, IF c.email # None THEN "email" ELSE "mobile") \in proof

\* The statements at which the person of the call has a row.
HasRow(c, s) == \/ c.op \in {"profile", "change", "authenticate"}
                \/ s \in {"setPassword", "commit", "meta"}
                \/ c.op = "reset" /\ s \notin {"byEmail", "byMobile"}

\* All that an administrator's call changes.
ChangeOf(c) == [f \in {g \in {"email", "username", "mobile"} : c[g] # Absent}
                       \cup (IF Given(c.password) THEN {"password"} ELSE {}) |->
                   IF f = "email" THEN Lower[c.email] ELSE c[f]]

Drafting(r) == /\ Active(r) /\ call[r].op = "administer"
               /\ at[r] \in {"setPassword", "commit"}

\* A transaction is open, and has written what the call asks for so far,
\* between the update of the row and the commit.
DraftOf(r) == draft[r] = IF Drafting(r)
                         THEN IF at[r] = "setPassword" THEN Written(call[r])
                                                       ELSE ChangeOf(call[r])
                         ELSE None

Sound(r) == /\ Active(r) => /\ Stands(call[r], at[r], self[r], proved[r])
                            /\ HasRow(call[r], at[r]) => row[self[r]] # None
            /\ DraftOf(r)

CallsInv == /\ TypeOK
            /\ draft = [r \in Requests |-> draft[r]]
            /\ \A r \in Requests : Sound(r)

\* What an open transaction has written is nobody's, and no other's to be.
DraftsApart ==
    \A r \in Requests : draft[r] # None =>
       /\ \A f \in DOMAIN draft[r] \cap Keys : \A q \in Users \ {self[r]} :
             draft[r][f] # None /\ row[q] # None => row[q][f] # draft[r][f]
       /\ \A s \in Requests \ {r} : draft[s] # None =>
             /\ self[s] # self[r]
             /\ \A f \in DOMAIN draft[r] \cap DOMAIN draft[s] \cap Keys :
                   draft[r][f] # None => draft[r][f] # draft[s][f]

KeysInv == KeysAreUnique /\ DraftsApart

\* The statements after the one that checks that a key is free.
Passed == [email |-> {"freeUsername", "freeMobile", "insert", "update"},
           username |-> {"freeMobile", "update"},
           mobile |-> {"insert", "update"},
           google |-> {"countEmail", "freeEmail", "insert", "link"}]

\* What the reads of the call c, now at s for p, have told it of the tables, which
\* others may have changed since.
Told(c, s, p, rows) ==
    /\ c.op # "send" =>
          \A f \in DOMAIN c \cap Keys : s \in Passed[f] /\ Given(c[f]) =>
             \A q \in Peers(p) \ {p} : rows[q] # None => rows[q][f] # Wanted(c, f)
    /\ s = "link" => \E u \in Users : rows[u] # None /\ rows[u].email = Lower[c.email]
    /\ c.op = "reset" /\ s \notin {"byEmail", "byMobile"} => IsNamed(c, rows[p])
    /\ c.op = "change" /\ s = "setPassword" => rows[p].password = c.old
    /\ c.op = "login" /\ (s = "byAdmin" \/ (s = "meta" /\ p \in Admins)) =>
          \A u \in Users : rows[u] # None => rows[u].email # Lower[c.email]
    /\ c.op = "login" /\ s = "meta" => rows[p].email = Lower[c.email]
    /\ c.op = "authenticate" /\ s = "byAdmin" => c.email = rows[c.id].email
    /\ c.op = "authenticate" /\ s = "meta" => p = c.id

Facts(r) == Told(call[r], at[r], self[r], row)

FactsInv == \A r \in Requests \ overtaken : Active(r) => Facts(r)

-----------------------------------------------------------------------------
(* Paths.                                                                  *)

\* A call starts where nothing has been found out yet.
LEMMA PathStarts ==
    ASSUME NEW c \in Call
    PROVE  LET s == Path(c).start
               p == IF "id" \in DOMAIN c THEN c.id ELSE None IN
           /\ s \notin {"setPassword", "commit", "meta"}
           /\ HasRow(c, s) => c.op \in {"profile", "change", "authenticate"}
           /\ s = "end" \/ Stands(c, s, p, {})
<1>1. None # Absent /\ None \notin Typed /\ Absent \notin Typed /\ Absent \notin Mobiles
      /\ None \notin Mobiles /\ BadName \notin Names \cup {None, Absent}
  BY ConstantsAssumption
<1> USE CallTypes, <1>1 DEF Stands, HasRow, StatementsOf, Given, If
<1>2. CASE c.op = "register"
  BY <1>2 DEF Path
<1>3. CASE c.op = "google"
  BY <1>3 DEF Path
<1>4. CASE c.op = "send"
  BY <1>4 DEF Path
<1>5. CASE c.op = "forgot"
  BY <1>5 DEF Path
<1>6. CASE c.op = "reset"
  BY <1>6 DEF Path
<1>7. CASE c.op = "profile"
  BY <1>7 DEF Path
<1>8. CASE c.op = "administer"
  BY <1>8 DEF Path
<1>9. CASE c.op = "change"
  BY <1>9 DEF Path
<1>10. CASE c.op = "login"
  BY <1>10 DEF Path
<1>11. CASE c.op = "authenticate"
  BY <1>11 DEF Path
<1> QED BY <1>2, <1>3, <1>4, <1>5, <1>6, <1>7, <1>8, <1>9, <1>10, <1>11

\* What the statement s of a call finds out, when the call works on p2 and has
\* proved proof2 after it.
Finds(c, s, p, proof, p2, proof2) ==
    /\ s # "verify" => proof \subseteq proof2
    /\ s \notin {"byEmail", "byMobile", "byAdmin", "insert", "link"} => p2 = p
    /\ s \in {"byEmail", "byMobile"} => p2 \in Users
    /\ s = "byAdmin" => p2 \in Admins
    /\ s = "verify" => {Lower[c.email], c.mobile} \ {None} \subseteq proof2
    /\ s = "verifyMobile" => c.email # None \/ c.mobile \in proof2
    /\ s = "verifyEmail" => Lower[c.email] \in proof2
    /\ s = "freeUsername" => c.username # BadName
    /\ s = "update" => c.email # None
    /\ s \notin {"countEmail", "meta"}

\* A call goes on to a statement it may stand at, if the statement it leaves has
\* found out what it is there for.
LEMMA PathStands ==
    ASSUME NEW c \in Call, NEW s, NEW p, NEW proof, NEW p2, NEW proof2,
           Stands(c, s, p, proof), Finds(c, s, p, proof, p2, proof2)
    PROVE  LET n == Path(c)[s] IN
           /\ n = "end" \/ Stands(c, n, p2, proof2)
           /\ HasRow(c, n) => HasRow(c, s) \/ s \in {"byEmail", "byMobile", "byAdmin", "update"}
           /\ n \in {"setPassword", "commit"} /\ c.op = "administer" /\ s # "update"
                 => s = "setPassword" /\ n = "commit"
<1>1. None # Absent /\ None \notin Typed /\ Absent \notin Typed /\ Absent \notin Mobiles
      /\ None \notin Mobiles /\ BadName \notin Names \cup {None, Absent}
  BY ConstantsAssumption
<1> USE CallTypes, <1>1 DEF Stands, Finds, HasRow, StatementsOf, Given, If, Address, People
<1>2. CASE c.op = "register"
  BY <1>2 DEF Path
<1>3. CASE c.op = "google"
  BY <1>3 DEF Path
<1>4. CASE c.op = "send"
  BY <1>4 DEF Path
<1>5. CASE c.op = "forgot"
  BY <1>5 DEF Path
<1>6. CASE c.op = "reset"
  BY <1>6 DEF Path
<1>7. CASE c.op = "profile"
  BY <1>7 DEF Path
<1>8. CASE c.op = "administer"
  BY <1>8 DEF Path
<1>9. CASE c.op = "change"
  BY <1>9 DEF Path
<1>10. CASE c.op = "login"
  BY <1>10 DEF Path
<1>11. CASE c.op = "authenticate"
  BY <1>11 DEF Path
<1> QED BY <1>2, <1>3, <1>4, <1>5, <1>6, <1>7, <1>8, <1>9, <1>10, <1>11

-----------------------------------------------------------------------------
(* Steps, of one call each.                                                *)

Outcomes == {"none", "done", "refused", "conflict", "failed"}

\* What every step of r comes to: it disturbs no other call, finds r's own in
\* order, and writes a row at most once, as the last thing it does.
Tidy(r) ==
    /\ TypeOK'
    /\ draft' = [q \in Requests |-> draft'[q]]
    /\ Sound(r)'
    /\ \A q \in Requests \ {r} :
          /\ call'[q] = call[q] /\ at'[q] = at[q] /\ self'[q] = self[q]
          /\ draft'[q] = draft[q] /\ proved'[q] = proved[q] /\ outcome'[q] = outcome[q]
    /\ \/ row' = row /\ overtaken' = overtaken
       \/ \E p \in People : \E new \in Row : Put(r, p, new) /\ ~Active(r)'

\* Assigning a function the value it has changes nothing.
LEMMA SameValue ==
    ASSUME NEW f, NEW D, f = [x \in D |-> f[x]], NEW r \in D
    PROVE  f = [f EXCEPT ![r] = f[r]]
OBVIOUS

\* r goes to statement n with outcome o, its call now c, its person p, the
\* addresses it has proved proof; no row is written.
Quietly(r, n, o, c, p, proof) ==
    /\ Active(r) /\ ~Drafting(r)
    /\ at' = [at EXCEPT ![r] = n]
    /\ outcome' = [outcome EXCEPT ![r] = o]
    /\ call' = [call EXCEPT ![r] = c]
    /\ self' = [self EXCEPT ![r] = p]
    /\ proved' = [proved EXCEPT ![r] = proof]
    /\ sent' \subseteq Emails \cup Mobiles
    /\ UNCHANGED <<row, draft, overtaken>>

LEMMA QuietStep ==
    ASSUME CallsInv, NEW r \in Requests, NEW n \in Statements \cup {"end"}, NEW o \in Outcomes,
           NEW c \in Call, NEW p \in People \cup {None},
           NEW proof \in SUBSET (Emails \cup Mobiles), Quietly(r, n, o, c, p, proof),
           o = "none" => /\ Stands(c, n, p, proof)
                         /\ HasRow(c, n) => row[p] # None
                         /\ ~(c.op = "administer" /\ n \in {"setPassword", "commit"})
    PROVE  Tidy(r)
<1> USE DEF Quietly
<1>1. TypeOK'
  BY DEF CallsInv, TypeOK, Outcomes
<1>2. /\ call'[r] = c /\ at'[r] = n /\ self'[r] = p /\ proved'[r] = proof /\ outcome'[r] = o
      /\ \A q \in Requests \ {r} :
          /\ call'[q] = call[q] /\ at'[q] = at[q] /\ self'[q] = self[q]
          /\ draft'[q] = draft[q] /\ proved'[q] = proved[q] /\ outcome'[q] = outcome[q]
  BY DEF CallsInv, TypeOK
<1>3. draft' = [q \in Requests |-> draft'[q]]
  BY DEF CallsInv
<1>4. draft[r] = None
  BY DEF CallsInv, Sound, DraftOf
<1>5. Active(r)' => o = "none"
  BY <1>2 DEF Active
<1>6. Sound(r)'
  BY <1>2, <1>4, <1>5 DEF Sound, DraftOf, Drafting
<1> QED BY <1>1, <1>2, <1>3, <1>6 DEF Tidy

\* A step that ends the call, having written nothing.
Ends(r, o, p, proof) ==
    /\ Active(r) /\ ~Drafting(r) /\ End(r, o)
    /\ self' = [self EXCEPT ![r] = p]
    /\ proved' = [proved EXCEPT ![r] = proof]
    /\ UNCHANGED <<row, sent, call, draft, overtaken>>

LEMMA EndingStep ==
    ASSUME CallsInv, NEW r \in Requests, NEW o \in Outcomes \ {"none"},
           NEW p \in People \cup {None}, NEW proof \in SUBSET (Emails \cup Mobiles),
           Ends(r, o, p, proof)
    PROVE  Tidy(r)
<1>1. call[r] \in Call /\ call = [call EXCEPT ![r] = call[r]]
  BY SameValue DEF CallsInv, TypeOK, Active, Ends
<1>2. sent \subseteq Emails \cup Mobiles
  BY DEF CallsInv, TypeOK
<1>3. Quietly(r, "end", o, call[r], p, proof)
  BY <1>1, <1>2 DEF Quietly, Ends, End
<1>4. "end" \in Statements \cup {"end"} /\ o \in Outcomes /\ o # "none"
  OBVIOUS
<1> QED BY <1>1, <1>3, <1>4, QuietStep

\* A step that leads the call on along its path, having written nothing.
Goes(r, p, proof) ==
    /\ Active(r) /\ ~Drafting(r) /\ GoOn(r)
    /\ at[r] \notin {"insert", "link", "update"}
    /\ self' = [self EXCEPT ![r] = p]
    /\ proved' = [proved EXCEPT ![r] = proof]
    /\ sent' \subseteq Emails \cup Mobiles
    /\ UNCHANGED <<row, call, draft, overtaken>>

LEMMA GoingStep ==
    ASSUME CallsInv, NEW r \in Requests, NEW p \in People \cup {None},
           NEW proof \in SUBSET (Emails \cup Mobiles), Goes(r, p, proof),
           Finds(call[r], at[r], self[r], proved[r], p, proof),
           at[r] \in {"byEmail", "byMobile", "byAdmin"} => row[p] # None
    PROVE  Tidy(r)
<1>1. call[r] \in Call /\ call = [call EXCEPT ![r] = call[r]] /\ outcome[r] = "none"
  BY SameValue DEF CallsInv, TypeOK, Active, Goes
<1>2. Stands(call[r], at[r], self[r], proved[r])
      /\ (HasRow(call[r], at[r]) => row[self[r]] # None)
  BY DEF CallsInv, Sound, Goes
<1> DEFINE n == Path(call[r])[at[r]]
<1>3. /\ n = "end" \/ Stands(call[r], n, p, proof)
      /\ HasRow(call[r], n) => HasRow(call[r], at[r]) \/ at[r] \in {"byEmail", "byMobile", "byAdmin"}
      /\ n \in {"setPassword", "commit"} /\ call[r].op = "administer" => at[r] = "setPassword"
  BY <1>1, <1>2, PathStands DEF Goes
<1>4. ~(call[r].op = "administer" /\ n \in {"setPassword", "commit"})
  BY <1>3 DEF Drafting, Goes
<1>5. call[r].op \in DOMAIN StatementsOf
  BY <1>1, CallTypes
<1>6. n \in Statements \cup {"end"}
  <2>1. StatementsOf[call[r].op] \subseteq Statements
    BY <1>5 DEF StatementsOf, Statements
  <2>2. n = "end" \/ n \in StatementsOf[call[r].op]
    BY <1>3 DEF Stands
  <2> QED BY <2>1, <2>2
<1> DEFINE o == IF n = "end" THEN "done" ELSE "none"
<1>7. Quietly(r, n, o, call[r], p, proof)
  BY <1>1 DEF Goes, GoOn, Goto, Quietly
<1>8. o \in Outcomes
  BY DEF Outcomes
<1>9. p = self[r] \/ at[r] \in {"byEmail", "byMobile", "byAdmin"}
  BY DEF Finds, Goes
<1>10. o = "none" => Stands(call[r], n, p, proof) /\ (HasRow(call[r], n) => row[p] # None)
  BY <1>2, <1>3, <1>9
<1> HIDE DEF n, o
<1> QED BY <1>1, <1>4, <1>6, <1>7, <1>8, <1>10, QuietStep

\* A step that writes a row is the last one of its call.
Writes(r, p, new, u) ==
    /\ Active(r)
    /\ at' = [at EXCEPT ![r] = "end"]
    /\ outcome' = [outcome EXCEPT ![r] = "done"]
    /\ Put(r, p, new)
    /\ self' = [self EXCEPT ![r] = u]
    /\ draft' = [draft EXCEPT ![r] = None]
    /\ UNCHANGED <<sent, call, proved>>

LEMMA WritingStep ==
    ASSUME CallsInv, NEW r \in Requests, NEW p \in People, NEW new \in Row,
           NEW u \in People \cup {None}, Writes(r, p, new, u)
    PROVE  Tidy(r)
<1>1. row' \in [People -> Row \cup {None}] /\ overtaken' \subseteq Requests
  BY DEF CallsInv, TypeOK, Put, Writes
<1>2. TypeOK'
  <2>1. at' \in [Requests -> Statements \cup {"end"}]
    BY DEF CallsInv, TypeOK, Writes
  <2>2. /\ outcome' \in [Requests -> {"none", "done", "refused", "conflict", "failed"}]
        /\ self' \in [Requests -> People \cup {None}]
    BY DEF CallsInv, TypeOK, Writes
  <2>3. /\ sent' \subseteq Emails \cup Mobiles
        /\ call' \in [Requests -> Call \cup {None}]
        /\ proved' \in [Requests -> SUBSET (Emails \cup Mobiles)]
    BY DEF CallsInv, TypeOK, Writes
  <2> QED BY <1>1, <2>1, <2>2, <2>3 DEF TypeOK
<1>3. /\ outcome'[r] = "done" /\ draft'[r] = None
      /\ draft' = [q \in Requests |-> draft'[q]]
      /\ \A q \in Requests \ {r} :
          /\ call'[q] = call[q] /\ at'[q] = at[q] /\ self'[q] = self[q]
          /\ draft'[q] = draft[q] /\ proved'[q] = proved[q] /\ outcome'[q] = outcome[q]
  BY DEF CallsInv, TypeOK, Writes
<1>4. ~Active(r)'
  BY <1>3 DEF Active
<1>5. Sound(r)'
  BY <1>3, <1>4 DEF Sound, DraftOf, Drafting
<1>6. Put(r, p, new)
  BY DEF Writes
<1> QED BY <1>2, <1>3, <1>4, <1>5, <1>6 DEF Tidy

\* The parts of a request, and the functions that do not change.
LEMMA Parts ==
    ASSUME CallsInv, NEW r \in Requests
    PROVE  /\ self[r] \in People \cup {None} /\ self = [self EXCEPT ![r] = self[r]]
           /\ proved[r] \in SUBSET (Emails \cup Mobiles)
           /\ proved = [proved EXCEPT ![r] = proved[r]]
           /\ draft = [draft EXCEPT ![r] = draft[r]]
           /\ outcome = [outcome EXCEPT ![r] = outcome[r]]
           /\ sent \subseteq Emails \cup Mobiles
           /\ Active(r) => /\ call[r] \in Call /\ call = [call EXCEPT ![r] = call[r]]
                           /\ outcome[r] = "none"
                           /\ Stands(call[r], at[r], self[r], proved[r])
                           /\ HasRow(call[r], at[r]) => row[self[r]] # None
           /\ DraftOf(r)
<1>1. /\ self[r] \in People \cup {None} /\ self = [self EXCEPT ![r] = self[r]]
      /\ proved[r] \in SUBSET (Emails \cup Mobiles)
      /\ proved = [proved EXCEPT ![r] = proved[r]]
      /\ outcome = [outcome EXCEPT ![r] = outcome[r]]
      /\ sent \subseteq Emails \cup Mobiles
  BY DEF CallsInv, TypeOK
<1>2. draft = [draft EXCEPT ![r] = draft[r]]
  BY SameValue DEF CallsInv
<1>3. Active(r) => /\ call[r] \in Call /\ call = [call EXCEPT ![r] = call[r]]
                   /\ outcome[r] = "none"
  BY DEF CallsInv, TypeOK, Active
<1>4. Sound(r)
  BY DEF CallsInv
<1> QED BY <1>1, <1>2, <1>3, <1>4 DEF Sound

LEMMA ReceiveIsTidy ==
    ASSUME CallsInv, NEW r \in Requests, NEW c \in Calls, Receive(r, c)
    PROVE  Tidy(r)
<1>1. c \in Call
  BY ConstantsAssumption
<1> DEFINE s == Path(c).start
           p == IF "id" \in DOMAIN c THEN c.id ELSE None
<1>2. /\ s \notin {"setPassword", "commit", "meta"}
      /\ HasRow(c, s) => c.op \in {"profile", "change", "authenticate"}
      /\ s = "end" \/ Stands(c, s, p, {})
  BY <1>1, PathStarts
<1>3. p \in People \cup {None} /\ ("id" \in DOMAIN c <=> c.op \in {"profile", "administer", "change", "authenticate"})
  BY <1>1, CallTypes
<1>4. s \in Statements \cup {"end"}
  <2>1. c.op \in DOMAIN StatementsOf
    BY <1>1, CallTypes
  <2>2. StatementsOf[c.op] \subseteq Statements
    BY <2>1 DEF StatementsOf, Statements
  <2> QED BY <1>2, <2>2 DEF Stands
<1>5. /\ call'[r] = c /\ at'[r] = s /\ self'[r] = p
      /\ outcome'[r] = IF s = "end" THEN "done" ELSE "none"
      /\ \A q \in Requests \ {r} :
          /\ call'[q] = call[q] /\ at'[q] = at[q] /\ self'[q] = self[q]
          /\ draft'[q] = draft[q] /\ proved'[q] = proved[q] /\ outcome'[q] = outcome[q]
  BY DEF CallsInv, TypeOK, Receive
<1>6. TypeOK'
  <2>1. at' \in [Requests -> Statements \cup {"end"}]
    BY <1>4 DEF CallsInv, TypeOK, Receive
  <2>2. outcome' \in [Requests -> {"none", "done", "refused", "conflict", "failed"}]
    BY DEF CallsInv, TypeOK, Receive
  <2>3. self' \in [Requests -> People \cup {None}]
    BY <1>3 DEF CallsInv, TypeOK, Receive
  <2>4. call' \in [Requests -> Call \cup {None}]
    BY <1>1 DEF CallsInv, TypeOK, Receive
  <2> QED BY <2>1, <2>2, <2>3, <2>4 DEF CallsInv, TypeOK, Receive
<1>7. draft'[r] = None
  BY DEF Receive, CallsInv, Sound, DraftOf, Drafting, Active
<1>8. Stands(c, s, p, {}) => Stands(c, s, p, proved[r])
  BY PathStarts, <1>1 DEF Stands
<1>9. HasRow(c, s) => row[p] # None
  BY <1>2, <1>3 DEF Receive
<1>10. Sound(r)'
  BY <1>2, <1>5, <1>7, <1>8, <1>9 DEF Sound, DraftOf, Drafting, Active, Receive
<1> QED BY <1>5, <1>6, <1>10 DEF Tidy, Receive, CallsInv

LEMMA IsFreeIsTidy ==
    ASSUME CallsInv, NEW r \in Requests, IsFree(r)
    PROVE  Tidy(r)
<1>1. Active(r) /\ at[r] \in {"freeEmail", "freeUsername", "freeMobile"}
  BY DEF IsFree, FieldOf
<1>2. ~Drafting(r)
  BY <1>1 DEF Drafting
<1>3. CASE End(r, "refused")
  <2>1. Ends(r, "refused", self[r], proved[r])
    BY <1>1, <1>2, <1>3, Parts DEF Ends, IsFree
  <2> QED BY <2>1, Parts, EndingStep DEF Outcomes
<1>4. CASE GoOn(r) /\ (at[r] = "freeUsername" => call[r].username # BadName)
  <2>1. Goes(r, self[r], proved[r])
    BY <1>1, <1>2, <1>4, Parts DEF Goes, IsFree
  <2>2. Finds(call[r], at[r], self[r], proved[r], self[r], proved[r])
    BY <1>1, <1>4 DEF Finds
  <2> QED BY <1>1, <2>1, <2>2, Parts, GoingStep
<1> QED BY <1>1, <1>3, <1>4 DEF IsFree, FieldOf, Wanted, IsValidUsername

\* What is found by a key is a person with that key.
LEMMA Found ==
    ASSUME NEW P, NEW f, NEW v, Holders(P, f, v) # {}
    PROVE  LET p == CHOOSE q \in Holders(P, f, v) : TRUE IN
           p \in P /\ row[p] # None /\ row[p][f] = v
BY DEF Holders

\* A step that leads the call to another statement than the next on its path.
LEMMA TurningStep ==
    ASSUME CallsInv, NEW r \in Requests, NEW n \in Statements,
           Goto(r, n), Active(r), ~Drafting(r),
           UNCHANGED <<row, sent, call, self, draft, proved, overtaken>>,
           Stands(call[r], n, self[r], proved[r]), ~HasRow(call[r], n),
           ~(call[r].op = "administer" /\ n \in {"setPassword", "commit"})
    PROVE  Tidy(r)
<1>1. n # "end" /\ n \in Statements \cup {"end"} /\ "none" \in Outcomes
  BY DEF Statements, Outcomes
<1>2. Quietly(r, n, "none", call[r], self[r], proved[r])
  BY <1>1, Parts DEF Quietly, Goto
<1> QED BY <1>1, <1>2, Parts, QuietStep

LEMMA ByEmailIsTidy ==
    ASSUME CallsInv, NEW r \in Requests, ByEmail(r)
    PROVE  Tidy(r)
<1>1. Active(r) /\ at[r] = "byEmail" /\ ~Drafting(r)
  BY DEF ByEmail, At, Drafting
<1> DEFINE found == Holders(Users, "email", Wanted(call[r], "email"))
<1>2. CASE found # {}
  <2> DEFINE p == CHOOSE q \in found : TRUE
  <2>1. p \in Users /\ row[p] # None
    BY <1>2, Found
  <2> HIDE DEF found
  <2>2. Goes(r, p, proved[r])
    BY <1>1, <1>2, Parts DEF Goes, ByEmail, found
  <2>3. Finds(call[r], at[r], self[r], proved[r], p, proved[r])
    BY <1>1, <2>1 DEF Finds
  <2>4. p \in People \cup {None}
    BY <2>1 DEF People
  <2> HIDE DEF p
  <2> QED BY <2>1, <2>2, <2>3, <2>4, Parts, GoingStep
<1>3. CASE found = {}
  <2>0. UNCHANGED <<row, sent, call, self, draft, proved, overtaken>>
    BY <1>3 DEF ByEmail
  <2>1. CASE call[r].op = "login" /\ Goto(r, "byAdmin")
    <3>1. Stands(call[r], "byAdmin", self[r], proved[r]) /\ ~HasRow(call[r], "byAdmin")
      BY <1>1, <2>1, Parts DEF Stands, HasRow, StatementsOf
    <3> QED BY <1>1, <2>0, <2>1, <3>1, TurningStep DEF Statements
  <2>2. CASE call[r].op # "login" /\ Given(call[r].mobile) /\ Goto(r, "byMobile")
    <3>1. call[r].op \in {"forgot", "reset"}
      BY <1>1, <2>2, Parts, CallTypes DEF Stands, StatementsOf
    <3>2. Stands(call[r], "byMobile", self[r], proved[r]) /\ ~HasRow(call[r], "byMobile")
      BY <1>1, <2>2, <3>1, Parts DEF Stands, HasRow, StatementsOf
    <3> QED BY <1>1, <2>0, <2>2, <3>2, TurningStep DEF Statements
  <2>3. CASE End(r, "refused")
    <3>1. Ends(r, "refused", self[r], proved[r])
      BY <1>1, <2>0, <2>3, Parts DEF Ends
    <3> QED BY <3>1, Parts, EndingStep DEF Outcomes
  <2> QED BY <1>3, <2>1, <2>2, <2>3 DEF ByEmail
<1> QED BY <1>2, <1>3

LEMMA ByMobileIsTidy ==
    ASSUME CallsInv, NEW r \in Requests, ByMobile(r)
    PROVE  Tidy(r)
<1>1. Active(r) /\ at[r] = "byMobile" /\ ~Drafting(r)
  BY DEF ByMobile, At, Drafting
<1> DEFINE found == Holders(Users, "mobile", call[r].mobile)
<1>2. CASE found # {}
  <2> DEFINE p == CHOOSE q \in found : TRUE
  <2>1. p \in Users /\ row[p] # None
    BY <1>2, Found
  <2> HIDE DEF found
  <2>2. Goes(r, p, proved[r])
    BY <1>1, <1>2, Parts DEF Goes, ByMobile, found
  <2>3. Finds(call[r], at[r], self[r], proved[r], p, proved[r])
    BY <1>1, <2>1 DEF Finds
  <2>4. p \in People \cup {None}
    BY <2>1 DEF People
  <2> HIDE DEF p
  <2> QED BY <2>1, <2>2, <2>3, <2>4, Parts, GoingStep
<1>3. CASE found = {}
  <2>1. Ends(r, "refused", self[r], proved[r])
    BY <1>1, <1>3, Parts DEF Ends, ByMobile
  <2> QED BY <2>1, Parts, EndingStep DEF Outcomes
<1> QED BY <1>2, <1>3

LEMMA ByAdminIsTidy ==
    ASSUME CallsInv, NEW r \in Requests, ByAdmin(r)
    PROVE  Tidy(r)
<1>1. Active(r) /\ at[r] = "byAdmin" /\ ~Drafting(r)
  BY DEF ByAdmin, At, Drafting
<1> DEFINE found == Holders(Admins, "email", Wanted(call[r], "email"))
<1>2. CASE found # {}
  <2> DEFINE p == CHOOSE q \in found : TRUE
  <2>1. p \in Admins /\ row[p] # None
    BY <1>2, Found
  <2> HIDE DEF found
  <2>2. Goes(r, p, proved[r])
    BY <1>1, <1>2, Parts DEF Goes, ByAdmin, found
  <2>3. Finds(call[r], at[r], self[r], proved[r], p, proved[r])
    BY <1>1, <2>1 DEF Finds
  <2>4. p \in People \cup {None}
    BY <2>1 DEF People
  <2> HIDE DEF p
  <2> QED BY <2>1, <2>2, <2>3, <2>4, Parts, GoingStep
<1>3. CASE found = {}
  <2> DEFINE o == IF call[r].op = "authenticate" THEN "done" ELSE "refused"
  <2>1. Ends(r, o, self[r], proved[r])
    BY <1>1, <1>3, Parts DEF Ends, ByAdmin
  <2>2. o \in Outcomes \ {"none"}
    BY DEF Outcomes
  <2> HIDE DEF o
  <2> QED BY <2>1, <2>2, Parts, EndingStep
<1> QED BY <1>2, <1>3

LEMMA ReadAdminIsTidy ==
    ASSUME CallsInv, NEW r \in Requests, ReadAdmin(r)
    PROVE  Tidy(r)
<1>1. Active(r) /\ at[r] = "readAdmin" /\ ~Drafting(r)
  BY DEF ReadAdmin, At, Drafting
<1>2. /\ call[r].op = "authenticate" /\ call[r] \in AuthenticateCall
      /\ self[r] = call[r].id /\ row[self[r]] # None /\ self[r] \in People
  BY <1>1, Parts, CallTypes DEF Stands, StatementsOf, HasRow
<1> DEFINE e == row[self[r]].email
           c == [call[r] EXCEPT !.email = e]
<1>3. e \in Emails
  BY <1>2 DEF CallsInv, TypeOK, Row
<1>4. /\ c \in AuthenticateCall /\ c.op = "authenticate" /\ c.id = call[r].id
      /\ DOMAIN c = DOMAIN call[r]
  BY <1>2, <1>3 DEF AuthenticateCall
<1>5. c \in Call
  BY <1>4 DEF Call
<1>6. call' = [call EXCEPT ![r] = c]
  BY DEF ReadAdmin
<1>7. Path(call[r])[at[r]] = "byAdmin"
  BY <1>1, <1>2 DEF Path
<1>8. /\ at' = [at EXCEPT ![r] = "byAdmin"]
      /\ outcome' = [outcome EXCEPT ![r] = "none"]
  BY <1>1, <1>7, Parts DEF ReadAdmin, GoOn, Goto
<1>9. Stands(c, "byAdmin", self[r], proved[r]) /\ HasRow(c, "byAdmin")
  BY <1>2, <1>4 DEF Stands, StatementsOf, HasRow
<1>10. Quietly(r, "byAdmin", "none", c, self[r], proved[r])
  BY <1>1, <1>6, <1>8, Parts DEF Quietly, ReadAdmin
<1>11. "byAdmin" \in Statements \cup {"end"} /\ "none" \in Outcomes
  BY DEF Statements, Outcomes
<1> HIDE DEF c
<1> QED BY <1>2, <1>4, <1>5, <1>9, <1>10, <1>11, Parts, QuietStep

LEMMA MetaIsTidy ==
    ASSUME CallsInv, NEW r \in Requests, Meta(r)
    PROVE  Tidy(r)
<1> DEFINE o == IF Matches(self[r], call[r].password) THEN "done" ELSE "refused"
<1>1. Ends(r, o, self[r], proved[r])
  BY Parts DEF Ends, Meta, At, Drafting
<1>2. o \in Outcomes \ {"none"}
  BY DEF Outcomes
<1> HIDE DEF o
<1> QED BY <1>1, <1>2, Parts, EndingStep

LEMMA OldPasswordIsTidy ==
    ASSUME CallsInv, NEW r \in Requests, OldPassword(r)
    PROVE  Tidy(r)
<1>1. Active(r) /\ at[r] = "oldPassword" /\ ~Drafting(r)
  BY DEF OldPassword, At, Drafting
<1>2. CASE GoOn(r)
  <2>1. Goes(r, self[r], proved[r])
    BY <1>1, <1>2, Parts DEF Goes, OldPassword
  <2>2. Finds(call[r], at[r], self[r], proved[r], self[r], proved[r])
    BY <1>1 DEF Finds
  <2> QED BY <1>1, <2>1, <2>2, Parts, GoingStep
<1>3. CASE End(r, "refused")
  <2>1. Ends(r, "refused", self[r], proved[r])
    BY <1>1, <1>3, Parts DEF Ends, OldPassword
  <2> QED BY <2>1, Parts, EndingStep DEF Outcomes
<1> QED BY <1>2, <1>3 DEF OldPassword

LEMMA ByGoogleIsTidy ==
    ASSUME CallsInv, NEW r \in Requests, ByGoogle(r)
    PROVE  Tidy(r)
<1>1. Active(r) /\ at[r] = "byGoogle" /\ ~Drafting(r)
  BY DEF ByGoogle, At, Drafting
<1>2. CASE GoOn(r)
  <2>1. Goes(r, self[r], proved[r])
    BY <1>1, <1>2, Parts DEF Goes, ByGoogle
  <2>2. Finds(call[r], at[r], self[r], proved[r], self[r], proved[r])
    BY <1>1 DEF Finds
  <2> QED BY <1>1, <2>1, <2>2, Parts, GoingStep
<1>3. CASE End(r, "done")
  <2>1. Ends(r, "done", self[r], proved[r])
    BY <1>1, <1>3, Parts DEF Ends, ByGoogle
  <2> QED BY <2>1, Parts, EndingStep DEF Outcomes
<1> QED BY <1>2, <1>3 DEF ByGoogle

LEMMA CountEmailIsTidy ==
    ASSUME CallsInv, NEW r \in Requests, CountEmail(r)
    PROVE  Tidy(r)
<1>1. Active(r) /\ at[r] = "countEmail" /\ ~Drafting(r)
  BY DEF CountEmail, At, Drafting
<1>2. PICK n \in {"link", "freeEmail"} : Goto(r, n)
  BY DEF CountEmail
<1>3. call[r].op = "google" /\ call[r].email \in Typed /\ self[r] = None
  BY <1>1, Parts, CallTypes DEF Stands, StatementsOf
<1>4. Given(call[r].email)
  BY <1>3, ConstantsAssumption DEF Given
<1>5. Stands(call[r], n, self[r], proved[r]) /\ ~HasRow(call[r], n)
  BY <1>3, <1>4 DEF Stands, StatementsOf, HasRow
<1>6. n \in Statements /\ n \notin {"setPassword", "commit"}
  BY DEF Statements
<1> QED BY <1>1, <1>2, <1>5, <1>6, TurningStep DEF CountEmail

LEMMA VerifyBothIsTidy ==
    ASSUME CallsInv, NEW r \in Requests, VerifyBoth(r)
    PROVE  Tidy(r)
<1> DEFINE c == call[r]
           asked == {"email"} \cup (IF Given(c.mobile) THEN {"mobile"} ELSE {})
<1>1. Active(r) /\ at[r] = "verify" /\ ~Drafting(r)
  BY DEF VerifyBoth, At, Drafting
<1>2. c.op = "register" /\ c.email \in Typed /\ c.mobile \in Mobiles \cup {None}
  BY <1>1, Parts, CallTypes DEF Stands, StatementsOf
<1>3. PICK answers \in [asked -> {"thrown", "wrong", "right"}] :
         /\ proved' = [proved EXCEPT ![r] =
                         {Address(c, t) : t \in {u \in asked : answers[u] = "right"}}]
         /\ CASE \E t \in asked : answers[t] = "thrown" -> End(r, "failed")
              [] AnyWrong(answers) -> End(r, "refused")
              [] OTHER -> GoOn(r)
  BY DEF VerifyBoth
<1> DEFINE proof == {Address(c, t) : t \in {u \in asked : answers[u] = "right"}}
<1>4. proof \in SUBSET (Emails \cup Mobiles)
  BY <1>2, ConstantsAssumption DEF Address, Given
<1>5. UNCHANGED <<row, sent, call, self, draft, overtaken>>
  BY DEF VerifyBoth
<1>6. CASE End(r, "failed") \/ End(r, "refused")
  <2>1. PICK o \in {"failed", "refused"} : End(r, o)
    BY <1>6
  <2>2. Ends(r, o, self[r], proof) /\ o \in Outcomes \ {"none"}
    BY <1>1, <1>3, <1>5, <2>1, Parts DEF Ends, Outcomes
  <2> HIDE DEF proof
  <2> QED BY <1>4, <2>2, Parts, EndingStep
<1>7. CASE GoOn(r) /\ \A t \in asked : answers[t] = "right"
  <2>1. {Lower[c.email], c.mobile} \ {None} \subseteq proof
    <3>1. Lower[c.email] \in proof
      BY <1>7 DEF Address
    <3>2. c.mobile = None \/ "mobile" \in asked
      BY <1>2, ConstantsAssumption DEF Given
    <3>3. c.mobile = None \/ c.mobile \in proof
      BY <1>7, <3>2 DEF Address
    <3> QED BY <3>1, <3>3
  <2> HIDE DEF proof
  <2>2. Goes(r, self[r], proof)
    BY <1>1, <1>3, <1>5, <1>7, Parts DEF Goes, proof
  <2>3. Finds(c, at[r], self[r], proved[r], self[r], proof)
    BY <1>1, <2>1 DEF Finds
  <2> QED BY <1>1, <1>4, <2>2, <2>3, Parts, GoingStep
<1> QED BY <1>3, <1>6, <1>7 DEF AnyWrong

LEMMA VerifyOneIsTidy ==
    ASSUME CallsInv, NEW r \in Requests, NEW t \in {"email", "mobile"}, VerifyOne(r, t)
    PROVE  Tidy(r)
<1> DEFINE c == call[r]
           a == Address(c, t)
<1>1. /\ Active(r) /\ ~Drafting(r)
      /\ at[r] = IF t = "email" THEN "verifyEmail" ELSE "verifyMobile"
  BY DEF VerifyOne, At, Drafting
<1>2. /\ t = "email" => c.email \in Typed
      /\ t = "mobile" => c.mobile \in Mobiles
  BY <1>1, Parts, CallTypes, ConstantsAssumption DEF Stands, StatementsOf, Given
<1>3. a \in Emails \cup Mobiles
  BY <1>2, ConstantsAssumption DEF Address
<1>4. PICK answer \in Answers(a) :
          /\ proved' = IF answer = "right" THEN [proved EXCEPT ![r] = @ \cup {a}] ELSE proved
          /\ CASE answer = "thrown" -> End(r, "failed")
               [] answer = "wrong" /\ ~IsOverruled(at[r], r) -> End(r, "refused")
               [] OTHER -> GoOn(r)
  BY <1>1 DEF VerifyOne
<1> DEFINE proof == IF answer = "right" THEN proved[r] \cup {a} ELSE proved[r]
<1>5. proof \in SUBSET (Emails \cup Mobiles) /\ proved[r] \subseteq proof
  BY <1>3, Parts
<1>6. proved' = [proved EXCEPT ![r] = proof]
  BY <1>4, Parts
<1>7. UNCHANGED <<row, sent, call, self, draft, overtaken>>
  BY DEF VerifyOne
<1>8. CASE End(r, "failed") \/ End(r, "refused")
  <2>1. PICK o \in {"failed", "refused"} : End(r, o)
    BY <1>8
  <2>2. Ends(r, o, self[r], proof) /\ o \in Outcomes \ {"none"}
    BY <1>1, <1>6, <1>7, <2>1, Parts DEF Ends, Outcomes
  <2> HIDE DEF proof
  <2> QED BY <1>5, <2>2, Parts, EndingStep
<1>9. CASE GoOn(r) /\ (answer = "right" \/ IsOverruled(at[r], r))
  <2>1. at[r] = "verifyMobile" => c.email # None \/ c.mobile \in proof
    BY <1>1, <1>9 DEF IsOverruled, Address
  <2>2. at[r] = "verifyEmail" => Lower[c.email] \in proof
    BY <1>1, <1>9 DEF IsOverruled, Address
  <2> HIDE DEF proof
  <2>3. Goes(r, self[r], proof)
    BY <1>1, <1>6, <1>7, <1>9, Parts DEF Goes
  <2>4. Finds(c, at[r], self[r], proved[r], self[r], proof)
    BY <1>1, <1>5, <2>1, <2>2 DEF Finds
  <2> QED BY <1>1, <1>5, <2>3, <2>4, Parts, GoingStep
<1> QED BY <1>4, <1>8, <1>9 DEF Answers

LEMMA SendCodeIsTidy ==
    ASSUME CallsInv, NEW r \in Requests, NEW t \in {"email", "mobile"}, SendCode(r, t)
    PROVE  Tidy(r)
<1>1. /\ Active(r) /\ ~Drafting(r)
      /\ at[r] = IF t = "email" THEN "sendEmail" ELSE "sendMobile"
  BY DEF SendCode, At, Drafting
<1>2. /\ t = "email" => call[r].email \in Typed
      /\ t = "mobile" => call[r].mobile \in Mobiles
  BY <1>1, Parts, CallTypes, ConstantsAssumption DEF Stands, StatementsOf, Given
<1>3. Address(call[r], t) \in Emails \cup Mobiles
  BY <1>2, ConstantsAssumption DEF Address
<1>4. Goes(r, self[r], proved[r])
  BY <1>1, <1>3, Parts DEF Goes, SendCode
<1>5. Finds(call[r], at[r], self[r], proved[r], self[r], proved[r])
  BY <1>1 DEF Finds
<1> QED BY <1>1, <1>4, <1>5, Parts, GoingStep

LEMMA FailIsTidy ==
    ASSUME CallsInv, NEW r \in Requests, Fail(r)
    PROVE  Tidy(r)
<1>1. /\ at'[r] = "end" /\ outcome'[r] = "failed" /\ draft'[r] = None
      /\ draft' = [q \in Requests |-> draft'[q]]
      /\ \A q \in Requests \ {r} :
          /\ call'[q] = call[q] /\ at'[q] = at[q] /\ self'[q] = self[q]
          /\ draft'[q] = draft[q] /\ proved'[q] = proved[q] /\ outcome'[q] = outcome[q]
  BY DEF CallsInv, TypeOK, Fail, End
<1>2. TypeOK'
  BY DEF CallsInv, TypeOK, Fail, End
<1>3. Sound(r)'
  BY <1>1 DEF Sound, DraftOf, Drafting, Active
<1> QED BY <1>1, <1>2, <1>3 DEF Tidy, Fail

-----------------------------------------------------------------------------
(* Writes.                                                                 *)

\* The values a column may take.
Column == [email |-> Emails, username |-> Names \cup {None},
           mobile |-> Mobiles \cup {None}, password |-> Passwords \cup {None}]

LEMMA PatchIsRow ==
    ASSUME NEW old \in Row, NEW changes, DOMAIN changes \subseteq Columns,
           \A f \in DOMAIN changes : changes[f] \in Column[f]
    PROVE  /\ Patch(old, changes) \in Row
           /\ Patch(old, changes).google = old.google
           /\ \A f \in DOMAIN changes : Patch(old, changes)[f] = changes[f]
           /\ \A f \in Keys \cup {"password"} :
                 f \notin DOMAIN changes => Patch(old, changes)[f] = old[f]
BY DEF Patch, Row, Columns, Column, Keys

\* What a call writes into a profile, and what an administrator's call changes,
\* are values of their columns.
LEMMA WrittenIsTyped ==
    ASSUME NEW c \in Call, c.op \in {"profile", "administer"}, c.email # None,
           c.username # BadName
    PROVE  /\ DOMAIN Written(c) = {f \in {"email", "username", "mobile"} : c[f] # Absent}
           /\ \A f \in DOMAIN Written(c) :
                 /\ Written(c)[f] = IF f = "email" THEN Lower[c.email] ELSE c[f]
                 /\ Written(c)[f] \in Column[f]
           /\ Written(c) # None
<1>1. /\ c.email \in Typed \cup {Absent}
      /\ c.username \in Names \cup {None, Absent}
      /\ c.mobile \in Mobiles \cup {None, Absent}
  BY CallTypes
<1>2. /\ DOMAIN Written(c) = {f \in {"email", "username", "mobile"} : c[f] # Absent}
      /\ \A f \in DOMAIN Written(c) :
            Written(c)[f] = IF f = "email" THEN Lower[c.email] ELSE c[f]
  BY DEF Written, Stored
<1>3. \A f \in DOMAIN Written(c) : Written(c)[f] \in Column[f]
  BY <1>1, <1>2, ConstantsAssumption DEF Column
<1> DEFINE D == DOMAIN Written(c)
           V == Typed \cup Names \cup Mobiles \cup Passwords \cup {BadName, None, Absent}
<1>4. D \in SUBSET Columns
  BY <1>2 DEF Columns
<1>5. \A f \in D : Written(c)[f] \in V
  BY <1>1, <1>2, <1>3, ConstantsAssumption DEF Column
<1>6. Written(c) = [f \in D |-> Written(c)[f]]
  BY DEF Written
<1>7. Written(c) \in [D -> V]
  BY <1>5, <1>6
<1>8. None \notin [D -> V]
  BY <1>4, ConstantsAssumption
<1> QED BY <1>2, <1>3, <1>7, <1>8

LEMMA ChangeIsTyped ==
    ASSUME NEW c \in Call, c.op = "administer", c.email # None, c.username # BadName
    PROVE  /\ DOMAIN ChangeOf(c) = {f \in {"email", "username", "mobile"} : c[f] # Absent}
                                   \cup (IF Given(c.password) THEN {"password"} ELSE {})
           /\ \A f \in DOMAIN ChangeOf(c) :
                 /\ ChangeOf(c)[f] = IF f = "email" THEN Lower[c.email] ELSE c[f]
                 /\ ChangeOf(c)[f] \in Column[f]
           /\ ChangeOf(c) # None
<1>1. /\ c.email \in Typed \cup {Absent}
      /\ c.username \in Names \cup {None, Absent}
      /\ c.mobile \in Mobiles \cup {None, Absent}
      /\ c.password \in Passwords \cup {None, Absent}
  BY CallTypes
<1>2. /\ DOMAIN ChangeOf(c) = {f \in {"email", "username", "mobile"} : c[f] # Absent}
                              \cup (IF Given(c.password) THEN {"password"} ELSE {})
      /\ \A f \in DOMAIN ChangeOf(c) :
            ChangeOf(c)[f] = IF f = "email" THEN Lower[c.email] ELSE c[f]
  BY DEF ChangeOf
<1>3. \A f \in DOMAIN ChangeOf(c) : ChangeOf(c)[f] \in Column[f]
  BY <1>1, <1>2, ConstantsAssumption DEF Column, Given
<1> DEFINE D == DOMAIN ChangeOf(c)
           V == Typed \cup Names \cup Mobiles \cup Passwords \cup {BadName, None, Absent}
<1>4. D \in SUBSET Columns
  BY <1>2 DEF Columns
<1>5. \A f \in D : ChangeOf(c)[f] \in V
  BY <1>1, <1>2, <1>3, ConstantsAssumption DEF Column
<1>6. ChangeOf(c) = [f \in D |-> ChangeOf(c)[f]]
  BY DEF ChangeOf
<1>7. ChangeOf(c) \in [D -> V]
  BY <1>5, <1>6
<1>8. None \notin [D -> V]
  BY <1>4, ConstantsAssumption
<1> QED BY <1>2, <1>3, <1>7, <1>8

LEMMA PathEnds ==
    ASSUME NEW c \in Call, NEW s \in StatementsOf[c.op]
    PROVE  /\ s \in {"insert", "link", "commit"} => Path(c)[s] = "end"
           /\ s \in {"update", "setPassword"} /\ c.op # "administer" => Path(c)[s] = "end"
           /\ c.op = "administer" =>
                 /\ Path(c)["update"] = IF Given(c.password) THEN "setPassword" ELSE "commit"
                 /\ Path(c)["setPassword"] = "commit"
<1> USE CallTypes DEF StatementsOf, If
<1>1. CASE c.op = "register"
  BY <1>1 DEF Path
<1>2. CASE c.op = "google"
  BY <1>2 DEF Path
<1>3. CASE c.op = "reset"
  BY <1>3 DEF Path
<1>4. CASE c.op = "profile"
  BY <1>4 DEF Path
<1>5. CASE c.op = "administer"
  BY <1>5 DEF Path
<1>6. CASE c.op = "change"
  BY <1>6 DEF Path
<1>7. CASE c.op \in {"send", "forgot", "login", "authenticate"}
  BY <1>7
<1> QED BY <1>1, <1>2, <1>3, <1>4, <1>5, <1>6, <1>7

\* The statements that write a row end their call.
LEMMA LastStatement ==
    ASSUME CallsInv, NEW r \in Requests, Active(r), GoOn(r),
           \/ at[r] \in {"insert", "link", "commit"}
           \/ at[r] \in {"update", "setPassword"} /\ call[r].op # "administer"
    PROVE  /\ at' = [at EXCEPT ![r] = "end"]
           /\ outcome' = [outcome EXCEPT ![r] = "done"]
<1>1. Path(call[r])[at[r]] = "end"
  BY Parts, PathEnds DEF Stands
<1> QED BY <1>1 DEF GoOn, Goto

LEMMA InsertIsTidy ==
    ASSUME CallsInv, NEW r \in Requests, Insert(r)
    PROVE  Tidy(r)
<1> DEFINE new == NewRow(call[r])
<1>1. Active(r) /\ at[r] = "insert" /\ ~Drafting(r) /\ draft[r] = None
  BY Parts DEF Insert, At, Drafting, DraftOf
<1>2. CASE End(r, "conflict") /\ UNCHANGED <<row, self, overtaken>>
  <2>1. Ends(r, "conflict", self[r], proved[r])
    BY <1>1, <1>2, Parts DEF Ends, Insert
  <2> QED BY <2>1, Parts, EndingStep DEF Outcomes
<1>3. ASSUME NEW u \in Users, Put(r, u, new), self' = [self EXCEPT ![r] = u], GoOn(r)
      PROVE  Tidy(r)
  <2>1. call[r].op \in {"register", "google"}
    BY <1>1, Parts, CallTypes DEF Stands, StatementsOf
  <2>2. /\ call[r].email \in Typed
        /\ call[r].op = "register" => call[r].mobile \in Mobiles \cup {None}
                                      /\ call[r].password \in Passwords
        /\ call[r].op = "google" => call[r].google \in GoogleIds
    BY <1>1, <2>1, Parts, CallTypes
  <2>3. new \in Row
    BY <2>1, <2>2, ConstantsAssumption DEF NewRow, Row, Stored
  <2> HIDE DEF new
  <2>4. Writes(r, u, new, u)
    BY <1>1, <1>3, Parts, LastStatement DEF Writes, Insert
  <2>5. u \in People
    BY DEF People
  <2> QED BY <2>3, <2>4, <2>5, WritingStep
<1> QED BY <1>2, <1>3 DEF Insert

LEMMA LinkIsTidy ==
    ASSUME CallsInv, NEW r \in Requests, Link(r)
    PROVE  Tidy(r)
<1> DEFINE found == Holders(Users, "email", Wanted(call[r], "email"))
           u == CHOOSE p \in found : TRUE
           new == [row[u] EXCEPT !.google = call[r].google]
<1>1. Active(r) /\ at[r] = "link" /\ ~Drafting(r) /\ draft[r] = None
  BY Parts DEF Link, At, Drafting, DraftOf
<1>2. CASE End(r, "conflict") /\ UNCHANGED <<row, self, overtaken>>
  <2>1. Ends(r, "conflict", self[r], proved[r])
    BY <1>1, <1>2, Parts DEF Ends, Link
  <2> QED BY <2>1, Parts, EndingStep DEF Outcomes
<1>3. CASE found # {} /\ self' = [self EXCEPT ![r] = u]
  <2>1. u \in Users /\ u \in People /\ row[u] # None
    BY <1>3, Found DEF People
  <2> HIDE DEF found, u
  <2>2. CASE End(r, "conflict") /\ UNCHANGED <<row, overtaken>>
    <3>1. Ends(r, "conflict", u, proved[r])
      BY <1>1, <1>3, <2>2, Parts DEF Ends, Link
    <3> QED BY <2>1, <3>1, Parts, EndingStep DEF Outcomes
  <2>3. CASE Put(r, u, new) /\ GoOn(r)
    <3>1. call[r].google \in GoogleIds
      BY <1>1, Parts, CallTypes DEF Stands, StatementsOf
    <3>2. new \in Row
      BY <2>1, <3>1 DEF CallsInv, TypeOK, Row
    <3> HIDE DEF new
    <3>3. Writes(r, u, new, u)
      BY <1>1, <1>3, <2>3, Parts, LastStatement DEF Writes, Link
    <3> QED BY <2>1, <3>2, <3>3, WritingStep
  <2> QED BY <1>3, <2>2, <2>3 DEF Link, found, u
<1> QED BY <1>2, <1>3 DEF Link

\* A step of an administrator's transaction before the commit.
Drafts(r, n, d) ==
    /\ Active(r)
    /\ at' = [at EXCEPT ![r] = n]
    /\ draft' = [draft EXCEPT ![r] = d]
    /\ UNCHANGED <<row, sent, call, self, proved, outcome, overtaken>>

LEMMA DraftingStep ==
    ASSUME CallsInv, NEW r \in Requests, NEW n \in {"setPassword", "commit"}, NEW d,
           Drafts(r, n, d), call[r].op = "administer", at[r] \in {"update", "setPassword"},
           call[r].email # None, row[self[r]] # None,
           n = "setPassword" => d = Written(call[r]) /\ Given(call[r].password),
           n = "commit" => d = ChangeOf(call[r])
    PROVE  Tidy(r)
<1>1. TypeOK'
  BY DEF CallsInv, TypeOK, Drafts, Statements
<1>2. /\ at'[r] = n /\ draft'[r] = d
      /\ draft' = [q \in Requests |-> draft'[q]]
      /\ \A q \in Requests \ {r} : at'[q] = at[q] /\ draft'[q] = draft[q]
  BY DEF CallsInv, TypeOK, Drafts
<1>3. Stands(call[r], n, self[r], proved[r])
  BY Parts DEF Drafts, Stands, StatementsOf
<1>4. Sound(r)'
  BY <1>2, <1>3 DEF Sound, DraftOf, Drafting, Active, Drafts
<1> QED BY <1>1, <1>2, <1>4 DEF Tidy, Drafts

LEMMA UpdateIsTidy ==
    ASSUME CallsInv, NEW r \in Requests, Update(r)
    PROVE  Tidy(r)
<1> DEFINE c == call[r]
           p == self[r]
<1>1. Active(r) /\ at[r] = "update" /\ ~Drafting(r) /\ draft[r] = None
  BY Parts DEF Update, At, Drafting, DraftOf
<1>2. /\ c \in Call /\ c.op \in {"profile", "administer"} /\ c.username # BadName
      /\ p \in People
  BY <1>1, Parts, CallTypes DEF Stands, StatementsOf
<1>3. CASE (End(r, "failed") \/ End(r, "conflict")) /\ UNCHANGED <<row, draft, overtaken>>
  <2>1. PICK o \in {"failed", "conflict"} : End(r, o)
    BY <1>3
  <2>2. Ends(r, o, self[r], proved[r])
    BY <1>1, <1>3, <2>1, Parts DEF Ends, Update
  <2> QED BY <2>2, Parts, EndingStep DEF Outcomes
<1>4. CASE /\ c.email # None /\ row[p] # None /\ c.op = "administer"
           /\ draft' = [draft EXCEPT ![r] = Written(c)]
           /\ GoOn(r) /\ UNCHANGED <<row, overtaken>>
  <2> DEFINE n == IF Given(c.password) THEN "setPassword" ELSE "commit"
  <2>1. Path(c)["update"] = n
    BY <1>1, <1>2, <1>4, Parts, PathEnds DEF Stands
  <2>2. Drafts(r, n, Written(c))
    BY <1>1, <1>4, <2>1, Parts DEF Drafts, Update, GoOn, Goto
  <2>3. ~Given(c.password) => Written(c) = ChangeOf(c)
    BY DEF Written, ChangeOf, Stored
  <2>4. n \in {"setPassword", "commit"}
    OBVIOUS
  <2> QED BY <1>1, <1>4, <2>2, <2>3, <2>4, DraftingStep
<1>5. CASE /\ c.email # None /\ row[p] # None /\ c.op # "administer"
           /\ Put(r, p, Patch(row[p], Written(c)))
           /\ GoOn(r) /\ UNCHANGED draft
  <2> DEFINE new == Patch(row[p], Written(c))
  <2>1. row[p] \in Row
    BY <1>2, <1>5 DEF CallsInv, TypeOK
  <2>2. DOMAIN Written(c) \subseteq Columns
        /\ \A f \in DOMAIN Written(c) : Written(c)[f] \in Column[f]
    BY <1>2, <1>5, WrittenIsTyped DEF Columns
  <2>3. new \in Row
    BY <2>1, <2>2, PatchIsRow
  <2> HIDE DEF new
  <2>4. Writes(r, p, new, self[r])
    BY <1>1, <1>5, Parts, LastStatement DEF Writes, Update, new
  <2> QED BY <1>2, <2>3, <2>4, WritingStep
<1> QED BY <1>3, <1>4, <1>5 DEF Update, IsWithin

LEMMA SetPasswordIsTidy ==
    ASSUME CallsInv, NEW r \in Requests, SetPassword(r)
    PROVE  Tidy(r)
<1> DEFINE c == call[r]
           p == self[r]
<1>1. Active(r) /\ at[r] = "setPassword"
  BY DEF SetPassword, At
<1>2. /\ c \in Call /\ c.op \in {"reset", "change", "administer"}
      /\ p \in People /\ row[p] # None
  BY <1>1, Parts, CallTypes DEF Stands, StatementsOf, HasRow, People
<1>3. CASE c.op = "administer"
  <2> DEFINE d == [f \in DOMAIN Drafted(r) \cup {"password"} |->
                     IF f = "password" THEN c.password ELSE Drafted(r)[f]]
  <2>1. c.email # None /\ c.username # BadName /\ Given(c.password)
    BY <1>1, <1>3, Parts DEF Stands
  <2>2. Drafted(r) = Written(c)
    <3>1. Written(c) # None
      BY <1>2, <1>3, <2>1, WrittenIsTyped
    <3>2. draft[r] = Written(c)
      BY <1>1, <1>3, Parts DEF DraftOf, Drafting
    <3> QED BY <3>1, <3>2 DEF Drafted
  <2>3. d = ChangeOf(c)
    <3>1. DOMAIN d = DOMAIN ChangeOf(c)
      BY <1>2, <1>3, <2>1, <2>2, WrittenIsTyped, ChangeIsTyped
    <3>2. \A f \in DOMAIN d : d[f] = ChangeOf(c)[f]
      <4>1. \A f \in DOMAIN ChangeOf(c) :
               ChangeOf(c)[f] = IF f = "email" THEN Lower[c.email] ELSE c[f]
        BY DEF ChangeOf
      <4>2. \A f \in DOMAIN Written(c) :
               Written(c)[f] = IF f = "email" THEN Lower[c.email] ELSE c[f]
        BY DEF Written, Stored
      <4> QED BY <2>2, <3>1, <4>1, <4>2
    <3> QED BY <3>1, <3>2 DEF ChangeOf
  <2>4. Path(c)["setPassword"] = "commit"
    BY <1>1, <1>2, <1>3, Parts, PathEnds DEF Stands
  <2>5. Drafts(r, "commit", d)
    BY <1>1, <1>3, <2>4, Parts DEF Drafts, SetPassword, GoOn, Goto
  <2> HIDE DEF d
  <2> QED BY <1>1, <1>2, <1>3, <2>1, <2>3, <2>5, DraftingStep
<1>4. CASE c.op # "administer"
  <2> DEFINE new == [row[p] EXCEPT !.password = c.password]
  <2>1. c.password \in Passwords
    BY <1>2, <1>4, CallTypes
  <2>2. new \in Row
    BY <1>2, <2>1 DEF CallsInv, TypeOK, Row
  <2>3. draft[r] = None
    BY <1>4, Parts DEF DraftOf, Drafting
  <2> HIDE DEF new
  <2>4. Writes(r, p, new, self[r])
    BY <1>1, <1>4, <2>3, Parts, LastStatement DEF Writes, SetPassword, new
  <2> QED BY <1>2, <2>2, <2>4, WritingStep
<1> QED BY <1>3, <1>4

LEMMA CommitIsTidy ==
    ASSUME CallsInv, NEW r \in Requests, Commit(r)
    PROVE  Tidy(r) /\ Put(r, self[r], Patch(row[self[r]], ChangeOf(call[r])))
<1> DEFINE c == call[r]
           p == self[r]
           new == Patch(row[p], ChangeOf(c))
<1>1. Active(r) /\ at[r] = "commit"
  BY DEF Commit, At
<1>2. /\ c \in Call /\ c.op = "administer" /\ p \in People /\ row[p] # None
      /\ c.email # None /\ c.username # BadName
  BY <1>1, Parts, CallTypes DEF Stands, StatementsOf, HasRow, People
<1>3. Drafted(r) = ChangeOf(c)
  <2>1. ChangeOf(c) # None
    BY <1>2, ChangeIsTyped
  <2>2. draft[r] = ChangeOf(c)
    BY <1>1, <1>2, Parts DEF DraftOf, Drafting
  <2> QED BY <2>1, <2>2 DEF Drafted
<1>4. /\ DOMAIN ChangeOf(c) \subseteq Columns
      /\ \A f \in DOMAIN ChangeOf(c) : ChangeOf(c)[f] \in Column[f]
  <2>1. DOMAIN ChangeOf(c) \subseteq Columns
    BY DEF ChangeOf, Columns
  <2>2. \A f \in DOMAIN ChangeOf(c) : ChangeOf(c)[f] \in Column[f]
    BY <1>2, ChangeIsTyped
  <2> QED BY <2>1, <2>2
<1>5. row[p] \in Row
  BY <1>2 DEF CallsInv, TypeOK
<1>6. new \in Row
  BY <1>4, <1>5, PatchIsRow
<1>7. Put(r, p, new)
  BY <1>3 DEF Commit
<1> HIDE DEF new
<1>8. Writes(r, p, new, self[r])
  BY <1>1, <1>7, Parts, LastStatement DEF Writes, Commit
<1>9. Tidy(r)
  BY <1>2, <1>6, <1>8, WritingStep
<1> QED BY <1>7, <1>9 DEF new

-----------------------------------------------------------------------------
(* Every step, and types.                                                  *)

Step(r) == (\E c \in Calls : Receive(r, c)) \/ Read(r) \/ Code(r) \/ Write(r) \/ Fail(r)

\* Whatever step a call takes, it is a tidy one.
LEMMA StepIsTidy ==
    ASSUME CallsInv, NEW r \in Requests, Step(r)
    PROVE  Tidy(r)
<1>1. CASE \E c \in Calls : Receive(r, c)
  BY <1>1, ReceiveIsTidy
<1>2. CASE Read(r)
  BY <1>2, IsFreeIsTidy, ByEmailIsTidy, ByMobileIsTidy, ReadAdminIsTidy, ByAdminIsTidy,
     MetaIsTidy, OldPasswordIsTidy, ByGoogleIsTidy, CountEmailIsTidy DEF Read
<1>3. CASE Code(r)
  BY <1>3, VerifyBothIsTidy, VerifyOneIsTidy, SendCodeIsTidy DEF Code
<1>4. CASE Write(r)
  BY <1>4, InsertIsTidy, LinkIsTidy, UpdateIsTidy, SetPasswordIsTidy, CommitIsTidy DEF Write
<1>5. CASE Fail(r)
  BY <1>5, FailIsTidy
<1> QED BY <1>1, <1>2, <1>3, <1>4, <1>5 DEF Step

\* A row stays once it is there.
LEMMA RowsRemain ==
    ASSUME CallsInv, NEW r \in Requests, Tidy(r), NEW p \in People, row[p] # None
    PROVE  row'[p] # None
<1>1. CASE row' = row
  BY <1>1
<1>2. ASSUME NEW q \in People, NEW new \in Row, Put(r, q, new)
      PROVE  row'[p] # None
  BY <1>2, ConstantsAssumption DEF CallsInv, TypeOK, Put
<1> QED BY <1>1, <1>2 DEF Tidy

\* A call that others leave alone is in order after their steps as before.
LEMMA OthersStaySound ==
    ASSUME CallsInv, NEW r \in Requests, Tidy(r), NEW q \in Requests \ {r}
    PROVE  Sound(q)'
<1>1. /\ call'[q] = call[q] /\ at'[q] = at[q] /\ self'[q] = self[q]
      /\ draft'[q] = draft[q] /\ proved'[q] = proved[q] /\ outcome'[q] = outcome[q]
  BY DEF Tidy
<1>2. Sound(q) /\ self[q] \in People \cup {None}
  BY DEF CallsInv, TypeOK
<1>3. Active(q) /\ HasRow(call[q], at[q]) => self[q] \in People
  BY Parts, CallTypes DEF Stands, StatementsOf, HasRow, People
<1>4. Active(q)' <=> Active(q)
  BY <1>1 DEF Active
<1>5. Active(q) => (HasRow(call[q], at[q]) => row'[self[q]] # None)
  BY <1>2, <1>3, RowsRemain DEF Sound
<1> QED BY <1>1, <1>2, <1>4, <1>5 DEF Sound, DraftOf, Drafting

LEMMA CallsStay == CallsInv /\ [Next]_vars => CallsInv'
<1> SUFFICES ASSUME CallsInv, [Next]_vars
             PROVE  CallsInv'
  OBVIOUS
<1>1. ASSUME NEW r \in Requests, Step(r)
      PROVE  CallsInv'
  <2>1. Tidy(r)
    BY <1>1, StepIsTidy
  <2>2. \A q \in Requests : Sound(q)'
    BY <2>1, OthersStaySound DEF Tidy
  <2> QED BY <2>1, <2>2 DEF CallsInv, Tidy
<1>2. CASE UNCHANGED vars
  BY <1>2 DEF vars, CallsInv, TypeOK, Sound, DraftOf, Drafting, Active
<1> QED BY <1>1, <1>2 DEF Next, Step

LEMMA CallsStart == Init => CallsInv
<1> SUFFICES ASSUME Init PROVE CallsInv
  OBVIOUS
<1>1. TypeOK
  BY ConstantsAssumption DEF Init, TypeOK
<1>2. \A r \in Requests : Sound(r)
  BY DEF Init, Sound, DraftOf, Drafting, Active
<1> QED BY <1>1, <1>2 DEF CallsInv, Init

\* Rows, calls, statements, codes and outcomes are what they are declared to
\* be, whatever the calls and however they interleave.
THEOREM TypesHold == Spec => []TypeOK
<1>1. CallsInv => TypeOK
  BY DEF CallsInv
<1> QED BY <1>1, CallsStart, CallsStay, PTL DEF Spec

-----------------------------------------------------------------------------
(* The unique keys.                                                        *)

\* A call that only reads, or deals with a code, changes neither rows nor drafts,
\* and has no transaction open.
LEMMA ReadersLeaveRows ==
    ASSUME NEW r \in Requests, Read(r) \/ Code(r)
    PROVE  UNCHANGED <<row, draft, overtaken>> /\ Active(r) /\ ~Drafting(r)
<1> USE DEF At, Drafting
<1>1. CASE IsFree(r)
  BY <1>1 DEF IsFree, FieldOf
<1>2. CASE ByEmail(r)
  BY <1>2 DEF ByEmail
<1>3. CASE ByMobile(r)
  BY <1>3 DEF ByMobile
<1>4. CASE ReadAdmin(r)
  BY <1>4 DEF ReadAdmin
<1>5. CASE ByAdmin(r)
  BY <1>5 DEF ByAdmin
<1>6. CASE Meta(r)
  BY <1>6 DEF Meta
<1>7. CASE OldPassword(r)
  BY <1>7 DEF OldPassword
<1>8. CASE ByGoogle(r)
  BY <1>8 DEF ByGoogle
<1>9. CASE CountEmail(r)
  BY <1>9 DEF CountEmail
<1>10. CASE VerifyBoth(r)
  BY <1>10 DEF VerifyBoth
<1>11. ASSUME NEW t \in {"email", "mobile"}, VerifyOne(r, t)
       PROVE  UNCHANGED <<row, draft, overtaken>> /\ Active(r) /\ ~Drafting(r)
  BY <1>11 DEF VerifyOne
<1>12. ASSUME NEW t \in {"email", "mobile"}, SendCode(r, t)
       PROVE  UNCHANGED <<row, draft, overtaken>> /\ Active(r) /\ ~Drafting(r)
  BY <1>12 DEF SendCode
<1> QED BY <1>1, <1>2, <1>3, <1>4, <1>5, <1>6, <1>7, <1>8, <1>9, <1>10, <1>11, <1>12
        DEF Read, Code

\* Stored addresses are in lower case: comparing them as they are is enough.
LEMMA KeysDiffer ==
    ASSUME row \in [People -> Row \cup {None}]
    PROVE  KeysAreUnique <=>
              \A p \in People : \A q \in Peers(p) \ {p} : \A f \in Keys :
                 row[p] # None /\ row[q] # None /\ row[p][f] # None => row[p][f] # row[q][f]
<1>1. \A p \in People : Peers(p) \subseteq People
  BY DEF People, Peers
<1>2. \A p \in People : row[p] # None => row[p].email \in Emails
  BY DEF Row
<1>3. \A p \in People : row[p] # None => Lower[row[p].email] = row[p].email
  BY <1>2, ConstantsAssumption
<1>4. None \notin Emails
  BY ConstantsAssumption
<1> QED BY <1>1, <1>2, <1>3, <1>4 DEF KeysAreUnique, Keys

LEMMA KeysDifferNext ==
    ASSUME row' \in [People -> Row \cup {None}]
    PROVE  KeysAreUnique' <=>
              \A p \in People : \A q \in Peers(p) \ {p} : \A f \in Keys :
                 row'[p] # None /\ row'[q] # None /\ row'[p][f] # None => row'[p][f] # row'[q][f]
<1>1. \A p \in People : Peers(p) \subseteq People
  BY DEF People, Peers
<1>2. \A p \in People : row'[p] # None => row'[p].email \in Emails
  BY DEF Row
<1>3. \A p \in People : row'[p] # None => Lower[row'[p].email] = row'[p].email
  BY <1>2, ConstantsAssumption
<1>4. None \notin Emails
  BY ConstantsAssumption
<1> QED BY <1>1, <1>2, <1>3, <1>4 DEF KeysAreUnique, Keys

\* What an open transaction has written.
LEMMA DraftShape ==
    ASSUME CallsInv, NEW r \in Requests, draft[r] # None
    PROVE  /\ Active(r) /\ call[r] \in Call /\ call[r].op = "administer"
           /\ self[r] \in Users /\ row[self[r]] # None
           /\ DOMAIN draft[r] \subseteq Columns
<1>1. Drafting(r)
  BY Parts DEF DraftOf
<1>2. call[r] \in Call /\ call[r].op = "administer" /\ Active(r)
      /\ self[r] \in Users /\ row[self[r]] # None
  BY <1>1, Parts, CallTypes DEF Drafting, Stands, HasRow
<1>3. draft[r] = Written(call[r]) \/ draft[r] = ChangeOf(call[r])
  BY <1>1, Parts DEF DraftOf
<1>4. DOMAIN draft[r] \subseteq Columns
  BY <1>3 DEF Written, ChangeOf, Columns
<1> QED BY <1>2, <1>4

\* A new row is nobody else's in its keys, and no open transaction's.
Alone(r, p, new) ==
    /\ \A q \in Peers(p) \ {p} : \A f \in Keys :
          row[q] # None /\ new[f] # None => row[q][f] # new[f]
    /\ \A s \in Requests \ {r} : \A f \in Keys :
          /\ draft[s] # None /\ p \in Users \ {self[s]} /\ f \in DOMAIN draft[s]
          /\ draft[s][f] # None
          => new[f] # draft[s][f]

LEMMA WritesKeepKeys ==
    ASSUME CallsInv, KeysInv, NEW r \in Requests, Tidy(r), draft'[r] = None,
           NEW p \in People, NEW new \in Row, Put(r, p, new), Alone(r, p, new)
    PROVE  KeysInv'
<1>1. row \in [People -> Row \cup {None}] /\ row' \in [People -> Row \cup {None}]
      /\ row' = [row EXCEPT ![p] = new]
  BY DEF CallsInv, TypeOK, Tidy, Put
<1>2. \A a \in People : Peers(a) \subseteq People
  BY DEF People, Peers
<1>3. \A a, b \in People : b \in Peers(a) <=> a \in Peers(b)
  BY ConstantsAssumption DEF People, Peers
<1>4. KeysAreUnique'
  <2> SUFFICES ASSUME NEW a \in People, NEW b \in Peers(a) \ {a}, NEW f \in Keys,
                      row'[a] # None, row'[b] # None, row'[a][f] # None
               PROVE  row'[a][f] # row'[b][f]
    BY <1>1, KeysDifferNext
  <2>1. CASE a = p
    BY <1>1, <1>2, <2>1 DEF Alone
  <2>2. CASE b = p
    BY <1>1, <1>2, <1>3, <2>2 DEF Alone
  <2>3. CASE a # p /\ b # p
    BY <1>1, <1>2, <2>3, KeysDiffer DEF KeysInv
  <2> QED BY <2>1, <2>2, <2>3
<1>5. DraftsApart'
  <2> SUFFICES ASSUME NEW s \in Requests, draft'[s] # None
               PROVE  /\ \A f \in DOMAIN draft'[s] \cap Keys : \A q \in Users \ {self'[s]} :
                            draft'[s][f] # None /\ row'[q] # None => row'[q][f] # draft'[s][f]
                      /\ \A t \in Requests \ {s} : draft'[t] # None =>
                            /\ self'[t] # self'[s]
                            /\ \A f \in DOMAIN draft'[s] \cap DOMAIN draft'[t] \cap Keys :
                                  draft'[s][f] # None => draft'[s][f] # draft'[t][f]
    BY DEF DraftsApart
  <2>1. s # r /\ draft'[s] = draft[s] /\ self'[s] = self[s]
    BY DEF Tidy
  <2>2. ASSUME NEW f \in DOMAIN draft[s] \cap Keys, NEW q \in Users \ {self[s]},
               draft[s][f] # None, row'[q] # None
        PROVE  row'[q][f] # draft[s][f]
    <3>1. CASE q = p
      BY <1>1, <2>1, <2>2, <3>1 DEF Alone
    <3>2. CASE q # p
      BY <1>1, <2>1, <2>2, <3>2 DEF KeysInv, DraftsApart, People
    <3> QED BY <3>1, <3>2
  <2>3. ASSUME NEW t \in Requests \ {s}, draft'[t] # None
        PROVE  /\ self'[t] # self'[s]
               /\ \A f \in DOMAIN draft'[s] \cap DOMAIN draft'[t] \cap Keys :
                     draft'[s][f] # None => draft'[s][f] # draft'[t][f]
    <3>1. t # r /\ draft'[t] = draft[t] /\ self'[t] = self[t]
      BY <2>3 DEF Tidy
    <3> QED BY <2>1, <2>3, <3>1 DEF KeysInv, DraftsApart
  <2> QED BY <2>1, <2>2, <2>3
<1> QED BY <1>4, <1>5 DEF KeysInv

\* A step that writes no row and no key in a transaction.
LEMMA OthersKeepKeys ==
    ASSUME CallsInv, KeysInv, NEW r \in Requests, Tidy(r), row' = row,
           draft'[r] = None \/
              (/\ draft[r] # None /\ self'[r] = self[r]
               /\ DOMAIN draft'[r] \subseteq DOMAIN draft[r] \cup {"password"}
               /\ \A f \in DOMAIN draft'[r] \cap Keys : draft'[r][f] = draft[r][f])
    PROVE  KeysInv'
<1>1. KeysAreUnique'
  BY DEF KeysInv, KeysAreUnique
<1>2. "password" \notin Keys
  BY DEF Keys
<1>3. ASSUME NEW s \in Requests, draft'[s] # None
      PROVE  /\ draft[s] # None /\ self'[s] = self[s]
             /\ DOMAIN draft'[s] \cap Keys \subseteq DOMAIN draft[s]
             /\ \A f \in DOMAIN draft'[s] \cap Keys : draft'[s][f] = draft[s][f]
  <2>1. CASE s = r
    BY <1>2, <1>3, <2>1
  <2>2. CASE s # r
    BY <1>3, <2>2 DEF Tidy
  <2> QED BY <2>1, <2>2
<1>4. ASSUME NEW s \in Requests, draft'[s] # None,
             NEW f \in DOMAIN draft'[s] \cap Keys, NEW q \in Users \ {self'[s]},
             draft'[s][f] # None, row'[q] # None
      PROVE  row'[q][f] # draft'[s][f]
  <2>1. draft[s] # None /\ self'[s] = self[s] /\ f \in DOMAIN draft[s] \cap Keys
        /\ draft'[s][f] = draft[s][f]
    BY <1>3, <1>4
  <2> QED BY <1>4, <2>1 DEF KeysInv, DraftsApart
<1>5. ASSUME NEW s \in Requests, draft'[s] # None, NEW t \in Requests \ {s}, draft'[t] # None
      PROVE  /\ self'[t] # self'[s]
             /\ \A f \in DOMAIN draft'[s] \cap DOMAIN draft'[t] \cap Keys :
                   draft'[s][f] # None => draft'[s][f] # draft'[t][f]
  <2>1. draft[s] # None /\ self'[s] = self[s] /\ draft[t] # None /\ self'[t] = self[t]
    BY <1>3, <1>5
  <2>2. ASSUME NEW f \in DOMAIN draft'[s] \cap DOMAIN draft'[t] \cap Keys
        PROVE  /\ f \in DOMAIN draft[s] \cap DOMAIN draft[t] \cap Keys
               /\ draft'[s][f] = draft[s][f] /\ draft'[t][f] = draft[t][f]
    BY <1>3, <1>5
  <2> QED BY <2>1, <2>2 DEF KeysInv, DraftsApart
<1>6. DraftsApart'
  BY <1>4, <1>5 DEF DraftsApart
<1> QED BY <1>1, <1>6 DEF KeysInv

\* The row of another call's open transaction, and its keys, are not touched by a
\* write that no open transaction makes wait.
LEMMA NotPending ==
    ASSUME NEW r, NEW new, ~KeyPending(r, new), NEW s \in Requests \ {r}, draft[s] # None,
           NEW f \in DOMAIN draft[s] \cap DOMAIN new \cap Keys, new[f] # None
    PROVE  new[f] # draft[s][f]
BY DEF KeyPending

LEMMA NotTaken ==
    ASSUME NEW p, NEW new, ~Taken(p, new), NEW f \in DOMAIN new \cap Keys, new[f] # None,
           NEW q \in Peers(p) \ {p}, row[q] # None
    PROVE  row[q][f] # new[f]
BY DEF Taken, Holders

LEMMA InsertKeepsKeys ==
    ASSUME CallsInv, KeysInv, NEW r \in Requests, Insert(r)
    PROVE  KeysInv'
<1>1. Tidy(r)
  BY InsertIsTidy
<1>2. draft' = draft /\ draft[r] = None
  BY Parts DEF Insert, At, DraftOf, Drafting
<1>3. CASE row' = row
  BY <1>1, <1>2, <1>3, OthersKeepKeys
<1> DEFINE new == NewRow(call[r])
<1>4. ASSUME NEW u \in Users, Put(r, u, new), ~Taken(None, new), ~KeyPending(r, new), new \in Row
      PROVE  KeysInv'
  <2>1. DOMAIN new \cap Keys = Keys
    BY DEF NewRow, Keys
  <2>2. Peers(u) = Peers(None) /\ None \notin Users /\ u \in People
    BY ConstantsAssumption DEF People, Peers
  <2> HIDE DEF new
  <2>3. Alone(r, u, new)
    <3>1. \A q \in Peers(u) \ {u} : \A f \in Keys :
             row[q] # None /\ new[f] # None => row[q][f] # new[f]
      BY <1>4, <2>1, <2>2, NotTaken, ConstantsAssumption DEF Peers, People
    <3>2. \A s \in Requests \ {r} : \A f \in Keys :
             /\ draft[s] # None /\ f \in DOMAIN draft[s] /\ draft[s][f] # None
             => new[f] # draft[s][f]
      BY <1>4, <2>1, NotPending
    <3> QED BY <3>1, <3>2 DEF Alone
  <2> QED BY <1>1, <1>2, <1>4, <2>2, <2>3, WritesKeepKeys
<1>5. new \in Row
  <2>1. call[r] \in Call /\ call[r].op \in {"register", "google"}
    BY Parts, CallTypes DEF Insert, At, Stands, StatementsOf
  <2>2. /\ call[r].email \in Typed
        /\ call[r].op = "register" => call[r].mobile \in Mobiles \cup {None}
                                      /\ call[r].password \in Passwords
        /\ call[r].op = "google" => call[r].google \in GoogleIds
    BY <2>1, CallTypes
  <2> QED BY <2>1, <2>2, ConstantsAssumption DEF NewRow, Row, Stored
<1> QED BY <1>3, <1>4, <1>5 DEF Insert

LEMMA LinkKeepsKeys ==
    ASSUME CallsInv, KeysInv, NEW r \in Requests, Link(r)
    PROVE  KeysInv'
<1>1. Tidy(r)
  BY LinkIsTidy
<1>2. draft' = draft /\ draft[r] = None /\ Active(r) /\ at[r] = "link"
  BY Parts DEF Link, At, DraftOf, Drafting
<1>3. CASE row' = row
  BY <1>1, <1>2, <1>3, OthersKeepKeys
<1>4. ASSUME NEW u \in Users, row[u] # None, ~Taken(u, [google |-> call[r].google]),
             Put(r, u, [row[u] EXCEPT !.google = call[r].google])
      PROVE  KeysInv'
  <2> DEFINE new == [row[u] EXCEPT !.google = call[r].google]
  <2>1. call[r].google \in GoogleIds
    BY <1>2, Parts, CallTypes DEF Stands, StatementsOf
  <2>2. row \in [People -> Row \cup {None}] /\ u \in People /\ row[u] \in Row
    BY <1>4 DEF CallsInv, TypeOK, People
  <2>3. new \in Row /\ new.google = call[r].google
        /\ \A f \in Keys \ {"google"} : new[f] = row[u][f]
    BY <2>1, <2>2 DEF Row, Keys
  <2> HIDE DEF new
  <2>4. "google" \in DOMAIN [google |-> call[r].google] \cap Keys
    BY DEF Keys
  <2>5. ASSUME NEW q \in Peers(u) \ {u}, NEW f \in Keys, row[q] # None, new[f] # None
        PROVE  row[q][f] # new[f]
    <3>1. CASE f = "google"
      BY <1>4, <2>3, <2>4, <2>5, <3>1, NotTaken
    <3>2. CASE f # "google"
      BY <1>4, <2>2, <2>3, <2>5, <3>2, KeysDiffer DEF KeysInv
    <3> QED BY <3>1, <3>2
  <2>6. ASSUME NEW s \in Requests \ {r}, NEW f \in Keys, draft[s] # None,
               u \in Users \ {self[s]}, f \in DOMAIN draft[s], draft[s][f] # None
        PROVE  new[f] # draft[s][f]
    <3>1. DOMAIN draft[s] \subseteq Columns
      BY <2>6, DraftShape
    <3>2. f # "google"
      BY <2>6, <3>1 DEF Columns
    <3>3. row[u][f] # draft[s][f]
      BY <1>4, <2>6 DEF KeysInv, DraftsApart
    <3> QED BY <2>3, <3>2, <3>3
  <2>7. Alone(r, u, new)
    BY <2>5, <2>6 DEF Alone
  <2>8. Put(r, u, new)
    BY <1>4 DEF new
  <2> QED BY <1>1, <1>2, <2>2, <2>3, <2>7, <2>8, WritesKeepKeys
<1>5. ASSUME Holders(Users, "email", Wanted(call[r], "email")) # {}
      PROVE  LET u == CHOOSE p \in Holders(Users, "email", Wanted(call[r], "email")) : TRUE IN
             u \in Users /\ row[u] # None
  BY <1>5, Found
<1> QED BY <1>3, <1>4, <1>5 DEF Link

\* A patched row is nobody else's if the keys it changes are not.
LEMMA PatchedAlone ==
    ASSUME CallsInv, KeysInv, NEW r \in Requests, NEW p \in People, row[p] # None,
           NEW changes, DOMAIN changes \subseteq Columns,
           \A f \in DOMAIN changes : changes[f] \in Column[f],
           \A f \in DOMAIN changes \cap Keys : \A q \in Peers(p) \ {p} :
              row[q] # None /\ changes[f] # None => row[q][f] # changes[f],
           \A s \in Requests \ {r} : \A f \in DOMAIN changes \cap Keys :
              draft[s] # None /\ f \in DOMAIN draft[s] /\ draft[s][f] # None
              /\ p \in Users \ {self[s]}
              => changes[f] # draft[s][f]
    PROVE  Alone(r, p, Patch(row[p], changes)) /\ Patch(row[p], changes) \in Row
<1> DEFINE new == Patch(row[p], changes)
<1>1. row \in [People -> Row \cup {None}] /\ row[p] \in Row
  BY DEF CallsInv, TypeOK
<1>2. /\ new \in Row
      /\ \A f \in DOMAIN changes : new[f] = changes[f]
      /\ \A f \in Keys : f \notin DOMAIN changes => new[f] = row[p][f]
  BY <1>1, PatchIsRow
<1> HIDE DEF new
<1>3. ASSUME NEW q \in Peers(p) \ {p}, NEW f \in Keys, row[q] # None, new[f] # None
      PROVE  row[q][f] # new[f]
  <2>1. CASE f \in DOMAIN changes
    BY <1>2, <1>3, <2>1
  <2>2. CASE f \notin DOMAIN changes
    BY <1>1, <1>2, <1>3, <2>2, KeysDiffer DEF KeysInv
  <2> QED BY <2>1, <2>2
<1>4. ASSUME NEW s \in Requests \ {r}, NEW f \in Keys, draft[s] # None,
             p \in Users \ {self[s]}, f \in DOMAIN draft[s], draft[s][f] # None
      PROVE  new[f] # draft[s][f]
  <2>1. CASE f \in DOMAIN changes
    BY <1>2, <1>4, <2>1
  <2>2. CASE f \notin DOMAIN changes
    BY <1>2, <1>4, <2>2 DEF KeysInv, DraftsApart
  <2> QED BY <2>1, <2>2
<1> QED BY <1>2, <1>3, <1>4 DEF Alone, new

LEMMA UpdateKeepsKeys ==
    ASSUME CallsInv, KeysInv, NEW r \in Requests, Update(r)
    PROVE  KeysInv'
<1> DEFINE c == call[r]
           p == self[r]
           w == Written(c)
<1>1. Tidy(r)
  BY UpdateIsTidy
<1>2. Active(r) /\ at[r] = "update" /\ draft[r] = None /\ self' = self
  BY Parts DEF Update, At, DraftOf, Drafting
<1>3. /\ c \in Call /\ c.op \in {"profile", "administer"} /\ c.username # BadName
      /\ p \in People /\ (c.op = "administer" => p \in Users)
  BY <1>2, Parts, CallTypes DEF Stands, StatementsOf
<1>4. CASE UNCHANGED <<row, draft>>
  BY <1>1, <1>2, <1>4, OthersKeepKeys
<1>5. ASSUME c.email # None, row[p] # None, ~Locked(r, p), ~KeyPending(r, w), ~Taken(p, w),
             \/ c.op = "administer" /\ draft' = [draft EXCEPT ![r] = w] /\ row' = row
             \/ Put(r, p, Patch(row[p], w)) /\ draft' = draft
      PROVE  KeysInv'
  <2>1. /\ DOMAIN w \subseteq Columns
        /\ \A f \in DOMAIN w : w[f] \in Column[f]
        /\ w # None
    <3>1. DOMAIN w \subseteq Columns
      BY DEF Written, Columns
    <3> QED BY <1>3, <1>5, <3>1, WrittenIsTyped
  <2>2. \A f \in DOMAIN w \cap Keys : \A q \in Peers(p) \ {p} :
           row[q] # None /\ w[f] # None => row[q][f] # w[f]
    <3> HIDE DEF w
    <3> QED BY <1>5, NotTaken
  <2>3. \A s \in Requests \ {r} : \A f \in DOMAIN w \cap Keys :
           draft[s] # None /\ f \in DOMAIN draft[s] /\ (w[f] # None \/ draft[s][f] # None)
           => w[f] # draft[s][f]
    <3> HIDE DEF w
    <3> QED BY <1>5, NotPending
  <2> HIDE DEF w
  <2>4. CASE Put(r, p, Patch(row[p], w)) /\ draft' = draft
    <3>1. Alone(r, p, Patch(row[p], w)) /\ Patch(row[p], w) \in Row
      BY <1>3, <1>5, <2>1, <2>2, <2>3, PatchedAlone
    <3> QED BY <1>1, <1>2, <1>3, <2>4, <3>1, WritesKeepKeys
  <2>5. CASE c.op = "administer" /\ draft' = [draft EXCEPT ![r] = w] /\ row' = row
    <3>1. KeysAreUnique'
      BY <2>5 DEF KeysInv, KeysAreUnique
    <3>2. p \in Users /\ Peers(p) = Users
      BY <1>3, <2>5, ConstantsAssumption DEF Peers
    <3>3. draft'[r] = w /\ \A s \in Requests \ {r} : draft'[s] = draft[s]
      BY <2>5 DEF CallsInv
    <3>4. \A s \in Requests \ {r} : draft[s] # None => self[s] # p
      BY <1>5 DEF Locked
    <3>5. ASSUME NEW s \in Requests, draft'[s] # None,
                 NEW f \in DOMAIN draft'[s] \cap Keys, NEW q \in Users \ {self'[s]},
                 draft'[s][f] # None, row'[q] # None
          PROVE  row'[q][f] # draft'[s][f]
      <4>1. CASE s = r
        BY <1>2, <2>2, <2>5, <3>2, <3>3, <3>5, <4>1
      <4>2. CASE s # r
        BY <1>2, <2>5, <3>3, <3>5, <4>2 DEF KeysInv, DraftsApart
      <4> QED BY <4>1, <4>2
    <3>6. ASSUME NEW s \in Requests, draft'[s] # None, NEW t \in Requests \ {s}, draft'[t] # None
          PROVE  /\ self'[t] # self'[s]
                 /\ \A f \in DOMAIN draft'[s] \cap DOMAIN draft'[t] \cap Keys :
                       draft'[s][f] # None => draft'[s][f] # draft'[t][f]
      <4>1. CASE s = r
        BY <1>2, <2>3, <3>3, <3>4, <3>6, <4>1
      <4>2. CASE t = r
        BY <1>2, <2>3, <3>3, <3>4, <3>6, <4>2
      <4>3. CASE s # r /\ t # r
        BY <1>2, <3>3, <3>6, <4>3 DEF KeysInv, DraftsApart
      <4> QED BY <4>1, <4>2, <4>3
    <3>7. DraftsApart'
      BY <3>5, <3>6 DEF DraftsApart
    <3> QED BY <3>1, <3>7 DEF KeysInv
  <2> QED BY <1>5, <2>4, <2>5
<1> QED BY <1>4, <1>5 DEF Update, IsWithin

LEMMA SetPasswordKeepsKeys ==
    ASSUME CallsInv, KeysInv, NEW r \in Requests, SetPassword(r)
    PROVE  KeysInv'
<1> DEFINE c == call[r]
           p == self[r]
<1>1. Tidy(r)
  BY SetPasswordIsTidy
<1>2. Active(r) /\ at[r] = "setPassword" /\ self' = self
  BY DEF SetPassword, At
<1>3. /\ c \in Call /\ c.op \in {"reset", "change", "administer"}
      /\ p \in People /\ row[p] # None
  BY <1>2, Parts, CallTypes DEF Stands, StatementsOf, HasRow, People
<1>4. CASE c.op = "administer"
  <2>1. /\ row' = row
        /\ draft' = [draft EXCEPT ![r] =
                       [f \in DOMAIN Drafted(r) \cup {"password"} |->
                          IF f = "password" THEN c.password ELSE Drafted(r)[f]]]
    BY <1>4 DEF SetPassword
  <2>2. draft[r] # None
    <3>1. c.email # None /\ c.username # BadName
      BY <1>2, <1>3, <1>4, Parts DEF Stands
    <3>2. Written(c) # None
      BY <1>3, <1>4, <3>1, WrittenIsTyped
    <3> QED BY <1>2, <1>4, <3>2, Parts DEF DraftOf, Drafting
  <2>3. draft'[r] = [f \in DOMAIN draft[r] \cup {"password"} |->
                        IF f = "password" THEN c.password ELSE draft[r][f]]
    BY <2>1, <2>2 DEF Drafted, CallsInv
  <2>4. /\ DOMAIN draft'[r] \subseteq DOMAIN draft[r] \cup {"password"}
        /\ \A f \in DOMAIN draft'[r] \cap Keys : draft'[r][f] = draft[r][f]
    BY <2>3 DEF Keys
  <2> QED BY <1>1, <1>2, <2>1, <2>2, <2>4, OthersKeepKeys
<1>5. CASE c.op # "administer"
  <2> DEFINE new == [row[p] EXCEPT !.password = c.password]
  <2>1. Put(r, p, new) /\ draft' = draft /\ draft[r] = None
    BY <1>5, Parts DEF SetPassword, DraftOf, Drafting
  <2>2. row[p] \in Row /\ c.password \in Passwords
    BY <1>3, <1>5, CallTypes DEF CallsInv, TypeOK
  <2>3. new \in Row /\ \A f \in Keys : new[f] = row[p][f]
    BY <2>2 DEF Row, Keys
  <2> HIDE DEF new
  <2>4. Alone(r, p, new)
    <3>1. \A q \in Peers(p) \ {p} : \A f \in Keys :
             row[q] # None /\ new[f] # None => row[q][f] # new[f]
      BY <1>3, <2>3, KeysDiffer DEF KeysInv, CallsInv, TypeOK
    <3>2. \A s \in Requests \ {r} : \A f \in Keys :
             /\ draft[s] # None /\ p \in Users \ {self[s]} /\ f \in DOMAIN draft[s]
             /\ draft[s][f] # None
             => new[f] # draft[s][f]
      BY <1>3, <2>3 DEF KeysInv, DraftsApart
    <3> QED BY <3>1, <3>2 DEF Alone
  <2> QED BY <1>1, <1>3, <2>1, <2>3, <2>4, WritesKeepKeys
<1> QED BY <1>4, <1>5

LEMMA CommitKeepsKeys ==
    ASSUME CallsInv, KeysInv, NEW r \in Requests, Commit(r)
    PROVE  KeysInv'
<1> DEFINE c == call[r]
           p == self[r]
           w == ChangeOf(c)
<1>1. Tidy(r) /\ Put(r, p, Patch(row[p], w))
  BY CommitIsTidy
<1>2. Active(r) /\ at[r] = "commit"
  BY DEF Commit, At
<1>3. /\ c \in Call /\ c.op = "administer" /\ p \in Users /\ row[p] # None
      /\ c.email # None /\ c.username # BadName
  BY <1>2, Parts, CallTypes DEF Stands, StatementsOf, HasRow
<1>4. w # None /\ \A f \in DOMAIN w : w[f] \in Column[f]
  BY <1>3, ChangeIsTyped
<1>5. DOMAIN w \subseteq Columns
  BY DEF ChangeOf, Columns
<1> HIDE DEF w
<1>6. draft[r] = w
  BY <1>2, <1>3, Parts DEF DraftOf, Drafting, w
<1>7. draft'[r] = None
  BY DEF Commit, CallsInv
<1>8. p \in People /\ Peers(p) = Users
  BY <1>3, ConstantsAssumption DEF People, Peers
<1>9. \A f \in DOMAIN w \cap Keys : \A q \in Peers(p) \ {p} :
         row[q] # None /\ w[f] # None => row[q][f] # w[f]
  BY <1>4, <1>6, <1>8 DEF KeysInv, DraftsApart
<1>10. \A s \in Requests \ {r} : \A f \in DOMAIN w \cap Keys :
         draft[s] # None /\ f \in DOMAIN draft[s] /\ draft[s][f] # None
         => w[f] # draft[s][f]
  BY <1>4, <1>6 DEF KeysInv, DraftsApart
<1>11. Alone(r, p, Patch(row[p], w)) /\ Patch(row[p], w) \in Row
  BY <1>3, <1>4, <1>5, <1>8, <1>9, <1>10, PatchedAlone
<1> QED BY <1>1, <1>7, <1>8, <1>11, WritesKeepKeys

LEMMA KeysStay == CallsInv /\ KeysInv /\ [Next]_vars => KeysInv'
<1> SUFFICES ASSUME CallsInv, KeysInv, [Next]_vars
             PROVE  KeysInv'
  OBVIOUS
<1>1. ASSUME NEW r \in Requests, Step(r)
      PROVE  KeysInv'
  <2>1. Tidy(r)
    BY <1>1, StepIsTidy
  <2>2. ASSUME NEW c \in Calls, Receive(r, c)
        PROVE  KeysInv'
    <3>1. draft' = draft /\ row' = row /\ draft[r] = None
      BY <2>2, Parts DEF Receive, DraftOf, Drafting, Active
    <3> QED BY <2>1, <3>1, OthersKeepKeys
  <2>3. CASE Read(r) \/ Code(r)
    <3>1. draft' = draft /\ row' = row /\ draft[r] = None
      BY <2>3, ReadersLeaveRows, Parts DEF DraftOf
    <3> QED BY <2>1, <3>1, OthersKeepKeys
  <2>4. CASE Write(r)
    BY <2>4, InsertKeepsKeys, LinkKeepsKeys, UpdateKeepsKeys, SetPasswordKeepsKeys,
       CommitKeepsKeys DEF Write
  <2>5. CASE Fail(r)
    <3>1. draft'[r] = None /\ row' = row
      BY <2>5 DEF Fail, CallsInv
    <3> QED BY <2>1, <3>1, OthersKeepKeys
  <2> QED BY <1>1, <2>2, <2>3, <2>4, <2>5 DEF Step
<1>2. CASE UNCHANGED vars
  BY <1>2 DEF vars, KeysInv, KeysAreUnique, DraftsApart
<1> QED BY <1>1, <1>2 DEF Next, Step

LEMMA KeysStart == Init => KeysInv
<1> SUFFICES ASSUME Init PROVE KeysInv
  OBVIOUS
<1>1. row \in [People -> Row \cup {None}]
  BY ConstantsAssumption DEF Init
<1>2. KeysAreUnique
  BY <1>1, ConstantsAssumption, KeysDiffer DEF Init
<1>3. DraftsApart
  BY DEF Init, DraftsApart
<1> QED BY <1>2, <1>3 DEF KeysInv

\* No two users, and no two administrators, ever share an address, a username, a
\* mobile number or a Google id, whichever calls race, and though an open
\* transaction's keys are not in the tables yet.
THEOREM KeysStayUnique == Spec => []KeysAreUnique
<1>1. KeysInv => KeysAreUnique
  BY DEF KeysInv
<1> QED BY <1>1, CallsStart, CallsStay, KeysStart, KeysStay, PTL DEF Spec

-----------------------------------------------------------------------------
(* What a call knows.                                                      *)

\* What others write elsewhere, in rows the call does not name, leaves what it was
\* told true.
LEMMA ToldStays ==
    ASSUME NEW c \in Call, NEW s, NEW p, NEW proof, Stands(c, s, p, proof),
           NEW rows \in [People -> Row \cup {None}],
           NEW x \in People, NEW new \in Row, Told(c, s, p, rows),
           HasRow(c, s) => rows[p] # None,
           p # x, ~IsNamed(c, rows[x]), ~IsNamed(c, new)
    PROVE  Told(c, s, p, [rows EXCEPT ![x] = new])
<1> DEFINE after == [rows EXCEPT ![x] = new]
<1>1. new # None /\ after[x] = new /\ \A q \in People \ {x} : after[q] = rows[q]
  BY ConstantsAssumption
<1>2. \A q : Peers(q) \subseteq People
  BY DEF People, Peers
<1>3. ASSUME NEW f \in DOMAIN c \cap Keys, Given(c[f])
      PROVE  new[f] # Wanted(c, f)
  BY <1>1, <1>3 DEF IsNamed, Wanted, Keys
<1> HIDE DEF after
<1>4. c.op # "send" =>
          \A f \in DOMAIN c \cap Keys : s \in Passed[f] /\ Given(c[f]) =>
             \A q \in Peers(p) \ {p} : after[q] # None => after[q][f] # Wanted(c, f)
  BY <1>1, <1>2, <1>3 DEF Told
<1>5. s = "link" => \E u \in Users : after[u] # None /\ after[u].email = Lower[c.email]
  <2> SUFFICES ASSUME s = "link"
               PROVE  \E u \in Users : after[u] # None /\ after[u].email = Lower[c.email]
    OBVIOUS
  <2>1. PICK u \in Users : rows[u] # None /\ rows[u].email = Lower[c.email]
    BY DEF Told
  <2>2. "email" \in DOMAIN c /\ Given(c.email)
    BY CallTypes, ConstantsAssumption DEF Stands, StatementsOf, Given
  <2>3. u # x
    BY <2>1, <2>2 DEF IsNamed
  <2> QED BY <1>1, <2>1, <2>3 DEF People
<1>6. HasRow(c, s) => p \in People /\ after[p] = rows[p]
  BY <1>1, CallTypes DEF HasRow, Stands, StatementsOf, People
<1>7. c.op = "reset" /\ s \notin {"byEmail", "byMobile"} => IsNamed(c, after[p])
  BY <1>6 DEF Told, HasRow
<1>8. c.op = "change" /\ s = "setPassword" => after[p].password = c.old
  BY <1>6 DEF Told, HasRow
<1>9. c.op = "login" /\ (s = "byAdmin" \/ (s = "meta" /\ p \in Admins)) =>
          \A u \in Users : after[u] # None => after[u].email # Lower[c.email]
  <2> SUFFICES ASSUME c.op = "login", s = "byAdmin" \/ (s = "meta" /\ p \in Admins),
                      NEW u \in Users, after[u] # None
               PROVE  after[u].email # Lower[c.email]
    OBVIOUS
  <2>1. "email" \in DOMAIN c /\ Given(c.email)
    BY CallTypes, ConstantsAssumption DEF Given
  <2>2. CASE u = x
    BY <1>1, <2>1, <2>2 DEF IsNamed
  <2>3. CASE u # x
    BY <1>1, <2>3 DEF Told, People
  <2> QED BY <2>2, <2>3
<1>10. c.op = "login" /\ s = "meta" => after[p].email = Lower[c.email]
  BY <1>6 DEF Told, HasRow
<1>11. c.op = "authenticate" /\ s = "byAdmin" => c.email = after[c.id].email
  BY <1>6 DEF Told, HasRow, Stands
<1>12. c.op = "authenticate" /\ s = "meta" => p = c.id
  BY DEF Told
<1>13. Told(c, s, p, after)
  BY <1>4, <1>5, <1>7, <1>8, <1>9, <1>10, <1>11, <1>12 DEF Told
<1> QED BY <1>13 DEF after

\* What a statement tells a call that goes on from it, for p2, to the next one.
Learns(c, s, p, p2, rows) ==
    /\ s \notin {"byEmail", "byMobile", "byAdmin"} => p2 = p
    /\ s \in DOMAIN FieldOf =>
          \A q \in Peers(p) \ {p} :
             rows[q] # None => rows[q][FieldOf[s]] # Wanted(c, FieldOf[s])
    /\ s = "byGoogle" => \A q \in Users : rows[q] # None => rows[q].google # c.google
    /\ s = "byEmail" => p2 \in Users /\ rows[p2] # None /\ rows[p2].email = Lower[c.email]
    /\ s = "byMobile" => p2 \in Users /\ rows[p2] # None /\ rows[p2].mobile = c.mobile
    /\ s = "oldPassword" => rows[p].password = c.old
    /\ s = "byAdmin" => /\ p2 \in Admins /\ rows[p2].email = Lower[c.email]
                        /\ c.op = "authenticate" => p2 = c.id
    /\ s \notin {"readAdmin", "countEmail", "meta"}

LEMMA ToldGoesOn ==
    ASSUME NEW c \in Call, NEW s, NEW p, NEW proof, NEW p2, Stands(c, s, p, proof),
           NEW rows, Told(c, s, p, rows), Learns(c, s, p, p2, rows), Path(c)[s] # "end"
    PROVE  Told(c, Path(c)[s], p2, rows)
<1>1. None # Absent /\ None \notin Typed /\ Absent \notin Typed /\ None \notin Mobiles
      /\ Absent \notin Mobiles /\ Users \cap Admins = {} /\ None \notin Admins
  BY ConstantsAssumption DEF People
<1> USE CallTypes, <1>1 DEF Told, Learns, Stands, StatementsOf, FieldOf, Given, If
<1>2. CASE c.op = "register"
  BY <1>2 DEF Path, Keys, Passed
<1>3. CASE c.op = "google"
  BY <1>3 DEF Path, Keys, Passed, Wanted, Peers
<1>4. CASE c.op = "send"
  BY <1>4 DEF Path
<1>5. CASE c.op = "forgot"
  BY <1>5 DEF Path, Keys, Passed
<1>6. CASE c.op = "reset"
  BY <1>6 DEF Path, Keys, Passed, IsNamed
<1>7. CASE c.op = "profile"
  BY <1>7 DEF Path, Keys, Passed
<1>8. CASE c.op = "administer"
  BY <1>8 DEF Path, Keys, Passed
<1>9. CASE c.op = "change"
  BY <1>9 DEF Path, Keys, Passed
<1>10. CASE c.op = "login"
  BY <1>10 DEF Path, Keys, Passed
<1>11. CASE c.op = "authenticate"
  BY <1>11 DEF Path, Keys, Passed
<1> QED BY <1>2, <1>3, <1>4, <1>5, <1>6, <1>7, <1>8, <1>9, <1>10, <1>11

\* Nothing is claimed of a call where it starts.
LEMMA ToldAtStart ==
    ASSUME NEW c \in Call, NEW p, NEW rows, Path(c).start # "end"
    PROVE  Told(c, Path(c).start, p, rows)
<1> USE CallTypes DEF Told, Given, If
<1>1. CASE c.op = "register"
  BY <1>1 DEF Path, Keys, Passed
<1>2. CASE c.op = "google"
  BY <1>2 DEF Path, Keys, Passed
<1>3. CASE c.op = "send"
  BY <1>3 DEF Path
<1>4. CASE c.op = "forgot"
  BY <1>4 DEF Path, Keys, Passed
<1>5. CASE c.op = "reset"
  BY <1>5 DEF Path, Keys, Passed
<1>6. CASE c.op \in {"profile", "administer"}
  BY <1>6 DEF Path, Keys, Passed
<1>7. CASE c.op = "change"
  BY <1>7 DEF Path, Keys, Passed
<1>8. CASE c.op = "login"
  BY <1>8 DEF Path, Keys, Passed
<1>9. CASE c.op = "authenticate"
  BY <1>9 DEF Path, Keys, Passed
<1> QED BY <1>1, <1>2, <1>3, <1>4, <1>5, <1>6, <1>7, <1>8, <1>9 DEF StatementsOf

\* What another call was told stays true, or it counts as overtaken.
LEMMA OthersKeepFacts ==
    ASSUME CallsInv, NEW r \in Requests, Tidy(r), NEW q \in Requests \ {r},
           Active(q)', q \notin overtaken', q \notin overtaken => Facts(q)
    PROVE  Facts(q)'
<1>1. call'[q] = call[q] /\ at'[q] = at[q] /\ self'[q] = self[q] /\ outcome'[q] = outcome[q]
  BY DEF Tidy
<1>2. Active(q)
  BY <1>1 DEF Active
<1>3. CASE row' = row /\ overtaken' = overtaken
  BY <1>1, <1>3 DEF Facts
<1>4. ASSUME NEW p \in People, NEW new \in Row, Put(r, p, new)
      PROVE  Facts(q)'
  <2>1. /\ row' = [row EXCEPT ![p] = new] /\ q \notin overtaken
        /\ self[q] # p /\ ~IsNamed(call[q], row[p]) /\ ~IsNamed(call[q], new)
    BY <1>2, <1>4 DEF Put
  <2>2. Told(call[q], at[q], self[q], row)
    BY <2>1 DEF Facts
  <2>3. /\ call[q] \in Call /\ Stands(call[q], at[q], self[q], proved[q])
        /\ HasRow(call[q], at[q]) => row[self[q]] # None
        /\ row \in [People -> Row \cup {None}]
    BY <1>2, Parts DEF CallsInv, TypeOK
  <2>4. Told(call[q], at[q], self[q], row')
    BY <2>1, <2>2, <2>3, ToldStays
  <2> QED BY <1>1, <2>4 DEF Facts
<1> QED BY <1>3, <1>4 DEF Tidy

\* A call that goes on along its path knows what the statement it left told it.
LEMMA GoingOnTells ==
    ASSUME CallsInv, NEW r \in Requests, Active(r), GoOn(r), Facts(r), Active(r)',
           UNCHANGED <<row, call>>,
           Learns(call[r], at[r], self[r], self'[r], row)
    PROVE  Facts(r)'
<1> DEFINE n == Path(call[r])[at[r]]
<1>1. at'[r] = n /\ outcome'[r] = (IF n = "end" THEN "done" ELSE "none")
  BY Parts DEF GoOn, Goto, CallsInv, TypeOK
<1>2. n # "end"
  BY <1>1 DEF Active
<1>3. Told(call[r], n, self'[r], row)
  BY <1>2, Parts, ToldGoesOn DEF Facts
<1> QED BY <1>1, <1>3 DEF Facts

LEMMA EndedIsInactive ==
    ASSUME CallsInv, NEW r \in Requests, NEW o \in Outcomes \ {"none"}, End(r, o)
    PROVE  ~Active(r)'
BY DEF CallsInv, TypeOK, End, Active, Outcomes

LEMMA ReadsTell ==
    ASSUME CallsInv, KeysInv, NEW r \in Requests, Read(r), Facts(r), Active(r)'
    PROVE  Facts(r)'
<1> DEFINE c == call[r]
           p == self[r]
<1>0. Active(r) /\ c \in Call /\ Stands(c, at[r], p, proved[r]) /\ UNCHANGED <<row>>
      /\ c.op \in DOMAIN StatementsOf
  BY ReadersLeaveRows, Parts, CallTypes
<1>E. \A o \in Outcomes \ {"none"} : ~End(r, o)
  BY EndedIsInactive
<1>1. CASE IsFree(r)
  <2> DEFINE f == FieldOf[at[r]]
  <2>1. /\ at[r] \in DOMAIN FieldOf /\ UNCHANGED <<row, call, self>>
        /\ GoOn(r) /\ Holders(Peers(p), f, Wanted(c, f)) \ {p} = {}
    BY <1>1, <1>E DEF IsFree, Outcomes
  <2>2. Learns(c, at[r], p, self'[r], row)
    BY <2>1 DEF Learns, Holders, FieldOf
  <2> QED BY <1>0, <2>1, <2>2, GoingOnTells
<1>2. CASE ByEmail(r)
  <2> DEFINE found == Holders(Users, "email", Wanted(c, "email"))
             u == CHOOSE x \in found : TRUE
  <2>0. at[r] = "byEmail" /\ UNCHANGED <<row, call>>
    BY <1>2 DEF ByEmail, At
  <2>1. CASE found # {}
    <3>1. u \in Users /\ row[u] # None /\ row[u].email = Lower[c.email]
      BY <2>1, Found DEF Wanted
    <3>2. GoOn(r) /\ self'[r] = u
      BY <1>2, <2>1 DEF ByEmail, CallsInv, TypeOK
    <3>3. Learns(c, at[r], p, self'[r], row)
      BY <2>0, <3>1, <3>2 DEF Learns, FieldOf
    <3> QED BY <1>0, <2>0, <3>2, <3>3, GoingOnTells
  <2>2. CASE found = {}
    <3>1. \A x \in Users : row[x] # None => row[x].email # Lower[c.email]
      BY <2>2 DEF Holders, Wanted
    <3>2. PICK n \in {"byAdmin", "byMobile"} :
             Goto(r, n) /\ (n = "byAdmin" <=> c.op = "login")
      BY <1>2, <1>E, <2>2 DEF ByEmail, Outcomes
    <3>3. at'[r] = n /\ self' = self
      BY <1>2, <2>2, <3>2 DEF Goto, ByEmail, CallsInv, TypeOK
    <3>4. c.op \in {"login", "forgot", "reset"} /\ p = None /\ None \notin Admins
      BY <1>0, <2>0, ConstantsAssumption DEF Stands, StatementsOf, People
    <3>5. Told(c, n, p, row)
      BY <3>1, <3>2, <3>4 DEF Told, Passed, Keys
    <3> QED BY <2>0, <3>3, <3>5 DEF Facts
  <2> QED BY <2>1, <2>2
<1>3. CASE ByMobile(r)
  <2> DEFINE found == Holders(Users, "mobile", c.mobile)
             u == CHOOSE x \in found : TRUE
  <2>0. at[r] = "byMobile" /\ UNCHANGED <<row, call>>
    BY <1>3 DEF ByMobile, At
  <2>1. found # {} /\ GoOn(r) /\ self'[r] = u
    BY <1>3, <1>E DEF ByMobile, CallsInv, TypeOK, Outcomes
  <2>2. u \in Users /\ row[u] # None /\ row[u].mobile = c.mobile
    BY <2>1, Found
  <2>3. Learns(c, at[r], p, self'[r], row)
    BY <2>0, <2>1, <2>2 DEF Learns, FieldOf
  <2> QED BY <1>0, <2>0, <2>1, <2>3, GoingOnTells
<1>4. CASE ReadAdmin(r)
  <2>1. /\ at[r] = "readAdmin" /\ c.op = "authenticate" /\ c \in AuthenticateCall
        /\ p = c.id
    BY <1>0, <1>4, CallTypes DEF ReadAdmin, At, Stands, StatementsOf
  <2>2. Path(c)[at[r]] = "byAdmin"
    BY <2>1 DEF Path
  <2>3. /\ at'[r] = "byAdmin" /\ self' = self
        /\ call'[r] = [c EXCEPT !.email = row[c.id].email]
    BY <1>4, <2>1, <2>2 DEF ReadAdmin, GoOn, Goto, CallsInv, TypeOK
  <2>4. call'[r].op = "authenticate" /\ call'[r].email = row[c.id].email /\ call'[r].id = c.id
    BY <2>1, <2>3 DEF AuthenticateCall
  <2>5. Told(call'[r], "byAdmin", p, row)
    BY <2>4 DEF Told, Passed, Keys
  <2> QED BY <1>0, <2>3, <2>5 DEF Facts
<1>5. CASE ByAdmin(r)
  <2> DEFINE found == Holders(Admins, "email", Wanted(c, "email"))
             u == CHOOSE x \in found : TRUE
  <2>0. at[r] = "byAdmin" /\ UNCHANGED <<row, call>>
    BY <1>5 DEF ByAdmin, At
  <2>1. found # {} /\ GoOn(r) /\ self'[r] = u
    BY <1>5, <1>E DEF ByAdmin, CallsInv, TypeOK, Outcomes
  <2>2. u \in Admins /\ row[u] # None /\ row[u].email = Lower[c.email]
    BY <2>1, Found DEF Wanted
  <2>3. c.op = "authenticate" => u = c.id
    <3> SUFFICES ASSUME c.op = "authenticate" PROVE u = c.id
      OBVIOUS
    <3>1. c.id \in Admins /\ row[c.id] # None /\ c.email = row[c.id].email
      BY <1>0, <2>0, Parts, CallTypes DEF HasRow, Stands, Facts, Told
    <3>2. row \in [People -> Row \cup {None}] /\ c.id \in People /\ u \in People
      BY <2>2, <3>1 DEF CallsInv, TypeOK, People
    <3>3. row[c.id].email \in Emails
      BY <3>1, <3>2 DEF Row
    <3>4. Lower[c.email] = row[c.id].email /\ row[u].email = row[c.id].email
          /\ row[u].email # None
      BY <2>2, <3>1, <3>3, ConstantsAssumption
    <3>5. c.id \in Peers(u) /\ "email" \in Keys
      BY <2>2, <3>1 DEF Peers, Keys
    <3> HIDE DEF u
    <3> QED BY <2>2, <3>1, <3>2, <3>4, <3>5, KeysDiffer DEF KeysInv
  <2>4. Learns(c, at[r], p, self'[r], row)
    BY <2>0, <2>1, <2>2, <2>3 DEF Learns, FieldOf
  <2> QED BY <1>0, <2>0, <2>1, <2>4, GoingOnTells
<1>6. CASE Meta(r)
  BY <1>6, <1>E DEF Meta, Outcomes
<1>7. CASE OldPassword(r)
  <2>1. /\ at[r] = "oldPassword" /\ UNCHANGED <<row, call, self>>
        /\ GoOn(r) /\ row[p].password = c.old
    BY <1>7, <1>E DEF OldPassword, At, Outcomes, Matches
  <2>2. Learns(c, at[r], p, self'[r], row)
    BY <2>1 DEF Learns, FieldOf
  <2> QED BY <1>0, <2>1, <2>2, GoingOnTells
<1>8. CASE ByGoogle(r)
  <2>1. /\ at[r] = "byGoogle" /\ UNCHANGED <<row, call, self>>
        /\ GoOn(r) /\ Holders(Users, "google", c.google) = {}
    BY <1>8, <1>E DEF ByGoogle, At, Outcomes
  <2>2. Learns(c, at[r], p, self'[r], row)
    BY <2>1 DEF Learns, FieldOf, Holders
  <2> QED BY <1>0, <2>1, <2>2, GoingOnTells
<1>9. CASE CountEmail(r)
  <2> DEFINE found == Holders(Users, "email", Wanted(c, "email"))
             n == IF found # {} THEN "link" ELSE "freeEmail"
  <2>1. /\ at[r] = "countEmail" /\ UNCHANGED <<row, call, self>>
        /\ at'[r] = n
    BY <1>9 DEF CountEmail, At, Goto, CallsInv, TypeOK
  <2>2. found # {} => \E u \in Users : row[u] # None /\ row[u].email = Lower[c.email]
    BY DEF Holders, Wanted
  <2>3. c.op = "google" /\ p = None /\ "mobile" \notin DOMAIN c /\ "username" \notin DOMAIN c
    BY <1>0, <2>1, CallTypes DEF Stands, StatementsOf
  <2>4. Told(c, n, p, row)
    BY <1>0, <2>1, <2>2, <2>3 DEF Told, Facts, Passed, Keys
  <2> QED BY <2>1, <2>4 DEF Facts
<1> QED BY <1>1, <1>2, <1>3, <1>4, <1>5, <1>6, <1>7, <1>8, <1>9 DEF Read

LEMMA CodesTell ==
    ASSUME CallsInv, NEW r \in Requests, Code(r), Facts(r), Active(r)'
    PROVE  Facts(r)'
<1>1. Active(r) /\ UNCHANGED row
  BY ReadersLeaveRows
<1>2. \A o \in Outcomes \ {"none"} : ~End(r, o)
  BY EndedIsInactive
<1>3. /\ GoOn(r) /\ UNCHANGED <<call, self>>
      /\ at[r] \in {"verify", "verifyEmail", "verifyMobile", "sendEmail", "sendMobile"}
  <2>1. CASE VerifyBoth(r)
    BY <1>2, <2>1 DEF VerifyBoth, At, Outcomes
  <2>2. ASSUME NEW t \in {"email", "mobile"}, VerifyOne(r, t)
        PROVE  /\ GoOn(r) /\ UNCHANGED <<call, self>>
               /\ at[r] \in {"verify", "verifyEmail", "verifyMobile", "sendEmail", "sendMobile"}
    BY <1>2, <2>2 DEF VerifyOne, At, Outcomes
  <2>3. ASSUME NEW t \in {"email", "mobile"}, SendCode(r, t)
        PROVE  /\ GoOn(r) /\ UNCHANGED <<call, self>>
               /\ at[r] \in {"verify", "verifyEmail", "verifyMobile", "sendEmail", "sendMobile"}
    BY <2>3 DEF SendCode, At
  <2> QED BY <2>1, <2>2, <2>3 DEF Code
<1>4. Learns(call[r], at[r], self[r], self'[r], row)
  BY <1>3 DEF Learns, FieldOf
<1> QED BY <1>1, <1>3, <1>4, GoingOnTells

LEMMA WritesTell ==
    ASSUME CallsInv, NEW r \in Requests, Write(r), Facts(r), Active(r)'
    PROVE  Facts(r)'
<1>1. Tidy(r) /\ Active(r)
  BY InsertIsTidy, LinkIsTidy, UpdateIsTidy, SetPasswordIsTidy, CommitIsTidy
     DEF Write, Insert, Link, Update, SetPassword, Commit, At
<1>2. row' = row
  BY <1>1 DEF Tidy
<1>3. \A o \in Outcomes \ {"none"} : ~End(r, o)
  BY EndedIsInactive
<1>4. GoOn(r) /\ call' = call
  BY <1>3 DEF Write, Insert, Link, Update, SetPassword, Commit, Outcomes
<1>5. at[r] \in {"update", "setPassword"} /\ self' = self
  <2>1. ~Insert(r) /\ ~Link(r) /\ ~Commit(r)
    BY <1>1, <1>4, LastStatement DEF Insert, Link, Commit, At, Active, CallsInv, TypeOK
  <2> QED BY <2>1 DEF Write, Update, SetPassword, At
<1>6. Learns(call[r], at[r], self[r], self'[r], row)
  BY <1>5 DEF Learns, FieldOf
<1> QED BY <1>1, <1>2, <1>4, <1>6, GoingOnTells

LEMMA FactsStay == CallsInv /\ KeysInv /\ FactsInv /\ [Next]_vars => FactsInv'
<1> SUFFICES ASSUME CallsInv, KeysInv, FactsInv, [Next]_vars
             PROVE  FactsInv'
  OBVIOUS
<1>1. ASSUME NEW r \in Requests, Step(r)
      PROVE  FactsInv'
  <2>1. Tidy(r)
    BY <1>1, StepIsTidy
  <2>2. \A q \in overtaken : q \in overtaken'
    BY <2>1 DEF Tidy, Put
  <2>3. ASSUME NEW q \in Requests \ {r}, q \notin overtaken', Active(q)'
        PROVE  Facts(q)'
    <3>1. Active(q)
      BY <2>1, <2>3 DEF Tidy, Active
    <3> QED BY <2>1, <2>2, <2>3, <3>1, OthersKeepFacts DEF FactsInv
  <2>4. ASSUME r \notin overtaken', Active(r)'
        PROVE  Facts(r)'
    <3>1. r \notin overtaken
      BY <2>2, <2>4
    <3>2. ASSUME NEW c \in Calls, Receive(r, c)
          PROVE  Facts(r)'
      <4>1. c \in Call
        BY ConstantsAssumption
      <4>2. /\ call'[r] = c /\ at'[r] = Path(c).start
            /\ outcome'[r] = IF Path(c).start = "end" THEN "done" ELSE "none"
        BY <3>2 DEF Receive, CallsInv, TypeOK
      <4>3. Path(c).start # "end"
        BY <2>4, <4>2 DEF Active
      <4>4. Told(c, Path(c).start, self'[r], row')
        BY <4>1, <4>3, ToldAtStart
      <4> QED BY <4>2, <4>4 DEF Facts
    <3>3. CASE Read(r)
      BY <2>4, <3>1, <3>3, ReadersLeaveRows, ReadsTell DEF FactsInv
    <3>4. CASE Code(r)
      BY <2>4, <3>1, <3>4, ReadersLeaveRows, CodesTell DEF FactsInv
    <3>5. CASE Write(r)
      <4>1. Active(r)
        BY <3>5 DEF Write, Insert, Link, Update, SetPassword, Commit, At
      <4> QED BY <2>4, <3>1, <3>5, <4>1, WritesTell DEF FactsInv
    <3>6. CASE Fail(r)
      BY <2>4, <3>6, EndedIsInactive DEF Fail, Outcomes
    <3> QED BY <1>1, <3>2, <3>3, <3>4, <3>5, <3>6 DEF Step
  <2> QED BY <2>3, <2>4 DEF FactsInv
<1>2. CASE UNCHANGED vars
  BY <1>2 DEF vars, FactsInv, Facts, Active
<1> QED BY <1>1, <1>2 DEF Next, Step

LEMMA FactsStart == Init => FactsInv
BY DEF Init, FactsInv, Active

\* What holds of every state, in one.
UsersInv == CallsInv /\ KeysInv /\ FactsInv

LEMMA UsersInvHolds == Spec => []UsersInv
<1>1. Init => UsersInv
  BY CallsStart, KeysStart, FactsStart DEF UsersInv
<1>2. UsersInv /\ [Next]_vars => UsersInv'
  BY CallsStay, KeysStay, FactsStay DEF UsersInv
<1> QED BY <1>1, <1>2, PTL DEF Spec

-----------------------------------------------------------------------------
(* Why rows change and calls end.                                          *)

\* A key that a call was told is free is held by nobody else.
LEMMA ToldFree ==
    ASSUME NEW c, NEW s, NEW p, NEW rows, Told(c, s, p, rows), c.op # "send",
           NEW f \in DOMAIN c \cap Keys, s \in Passed[f], Given(c[f]),
           NEW q \in Peers(p) \ {p}, rows[q] # None
    PROVE  rows[q][f] # Wanted(c, f)
BY DEF Told

\* A call that was told the truth is not turned away by a unique index.
LEMMA ToldMeetsNoConflict ==
    ASSUME CallsInv, NEW r \in Requests, Write(r), Facts(r)
    PROVE  outcome'[r] # "conflict"
<1> DEFINE c == call[r]
           p == self[r]
<1>1. Active(r)
  BY DEF Write, Insert, Link, Update, SetPassword, Commit, At
<1>2. /\ c \in Call /\ Stands(c, at[r], p, proved[r]) /\ outcome[r] = "none"
      /\ c.op \in DOMAIN StatementsOf /\ Told(c, at[r], p, row)
  BY <1>1, Parts, CallTypes DEF Facts
<1>3. GoOn(r) => outcome'[r] # "conflict"
  BY <1>1, <1>2 DEF GoOn, Goto, CallsInv, TypeOK
<1>4. End(r, "failed") => outcome'[r] # "conflict"
  BY <1>1 DEF End, CallsInv, TypeOK
<1>5. CASE Insert(r)
  <2>1. at[r] = "insert" /\ c.op \in {"register", "google"} /\ p = None
    BY <1>2, <1>5 DEF Insert, At, Stands, StatementsOf
  <2>2. /\ "email" \in DOMAIN c /\ Given(c.email)
        /\ c.op = "register" => "mobile" \in DOMAIN c /\ (c.mobile # None => Given(c.mobile))
        /\ c.op = "google" => "google" \in DOMAIN c /\ Given(c.google)
    BY <1>2, <2>1, CallTypes, ConstantsAssumption DEF Given
  <2>3. at[r] \in Passed.email /\ at[r] \in Passed.mobile /\ at[r] \in Passed.google
    BY <2>1 DEF Passed
  <2>4. ASSUME NEW q \in Peers(None) \ {None}, row[q] # None
        PROVE  /\ row[q].email # Lower[c.email]
               /\ c.op = "register" /\ c.mobile # None => row[q].mobile # c.mobile
               /\ c.op = "google" => row[q].google # c.google
    <3>1. row[q].email # Lower[c.email]
      BY <1>2, <2>1, <2>2, <2>3, <2>4, ToldFree DEF Keys, Wanted
    <3>2. c.op = "register" /\ c.mobile # None => row[q].mobile # c.mobile
      BY <1>2, <2>1, <2>2, <2>3, <2>4, ToldFree DEF Keys, Wanted
    <3>3. c.op = "google" => row[q].google # c.google
      BY <1>2, <2>1, <2>2, <2>3, <2>4, ToldFree DEF Keys, Wanted
    <3> QED BY <3>1, <3>2, <3>3
  <2>5. ~Taken(None, NewRow(c))
    BY <2>1, <2>4 DEF Taken, Holders, NewRow, Stored, Keys
  <2> QED BY <1>3, <1>5, <2>5 DEF Insert
<1>6. CASE Link(r)
  <2> DEFINE found == Holders(Users, "email", Wanted(c, "email"))
             u == CHOOSE x \in found : TRUE
  <2>1. at[r] = "link" /\ c.op = "google" /\ p = None
    BY <1>2, <1>6 DEF Link, At, Stands, StatementsOf
  <2>2. found # {}
    BY <1>2, <2>1 DEF Told, Holders, Wanted
  <2>3. u \in Users
    BY <2>2, Found
  <2> HIDE DEF found, u
  <2>4. /\ "google" \in DOMAIN c /\ Given(c.google) /\ at[r] \in Passed.google
        /\ Peers(u) = Users /\ Peers(p) = Users /\ None \notin Users
    BY <1>2, <2>1, <2>3, CallTypes, ConstantsAssumption DEF Given, Passed, Peers, People
  <2>5. \A q \in Users : row[q] # None => row[q].google # c.google
    BY <1>2, <2>1, <2>4, ToldFree DEF Keys, Wanted
  <2>6. ~Taken(u, [google |-> c.google])
    BY <2>4, <2>5 DEF Taken, Holders
  <2> QED BY <1>3, <1>6, <2>2, <2>6 DEF Link, found, u
<1>7. CASE Update(r)
  <2>1. at[r] = "update" /\ c.op \in {"profile", "administer"}
    BY <1>2, <1>7 DEF Update, At, Stands, StatementsOf
  <2>2. c.email # None => ~Taken(p, Written(c))
    <3> SUFFICES ASSUME c.email # None, NEW f \in DOMAIN Written(c) \cap Keys,
                        Written(c)[f] # None, NEW q \in Peers(p) \ {p}, row[q] # None
                 PROVE  row[q][f] # Written(c)[f]
      BY DEF Taken, Holders
    <3>1. /\ f \in {"email", "username", "mobile"} /\ c[f] # Absent
          /\ Written(c)[f] = Wanted(c, f)
      BY DEF Written, Stored, Wanted
    <3>2. f \in DOMAIN c
      BY <1>2, <2>1, <3>1, CallTypes
    <3>3. Given(c[f])
      BY <3>1 DEF Given, Wanted
    <3>4. at[r] \in Passed[f]
      BY <2>1, <3>1 DEF Passed
    <3> QED BY <1>2, <2>1, <3>1, <3>2, <3>3, <3>4, ToldFree
  <2> QED BY <1>3, <1>4, <1>7, <2>2 DEF Update
<1>8. CASE SetPassword(r) \/ Commit(r)
  BY <1>3, <1>8 DEF SetPassword, Commit
<1> QED BY <1>5, <1>6, <1>7, <1>8 DEF Write

\* Nothing but a write meets a conflict.
LEMMA OnlyWritesConflict ==
    ASSUME CallsInv, NEW r \in Requests, Step(r), ~Write(r), outcome[r] # "conflict"
    PROVE  outcome'[r] # "conflict"
<1>1. \A n : Goto(r, n) => outcome'[r] # "conflict"
  BY DEF Goto, CallsInv, TypeOK
<1>2. \A o : End(r, o) /\ o # "conflict" => outcome'[r] # "conflict"
  BY DEF End, CallsInv, TypeOK
<1>3. CASE \E c \in Calls : Receive(r, c)
  BY <1>3 DEF Receive, CallsInv, TypeOK
<1>4. CASE Read(r)
  BY <1>1, <1>2, <1>4 DEF Read, IsFree, ByEmail, ByMobile, ReadAdmin, ByAdmin, Meta,
     OldPassword, ByGoogle, CountEmail, GoOn
<1>5. CASE Code(r)
  <2>1. CASE VerifyBoth(r)
    BY <1>1, <1>2, <2>1 DEF VerifyBoth, GoOn
  <2>2. ASSUME NEW t \in {"email", "mobile"}, VerifyOne(r, t) \/ SendCode(r, t)
        PROVE  outcome'[r] # "conflict"
    BY <1>1, <1>2, <2>2 DEF VerifyOne, SendCode, GoOn
  <2> QED BY <1>5, <2>1, <2>2 DEF Code
<1>6. CASE Fail(r)
  BY <1>2, <1>6 DEF Fail
<1> QED BY <1>3, <1>4, <1>5, <1>6 DEF Step

\* A call is turned away by a unique index only after another call has written a
\* row it names: what the checks before its write told it no longer held.
THEOREM ConflictsAreOvertaken == Spec => ConflictsComeFromOthers
<1>1. UsersInv /\ [Next]_vars =>
        [\A r \in Requests :
            outcome[r] = "none" /\ outcome'[r] = "conflict" => r \in overtaken]_vars
  <2> SUFFICES ASSUME UsersInv, Next, NEW r \in Requests,
                      outcome[r] = "none", outcome'[r] = "conflict", r \notin overtaken
               PROVE  FALSE
    OBVIOUS
  <2>1. PICK q \in Requests : Step(q)
    BY DEF Next, Step
  <2>2. CallsInv
    BY DEF UsersInv
  <2>3. q = r
    BY <2>1, <2>2, StepIsTidy DEF Tidy
  <2>4. Write(r)
    BY <2>1, <2>2, <2>3, OnlyWritesConflict
  <2>5. Facts(r)
    BY <2>4 DEF UsersInv, FactsInv, Write, Insert, Link, Update, SetPassword, Commit, At
  <2> QED BY <2>2, <2>4, <2>5, ToldMeetsNoConflict
<1> QED BY <1>1, UsersInvHolds, PTL DEF Spec, ConflictsComeFromOthers

\* What a write does to the rows: it makes a new one, or changes some columns of
\* one, for the reasons its call has.
LEMMA RowWrites ==
    ASSUME CallsInv, NEW r \in Requests, Step(r), row' # row
    PROVE  /\ Active(r) /\ call[r] \in Call /\ at[r] # "end" /\ at'[r] = "end"
           /\ \/ Insert(r) \/ Link(r) \/ Update(r) \/ SetPassword(r) \/ Commit(r)
<1>1. Write(r)
  BY ReadersLeaveRows DEF Step, Receive, Fail
<1>2. Active(r) /\ at[r] # "end"
  BY <1>1 DEF Write, Insert, Link, Update, SetPassword, Commit, At
<1>3. at'[r] = "end"
  <2>1. Tidy(r) /\ ~Active(r)'
    BY StepIsTidy DEF Tidy
  <2>2. \A o \in Outcomes \ {"none"} : End(r, o) => at'[r] = "end"
    BY DEF End, CallsInv, TypeOK
  <2>3. GoOn(r) /\ call' = call
    BY <1>1 DEF Write, Insert, Link, Update, SetPassword, Commit
  <2>4. call'[r] # None /\ (Path(call[r])[at[r]] = "end" \/ outcome'[r] = "none")
    BY <1>2, <2>3, Parts DEF GoOn, Goto, Active, CallsInv, TypeOK
  <2>5. Path(call[r])[at[r]] = "end"
    BY <2>1, <2>4 DEF Active
  <2> QED BY <2>3, <2>5 DEF GoOn, Goto, CallsInv, TypeOK
<1> QED BY <1>1, <1>2, <1>3, Parts DEF Write

\* A user appears by a Google login, or with every address of its row proved by
\* a code of the same registration.
THEOREM AddressesAreProved == Spec => RegisteredAddressesAreProved
<1>1. UsersInv /\ [Next]_vars =>
        [\A u \in Users :
            row[u] = None /\ row'[u] # None =>
               \E r \in Requests :
                  /\ at'[r] # at[r] /\ self'[r] = u
                  /\ \/ call[r].op = "google" /\ row'[u].google = call[r].google
                     \/ {row'[u].email, row'[u].mobile} \ {None} \subseteq proved[r]]_vars
  <2> SUFFICES ASSUME UsersInv, Next, NEW u \in Users, row[u] = None, row'[u] # None
               PROVE  \E r \in Requests :
                         /\ at'[r] # at[r] /\ self'[r] = u
                         /\ \/ call[r].op = "google" /\ row'[u].google = call[r].google
                            \/ {row'[u].email, row'[u].mobile} \ {None} \subseteq proved[r]
    OBVIOUS
  <2>1. PICK r \in Requests : Step(r)
    BY DEF Next, Step
  <2>2. CallsInv /\ u \in People /\ row \in [People -> Row \cup {None}]
    BY DEF UsersInv, CallsInv, TypeOK, People
  <2>3. /\ Active(r) /\ call[r] \in Call /\ at'[r] # at[r]
        /\ Insert(r) \/ Link(r) \/ Update(r) \/ SetPassword(r) \/ Commit(r)
    BY <2>1, <2>2, RowWrites
  <2>4. \A p \in People : \A new : row' = [row EXCEPT ![p] = new] => p = u
    BY <2>2
  <2>5. ~Link(r)
    <3> SUFFICES ASSUME Link(r) PROVE FALSE
      OBVIOUS
    <3>1. Holders(Users, "email", Wanted(call[r], "email")) # {}
      BY DEF Link
    <3> DEFINE v == CHOOSE p \in Holders(Users, "email", Wanted(call[r], "email")) : TRUE
    <3>2. v \in People /\ row[v] # None
      BY <3>1, Found DEF People
    <3> HIDE DEF v
    <3>3. row' = [row EXCEPT ![v] = [row[v] EXCEPT !.google = call[r].google]]
      BY DEF Link, Put, v
    <3> QED BY <2>4, <3>2, <3>3
  <2>6. ~Update(r) /\ ~SetPassword(r) /\ ~Commit(r)
    <3>1. Active(r) /\ at[r] \in {"setPassword", "commit"} => self[r] \in People /\ row[self[r]] # None
      BY <2>2, Parts, CallTypes DEF Stands, StatementsOf, HasRow, People
    <3>2. Update(r) => self[r] \in People
      BY <2>2, Parts, CallTypes DEF Update, At, Stands, StatementsOf
    <3> QED BY <2>4, <3>1, <3>2 DEF Update, SetPassword, Commit, At, Put
  <2>7. Insert(r)
    BY <2>3, <2>5, <2>6
  <2>8. PICK v \in Users : Put(r, v, NewRow(call[r])) /\ self' = [self EXCEPT ![r] = v]
    BY <2>7 DEF Insert
  <2>9. v = u /\ row'[u] = NewRow(call[r]) /\ self'[r] = u
    BY <2>2, <2>4, <2>8 DEF Put, People, CallsInv, TypeOK
  <2>10. call[r].op \in {"register", "google"}
    BY <2>2, <2>3, <2>7, Parts, CallTypes DEF Insert, At, Stands, StatementsOf
  <2>11. CASE call[r].op = "google"
    BY <2>3, <2>9, <2>11 DEF NewRow
  <2>12. CASE call[r].op = "register"
    <3>1. {Lower[call[r].email], call[r].mobile} \ {None} \subseteq proved[r]
      BY <2>2, <2>3, <2>7, <2>12, Parts DEF Stands, Insert, At
    <3> QED BY <2>3, <2>9, <2>12, <3>1 DEF NewRow, Stored
  <2> QED BY <2>10, <2>11, <2>12
<1> QED BY <1>1, UsersInvHolds, PTL DEF Spec, RegisteredAddressesAreProved

\* Of an administrator's change to a profile and a password everything is written
\* in one step, or nothing.
THEOREM TransactionsAreAtomic == Spec => AdministratorWritesAllOrNothing
<1>1. UsersInv /\ [Next]_vars =>
        [\A r \in Requests :
            row' # row /\ at'[r] # at[r] /\ call[r].op = "administer" =>
               LET c == call[r] IN
               row'[c.id] = Patch(row[c.id],
                  [f \in {g \in {"email", "username", "mobile"} : c[g] # Absent}
                         \cup (IF Given(c.password) THEN {"password"} ELSE {}) |->
                     IF f = "email" THEN Lower[c.email] ELSE c[f]])]_vars
  <2> SUFFICES ASSUME UsersInv, Next, NEW r \in Requests,
                      row' # row, at'[r] # at[r], call[r].op = "administer"
               PROVE  row'[call[r].id] = Patch(row[call[r].id], ChangeOf(call[r]))
    BY DEF ChangeOf
  <2>1. CallsInv
    BY DEF UsersInv
  <2>2. PICK q \in Requests : Step(q)
    BY DEF Next, Step
  <2>3. q = r
    BY <2>1, <2>2, StepIsTidy DEF Tidy
  <2>4. /\ Active(r) /\ call[r] \in Call
        /\ Insert(r) \/ Link(r) \/ Update(r) \/ SetPassword(r) \/ Commit(r)
    BY <2>1, <2>2, <2>3, RowWrites
  <2>5. Commit(r)
    <3>1. ~Insert(r) /\ ~Link(r)
      BY <2>1, <2>4, Parts DEF Insert, Link, At, Stands, StatementsOf
    <3>2. ~Update(r) /\ ~SetPassword(r)
      BY DEF Update, SetPassword, IsWithin
    <3> QED BY <2>4, <3>1, <3>2
  <2>6. self[r] = call[r].id /\ call[r].id \in People
    BY <2>1, <2>4, Parts, CallTypes DEF Stands
  <2>7. Put(r, self[r], Patch(row[self[r]], ChangeOf(call[r])))
    BY <2>1, <2>5, CommitIsTidy
  <2> QED BY <2>1, <2>6, <2>7 DEF Put, CallsInv, TypeOK
<1> QED BY <1>1, UsersInvHolds, PTL DEF Spec, AdministratorWritesAllOrNothing

\* A password is replaced by an administrator, by its owner who knew the one it
\* replaces, or with the code of the call that resets it.
THEOREM PasswordsAreBacked == Spec => PasswordsChangeForAReason
<1>1. UsersInv /\ [Next]_vars =>
        [\A p \in People :
            row[p] # None /\ row'[p].password # row[p].password =>
               \E r \in Requests : at'[r] # at[r] /\ Backs(r, p)]_vars
  <2> SUFFICES ASSUME UsersInv, Next, NEW p \in People, row[p] # None,
                      row'[p].password # row[p].password
               PROVE  \E r \in Requests : at'[r] # at[r] /\ Backs(r, p)
    OBVIOUS
  <2>1. PICK r \in Requests : Step(r)
    BY DEF Next, Step
  <2>2. CallsInv /\ row \in [People -> Row \cup {None}] /\ row[p] \in Row
    BY DEF UsersInv, CallsInv, TypeOK
  <2>3. row' # row
    OBVIOUS
  <2>4. /\ Active(r) /\ call[r] \in Call /\ at'[r] # at[r]
        /\ Insert(r) \/ Link(r) \/ Update(r) \/ SetPassword(r) \/ Commit(r)
    BY <2>1, <2>2, <2>3, RowWrites
  <2>5. \A q \in People : \A new : Put(r, q, new) => q = p /\ row'[p] = new
    BY <2>2, <2>3 DEF Put
  <2>6. /\ Stands(call[r], at[r], self[r], proved[r])
        /\ HasRow(call[r], at[r]) => row[self[r]] # None
        /\ call[r].op \in DOMAIN StatementsOf
    BY <2>2, <2>4, Parts, CallTypes
  <2>7. ~Insert(r)
    <3>1. Users \subseteq People
      BY DEF People
    <3> QED BY <2>3, <2>5, <3>1 DEF Insert
  <2>8. ~Link(r)
    <3> SUFFICES ASSUME Link(r) PROVE FALSE
      OBVIOUS
    <3>1. Holders(Users, "email", Wanted(call[r], "email")) # {}
      BY <2>3 DEF Link
    <3> DEFINE v == CHOOSE q \in Holders(Users, "email", Wanted(call[r], "email")) : TRUE
    <3>2. v \in People
      BY <3>1, Found DEF People
    <3> HIDE DEF v
    <3>3. Put(r, v, [row[v] EXCEPT !.google = call[r].google])
      BY <2>3 DEF Link, v
    <3>4. v = p /\ row'[p] = [row[p] EXCEPT !.google = call[r].google]
      BY <2>5, <3>2, <3>3
    <3> QED BY <2>2, <3>4 DEF Row
  <2>9. ~Update(r)
    <3> SUFFICES ASSUME Update(r) PROVE FALSE
      OBVIOUS
    <3>1. call[r].op = "profile" \/ call[r].op = "administer"
      BY <2>6 DEF Update, At, Stands, StatementsOf
    <3>2. self[r] \in People
      BY <2>4, <2>6, <3>1, CallTypes DEF Stands
    <3>3. Put(r, self[r], Patch(row[self[r]], Written(call[r])))
      BY <2>3 DEF Update
    <3>4. row'[p] = Patch(row[p], Written(call[r]))
      BY <2>5, <3>2, <3>3
    <3>5. row'[p].password = row[p].password
      BY <2>2, <3>4 DEF Patch, Written, Row
    <3> QED BY <3>5
  <2>10. self[r] = p /\ call[r].op \in {"administer", "change", "reset"}
    <3>1. at[r] \in {"setPassword", "commit"}
      BY <2>4, <2>7, <2>8, <2>9 DEF SetPassword, Commit, At
    <3>2. call[r].op \in {"administer", "change", "reset"} /\ self[r] \in People
      BY <2>4, <2>6, <3>1, CallTypes DEF Stands, StatementsOf, People
    <3>3. \E new : Put(r, self[r], new)
      BY <2>3, <2>4, <2>7, <2>8, <2>9 DEF SetPassword, Commit
    <3> QED BY <2>5, <3>2, <3>3
  <2>11. CASE call[r].op = "administer"
    BY <2>4, <2>6, <2>10, <2>11 DEF Backs, Stands
  <2>12. CASE call[r].op \in {"change", "reset"}
    <3>1. at[r] = "setPassword"
      BY <2>4, <2>6, <2>7, <2>8, <2>9, <2>12 DEF SetPassword, Commit, At, Stands, StatementsOf
    <3>2. r \in overtaken \/ Told(call[r], at[r], self[r], row)
      BY <2>4 DEF UsersInv, FactsInv, Facts
    <3>3. CASE call[r].op = "change"
      BY <2>4, <2>6, <2>10, <3>1, <3>2, <3>3 DEF Backs, Stands, Told
    <3>4. CASE call[r].op = "reset"
      BY <2>4, <2>6, <2>10, <3>1, <3>2, <3>4 DEF Backs, Stands, Told
    <3> QED BY <2>12, <3>3, <3>4
  <2> QED BY <2>10, <2>11, <2>12
<1> QED BY <1>1, UsersInvHolds, PTL DEF Spec, PasswordsChangeForAReason

\* The statements at which a login or an authentication may end.
LEMMA LoginEnds ==
    ASSUME CallsInv, NEW r \in Requests, Step(r), Active(r),
           call[r].op \in {"login", "authenticate"}, outcome'[r] \in {"done", "refused"}
    PROVE  /\ \/ Meta(r) /\ outcome'[r] = IF Matches(self[r], call[r].password)
                                          THEN "done" ELSE "refused"
              \/ /\ ByAdmin(r) /\ Holders(Admins, "email", Wanted(call[r], "email")) = {}
                 /\ outcome'[r] = IF call[r].op = "authenticate" THEN "done" ELSE "refused"
           /\ self'[r] = self[r]
<1> DEFINE c == call[r]
<1>1. /\ c \in Call /\ Stands(c, at[r], self[r], proved[r]) /\ outcome[r] = "none"
      /\ c # None
  BY Parts DEF Active
<1>2. at[r] \in {"byEmail", "byAdmin", "meta", "readAdmin"}
  BY <1>1 DEF Stands, StatementsOf
<1>3. \A o : End(r, o) => outcome'[r] = o
  BY DEF End, CallsInv, TypeOK
<1>4. \A n : Goto(r, n) /\ n # "end" => outcome'[r] = "none"
  BY <1>1 DEF Goto, CallsInv, TypeOK
<1>5. /\ c.op = "login" => Path(c)["byEmail"] = "meta" /\ Path(c)["byAdmin"] = "meta"
      /\ c.op = "authenticate" => Path(c)["readAdmin"] = "byAdmin" /\ Path(c)["byAdmin"] = "meta"
  BY DEF Path
<1>6. CASE ByEmail(r)
  <2>1. at[r] = "byEmail" /\ c.op = "login"
    BY <1>1, <1>6 DEF ByEmail, At, Stands, StatementsOf
  <2>2. GoOn(r) => outcome'[r] = "none"
    BY <1>4, <1>5, <2>1 DEF GoOn
  <2> QED BY <1>4, <1>6, <2>1, <2>2 DEF ByEmail
<1>7. CASE ReadAdmin(r)
  <2>1. at[r] = "readAdmin" /\ c.op = "authenticate"
    BY <1>1, <1>7 DEF ReadAdmin, At, Stands, StatementsOf
  <2>2. GoOn(r) => outcome'[r] = "none"
    BY <1>4, <1>5, <2>1 DEF GoOn
  <2> QED BY <1>7, <2>2 DEF ReadAdmin
<1>8. CASE ByAdmin(r)
  <2>1. GoOn(r) => outcome'[r] = "none"
    BY <1>4, <1>5, <1>8 DEF GoOn, ByAdmin, At
  <2> QED BY <1>3, <1>8, <2>1 DEF ByAdmin
<1>9. CASE Meta(r)
  BY <1>3, <1>9 DEF Meta
<1>10. CASE Fail(r)
  BY <1>3, <1>10 DEF Fail
<1>11. CASE (\E d \in Calls : Receive(r, d)) \/ Code(r) \/ Write(r)
  <2>1. ~\E d \in Calls : Receive(r, d)
    BY <1>1 DEF Receive
  <2>2. ~Code(r)
    BY <1>2 DEF Code, VerifyBoth, VerifyOne, SendCode, At
  <2>3. ~Write(r)
    BY <1>2 DEF Write, Insert, Link, Update, SetPassword, Commit, At
  <2> QED BY <1>11, <2>1, <2>2, <2>3
<1>12. CASE Read(r)
  <2>1. ~IsFree(r) /\ ~ByMobile(r) /\ ~OldPassword(r) /\ ~ByGoogle(r) /\ ~CountEmail(r)
    BY <1>2 DEF IsFree, FieldOf, ByMobile, OldPassword, ByGoogle, CountEmail, At
  <2> QED BY <1>6, <1>7, <1>8, <1>9, <1>12, <2>1 DEF Read
<1> QED BY <1>10, <1>11, <1>12 DEF Step

\* Unless others write the rows they read, a login lets in whoever gives the
\* address and password of a person, and nobody else, and authenticate asks for
\* the password of the administrator who makes the request.
THEOREM LoginsAreDecided == Spec => CredentialsDecide
<1>1. UsersInv /\ [Next]_vars =>
        [\A r \in Requests \ overtaken :
            LET c == call[r] IN
            /\ Active(r) /\ outcome'[r] = "done" =>
                  /\ c.op = "login" => HasCredentials(self'[r], c)
                  /\ c.op = "authenticate" => row[c.id].password = c.password
            /\ Active(r) /\ outcome'[r] = "refused" /\ c.op = "login" =>
                  \A p \in People : HasCredentials(p, c) =>
                     p \in Admins /\ Holders(Users, "email", Lower[c.email]) # {}]_vars
  <2> SUFFICES ASSUME UsersInv, Next, NEW r \in Requests \ overtaken, Active(r),
                      outcome'[r] \in {"done", "refused"},
                      call[r].op \in {"login", "authenticate"}
               PROVE  /\ outcome'[r] = "done" =>
                           /\ call[r].op = "login" => HasCredentials(self'[r], call[r])
                           /\ call[r].op = "authenticate" =>
                                 row[call[r].id].password = call[r].password
                      /\ outcome'[r] = "refused" /\ call[r].op = "login" =>
                           \A p \in People : HasCredentials(p, call[r]) =>
                              p \in Admins /\ Holders(Users, "email", Lower[call[r].email]) # {}
    OBVIOUS
  <2> DEFINE c == call[r]
  <2>1. CallsInv /\ row \in [People -> Row \cup {None}] /\ Told(c, at[r], self[r], row)
    BY DEF UsersInv, CallsInv, TypeOK, FactsInv, Facts
  <2>2. PICK q \in Requests : Step(q)
    BY DEF Next, Step
  <2>3. q = r
    BY <2>1, <2>2, StepIsTidy DEF Tidy, Active
  <2>4. /\ \/ Meta(r) /\ outcome'[r] = IF Matches(self[r], c.password)
                                       THEN "done" ELSE "refused"
           \/ /\ ByAdmin(r) /\ Holders(Admins, "email", Wanted(c, "email")) = {}
              /\ outcome'[r] = IF c.op = "authenticate" THEN "done" ELSE "refused"
        /\ self'[r] = self[r]
    BY <2>1, <2>2, <2>3, LoginEnds
  <2>5. /\ c \in Call /\ Stands(c, at[r], self[r], proved[r])
        /\ HasRow(c, at[r]) => row[self[r]] # None
    BY <2>1, Parts
  <2>6. CASE Meta(r) /\ outcome'[r] = IF Matches(self[r], c.password)
                                      THEN "done" ELSE "refused"
    <3>1. at[r] = "meta"
      BY <2>6 DEF Meta, At
    <3>2. /\ self[r] \in People /\ row[self[r]] # None
          /\ c.op = "login" => row[self[r]].email = Lower[c.email]
          /\ c.op = "login" /\ self[r] \in Admins =>
                \A u \in Users : row[u] # None => row[u].email # Lower[c.email]
          /\ c.op = "authenticate" => self[r] = c.id
      BY <2>1, <2>5, <3>1 DEF Stands, Told, HasRow, People
    <3>3. CASE outcome'[r] = "done"
      BY <2>4, <2>6, <3>2, <3>3 DEF Matches, HasCredentials
    <3>4. CASE outcome'[r] = "refused" /\ c.op = "login"
      <4> SUFFICES ASSUME NEW p \in People, HasCredentials(p, c)
                   PROVE  p \in Admins /\ Holders(Users, "email", Lower[c.email]) # {}
        BY <3>4
      <4>1. row[self[r]].password # c.password
        BY <2>6, <3>4 DEF Matches
      <4>2. row[p] # None /\ row[p].email = Lower[c.email] /\ p # self[r]
        BY <4>1 DEF HasCredentials
      <4>3. row[p].email # None /\ "email" \in Keys
        BY <2>1, <4>2, ConstantsAssumption DEF Row, Keys
      <4>4. p \notin Peers(self[r])
        BY <2>1, <3>2, <3>4, <4>2, <4>3, KeysDiffer DEF UsersInv, KeysInv
      <4>5. self[r] \in Users /\ p \in Admins
        BY <3>2, <3>4, <4>2, <4>4 DEF Peers, People
      <4> QED BY <3>2, <3>4, <4>5 DEF Holders
    <3> QED BY <2>6, <3>3, <3>4
  <2>7. CASE /\ ByAdmin(r) /\ Holders(Admins, "email", Wanted(c, "email")) = {}
             /\ outcome'[r] = IF c.op = "authenticate" THEN "done" ELSE "refused"
    <3>1. at[r] = "byAdmin"
      BY <2>7 DEF ByAdmin, At
    <3>2. \A a \in Admins : row[a] # None => row[a].email # Lower[c.email]
      BY <2>7 DEF Holders, Wanted
    <3>3. CASE c.op = "login"
      BY <2>1, <2>7, <3>1, <3>2, <3>3 DEF Told, HasCredentials, People
    <3>4. CASE c.op = "authenticate"
      <4>1. c.id \in Admins /\ row[c.id] # None /\ c.email = row[c.id].email
        BY <2>1, <2>5, <3>1, <3>4, CallTypes DEF Told, HasRow, Stands
      <4>2. row[c.id].email \in Emails
        BY <2>1, <4>1 DEF Row, People
      <4> QED BY <3>2, <4>1, <4>2, ConstantsAssumption
    <3> QED BY <3>3, <3>4
  <2> QED BY <2>4, <2>6, <2>7
<1> QED BY <1>1, UsersInvHolds, PTL DEF Spec, CredentialsDecide

============================================================================
