------------------------------- MODULE CodeMail ------------------------------
(***************************************************************************)
(* How a code reaches its address: OtpService writes it to the row and,    *)
(* without waiting, has MailService put a job into the queue; the workers  *)
(* of MailProcessor take jobs in order, several at a time, render the mail *)
(* and hand it to the mail server.  Failures on the way are swallowed, and *)
(* a job is tried once.  Redis and BullMQ are modelled by what the code    *)
(* relies on: a queue that survives the process, and a job whose worker is *)
(* gone is given to another one, once.                                     *)
(*                                                                         *)
(* Codes are numbered as they are generated, over all addresses; each job  *)
(* is known by its code.  sendSMS calls a service that does nothing.       *)
(*                                                                         *)
(* A definition marked SLIP is not the code's: it is the one after it with *)
(* a mistake such code invites, kept to see that a property notices it.    *)
(***************************************************************************)
EXTENDS Naturals, Sequences, SequencesExt, FiniteSets

CONSTANTS Targets,
          MaxCodes,       \* bound on the codes generated
          Concurrency,    \* of the worker
          Production      \* isProductionApp: otherwise nothing is mailed

ASSUME MailAssumption == MaxCodes \in Nat /\ Concurrency \in Nat \ {0}

Codes == 1..MaxCodes

VARIABLES
    code,       \* per target: the code of its row, 0 for none
    generated,
    owner,      \* per code: its target
    adding,     \* jobs on their way to the queue
    waiting,    \* the queue
    active,     \* per job that a worker has: the step it is at
    stalls,     \* per job: how often its worker went away
    mailed,     \* per job: the mails that went out
    last,       \* per target: the code in the last of its mails
    crossed     \* history, read by no action: targets with two jobs under way
                \* at a time, or with one that was given up

mailVars == <<code, generated, owner, adding, waiting, active, stalls, mailed, last, crossed>>

MailInit == /\ code = [t \in Targets |-> 0]
            /\ generated = 0
            /\ owner = <<>>
            /\ adding = {} /\ waiting = <<>> /\ active = <<>>
            /\ stalls = [j \in Codes |-> 0]
            /\ mailed = [j \in Codes |-> 0]
            /\ last = [t \in Targets |-> 0]
            /\ crossed = {}

UnderWay == adding \cup ToSet(waiting) \cup DOMAIN active
Without(j) == [k \in DOMAIN active \ {j} |-> active[k]]

SentCode(t) == IF code[t] = 0 THEN generated + 1 ELSE code[t]     \* SLIP
NewCode(t) == generated + 1

\* The write of OtpService.send, and sendCodeOnTarget.
Send(t) ==
    /\ generated < MaxCodes
    /\ generated' = generated + 1
    /\ code' = [code EXCEPT ![t] = generated + 1]
    /\ owner' = Append(owner, t)
    /\ adding' = IF Production THEN adding \cup {NewCode(t)} ELSE adding
    /\ crossed' = IF \E j \in UnderWay : owner[j] = t THEN crossed \cup {t} ELSE crossed
    /\ UNCHANGED <<waiting, active, stalls, mailed, last>>

AddJob(j) == /\ j \in adding
             /\ adding' = adding \ {j}
             /\ waiting' = Append(waiting, j)
             /\ UNCHANGED <<code, generated, owner, active, stalls, mailed, last, crossed>>

\* Redis cannot be reached; .catch((err) => err)
AddFails(j) == /\ j \in adding
               /\ adding' = adding \ {j}
               /\ crossed' = crossed \cup {owner[j]}
               /\ UNCHANGED <<code, generated, owner, waiting, active, stalls, mailed, last>>

HasRoomForOneMore == Cardinality(DOMAIN active) <= Concurrency    \* SLIP
HasRoom == Cardinality(DOMAIN active) < Concurrency

Take == /\ waiting # <<>> /\ HasRoom
        /\ active' = [j \in DOMAIN active \cup {Head(waiting)} |->
                        IF j \in DOMAIN active THEN active[j] ELSE "render"]
        /\ waiting' = Tail(waiting)
        /\ UNCHANGED <<code, generated, owner, adding, stalls, mailed, last, crossed>>


At(j, now) == j \in DOMAIN active /\ active[j] = now
Goto(j, next) == /\ active' = [active EXCEPT ![j] = next]
                 /\ UNCHANGED <<code, generated, owner, adding, waiting, stalls, crossed>>

\* A template, read from its file.
Render(j) == /\ At(j, "render")
             /\ Goto(j, "send")
             /\ UNCHANGED <<mailed, last>>

\* The mail server has it.
SendMail(j) == /\ At(j, "send")
               /\ Goto(j, "finish")
               /\ mailed' = [mailed EXCEPT ![j] = @ + 1]
               /\ last' = [last EXCEPT ![owner[j]] = j]

\* removeOnComplete
Complete(j) == /\ At(j, "finish")
               /\ active' = Without(j)
               /\ UNCHANGED <<code, generated, owner, adding, waiting, stalls, mailed, last,
                              crossed>>

TriedAgain == TRUE                                                \* SLIP
\* The options of the queue name no attempts: one.
IsTriedAgain == FALSE

\* A step throws, perhaps after the mail went out; onFailed writes a line.
JobFails(j) ==
    /\ j \in DOMAIN active
    /\ active' = Without(j)
    /\ waiting' = IF IsTriedAgain THEN Append(waiting, j) ELSE waiting
    /\ crossed' = crossed \cup {owner[j]}
    /\ UNCHANGED <<code, generated, owner, adding, stalls, mailed, last>>

\* The process ends: what it was adding is lost, and the jobs its workers had
\* are taken for stalled, which a job may be once.
Crash ==
    LET again == {j \in DOMAIN active : stalls[j] = 0} IN
    /\ adding \cup DOMAIN active # {}
    /\ adding' = {} /\ active' = <<>>
    /\ \E order \in SetToSeqs(again) : waiting' = order \o waiting
    /\ stalls' = [j \in Codes |-> IF j \in again THEN 1 ELSE stalls[j]]
    /\ crossed' = crossed \cup {owner[j] : j \in adding \cup (DOMAIN active \ again)}
    /\ UNCHANGED <<code, generated, owner, mailed, last>>

Work == Take \/ \E j \in Codes : AddJob(j) \/ Render(j) \/ SendMail(j) \/ Complete(j)

MailNext == \/ \E t \in Targets : Send(t)
            \/ \E j \in Codes : AddFails(j) \/ JobFails(j)
            \/ Work \/ Crash

MailSpec == MailInit /\ [][MailNext]_mailVars

-----------------------------------------------------------------------------
(* Properties.                                                             *)

MailTypeOK == /\ code \in [Targets -> 0..MaxCodes]
              /\ generated \in 0..MaxCodes
              /\ owner \in Seq(Targets) /\ Len(owner) = generated
              /\ adding \subseteq 1..generated
              /\ waiting \in Seq(1..generated) /\ IsInjective(waiting)
              /\ active \in [DOMAIN active -> {"render", "send", "finish"}]
              /\ DOMAIN active \subseteq 1..generated \ ToSet(waiting)
              /\ Cardinality(DOMAIN active) <= Concurrency
              /\ stalls \in [Codes -> 0..1]
              /\ mailed \in [Codes -> 0..2]
              /\ last \in [Targets -> 0..MaxCodes]
              /\ crossed \subseteq Targets

\* A code is mailed once, and once more if its worker went away before it could
\* report the mail.
MailsGoOutOnce == \A j \in Codes : mailed[j] <= 1 + stalls[j]

\* If no job of an address was given up or overtaken, then as soon as none is
\* under way the mail it got last holds the code that its row expects.
LastMailIsCurrent ==
    Production => \A t \in Targets \ crossed :
                     (\A j \in UnderWay : owner[j] # t) => last[t] = code[t]

\* A job whose worker keeps working leaves the queue, sent or given up.
JobsLeaveTheQueue == \A j \in Codes : j \in UnderWay ~> j \notin UnderWay

=============================================================================
