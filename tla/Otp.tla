--------------------------------- MODULE Otp ---------------------------------
(***************************************************************************)
(* OtpService: one row per (transport, target) that limits how many codes  *)
(* are sent to it and how many wrong codes it forgives.  send and verify   *)
(* read the row, decide, and write it in a second statement with no        *)
(* transaction around the two, so concurrent calls interleave between      *)
(* them.  A call of Calls is a place in the server where one handler runs; *)
(* it serves any number of calls, one after the other.                     *)
(*                                                                         *)
(* The row keeps lastSentAt; here it is the age of the last code, in ticks *)
(* of the clock, counted no further than needed to see that the block is   *)
(* over.  The code itself is not kept: a guess is right or wrong for the   *)
(* row it is compared with.                                                *)
(*                                                                         *)
(* A definition marked SLIP is not the code's: it is the one after it with *)
(* a mistake such code invites, kept to see that a property notices it.    *)
(***************************************************************************)
EXTENDS Naturals, FiniteSets

CONSTANTS Calls,
          Targets,       \* (transport, lower-case address) pairs
          None,
          MaxAttempt,    \* codes sent before the target is blocked
          MaxRetries,    \* wrong codes before the target is blocked
          Timeout,       \* how long a code is good, and how long until the next
          BlockTimeout   \* how long a block lasts

ASSUME LimitsAssumption ==
    /\ MaxAttempt \in Nat \ {0} /\ MaxRetries \in Nat \ {0}
    /\ Timeout \in Nat /\ BlockTimeout \in Nat
    /\ None \notin Targets

AgeLimit == BlockTimeout + 1

Otp == [age: 0..AgeLimit, attempt: 0..MaxAttempt,
        retries: 0..MaxRetries, lastCodeVerified: BOOLEAN, blocked: BOOLEAN]

ASSUME NoneAssumption == None \notin Otp

VARIABLES
    otp,       \* the table: a row or None for each target
    pc,        \* per call: the statement that comes next
    target,    \* the target it works on
    read,      \* the row its find returned
    sent, wrong, accepted, current
               \* history, read by no action.  Of each target: codes sent since
               \* the last one was verified or a block ran out; of the code
               \* last sent: guesses that were answered "wrong", and whether it
               \* was accepted.  current: the calls for whose target no code
               \* was sent since they read the row

history == <<sent, wrong, accepted, current>>
vars == <<otp, pc, target, read, history>>

\* The history counts one past what the properties tell apart.
CountTo(limit, n) == IF n >= limit THEN limit + 1 ELSE n + 1

Init == /\ otp = [t \in Targets |-> None]
        /\ pc = [c \in Calls |-> "idle"]
        /\ target = [c \in Calls |-> None]
        /\ read = [c \in Calls |-> None]
        /\ sent = [t \in Targets |-> 0]
        /\ wrong = [t \in Targets |-> 0]
        /\ accepted = [t \in Targets |-> FALSE]
        /\ current = {}

-----------------------------------------------------------------------------
IsBlockTimeout(o) == o.age > BlockTimeout
IsTimeout(o) == o.age > Timeout

\* Time passes for every row.
Tick == /\ \E t \in Targets : otp[t] # None /\ otp[t].age < AgeLimit
        /\ otp' = [t \in Targets |->
                     IF otp[t] # None /\ otp[t].age < AgeLimit
                     THEN [otp[t] EXCEPT !.age = @ + 1] ELSE otp[t]]
        /\ UNCHANGED <<pc, target, read, history>>

\* A handler reads the row and is left to run statement step with it.
Await(c, t, o, step) == /\ pc' = [pc EXCEPT ![c] = step]
                        /\ target' = [target EXCEPT ![c] = t]
                        /\ read' = [read EXCEPT ![c] = o]
                        /\ current' = current \cup {c}
                        /\ UNCHANGED <<otp, sent, wrong, accepted>>

Return(c) == /\ pc' = [pc EXCEPT ![c] = "idle"]
             /\ target' = [target EXCEPT ![c] = None]
             /\ read' = [read EXCEPT ![c] = None]

\* The second statement fails, or the process stops before it.
Fail(c) == /\ pc[c] # "idle"
           /\ Return(c)
           /\ current' = current \ {c}
           /\ UNCHANGED <<otp, sent, wrong, accepted>>

-----------------------------------------------------------------------------
(* send: a first code is created; a further one is refused while the       *)
(* target is blocked and while the last code is still good.                *)

FirstSend(c, t) == /\ pc[c] = "idle"
                   /\ otp[t] = None
                   /\ Await(c, t, None, "create")

RefusedForTimeout(o) == \/ o.blocked /\ ~IsTimeout(o)         \* SLIP
                        \/ ~IsTimeout(o) /\ ~o.lastCodeVerified

Refused(o) == \/ o.blocked /\ ~IsBlockTimeout(o)
              \/ ~IsTimeout(o) /\ ~o.lastCodeVerified

AttemptOfCode(o) ==                                          \* SLIP
    IF IsTimeout(o) \/ o.lastCodeVerified THEN 0 ELSE o.attempt
AttemptUntilVerified(o) ==                                   \* SLIP
    IF o.lastCodeVerified THEN 0 ELSE o.attempt

\* The attempts the handler goes on with.
Attempt(o) == IF IsBlockTimeout(o) \/ o.lastCodeVerified THEN 0 ELSE o.attempt

FurtherSend(c, t) ==
    /\ pc[c] = "idle"
    /\ otp[t] # None
    /\ ~Refused(otp[t])
    /\ LET a == Attempt(otp[t])
       IN  Await(c, t, [otp[t] EXCEPT !.attempt = a],
                 IF MaxAttempt - a = 0 THEN "block" ELSE "resend")

VerifiedCode(attempt) == [age |-> 0, attempt |-> attempt, retries |-> 0,
                          lastCodeVerified |-> TRUE, blocked |-> FALSE]  \* SLIP
NewCode(attempt) == [age |-> 0, attempt |-> attempt, retries |-> 0,
                     lastCodeVerified |-> FALSE, blocked |-> FALSE]

\* The insert loses against a concurrent one: @@unique([transport, target]).
Create(c) ==
    /\ pc[c] = "create"
    /\ LET t == target[c] IN
       \/ /\ otp[t] # None
          /\ UNCHANGED <<otp, sent, wrong, accepted>>
       \/ /\ otp[t] = None
          /\ otp' = [otp EXCEPT ![t] = NewCode(1)]
          /\ sent' = [sent EXCEPT ![t] = 1]
          /\ UNCHANGED <<wrong, accepted>>
    /\ current' = current \ {c}
    /\ Return(c)

Resend(c) ==
    /\ pc[c] = "resend"
    /\ LET t == target[c] IN
       /\ otp' = [otp EXCEPT ![t] = NewCode(read[c].attempt + 1)]
       /\ sent' = [sent EXCEPT ![t] =
                     IF accepted[t] \/ IsBlockTimeout(otp[t]) THEN 1
                     ELSE CountTo(MaxAttempt, @)]
       /\ wrong' = [wrong EXCEPT ![t] = 0]
       /\ accepted' = [accepted EXCEPT ![t] = FALSE]
       /\ current' = {d \in current : target[d] # t}
    /\ Return(c)

BlockTarget(c) ==
    /\ pc[c] = "block"
    /\ otp' = [otp EXCEPT ![target[c]].blocked = TRUE]
    /\ current' = current \ {c}
    /\ Return(c)
    /\ UNCHANGED <<sent, wrong, accepted>>

-----------------------------------------------------------------------------
(* verify: refused for an unknown or blocked target and for an old code.   *)

CheckableIfBlocked(t) == otp[t] # None /\ ~IsTimeout(otp[t])   \* SLIP
Checkable(t) == otp[t] # None /\ ~otp[t].blocked /\ ~IsTimeout(otp[t])

RightCode(c, t) == /\ pc[c] = "idle"
                   /\ Checkable(t)
                   /\ Await(c, t, otp[t], "match")

WrongCode(c, t) == /\ pc[c] = "idle"
                   /\ Checkable(t)
                   /\ Await(c, t, [otp[t] EXCEPT !.retries = @ + 1], "mismatch")

ExhaustedLate(retries) == retries > MaxRetries               \* SLIP
Exhausted(retries) == MaxRetries - retries = 0

\* Both writes go to the row as it is by now.
Matched(c) ==
    /\ pc[c] = "match"
    /\ otp' = [otp EXCEPT ![target[c]].lastCodeVerified = TRUE]
    /\ accepted' = [accepted EXCEPT ![target[c]] = @ \/ c \in current]
    /\ current' = current \ {c}
    /\ Return(c)
    /\ UNCHANGED <<sent, wrong>>

Mismatched(c) ==
    /\ pc[c] = "mismatch"
    /\ otp' = [otp EXCEPT ![target[c]].retries = read[c].retries,
                          ![target[c]].blocked = Exhausted(read[c].retries)]
    /\ wrong' = [wrong EXCEPT ![target[c]] =
                   IF c \in current THEN CountTo(MaxRetries, @) ELSE @]
    /\ current' = current \ {c}
    /\ Return(c)
    /\ UNCHANGED <<sent, accepted>>

-----------------------------------------------------------------------------
Send(c, t) == FirstSend(c, t) \/ FurtherSend(c, t)
Verify(c, t) == RightCode(c, t) \/ WrongCode(c, t)
Write(c) == Create(c) \/ Resend(c) \/ BlockTarget(c) \/ Matched(c) \/ Mismatched(c)

Next == \/ Tick
        \/ \E c \in Calls : \/ \E t \in Targets : Send(c, t) \/ Verify(c, t)
                            \/ Write(c) \/ Fail(c)

Spec == Init /\ [][Next]_vars

\* No two calls for one target overlap.
OneCallPerTarget ==
    \A c, d \in Calls : target[c] # None /\ target[c] = target[d] => c = d

SerialSpec == Init /\ [][Next /\ OneCallPerTarget']_vars

\* Time passes, a handler that keeps being run gets its write through at some
\* time, and somebody keeps asking for codes for every target.
Fairness == /\ WF_vars(Tick)
            /\ \A c \in Calls : SF_vars(Write(c))
            /\ \A t \in Targets : SF_vars(\E c \in Calls : Send(c, t))

FairSpec == Spec /\ Fairness

-----------------------------------------------------------------------------
(* Properties.                                                             *)

TypeOK ==
    /\ otp \in [Targets -> Otp \cup {None}]
    /\ pc \in [Calls -> {"idle", "create", "resend", "block", "match", "mismatch"}]
    /\ target \in [Calls -> Targets \cup {None}]
    /\ read \in [Calls -> Otp \cup {None}]
    /\ sent \in [Targets -> 0..(MaxAttempt + 1)]
    /\ wrong \in [Targets -> 0..(MaxRetries + 1)]
    /\ accepted \in [Targets -> BOOLEAN]
    /\ current \subseteq Calls

\* However calls interleave, a target that is not blocked has retries left:
\* the counter is compared with its limit for equality only (verify), so a
\* count beyond it would never block the target again.
UnblockedHasRetries ==
    \A t \in Targets : otp[t] # None /\ ~otp[t].blocked => otp[t].retries < MaxRetries

\* A code is guessed wrongly MaxRetries times at most: the block of verify.
GuessesAreLimited == \A t \in Targets : wrong[t] <= MaxRetries

\* MaxAttempt codes at most are sent before one of them is verified or
\* BlockTimeout passes without a further one: the block of send.
SendsAreLimited == \A t \in Targets : sent[t] <= MaxAttempt

\* lastCodeVerified, which lets the next send start counting from 0, is set
\* only for a code that somebody did present.
VerifiedWasAccepted ==
    \A t \in Targets : otp[t] # None /\ otp[t].lastCodeVerified => accepted[t]

\* A blocked target stays blocked until BlockTimeout after its last code, also
\* when the second statement of some call fails.
BlockLasts ==
    [][\A t \in Targets :
          otp[t] # None /\ otp[t].blocked /\ ~IsBlockTimeout(otp[t])
             => otp'[t].blocked]_vars

\* A blocked target is let in again at some time, if somebody keeps asking,
\* also when stale writes block it again meanwhile.
BlockEnds ==
    \A t \in Targets :
       (otp[t] # None /\ otp[t].blocked) ~> (otp[t] # None /\ ~otp[t].blocked)

=============================================================================
