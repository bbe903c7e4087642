------------------------------ MODULE OtpProofs ------------------------------
(***************************************************************************)
(* Proofs about Otp: what holds however calls interleave, and what holds   *)
(* when the calls for one target do not overlap.                           *)
(***************************************************************************)
EXTENDS Otp, TLAPS

USE DEF history, vars

-----------------------------------------------------------------------------
(* Any interleaving.                                                       *)

\* What a call at its second statement knows: its target, that the row is
\* there, and bounds on what it is about to write.
CallInv(c) ==
    /\ pc[c] = "idle" <=> target[c] = None
    /\ pc[c] \in {"resend", "block", "match", "mismatch"}
          => otp[target[c]] # None /\ read[c] # None
    /\ pc[c] = "resend" => read[c].attempt < MaxAttempt

IInv == TypeOK /\ UnblockedHasRetries /\ \A c \in Calls : CallInv(c)

\* The empty table satisfies it.
LEMMA StartInv == Init => IInv
  BY LimitsAssumption DEF Init, IInv, TypeOK, UnblockedHasRetries, CallInv

\* What a running call works on, once its step is known.
LEMMA Running ==
  ASSUME IInv, NEW c \in Calls, pc[c] # "idle"
  PROVE  target[c] \in Targets
  BY DEF IInv, TypeOK, CallInv

\* A call that is about to write leaves its place; the other calls keep what
\* they know if the row does not vanish.
LEMMA ReturnKeepsCalls ==
  ASSUME IInv, NEW c \in Calls, Return(c),
         otp' \in [Targets -> Otp \cup {None}],
         \A t \in Targets : otp[t] # None => otp'[t] # None
  PROVE  /\ pc' \in [Calls -> {"idle", "create", "resend", "block", "match", "mismatch"}]
         /\ target' \in [Calls -> Targets \cup {None}]
         /\ read' \in [Calls -> Otp \cup {None}]
         /\ \A d \in Calls : CallInv(d)'
  BY LimitsAssumption, NoneAssumption DEF IInv, TypeOK, CallInv, Return

\* A call that starts reads the row; the others are not touched.
LEMMA AwaitKeepsInv ==
  ASSUME IInv, NEW c \in Calls, NEW t \in Targets, NEW o \in Otp \cup {None},
         NEW step \in {"create", "resend", "block", "match", "mismatch"},
         Await(c, t, o, step),
         step # "create" => otp[t] # None /\ o # None,
         step = "resend" => o.attempt < MaxAttempt
  PROVE  IInv'
  <1>1. TypeOK'
    BY DEF IInv, TypeOK, Await
  <1>2. UnblockedHasRetries'
    BY DEF IInv, UnblockedHasRetries, Await
  <1>3. ASSUME NEW d \in Calls PROVE CallInv(d)'
    BY LimitsAssumption DEF IInv, TypeOK, CallInv, Await
  <1> QED BY <1>1, <1>2, <1>3 DEF IInv

\* Time changes the ages of rows only.
LEMMA TickInv == ASSUME IInv, Tick PROVE IInv'
  <1>1. \A t \in Targets : IF otp[t] = None THEN otp'[t] = None
                           ELSE /\ otp'[t] \in Otp
                                /\ otp'[t].attempt = otp[t].attempt
                                /\ otp'[t].retries = otp[t].retries
                                /\ otp'[t].blocked = otp[t].blocked
    BY LimitsAssumption DEF IInv, TypeOK, Tick, Otp, AgeLimit
  <1>2. otp' \in [Targets -> Otp \cup {None}]
    BY <1>1 DEF Tick
  <1>3. TypeOK'
    BY <1>2 DEF IInv, TypeOK, Tick
  <1>4. UnblockedHasRetries'
    BY <1>1 DEF IInv, UnblockedHasRetries
  <1>5. ASSUME NEW c \in Calls PROVE CallInv(c)'
    BY <1>1, NoneAssumption, LimitsAssumption DEF IInv, TypeOK, CallInv, Tick
  <1> QED BY <1>3, <1>4, <1>5 DEF IInv

\* Reading a row for a send leaves the call with attempts to spare.
LEMMA SendInv ==
  ASSUME IInv, NEW c \in Calls, NEW t \in Targets, Send(c, t) PROVE IInv'
  <1>1. CASE FirstSend(c, t)
    BY <1>1, AwaitKeepsInv DEF FirstSend
  <1>2. CASE FurtherSend(c, t)
    <2> DEFINE a == Attempt(otp[t])
               o == [otp[t] EXCEPT !.attempt = a]
               step == IF MaxAttempt - a = 0 THEN "block" ELSE "resend"
    <2>1. otp[t] \in Otp
      BY <1>2 DEF FurtherSend, IInv, TypeOK
    <2>2. a \in 0..MaxAttempt
      BY <2>1, LimitsAssumption DEF Attempt, Otp
    <2>3. o \in Otp /\ o.attempt = a /\ o # None
      BY <2>1, <2>2, NoneAssumption DEF Otp
    <2>4. step \in {"block", "resend"} /\ (step = "resend" => a < MaxAttempt)
      BY <2>2, LimitsAssumption
    <2>5. Await(c, t, o, step) /\ otp[t] # None
      BY <1>2 DEF FurtherSend
    <2> HIDE DEF a, o, step
    <2> QED BY <2>3, <2>4, <2>5, AwaitKeepsInv
  <1> QED BY <1>1, <1>2 DEF Send

\* Reading a row for a check leaves the call at most one retry further.
LEMMA VerifyInv ==
  ASSUME IInv, NEW c \in Calls, NEW t \in Targets, Verify(c, t) PROVE IInv'
  <1>1. Checkable(t) /\ otp[t] \in Otp /\ otp[t] # None
    BY DEF Verify, RightCode, WrongCode, Checkable, IInv, TypeOK
  <1>2. CASE RightCode(c, t)
    BY <1>1, <1>2, AwaitKeepsInv DEF RightCode
  <1>3. CASE WrongCode(c, t)
    <2> DEFINE o == [otp[t] EXCEPT !.retries = @ + 1]
    <2>1. otp[t].retries < MaxRetries
      BY <1>1 DEF Checkable, IInv, UnblockedHasRetries
    <2>2. o \in Otp /\ o # None
      BY <1>1, <2>1, NoneAssumption, LimitsAssumption DEF Otp
    <2>3. Await(c, t, o, "mismatch")
      BY <1>3 DEF WrongCode
    <2> HIDE DEF o
    <2> QED BY <1>1, <2>2, <2>3, AwaitKeepsInv
  <1> QED BY <1>2, <1>3 DEF Verify

\* The record NewCode builds is a row with all its retries.
LEMMA NewCodeType ==
  ASSUME NEW n \in 1..MaxAttempt
  PROVE  NewCode(n) \in Otp /\ NewCode(n).retries = 0 /\ NewCode(n) # None
  <1>1. 0 \in 0..AgeLimit /\ n \in 0..MaxAttempt /\ 0 \in 0..MaxRetries
    BY LimitsAssumption DEF AgeLimit
  <1>2. NewCode(n) \in Otp
    BY <1>1 DEF NewCode, Otp
  <1>3. NewCode(n).retries = 0
    BY DEF NewCode
  <1> QED BY <1>2, <1>3, NoneAssumption

\* A counter of the history stays within one of its limit.
LEMMA CountToType ==
  ASSUME NEW limit \in Nat, NEW n \in 0..(limit + 1)
  PROVE  /\ CountTo(limit, n) \in 0..(limit + 1)
         /\ n < limit => CountTo(limit, n) = n + 1
  BY DEF CountTo

\* The row each write leaves, and that it touches no other.
LEMMA WriteRow ==
  ASSUME IInv, NEW c \in Calls, Write(c)
  PROVE  LET t == target[c] IN
         /\ t \in Targets
         /\ otp' = [otp EXCEPT ![t] = otp'[t]]
         /\ otp'[t] \in Otp /\ otp'[t] # None
         /\ ~otp'[t].blocked => otp'[t].retries < MaxRetries
  <1> DEFINE t == target[c]
  <1>1. t \in Targets
    BY Running DEF Write, Create, Resend, BlockTarget, Matched, Mismatched
  <1>2. otp[t] \in Otp \cup {None}
    BY <1>1 DEF IInv, TypeOK
  <1>3. otp[t] # None => (~otp[t].blocked => otp[t].retries < MaxRetries)
    BY <1>1 DEF IInv, UnblockedHasRetries
  <1>4. CASE Create(c)
    <2>1. CASE otp[t] # None
      BY <2>1, <1>4, <1>1, <1>2, <1>3 DEF Create, IInv, TypeOK
    <2>2. CASE otp[t] = None
      BY <2>2, <1>4, <1>1, NewCodeType, LimitsAssumption DEF Create, IInv, TypeOK
    <2> QED BY <2>1, <2>2
  <1>5. CASE Resend(c)
    <2>1. read[c] \in Otp /\ read[c].attempt < MaxAttempt
      BY <1>5 DEF Resend, IInv, TypeOK, CallInv
    <2>2. read[c].attempt + 1 \in 1..MaxAttempt
      BY <2>1, LimitsAssumption DEF Otp
    <2> QED BY <2>2, <1>5, <1>1, NewCodeType, LimitsAssumption DEF Resend, IInv, TypeOK
  <1>6. CASE BlockTarget(c)
    <2>1. otp[t] \in Otp
      BY <1>6, <1>1 DEF BlockTarget, IInv, TypeOK, CallInv
    <2>2. otp'[t] = [otp[t] EXCEPT !.blocked = TRUE]
      BY <1>6, <1>1 DEF BlockTarget, IInv, TypeOK
    <2>3. otp'[t] \in Otp /\ otp'[t].blocked
      BY <2>1, <2>2 DEF Otp
    <2> QED BY <2>3, <1>6, <1>1, NoneAssumption DEF BlockTarget, IInv, TypeOK
  <1>7. CASE Matched(c)
    <2>1. otp[t] \in Otp /\ otp[t] # None
      BY <1>7, <1>1 DEF Matched, IInv, TypeOK, CallInv
    <2>2. otp'[t] = [otp[t] EXCEPT !.lastCodeVerified = TRUE]
      BY <1>7, <1>1 DEF Matched, IInv, TypeOK
    <2>3. /\ otp'[t] \in Otp
          /\ otp'[t].blocked = otp[t].blocked
          /\ otp'[t].retries = otp[t].retries
      BY <2>1, <2>2 DEF Otp
    <2> QED BY <2>1, <2>3, <1>3, <1>7, <1>1, NoneAssumption DEF Matched, IInv, TypeOK
  <1>8. CASE Mismatched(c)
    <2>1. otp[t] \in Otp /\ read[c] \in Otp
      BY <1>8, <1>1 DEF Mismatched, IInv, TypeOK, CallInv
    <2>2. otp'[t] = [otp[t] EXCEPT !.retries = read[c].retries,
                                   !.blocked = (MaxRetries - read[c].retries = 0)]
      BY <1>8, <1>1 DEF Mismatched, Exhausted, IInv, TypeOK
    <2>3. otp'[t] \in Otp
      BY <2>1, <2>2 DEF Otp
    <2>4. read[c].retries \in 0..MaxRetries
      BY <2>1 DEF Otp
    <2>5. /\ otp'[t].retries = read[c].retries
          /\ otp'[t].blocked = (MaxRetries - read[c].retries = 0)
      BY <2>1, <2>2 DEF Otp
    <2>6. ~otp'[t].blocked => otp'[t].retries < MaxRetries
      <3>1. ~otp'[t].blocked => MaxRetries - read[c].retries # 0
        BY <2>5, Zenon
      <3> QED BY <2>4, <2>5, <3>1, LimitsAssumption
    <2> QED BY <2>3, <2>6, <1>8, <1>1, NoneAssumption DEF Mismatched, IInv, TypeOK
  <1> QED BY <1>1, <1>4, <1>5, <1>6, <1>7, <1>8 DEF Write

\* What a call writes is a row again, with retries left unless it is blocked.
LEMMA WriteInv == ASSUME IInv, NEW c \in Calls, Write(c) PROVE IInv'
  <1> DEFINE t == target[c]
  <1>1. /\ t \in Targets
        /\ otp' = [otp EXCEPT ![t] = otp'[t]]
        /\ otp'[t] \in Otp /\ otp'[t] # None
        /\ ~otp'[t].blocked => otp'[t].retries < MaxRetries
    BY WriteRow
  <1>2. otp' \in [Targets -> Otp \cup {None}]
    BY <1>1 DEF IInv, TypeOK
  <1>3. \A u \in Targets : otp[u] # None => otp'[u] # None
    BY <1>1 DEF IInv, TypeOK
  <1>4. Return(c)
    BY DEF Write, Create, Resend, BlockTarget, Matched, Mismatched
  <1>5. /\ pc' \in [Calls -> {"idle", "create", "resend", "block", "match", "mismatch"}]
        /\ target' \in [Calls -> Targets \cup {None}]
        /\ read' \in [Calls -> Otp \cup {None}]
        /\ \A d \in Calls : CallInv(d)'
    BY <1>2, <1>3, <1>4, ReturnKeepsCalls
  <1>6. UnblockedHasRetries'
    BY <1>1 DEF IInv, TypeOK, UnblockedHasRetries
  <1>7. /\ sent' \in [Targets -> 0..(MaxAttempt + 1)]
        /\ wrong' \in [Targets -> 0..(MaxRetries + 1)]
        /\ accepted' \in [Targets -> BOOLEAN]
        /\ current' \subseteq Calls
    <2>1. /\ sent \in [Targets -> 0..(MaxAttempt + 1)]
          /\ wrong \in [Targets -> 0..(MaxRetries + 1)]
          /\ accepted \in [Targets -> BOOLEAN]
          /\ current \subseteq Calls
      BY DEF IInv, TypeOK
    <2>2. /\ 0 \in 0..(MaxRetries + 1) /\ 1 \in 0..(MaxAttempt + 1)
          /\ \A n \in 0..(MaxAttempt + 1) : CountTo(MaxAttempt, n) \in 0..(MaxAttempt + 1)
          /\ \A n \in 0..(MaxRetries + 1) : CountTo(MaxRetries, n) \in 0..(MaxRetries + 1)
      BY CountToType, LimitsAssumption
    <2>3. CASE Create(c)
      <3>1. sent' = sent \/ sent' = [sent EXCEPT ![t] = 1]
        BY <2>3 DEF Create
      <3>2. sent' \in [Targets -> 0..(MaxAttempt + 1)]
        BY <2>1, <2>2, <3>1
      <3> QED BY <2>1, <2>3, <3>2 DEF Create
    <2>4. CASE Resend(c)
      <3> DEFINE n == IF accepted[t] \/ IsBlockTimeout(otp[t]) THEN 1
                      ELSE CountTo(MaxAttempt, sent[t])
      <3>1. n \in 0..(MaxAttempt + 1)
        BY <1>1, <2>1, <2>2
      <3>2. sent' = [sent EXCEPT ![t] = n]
        BY <2>4 DEF Resend
      <3>3. sent' \in [Targets -> 0..(MaxAttempt + 1)]
        <4> HIDE DEF n
        <4> QED BY <2>1, <3>1, <3>2
      <3>4. wrong' = [wrong EXCEPT ![t] = 0] /\ accepted' = [accepted EXCEPT ![t] = FALSE]
        BY <2>4 DEF Resend
      <3>5. wrong' \in [Targets -> 0..(MaxRetries + 1)] /\ accepted' \in [Targets -> BOOLEAN]
        BY <2>1, <2>2, <3>4
      <3>6. current' \subseteq Calls
        BY <2>1, <2>4 DEF Resend
      <3> QED BY <3>3, <3>5, <3>6
    <2>5. CASE BlockTarget(c)
      BY <2>1, <2>5 DEF BlockTarget
    <2>6. CASE Matched(c)
      BY <2>1, <2>6 DEF Matched
    <2>7. CASE Mismatched(c)
      BY <1>1, <2>1, <2>2, <2>7 DEF Mismatched
    <2> QED BY <2>3, <2>4, <2>5, <2>6, <2>7 DEF Write
  <1> QED BY <1>2, <1>5, <1>6, <1>7 DEF IInv, TypeOK

\* A call that fails forgets what it has read.
LEMMA FailInv == ASSUME IInv, NEW c \in Calls, Fail(c) PROVE IInv'
  <1>1. Return(c) /\ otp' = otp
    BY DEF Fail
  <1>2. \A d \in Calls : CallInv(d)'
    BY <1>1, ReturnKeepsCalls DEF IInv, TypeOK
  <1>3. TypeOK'
    BY <1>1, ReturnKeepsCalls DEF IInv, TypeOK, Fail
  <1>4. UnblockedHasRetries'
    BY <1>1 DEF IInv, UnblockedHasRetries
  <1> QED BY <1>2, <1>3, <1>4 DEF IInv

\* Every step keeps the invariant of interleaved calls.
LEMMA StepInv == IInv /\ [Next]_vars => IInv'
  <1> SUFFICES ASSUME IInv, [Next]_vars PROVE IInv' OBVIOUS
  <1>1. CASE Next
    BY <1>1, TickInv, SendInv, VerifyInv, WriteInv, FailInv DEF Next
  <1>2. CASE UNCHANGED vars
    BY <1>2 DEF IInv, TypeOK, UnblockedHasRetries, CallInv
  <1> QED BY <1>1, <1>2

\* It holds always.
LEMMA AlwaysIInv == Spec => []IInv
  BY StartInv, StepInv, PTL DEF Spec

\* The OTP table keeps its type: the counters never leave their limits.
THEOREM TypesAreKept == Spec => []TypeOK
  BY AlwaysIInv, PTL DEF IInv

\* A target that is not blocked has retries left, however calls interleave:
\* the test for equality in verify is enough.
THEOREM RetriesNeverPassTheLimit == Spec => []UnblockedHasRetries
  BY AlwaysIInv, PTL DEF IInv

-----------------------------------------------------------------------------
(* Calls for one target do not overlap.                                    *)

\* The history of a target agrees with its row.
RowInv(t) ==
    /\ otp[t] = None => wrong[t] = 0 /\ sent[t] = 0
    /\ otp[t] # None => /\ wrong[t] <= otp[t].retries
                        /\ sent[t] <= otp[t].attempt
                        /\ otp[t].lastCodeVerified => accepted[t]

\* What a call has read is still what the row says.
ReadInv(c) ==
    LET t == target[c] IN
    /\ pc[c] = "create" => otp[t] = None
    /\ pc[c] \in {"match", "mismatch"} => c \in current
    /\ pc[c] = "mismatch" => /\ ~otp[t].blocked
                             /\ read[c].retries = otp[t].retries + 1
    /\ pc[c] = "resend" => /\ otp[t].blocked => IsBlockTimeout(otp[t])
                           /\ \/ accepted[t] \/ IsBlockTimeout(otp[t])
                              \/ sent[t] <= read[c].attempt

SerialInv == /\ IInv /\ OneCallPerTarget
             /\ \A t \in Targets : RowInv(t)
             /\ \A c \in Calls : ReadInv(c)

\* At the start no target has a row and no call is running.
LEMMA StartSerial == Init /\ OneCallPerTarget => SerialInv
  BY StartInv DEF Init, SerialInv, RowInv, ReadInv

\* The clock only turns "not yet over" into "over".
LEMMA TickSerial == ASSUME SerialInv, Tick
                    PROVE  (\A t \in Targets : RowInv(t)') /\ (\A c \in Calls : ReadInv(c)')
  <1>1. ASSUME NEW t \in Targets
        PROVE  IF otp[t] = None THEN otp'[t] = None
               ELSE /\ otp'[t] # None
                    /\ otp'[t].attempt = otp[t].attempt
                    /\ otp'[t].retries = otp[t].retries
                    /\ otp'[t].blocked = otp[t].blocked
                    /\ otp'[t].lastCodeVerified = otp[t].lastCodeVerified
                    /\ IsBlockTimeout(otp[t]) => IsBlockTimeout(otp'[t])
    <2>1. otp[t] # None => otp[t] \in Otp
      BY DEF SerialInv, IInv, TypeOK
    <2>2. otp'[t] = IF otp[t] # None /\ otp[t].age < AgeLimit
                    THEN [otp[t] EXCEPT !.age = @ + 1] ELSE otp[t]
      BY DEF Tick
    <2>3. TypeOK'
      BY TickInv DEF SerialInv, IInv
    <2>4. otp[t] # None => otp'[t] # None
      <3>1. otp[t] # None /\ otp[t].age < AgeLimit => otp'[t] \in Otp
        BY <2>1, <2>2, LimitsAssumption DEF Otp, AgeLimit
      <3> QED BY <3>1, <2>2, NoneAssumption
    <2> QED BY <2>1, <2>2, <2>4, LimitsAssumption DEF Otp, IsBlockTimeout
  <1>2. ASSUME NEW t \in Targets PROVE RowInv(t)'
    BY <1>1 DEF SerialInv, RowInv, Tick
  <1>3. ASSUME NEW c \in Calls PROVE ReadInv(c)'
    <2>1. pc[c] # "idle" => target[c] \in Targets
      BY Running DEF SerialInv
    <2>2. pc' = pc /\ target' = target /\ read' = read /\ UNCHANGED <<sent, accepted, current>>
      BY DEF Tick
    <2>3. pc[c] \in {"resend", "mismatch", "match"} => otp[target[c]] # None
      BY DEF SerialInv, IInv, CallInv
    <2>4. ReadInv(c)
      BY DEF SerialInv
    <2> QED BY <1>1, <2>1, <2>2, <2>3, <2>4 DEF ReadInv
  <1> QED BY <1>2, <1>3

\* A call that starts takes what it needs from the row as it is.
LEMMA AwaitSerial ==
  ASSUME SerialInv, NEW c \in Calls, NEW t \in Targets, NEW o, NEW step,
         Await(c, t, o, step), pc[c] = "idle",
         step = "create" => otp[t] = None,
         step = "mismatch" => ~otp[t].blocked /\ o.retries = otp[t].retries + 1,
         step = "resend" => /\ otp[t].blocked => IsBlockTimeout(otp[t])
                            /\ \/ accepted[t] \/ IsBlockTimeout(otp[t])
                               \/ sent[t] <= o.attempt
  PROVE  (\A u \in Targets : RowInv(u)') /\ (\A d \in Calls : ReadInv(d)')
  <1>1. ASSUME NEW u \in Targets PROVE RowInv(u)'
    BY DEF SerialInv, RowInv, Await
  <1>2. ASSUME NEW d \in Calls PROVE ReadInv(d)'
    <2>1. CASE d = c
      BY <2>1 DEF SerialInv, IInv, TypeOK, ReadInv, Await
    <2>2. CASE d # c
      BY <2>2 DEF SerialInv, IInv, TypeOK, ReadInv, Await
    <2> QED BY <2>1, <2>2
  <1> QED BY <1>1, <1>2

\* A send that overlaps no other call has read the row as it is.
LEMMA SendSerial ==
  ASSUME SerialInv, NEW c \in Calls, NEW t \in Targets, Send(c, t)
  PROVE  (\A u \in Targets : RowInv(u)') /\ (\A d \in Calls : ReadInv(d)')
  <1>1. CASE FirstSend(c, t)
    BY <1>1, AwaitSerial DEF FirstSend
  <1>2. CASE FurtherSend(c, t)
    <2> DEFINE a == Attempt(otp[t])
               o == [otp[t] EXCEPT !.attempt = a]
               step == IF MaxAttempt - a = 0 THEN "block" ELSE "resend"
    <2>1. otp[t] \in Otp /\ otp[t] # None /\ ~Refused(otp[t])
      BY <1>2 DEF FurtherSend, SerialInv, IInv, TypeOK
    <2>2. otp[t].blocked => IsBlockTimeout(otp[t])
      BY <2>1 DEF Refused
    <2>3. o.attempt = a
      BY <2>1 DEF Otp
    <2>4. accepted[t] \/ IsBlockTimeout(otp[t]) \/ sent[t] <= o.attempt
      BY <2>1, <2>3 DEF Attempt, SerialInv, RowInv
    <2>5. step # "create" /\ step # "mismatch"
      OBVIOUS
    <2>6. Await(c, t, o, step) /\ pc[c] = "idle"
      BY <1>2 DEF FurtherSend
    <2> HIDE DEF a, o, step
    <2> QED BY <2>2, <2>4, <2>5, <2>6, AwaitSerial
  <1> QED BY <1>1, <1>2 DEF Send

\* So has a check of a code.
LEMMA VerifySerial ==
  ASSUME SerialInv, NEW c \in Calls, NEW t \in Targets, Verify(c, t)
  PROVE  (\A u \in Targets : RowInv(u)') /\ (\A d \in Calls : ReadInv(d)')
  <1>1. CASE RightCode(c, t)
    BY <1>1, AwaitSerial DEF RightCode
  <1>2. CASE WrongCode(c, t)
    <2> DEFINE o == [otp[t] EXCEPT !.retries = @ + 1]
    <2>1. otp[t] \in Otp /\ ~otp[t].blocked
      BY <1>2 DEF WrongCode, Checkable, SerialInv, IInv, TypeOK
    <2>2. o.retries = otp[t].retries + 1
      BY <2>1 DEF Otp
    <2>3. Await(c, t, o, "mismatch") /\ pc[c] = "idle"
      BY <1>2 DEF WrongCode
    <2> HIDE DEF o
    <2> QED BY <2>1, <2>2, <2>3, AwaitSerial
  <1> QED BY <1>1, <1>2 DEF Verify

\* A call that ends leaves the others alone, because they work on other targets.
LEMMA ReturnSerial ==
  ASSUME SerialInv, NEW c \in Calls, Return(c), pc[c] # "idle",
         \A u \in Targets \ {target[c]} :
            otp'[u] = otp[u] /\ sent'[u] = sent[u] /\ accepted'[u] = accepted[u],
         \A d \in current : target[d] # target[c] => d \in current'
  PROVE  \A d \in Calls : ReadInv(d)'
  <1> SUFFICES ASSUME NEW d \in Calls PROVE ReadInv(d)' OBVIOUS
  <1>1. CASE d = c
    BY <1>1 DEF Return, ReadInv, SerialInv, IInv, TypeOK
  <1>2. CASE d # c
    <2>1. pc'[d] = pc[d] /\ target'[d] = target[d] /\ read'[d] = read[d]
      BY <1>2 DEF Return, SerialInv, IInv, TypeOK
    <2>2. CASE pc[d] = "idle"
      BY <2>1, <2>2 DEF ReadInv
    <2>3. CASE pc[d] # "idle"
      <3>1. target[d] \in Targets /\ target[c] \in Targets
        BY <2>3, Running DEF SerialInv
      <3>2. target[d] # target[c]
        BY <1>2, <3>1, LimitsAssumption DEF SerialInv, OneCallPerTarget
      <3>3. d \in current => d \in current'
        BY <3>2
      <3>4. /\ otp'[target[d]] = otp[target[d]] /\ sent'[target[d]] = sent[target[d]]
            /\ accepted'[target[d]] = accepted[target[d]]
        BY <3>1, <3>2
      <3>5. ReadInv(d)
        BY DEF SerialInv
      <3> QED BY <2>1, <3>3, <3>4, <3>5 DEF ReadInv
    <2> QED BY <2>2, <2>3
  <1> QED BY <1>1, <1>2

\* What a write leaves of its own target.
LEMMA WriteSerialRow ==
  ASSUME SerialInv, NEW c \in Calls, Write(c), NEW t, t = target[c]
  PROVE  t \in Targets /\ RowInv(t)'
  <1>1. t \in Targets
    BY WriteRow DEF SerialInv
  <1>2. IInv /\ TypeOK /\ RowInv(t) /\ ReadInv(c) /\ CallInv(c)
    BY <1>1 DEF SerialInv, IInv
  <1>3. /\ wrong[t] \in Nat /\ sent[t] \in Nat /\ accepted[t] \in BOOLEAN
        /\ otp[t] # None => otp[t] \in Otp
        /\ read[c] # None => read[c] \in Otp
    BY <1>1, <1>2, LimitsAssumption DEF TypeOK
  <1>4. CASE Create(c)
    <2>1. otp[t] = None /\ otp'[t] = NewCode(1) /\ sent'[t] = 1 /\ wrong' = wrong
      BY <1>1, <1>2, <1>4 DEF Create, ReadInv, TypeOK
    <2> QED BY <1>1, <1>2, <2>1, NewCodeType, LimitsAssumption DEF NewCode, RowInv
  <1>5. CASE Resend(c)
    <2> DEFINE a == read[c].attempt
    <2>1. otp[t] # None /\ read[c] \in Otp
      BY <1>2, <1>3, <1>5 DEF Resend, CallInv
    <2>2. a \in Nat /\ a < MaxAttempt
      BY <1>2, <1>5, <2>1, LimitsAssumption DEF Resend, CallInv, Otp
    <2>3. /\ otp'[t] = NewCode(a + 1)
          /\ sent'[t] = IF accepted[t] \/ IsBlockTimeout(otp[t]) THEN 1
                        ELSE CountTo(MaxAttempt, sent[t])
          /\ wrong'[t] = 0
      BY <1>1, <1>2, <1>5 DEF Resend, TypeOK
    <2>4. accepted[t] \/ IsBlockTimeout(otp[t]) \/ sent[t] <= a
      BY <1>2, <1>5 DEF Resend, ReadInv
    <2>5. sent'[t] <= a + 1
      BY <1>3, <2>2, <2>3, <2>4, LimitsAssumption DEF CountTo
    <2>6. /\ otp'[t].attempt = a + 1 /\ otp'[t].retries = 0
          /\ ~otp'[t].lastCodeVerified
      BY <2>3 DEF NewCode
    <2>7. otp'[t] # None
      BY WriteRow, <1>2
    <2> QED BY <1>1, <2>3, <2>5, <2>6, <2>7 DEF RowInv
  <1>6. CASE BlockTarget(c)
    <2>1. otp[t] # None /\ otp'[t] = [otp[t] EXCEPT !.blocked = TRUE]
      BY <1>1, <1>2, <1>6 DEF BlockTarget, CallInv, TypeOK
    <2>2. /\ otp'[t].attempt = otp[t].attempt /\ otp'[t].retries = otp[t].retries
          /\ otp'[t].lastCodeVerified = otp[t].lastCodeVerified
      BY <1>3, <2>1 DEF Otp
    <2>3. UNCHANGED <<sent, wrong, accepted>> /\ otp'[t] # None
      BY <1>2, <1>6, WriteRow DEF BlockTarget
    <2> QED BY <1>1, <1>2, <2>1, <2>2, <2>3 DEF RowInv
  <1>7. CASE Matched(c)
    <2>1. otp[t] # None /\ otp'[t] = [otp[t] EXCEPT !.lastCodeVerified = TRUE]
      BY <1>1, <1>2, <1>7 DEF Matched, CallInv, TypeOK
    <2>2. /\ otp'[t].attempt = otp[t].attempt /\ otp'[t].retries = otp[t].retries
      BY <1>3, <2>1 DEF Otp
    <2>3. accepted'[t]
      BY <1>1, <1>2, <1>7 DEF Matched, ReadInv, TypeOK
    <2>4. UNCHANGED <<sent, wrong>> /\ otp'[t] # None
      BY <1>2, <1>7, WriteRow DEF Matched
    <2> QED BY <1>1, <1>2, <2>1, <2>2, <2>3, <2>4 DEF RowInv
  <1>8. CASE Mismatched(c)
    <2>1. /\ otp[t] # None
          /\ otp'[t] = [otp[t] EXCEPT !.retries = read[c].retries,
                                      !.blocked = (MaxRetries - read[c].retries = 0)]
      BY <1>1, <1>2, <1>8 DEF Mismatched, Exhausted, CallInv, TypeOK
    <2>2. /\ otp'[t].attempt = otp[t].attempt /\ otp'[t].retries = read[c].retries
          /\ otp'[t].lastCodeVerified = otp[t].lastCodeVerified
      BY <1>3, <2>1 DEF Otp
    <2>3. read[c].retries = otp[t].retries + 1
      BY <1>2, <1>8 DEF Mismatched, ReadInv
    <2>4. otp[t].retries \in 0..MaxRetries /\ otp[t].retries < MaxRetries
      <3>1. ~otp[t].blocked
        BY <1>2, <1>8 DEF Mismatched, ReadInv
      <3> QED BY <1>1, <1>2, <1>3, <2>1, <3>1 DEF IInv, UnblockedHasRetries, Otp
    <2>5. wrong'[t] = CountTo(MaxRetries, wrong[t])
      BY <1>1, <1>2, <1>8 DEF Mismatched, ReadInv, TypeOK
    <2>6. wrong'[t] <= read[c].retries
      BY <1>2, <1>3, <2>1, <2>3, <2>4, <2>5, LimitsAssumption DEF RowInv, CountTo
    <2>7. UNCHANGED <<sent, accepted>> /\ otp'[t] # None
      BY <1>2, <1>8, WriteRow DEF Mismatched
    <2> QED BY <1>1, <1>2, <2>1, <2>2, <2>6, <2>7 DEF RowInv
  <1> QED BY <1>1, <1>4, <1>5, <1>6, <1>7, <1>8 DEF Write

\* What such a call writes is what the history counts.
LEMMA WriteSerial ==
  ASSUME SerialInv, NEW c \in Calls, Write(c)
  PROVE  (\A u \in Targets : RowInv(u)') /\ (\A d \in Calls : ReadInv(d)')
  <1>1. target[c] \in Targets /\ otp' = [otp EXCEPT ![target[c]] = otp'[target[c]]]
    BY WriteRow DEF SerialInv
  <1>2. Return(c) /\ pc[c] # "idle"
    BY DEF Write, Create, Resend, BlockTarget, Matched, Mismatched
  <1>3. \A u \in Targets \ {target[c]} :
           /\ otp'[u] = otp[u] /\ sent'[u] = sent[u]
           /\ accepted'[u] = accepted[u] /\ wrong'[u] = wrong[u]
    <2>1. TypeOK
      BY DEF SerialInv, IInv
    <2>2. \A u \in Targets \ {target[c]} : otp'[u] = otp[u]
      BY <1>1, <2>1 DEF TypeOK
    <2>3. \A u \in Targets \ {target[c]} :
             sent'[u] = sent[u] /\ accepted'[u] = accepted[u] /\ wrong'[u] = wrong[u]
      BY <1>1, <2>1 DEF TypeOK, Write, Create, Resend, BlockTarget, Matched, Mismatched
    <2> QED BY <2>2, <2>3
  <1>4. \A d \in current : target[d] # target[c] => d \in current'
    BY DEF Write, Create, Resend, BlockTarget, Matched, Mismatched
  <1>5. \A d \in Calls : ReadInv(d)'
    BY <1>2, <1>3, <1>4, ReturnSerial
  <1>6. ASSUME NEW u \in Targets \ {target[c]} PROVE RowInv(u)'
    BY <1>3 DEF SerialInv, RowInv
  <1> QED BY <1>5, <1>6, WriteSerialRow

\* A call that fails leaves row and history in step.
LEMMA FailSerial ==
  ASSUME SerialInv, NEW c \in Calls, Fail(c)
  PROVE  (\A u \in Targets : RowInv(u)') /\ (\A d \in Calls : ReadInv(d)')
  <1>1. \A d \in Calls : ReadInv(d)'
    BY ReturnSerial DEF Fail
  <1>2. \A u \in Targets : RowInv(u)'
    BY DEF Fail, SerialInv, RowInv
  <1> QED BY <1>1, <1>2

\* Every step keeps the invariant of calls that do not overlap per target.
LEMMA StepSerial == SerialInv /\ [Next /\ OneCallPerTarget']_vars => SerialInv'
  <1> SUFFICES ASSUME SerialInv, [Next /\ OneCallPerTarget']_vars PROVE SerialInv'
    OBVIOUS
  <1>1. CASE Next /\ OneCallPerTarget'
    <2>1. IInv'
      BY <1>1, StepInv DEF SerialInv
    <2>2. (\A t \in Targets : RowInv(t)') /\ (\A c \in Calls : ReadInv(c)')
      BY <1>1, TickSerial, SendSerial, VerifySerial, WriteSerial, FailSerial DEF Next
    <2> QED BY <1>1, <2>1, <2>2 DEF SerialInv
  <1>2. CASE UNCHANGED vars
    <2>1. IInv'
      BY <1>2, StepInv DEF SerialInv
    <2> QED BY <1>2, <2>1 DEF SerialInv, OneCallPerTarget, RowInv, ReadInv, IsBlockTimeout
  <1> QED BY <1>1, <1>2

\* Nothing overlaps in the beginning.
LEMMA InitSerial == Init => OneCallPerTarget
  BY DEF Init, OneCallPerTarget

\* The invariant of such calls holds always.
LEMMA AlwaysSerialInv == SerialSpec => []SerialInv
  BY InitSerial, StartSerial, StepSerial, PTL DEF SerialSpec

\* The limits follow from the row, whose counters the history never exceeds.
LEMMA SerialInvLimits ==
  SerialInv => GuessesAreLimited /\ SendsAreLimited /\ VerifiedWasAccepted
  <1> SUFFICES ASSUME SerialInv, NEW t \in Targets
               PROVE  /\ wrong[t] <= MaxRetries /\ sent[t] <= MaxAttempt
                      /\ otp[t] # None /\ otp[t].lastCodeVerified => accepted[t]
    BY DEF GuessesAreLimited, SendsAreLimited, VerifiedWasAccepted
  <1>1. RowInv(t) /\ (otp[t] # None => otp[t] \in Otp)
        /\ wrong[t] \in Nat /\ sent[t] \in Nat
    BY LimitsAssumption DEF SerialInv, IInv, TypeOK
  <1> QED BY <1>1, LimitsAssumption DEF RowInv, Otp

\* A code is guessed wrongly MaxRetries times at most, if the calls for its
\* target do not overlap.
THEOREM GuessesAreAlwaysLimited == SerialSpec => []GuessesAreLimited
  BY AlwaysSerialInv, SerialInvLimits, PTL

\* So is the number of codes sent without one being verified.
THEOREM SendsAreAlwaysLimited == SerialSpec => []SendsAreLimited
  BY AlwaysSerialInv, SerialInvLimits, PTL

\* And the counting of attempts starts again only for a code that was accepted.
THEOREM VerifiedIsAccepted == SerialSpec => []VerifiedWasAccepted
  BY AlwaysSerialInv, SerialInvLimits, PTL

\* No step lifts a block that is not over: only send could, and it has read
\* the row that says so.
LEMMA StepKeepsBlock ==
  ASSUME SerialInv, [Next /\ OneCallPerTarget']_vars, NEW t \in Targets,
         otp[t] # None, otp[t].blocked, ~IsBlockTimeout(otp[t])
  PROVE  otp'[t].blocked
  <1>1. otp[t] \in Otp /\ TypeOK
    BY DEF SerialInv, IInv, TypeOK
  <1>2. CASE Tick
    BY <1>1, <1>2, LimitsAssumption DEF Tick, Otp
  <1>3. CASE \E c \in Calls : Write(c) /\ target[c] = t
    <2> PICK c \in Calls : Write(c) /\ target[c] = t BY <1>3
    <2>1. ReadInv(c) /\ CallInv(c)
      BY DEF SerialInv, IInv
    <2>2. CASE Create(c)
      BY <2>1, <2>2 DEF Create, ReadInv
    <2>3. CASE Resend(c)
      BY <2>1, <2>3 DEF Resend, ReadInv
    <2>4. CASE BlockTarget(c)
      BY <1>1, <2>4 DEF BlockTarget, TypeOK, Otp
    <2>5. CASE Matched(c)
      BY <1>1, <2>5 DEF Matched, TypeOK, Otp
    <2>6. CASE Mismatched(c)
      BY <2>1, <2>6 DEF Mismatched, ReadInv
    <2> QED BY <2>2, <2>3, <2>4, <2>5, <2>6 DEF Write
  <1>4. CASE \E c \in Calls : Write(c) /\ target[c] # t
    BY <1>1, <1>4, WriteRow DEF SerialInv, TypeOK
  <1>5. CASE otp' = otp
    BY <1>5
  <1>6. Tick \/ (\E c \in Calls : Write(c)) \/ otp' = otp
    BY DEF Next, Send, FirstSend, FurtherSend, Verify, RightCode, WrongCode, Await, Fail
  <1> QED BY <1>2, <1>3, <1>4, <1>5, <1>6

\* A blocked target stays blocked until BlockTimeout after its last code.
THEOREM BlocksLast == SerialSpec => BlockLasts
  <1>1. SerialInv /\ [Next /\ OneCallPerTarget']_vars
           => [\A t \in Targets :
                 otp[t] # None /\ otp[t].blocked /\ ~IsBlockTimeout(otp[t])
                    => otp'[t].blocked]_vars
    BY StepKeepsBlock
  <1> QED BY <1>1, AlwaysSerialInv, PTL DEF SerialSpec, BlockLasts

=============================================================================
