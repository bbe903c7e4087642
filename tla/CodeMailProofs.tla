--------------------------- MODULE CodeMailProofs ---------------------------
(***************************************************************************)
(* Proofs about CodeMail, for any targets, number of codes and concurrency *)
(* of the worker: how often a code is mailed, and that the last mail of an *)
(* address has the code of its row.                                        *)
(***************************************************************************)
EXTENDS CodeMail, SequenceTheorems, FiniteSetTheorems, TLAPS

-----------------------------------------------------------------------------
(* Queues without repetition.                                              *)

LEMMA AppendToQueue ==
  ASSUME NEW S, NEW s \in Seq(S), NEW x \in S, IsInjective(s), x \notin ToSet(s)
  PROVE  /\ Append(s, x) \in Seq(S)
         /\ IsInjective(Append(s, x))
         /\ ToSet(Append(s, x)) = ToSet(s) \cup {x}
  <1>1. /\ Append(s, x) \in Seq(S)
        /\ DOMAIN Append(s, x) = 1..(Len(s) + 1)
        /\ \A i \in 1..Len(s) : Append(s, x)[i] = s[i]
        /\ Append(s, x)[Len(s) + 1] = x
        /\ Len(s) \in Nat /\ DOMAIN s = 1..Len(s)
    OBVIOUS
  <1>2. \A i \in 1..(Len(s) + 1) : i \in 1..Len(s) \/ i = Len(s) + 1
    BY <1>1
  <1>3. \A i \in 1..Len(s) : s[i] \in ToSet(s) /\ s[i] # x
    BY <1>1 DEF ToSet
  <1>4. IsInjective(Append(s, x))
    BY <1>1, <1>2, <1>3 DEF IsInjective
  <1>5. ToSet(Append(s, x)) = ToSet(s) \cup {x}
    <2>1. \A y : y \in ToSet(Append(s, x)) => y \in ToSet(s) \cup {x}
      BY <1>1, <1>2, <1>3 DEF ToSet
    <2>2. \A y \in ToSet(s) : y \in ToSet(Append(s, x))
      BY <1>1 DEF ToSet
    <2>3. x \in ToSet(Append(s, x))
      BY <1>1 DEF ToSet
    <2> QED BY <2>1, <2>2, <2>3
  <1> QED BY <1>1, <1>4, <1>5

LEMMA TailOfQueue ==
  ASSUME NEW S, NEW s \in Seq(S), s # <<>>, IsInjective(s)
  PROVE  /\ Tail(s) \in Seq(S) /\ Head(s) \in ToSet(s) /\ Head(s) \in S
         /\ IsInjective(Tail(s))
         /\ ToSet(Tail(s)) = ToSet(s) \ {Head(s)}
  <1>1. /\ Tail(s) \in Seq(S) /\ Head(s) \in S
        /\ Len(s) \in Nat \ {0} /\ DOMAIN s = 1..Len(s)
        /\ DOMAIN Tail(s) = 1..(Len(s) - 1)
        /\ \A i \in 1..(Len(s) - 1) : Tail(s)[i] = s[i + 1]
        /\ Head(s) = s[1]
    BY HeadTailProperties, EmptySeq
  <1>2. IsInjective(Tail(s))
    BY <1>1 DEF IsInjective
  <1>3. ToSet(Tail(s)) \subseteq ToSet(s) \ {Head(s)}
    BY <1>1 DEF ToSet, IsInjective
  <1>4. ASSUME NEW y \in ToSet(s) \ {Head(s)} PROVE y \in ToSet(Tail(s))
    <2> PICK i \in 1..Len(s) : s[i] = y
      BY <1>1 DEF ToSet
    <2>1. i - 1 \in 1..(Len(s) - 1) /\ Tail(s)[i - 1] = y
      BY <1>1, <1>4
    <2> QED BY <1>1, <2>1 DEF ToSet
  <1>5. Head(s) \in ToSet(s)
    BY <1>1 DEF ToSet
  <1> QED BY <1>1, <1>2, <1>3, <1>4, <1>5

LEMMA JoinedQueues ==
  ASSUME NEW S, NEW r \in Seq(S), NEW s \in Seq(S), IsInjective(r), IsInjective(s),
         ToSet(r) \cap ToSet(s) = {}
  PROVE  /\ r \o s \in Seq(S)
         /\ IsInjective(r \o s)
         /\ ToSet(r \o s) = ToSet(r) \cup ToSet(s)
  <1>1. /\ r \o s \in Seq(S)
        /\ DOMAIN (r \o s) = 1..(Len(r) + Len(s))
        /\ Len(r) \in Nat /\ Len(s) \in Nat
        /\ DOMAIN r = 1..Len(r) /\ DOMAIN s = 1..Len(s)
        /\ \A i \in 1..(Len(r) + Len(s)) :
              (r \o s)[i] = IF i <= Len(r) THEN r[i] ELSE s[i - Len(r)]
    BY ConcatProperties
  <1>2. ASSUME NEW i \in 1..(Len(r) + Len(s))
        PROVE  \/ i \in 1..Len(r) /\ (r \o s)[i] = r[i] /\ r[i] \in ToSet(r)
               \/ /\ i - Len(r) \in 1..Len(s) /\ (r \o s)[i] = s[i - Len(r)]
                  /\ s[i - Len(r)] \in ToSet(s)
    <2>1. CASE i <= Len(r)
      BY <1>1, <2>1 DEF ToSet
    <2>2. CASE ~(i <= Len(r))
      <3>1. i - Len(r) \in 1..Len(s)
        BY <1>1, <2>2
      <3> QED BY <1>1, <2>2, <3>1 DEF ToSet
    <2> QED BY <2>1, <2>2
  <1>3. IsInjective(r \o s)
    <2> SUFFICES ASSUME NEW i \in 1..(Len(r) + Len(s)), NEW k \in 1..(Len(r) + Len(s)),
                        (r \o s)[i] = (r \o s)[k]
                 PROVE  i = k
      BY <1>1 DEF IsInjective
    <2>1. CASE i \in 1..Len(r) /\ k \in 1..Len(r)
      BY <1>1, <2>1 DEF IsInjective
    <2>2. CASE i - Len(r) \in 1..Len(s) /\ k - Len(r) \in 1..Len(s)
      <3>1. s[i - Len(r)] = s[k - Len(r)]
        BY <1>1, <2>2
      <3>2. i - Len(r) = k - Len(r)
        BY <1>1, <2>2, <3>1 DEF IsInjective
      <3> QED BY <1>1, <3>2
    <2> QED BY <1>2, <2>1, <2>2
  <1>4. ToSet(r \o s) \subseteq ToSet(r) \cup ToSet(s)
    BY <1>1, <1>2 DEF ToSet
  <1>5. ASSUME NEW y \in ToSet(r) PROVE y \in ToSet(r \o s)
    <2> PICK i \in 1..Len(r) : r[i] = y
      BY <1>1 DEF ToSet
    <2>1. i \in 1..(Len(r) + Len(s)) /\ (r \o s)[i] = y
      BY <1>1
    <2> QED BY <1>1, <2>1 DEF ToSet
  <1>6. ASSUME NEW y \in ToSet(s) PROVE y \in ToSet(r \o s)
    <2> PICK i \in 1..Len(s) : s[i] = y
      BY <1>1 DEF ToSet
    <2>1. i + Len(r) \in 1..(Len(r) + Len(s)) /\ (r \o s)[i + Len(r)] = y
      BY <1>1
    <2> QED BY <1>1, <2>1 DEF ToSet
  <1> QED BY <1>1, <1>3, <1>4, <1>5, <1>6

\* An order of a finite set lists nothing else, and nothing twice.
LEMMA OrderOfSet ==
  ASSUME NEW S, IsFiniteSet(S), NEW s \in SetToSeqs(S)
  PROVE  s \in Seq(S) /\ IsInjective(s) /\ ToSet(s) = S
  <1>1. /\ s \in [1..Cardinality(S) -> S] /\ Cardinality(S) \in Nat
        /\ \A i, k \in 1..Cardinality(S) : i # k => s[i] # s[k]
    BY FS_CardinalityType DEF SetToSeqs
  <1>2. ToSet(s) = S
    <2>1. s \in Injection(1..Cardinality(S), S)
      BY <1>1 DEF Injection, IsInjective
    <2>2. IsFiniteSet(ToSet(s)) /\ ToSet(s) \subseteq S
      BY <1>1, FS_Subset DEF ToSet
    <2>3. s \in Bijection(1..Cardinality(S), ToSet(s))
      BY <1>1 DEF Bijection, Injection, Surjection, IsInjective, ToSet
    <2>4. Cardinality(ToSet(s)) = Cardinality(S)
      BY <1>1, <2>2, <2>3, FS_CountingElements DEF ExistsBijection
    <2> QED BY <2>2, <2>4, FS_Subset
  <1> QED BY <1>1, <1>2 DEF IsInjective, ToSet

-----------------------------------------------------------------------------
(* The invariant.                                                          *)

\* A job that is being added is nowhere else and has not been tried; one that
\* is tried has at most a mail for each worker that went away with it.
JobInv(j) ==
    /\ j > generated => mailed[j] = 0 /\ stalls[j] = 0
    /\ j \in adding => mailed[j] = 0 /\ j \notin ToSet(waiting) \cup DOMAIN active
    /\ mailed[j] <= stalls[j] + 1
    /\ j \in ToSet(waiting) \/ (j \in DOMAIN active /\ active[j] # "finish")
          => mailed[j] <= stalls[j]

\* An address whose jobs were neither overtaken nor given up has one job at
\* most, the one of its row, and once that has been mailed the last mail too.
CurrentInv(t) ==
    /\ \A j \in UnderWay : owner[j] = t => j = code[t]
    /\ \A j \in DOMAIN active : owner[j] = t /\ active[j] = "finish" => last[t] = j
    /\ (\A j \in UnderWay : owner[j] # t) => last[t] = code[t]

MailInv == /\ MailTypeOK
           /\ \A j \in Codes : JobInv(j)
           /\ Production => \A t \in Targets \ crossed : CurrentInv(t)

\* What every step needs of the types.
LEMMA Basics ==
  ASSUME MailInv
  PROVE  /\ generated \in Nat /\ MaxCodes \in Nat /\ 1..generated \subseteq Codes
         /\ waiting \in Seq(1..generated) /\ IsInjective(waiting)
         /\ UnderWay \subseteq 1..generated
         /\ DOMAIN active \subseteq UnderWay /\ ToSet(waiting) \subseteq UnderWay
         /\ IsFiniteSet(DOMAIN active) /\ Cardinality(DOMAIN active) \in Nat
  <1>1. generated \in Nat /\ MaxCodes \in Nat /\ 1..generated \subseteq Codes
    BY MailAssumption DEF MailInv, MailTypeOK, Codes
  <1>2. UnderWay \subseteq 1..generated
    BY DEF MailInv, MailTypeOK, UnderWay, ToSet
  <1>3. IsFiniteSet(DOMAIN active) /\ Cardinality(DOMAIN active) \in Nat
    <2>1. IsFiniteSet(1..generated)
      BY <1>1, FS_Interval
    <2>2. DOMAIN active \subseteq 1..generated
      BY DEF MailInv, MailTypeOK
    <2> QED BY <2>1, <2>2, FS_Subset, FS_CardinalityType
  <1> QED BY <1>1, <1>2, <1>3 DEF MailInv, MailTypeOK, UnderWay

LEMMA StartMail == MailInit => MailInv
  <1> SUFFICES ASSUME MailInit PROVE MailInv
    OBVIOUS
  <1>1. DOMAIN active = {} /\ ToSet(waiting) = {} /\ waiting \in Seq(1..generated)
        /\ IsInjective(waiting) /\ Cardinality(DOMAIN active) = 0
    BY FS_EmptySet DEF MailInit, ToSet, IsInjective
  <1>2. MailTypeOK
    BY <1>1, MailAssumption DEF MailInit, MailTypeOK, Codes
  <1>3. \A j \in Codes : JobInv(j)
    BY <1>1, MailAssumption DEF MailInit, JobInv, Codes
  <1>4. \A t \in Targets : CurrentInv(t)
    BY <1>1 DEF MailInit, CurrentInv, UnderWay
  <1> QED BY <1>2, <1>3, <1>4 DEF MailInv

LEMMA SendKeepsInv ==
  ASSUME MailInv, NEW t \in Targets, Send(t)
  PROVE  MailInv'
  <1> USE Basics DEF Send
  <1>1. /\ generated' = generated + 1 /\ generated' \in 1..MaxCodes
        /\ generated' \notin 1..generated /\ 1..generated' = 1..generated \cup {generated'}
        /\ NewCode(t) = generated'
    BY MailAssumption DEF NewCode
  <1>2. /\ \A j \in 1..generated : owner'[j] = owner[j]
        /\ owner'[generated'] = t
        /\ owner' \in Seq(Targets) /\ Len(owner') = generated'
    <2>1. owner \in Seq(Targets) /\ Len(owner) = generated
      BY DEF MailInv, MailTypeOK
    <2> QED BY <1>1, <2>1
  <1>3. /\ adding' = (IF Production THEN adding \cup {generated'} ELSE adding)
        /\ waiting' = waiting /\ active' = active
    BY <1>1
  <1>4. waiting' \in Seq(1..generated')
    BY <1>1
  <1>5. MailTypeOK'
    <2>1. code' \in [Targets -> 0..MaxCodes] /\ crossed' \subseteq Targets
      BY <1>1 DEF MailInv, MailTypeOK
    <2>2. adding' \subseteq 1..generated' /\ DOMAIN active' \subseteq 1..generated' \ ToSet(waiting')
      BY <1>1, <1>3 DEF MailInv, MailTypeOK
    <2>3. IsInjective(waiting') /\ Cardinality(DOMAIN active') <= Concurrency
          /\ active' \in [DOMAIN active' -> {"render", "send", "finish"}]
      BY <1>3 DEF MailInv, MailTypeOK
    <2>4. stalls' \in [Codes -> 0..1] /\ mailed' \in [Codes -> 0..2]
          /\ last' \in [Targets -> 0..MaxCodes] /\ generated' \in 0..MaxCodes
      BY <1>1 DEF MailInv, MailTypeOK
    <2> QED BY <1>2, <1>4, <2>1, <2>2, <2>3, <2>4 DEF MailTypeOK
  <1>6. ASSUME NEW j \in Codes PROVE JobInv(j)'
    <2>1. JobInv(j)
      BY DEF MailInv
    <2>2. generated' \notin UnderWay /\ (j > generated' => j > generated)
      BY <1>1 DEF Codes
    <2>3. j \in adding' => j \in adding \/ j = generated'
      BY <1>3
    <2>4. JobInv(generated')
      BY <1>1 DEF MailInv, Codes
    <2> QED BY <1>1, <1>3, <2>1, <2>2, <2>3, <2>4
            DEF JobInv, UnderWay
  <1>7. ASSUME Production, NEW u \in Targets \ crossed' PROVE CurrentInv(u)'
    <2>1. u \in Targets \ crossed /\ CurrentInv(u)
      BY <1>7 DEF MailInv
    <2>2. /\ UnderWay' = UnderWay \cup {generated'}
          /\ \A j \in UnderWay : owner'[j] = owner[j]
      BY <1>2, <1>3, <1>7 DEF UnderWay
    <2>3. CASE u = t
      <3>1. \A j \in UnderWay : owner[j] # t
        BY <1>7, <2>3
      <3>2. code'[t] = generated'
        BY DEF MailInv, MailTypeOK
      <3> QED BY <1>2, <1>3, <2>2, <2>3, <3>1, <3>2
              DEF CurrentInv
    <2>4. CASE u # t
      <3>1. code'[u] = code[u] /\ last' = last
        BY <2>4 DEF MailInv, MailTypeOK
      <3> QED BY <1>2, <1>3, <2>1, <2>2, <2>4, <3>1
              DEF CurrentInv
    <2> QED BY <2>3, <2>4
  <1> QED BY <1>5, <1>6, <1>7 DEF MailInv

LEMMA AddKeepsInv ==
  ASSUME MailInv, NEW j \in Codes, AddJob(j)
  PROVE  MailInv'
  <1> USE Basics DEF AddJob
  <1>1. j \in 1..generated /\ j \notin ToSet(waiting) \cup DOMAIN active
    BY DEF MailInv, MailTypeOK, JobInv
  <1>2. /\ waiting' \in Seq(1..generated) /\ IsInjective(waiting')
        /\ ToSet(waiting') = ToSet(waiting) \cup {j}
    BY <1>1, AppendToQueue
  <1>3. MailTypeOK'
    BY <1>1, <1>2 DEF MailInv, MailTypeOK
  <1>4. \A k \in Codes : JobInv(k)'
    BY <1>1, <1>2 DEF MailInv, JobInv, MailTypeOK
  <1>5. UnderWay' = UnderWay
    BY <1>2 DEF UnderWay
  <1>6. Production => \A t \in Targets \ crossed' : CurrentInv(t)'
    BY <1>5 DEF MailInv, CurrentInv
  <1> QED BY <1>3, <1>4, <1>6 DEF MailInv

LEMMA AddFailsKeepsInv ==
  ASSUME MailInv, NEW j \in Codes, AddFails(j)
  PROVE  MailInv'
  <1> USE Basics DEF AddFails
  <1>1. j \in 1..generated /\ owner[j] \in Targets
    BY DEF MailInv, MailTypeOK
  <1>2. MailTypeOK'
    BY <1>1 DEF MailInv, MailTypeOK
  <1>3. \A k \in Codes : JobInv(k)'
    BY DEF MailInv, JobInv
  <1>4. UnderWay' \cup {j} = UnderWay
    BY DEF UnderWay, MailInv, JobInv
  <1>5. Production => \A t \in Targets \ crossed' : CurrentInv(t)'
    BY <1>4 DEF MailInv, CurrentInv
  <1> QED BY <1>2, <1>3, <1>5 DEF MailInv

LEMMA TakeKeepsInv ==
  ASSUME MailInv, Take
  PROVE  MailInv'
  <1> USE Basics DEF Take
  <1> PICK h : h = Head(waiting)
    OBVIOUS
  <1>1. /\ waiting' \in Seq(1..generated) /\ IsInjective(waiting')
        /\ ToSet(waiting') = ToSet(waiting) \ {h}
        /\ h \in ToSet(waiting) /\ h \in 1..generated
    BY TailOfQueue
  <1>2. h \notin DOMAIN active /\ h \notin adding
    BY <1>1 DEF MailInv, MailTypeOK, JobInv
  <1>3. /\ DOMAIN active' = DOMAIN active \cup {h}
        /\ active'[h] = "render"
        /\ \A k \in DOMAIN active : active'[k] = active[k]
        /\ active' \in [DOMAIN active' -> {"render", "send", "finish"}]
    BY <1>2 DEF MailInv, MailTypeOK
  <1>4. Cardinality(DOMAIN active') <= Concurrency
    <2>1. Cardinality(DOMAIN active') = Cardinality(DOMAIN active) + 1
      BY <1>2, <1>3, FS_AddElement
    <2> QED BY <2>1, MailAssumption DEF HasRoom
  <1>5. MailTypeOK'
    BY <1>1, <1>2, <1>3, <1>4 DEF MailInv, MailTypeOK
  <1>6. \A k \in Codes : JobInv(k)'
    BY <1>1, <1>2, <1>3 DEF MailInv, JobInv
  <1>7. UnderWay' = UnderWay
    BY <1>1, <1>3 DEF UnderWay
  <1>8. Production => \A t \in Targets \ crossed' : CurrentInv(t)'
    BY <1>3, <1>7 DEF MailInv, CurrentInv
  <1> QED BY <1>5, <1>6, <1>8 DEF MailInv

LEMMA RenderKeepsInv ==
  ASSUME MailInv, NEW j \in Codes, Render(j)
  PROVE  MailInv'
  <1> USE Basics DEF Render, At, Goto
  <1>1. /\ DOMAIN active' = DOMAIN active
        /\ active'[j] = "send" /\ \A k \in DOMAIN active \ {j} : active'[k] = active[k]
        /\ active' \in [DOMAIN active -> {"render", "send", "finish"}]
    BY DEF MailInv, MailTypeOK
  <1>2. MailTypeOK'
    BY <1>1 DEF MailInv, MailTypeOK
  <1>3. \A k \in Codes : JobInv(k)'
    BY <1>1 DEF MailInv, JobInv
  <1>4. UnderWay' = UnderWay
    BY <1>1 DEF UnderWay
  <1>5. Production => \A t \in Targets \ crossed' : CurrentInv(t)'
    BY <1>1, <1>4 DEF MailInv, CurrentInv
  <1> QED BY <1>2, <1>3, <1>5 DEF MailInv

LEMMA SendMailKeepsInv ==
  ASSUME MailInv, NEW j \in Codes, SendMail(j)
  PROVE  MailInv'
  <1> USE Basics DEF SendMail, At, Goto
  <1>1. /\ DOMAIN active' = DOMAIN active
        /\ active'[j] = "finish" /\ \A k \in DOMAIN active \ {j} : active'[k] = active[k]
        /\ active' \in [DOMAIN active -> {"render", "send", "finish"}]
    BY DEF MailInv, MailTypeOK
  <1>2. j \in 1..generated /\ owner[j] \in Targets /\ j \in 0..MaxCodes
    BY DEF MailInv, MailTypeOK
  <1>3. /\ mailed[j] \in Nat /\ stalls[j] \in 0..1
        /\ mailed[j] <= stalls[j] /\ mailed'[j] = mailed[j] + 1
        /\ \A k \in Codes \ {j} : mailed'[k] = mailed[k]
    <2>1. JobInv(j) /\ mailed \in [Codes -> 0..2] /\ stalls \in [Codes -> 0..1]
      BY DEF MailInv, MailTypeOK
    <2>2. mailed' = [mailed EXCEPT ![j] = mailed[j] + 1]
      OBVIOUS
    <2> QED BY <2>1, <2>2 DEF JobInv
  <1>4. MailTypeOK'
    <2>1. mailed' = [mailed EXCEPT ![j] = mailed[j] + 1] /\ mailed[j] + 1 \in 0..2
      BY <1>3
    <2>2. mailed' \in [Codes -> 0..2] /\ last' \in [Targets -> 0..MaxCodes]
      BY <1>2, <2>1 DEF MailInv, MailTypeOK
    <2> QED BY <1>1, <2>2 DEF MailInv, MailTypeOK
  <1>5. ASSUME NEW k \in Codes PROVE JobInv(k)'
    <2>1. j \notin ToSet(waiting) /\ ~(j > generated) /\ j \notin adding
      BY <1>2 DEF MailInv, MailTypeOK, JobInv
    <2>2. CASE k = j
      BY <1>1, <1>3, <2>1, <2>2 DEF JobInv
    <2>3. CASE k # j
      BY <1>1, <1>3, <2>3 DEF MailInv, JobInv
    <2> QED BY <2>2, <2>3
  <1>6. UnderWay' = UnderWay
    BY <1>1 DEF UnderWay
  <1>7. ASSUME Production, NEW t \in Targets \ crossed' PROVE CurrentInv(t)'
    <2>1. CurrentInv(t)
      BY <1>7 DEF MailInv
    <2>2. CASE owner[j] = t
      <3>1. last'[t] = j /\ j = code[t] /\ j \in UnderWay
        BY <2>1, <2>2 DEF MailInv, MailTypeOK, CurrentInv, UnderWay
      <3> QED BY <1>1, <1>6, <2>1, <2>2, <3>1
              DEF CurrentInv, UnderWay
    <2>3. CASE owner[j] # t
      <3>1. last'[t] = last[t]
        BY <2>3 DEF MailInv, MailTypeOK
      <3> QED BY <1>1, <1>6, <2>1, <2>3, <3>1 DEF CurrentInv
    <2> QED BY <2>2, <2>3
  <1> QED BY <1>4, <1>5, <1>7 DEF MailInv

\* A job that leaves its worker for good.
LEMMA WithoutJob ==
  ASSUME MailInv, NEW j \in DOMAIN active, active' = Without(j)
  PROVE  /\ DOMAIN active' = DOMAIN active \ {j}
         /\ \A k \in DOMAIN active' : active'[k] = active[k]
         /\ active' \in [DOMAIN active' -> {"render", "send", "finish"}]
         /\ Cardinality(DOMAIN active') <= Concurrency
  <1>1. /\ DOMAIN active' = DOMAIN active \ {j}
        /\ \A k \in DOMAIN active' : active'[k] = active[k]
        /\ active' \in [DOMAIN active' -> {"render", "send", "finish"}]
    BY DEF Without, MailInv, MailTypeOK
  <1>2. Cardinality(DOMAIN active \ {j}) <= Cardinality(DOMAIN active)
        /\ Cardinality(DOMAIN active \ {j}) \in Nat
    BY Basics, FS_Subset, FS_CardinalityType
  <1>3. Cardinality(DOMAIN active) <= Concurrency
    BY DEF MailInv, MailTypeOK
  <1> QED BY <1>1, <1>2, <1>3, Basics, MailAssumption

LEMMA CompleteKeepsInv ==
  ASSUME MailInv, NEW j \in Codes, Complete(j)
  PROVE  MailInv'
  <1> USE Basics, WithoutJob DEF Complete, At
  <1>1. MailTypeOK'
    BY DEF MailInv, MailTypeOK
  <1>2. \A k \in Codes : JobInv(k)'
    BY DEF MailInv, JobInv
  <1>3. UnderWay' = UnderWay \ {j} /\ j \in UnderWay
    BY DEF UnderWay, MailInv, JobInv, MailTypeOK
  <1>4. ASSUME Production, NEW t \in Targets \ crossed' PROVE CurrentInv(t)'
    <2>1. CurrentInv(t)
      BY <1>4 DEF MailInv
    <2>2. owner[j] = t => last[t] = code[t]
      BY <1>3, <2>1 DEF CurrentInv
    <2> QED BY <1>3, <2>1, <2>2 DEF CurrentInv
  <1> QED BY <1>1, <1>2, <1>4 DEF MailInv

LEMMA JobFailsKeepsInv ==
  ASSUME MailInv, NEW j \in Codes, JobFails(j)
  PROVE  MailInv'
  <1> USE Basics, WithoutJob DEF JobFails, IsTriedAgain
  <1>1. owner[j] \in Targets
    BY DEF MailInv, MailTypeOK
  <1>2. MailTypeOK'
    BY <1>1 DEF MailInv, MailTypeOK
  <1>3. \A k \in Codes : JobInv(k)'
    BY DEF MailInv, JobInv
  <1>4. UnderWay' = UnderWay \ {j} /\ j \in UnderWay
    BY DEF UnderWay, MailInv, JobInv, MailTypeOK
  <1>5. /\ DOMAIN active' \subseteq DOMAIN active
        /\ \A k \in DOMAIN active' : active'[k] = active[k]
    OBVIOUS
  <1>6. Production => \A t \in Targets \ crossed' : CurrentInv(t)'
    BY <1>4, <1>5 DEF MailInv, CurrentInv
  <1> QED BY <1>2, <1>3, <1>6 DEF MailInv

LEMMA CrashKeepsInv ==
  ASSUME MailInv, Crash
  PROVE  MailInv'
  <1> USE Basics DEF Crash
  <1> DEFINE again == {j \in DOMAIN active : stalls[j] = 0}
  <1>1. again \subseteq 1..generated /\ IsFiniteSet(again)
    BY FS_Subset DEF MailInv, MailTypeOK
  <1> PICK order \in SetToSeqs(again) : waiting' = order \o waiting
    OBVIOUS
  <1>2. order \in Seq(1..generated) /\ IsInjective(order) /\ ToSet(order) \subseteq again
    BY <1>1, OrderOfSet
  <1>3. ToSet(order) \cap ToSet(waiting) = {}
    BY <1>2 DEF MailInv, MailTypeOK
  <1>4. /\ waiting' \in Seq(1..generated) /\ IsInjective(waiting')
        /\ ToSet(waiting') = ToSet(order) \cup ToSet(waiting)
    BY <1>2, <1>3, JoinedQueues
  <1>5. DOMAIN active' = {} /\ Cardinality(DOMAIN active') = 0
    BY FS_EmptySet
  <1>6. \A j \in Codes : stalls'[j] = IF j \in again THEN 1 ELSE stalls[j]
    OBVIOUS
  <1>7. MailTypeOK'
    <2>1. stalls' \in [Codes -> 0..1]
      BY DEF MailInv, MailTypeOK
    <2>2. \A j \in UnderWay : owner[j] \in Targets
      BY DEF MailInv, MailTypeOK
    <2>3. crossed' \subseteq Targets
      BY <2>2 DEF MailInv, MailTypeOK, UnderWay
    <2>4. active' \in [DOMAIN active' -> {"render", "send", "finish"}]
      BY <1>5
    <2> QED BY <1>4, <1>5, <2>1, <2>3, <2>4, MailAssumption DEF MailInv, MailTypeOK
  <1>8. ASSUME NEW j \in Codes PROVE JobInv(j)'
    <2>1. JobInv(j) /\ mailed[j] \in Nat /\ stalls[j] \in 0..1
      BY DEF MailInv, MailTypeOK
    <2>2. j \in again => j \in 1..generated
      BY <1>1
    <2>3. j \in ToSet(waiting') => j \in again \/ j \in ToSet(waiting)
      BY <1>2, <1>4
    <2> QED BY <1>5, <1>6, <2>1, <2>2, <2>3 DEF JobInv, Codes
  <1>9. again \subseteq ToSet(order)
    BY <1>1, OrderOfSet
  <1>10. ASSUME Production, NEW t \in Targets \ crossed' PROVE CurrentInv(t)'
    <2>1. CurrentInv(t) /\ t \notin crossed
      BY <1>10 DEF MailInv
    <2>2. UnderWay' \subseteq UnderWay
      BY <1>2, <1>4, <1>5 DEF UnderWay
    <2>3. \A j \in UnderWay : owner[j] = t => j \in UnderWay'
      <3> SUFFICES ASSUME NEW j \in UnderWay, owner[j] = t PROVE j \in ToSet(waiting')
        BY DEF UnderWay
      <3>1. j \in ToSet(waiting) \/ j \in again
        BY <1>10 DEF UnderWay
      <3> QED BY <1>4, <1>9, <3>1
    <2> QED BY <1>5, <2>1, <2>2, <2>3 DEF CurrentInv
  <1> QED BY <1>7, <1>8, <1>10 DEF MailInv

LEMMA StepKeepsMail == MailInv /\ [MailNext]_mailVars => MailInv'
  <1> SUFFICES ASSUME MailInv, [MailNext]_mailVars PROVE MailInv'
    OBVIOUS
  <1>1. CASE MailNext
    BY <1>1, SendKeepsInv, AddKeepsInv, AddFailsKeepsInv, TakeKeepsInv, RenderKeepsInv,
       SendMailKeepsInv, CompleteKeepsInv, JobFailsKeepsInv, CrashKeepsInv
       DEF MailNext, Work
  <1>2. CASE UNCHANGED mailVars
    BY <1>2 DEF mailVars, MailInv, MailTypeOK, JobInv, CurrentInv, UnderWay
  <1> QED BY <1>1, <1>2

LEMMA AlwaysMail == MailSpec => []MailInv
  BY StartMail, StepKeepsMail, PTL DEF MailSpec

LEMMA InvMails == MailInv => MailsGoOutOnce /\ LastMailIsCurrent
  <1> SUFFICES ASSUME MailInv PROVE MailsGoOutOnce /\ LastMailIsCurrent
    OBVIOUS
  <1>1. mailed \in [Codes -> 0..2] /\ stalls \in [Codes -> 0..1]
    BY DEF MailInv, MailTypeOK
  <1>2. MailsGoOutOnce
    BY <1>1 DEF MailsGoOutOnce, MailInv, JobInv
  <1>3. LastMailIsCurrent
    BY DEF LastMailIsCurrent, MailInv, CurrentInv
  <1> QED BY <1>2, <1>3

-----------------------------------------------------------------------------
(* The theorems.                                                           *)

\* The queue keeps its types, no job is in two places, and the worker keeps to
\* its concurrency.
THEOREM MailTypesAreKept == MailSpec => []MailTypeOK
  BY AlwaysMail, PTL DEF MailInv

\* A code is mailed once, and once more if its worker went away with it.
THEOREM CodesAreMailedOnce == MailSpec => []MailsGoOutOnce
  BY AlwaysMail, InvMails, PTL

\* The last mail of an address, none of whose jobs were overtaken or given up,
\* has the code of its row.
THEOREM LastMailsAreCurrent == MailSpec => []LastMailIsCurrent
  BY AlwaysMail, InvMails, PTL

=============================================================================
