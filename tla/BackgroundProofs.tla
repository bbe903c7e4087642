-------------------------- MODULE BackgroundProofs --------------------------
(***************************************************************************)
(* Proofs about the parts that MCBackground puts together: Batch and the   *)
(* update of the system settings that runs on it, the selections, the      *)
(* retry loops and the fractions of a cent, each for any values of its     *)
(* constants; and that together they, and the mails of CodeMailProofs,     *)
(* keep their types.                                                       *)
(***************************************************************************)
EXTENDS MCBackground, CodeMailProofs, SumTheorems

-----------------------------------------------------------------------------
(* Batch: the invariant.                                                   *)

\* The loops hold different elements, all taken and none of them stored.
HoldsInv ==
    /\ \A w \in Workers : Busy(w) => at[w] < currentIndex /\ at[w] \notin results
    /\ \A v, w \in Workers : Busy(v) /\ at[v] = at[w] => v = w
    /\ \A i \in results : i < currentIndex

\* A loop is over when it threw or when nothing was left.  Without a throw what
\* was taken is stored or with a loop.  Promise.all has one answer.
EndsInv ==
    /\ \A w \in threw : ~Busy(w)
    /\ \A w \in Workers \ threw : ~Busy(w) => currentIndex = Length
    /\ threw = {} => \A i \in 0..(currentIndex - 1) :
                        i \in results \/ \E w \in Workers : at[w] = i
    /\ answer = "resolved" => threw = {} /\ AllOver(at)
    /\ threw # {} => answer = "rejected"
    /\ answer = "pending" => threw = {}

BatchInv == BatchTypeOK /\ HoldsInv /\ EndsInv

\* As many elements are taken at first as there are loops.
LEMMA Begin == Cardinality(Workers) = (IF BatchSize < Length THEN BatchSize ELSE Length)
  <1> DEFINE n == IF BatchSize < Length THEN BatchSize ELSE Length
  <1>1. n \in Nat /\ 0 \in Int /\ n - 1 \in Int
    BY BatchAssumption
  <1>2. Cardinality(0..(n - 1)) = IF 0 > n - 1 THEN 0 ELSE (n - 1) - 0 + 1
    BY <1>1, FS_Interval
  <1> QED BY <1>1, <1>2 DEF Workers

LEMMA StartBatch == BatchInit => BatchInv
  <1> SUFFICES ASSUME BatchInit PROVE BatchInv
    OBVIOUS
  <1>1. currentIndex = (IF BatchSize < Length THEN BatchSize ELSE Length)
    BY Begin DEF BatchInit
  <1> QED BY <1>1, BatchAssumption
       DEF BatchInit, BatchInv, BatchTypeOK, HoldsInv, EndsInv, Workers, Indexes, Busy,
           Idle, AllOver

LEMMA ReturnKeepsInv ==
  ASSUME BatchInv, NEW w \in Workers, Return(w)
  PROVE  BatchInv'
  <1> USE DEF BatchInv, Busy, Idle
  <1>1. at[w] \in Indexes /\ at[w] < currentIndex
    BY BatchAssumption DEF BatchTypeOK, HoldsInv, Return, Indexes
  <1>2. /\ at'[w] = IF currentIndex < Length THEN currentIndex ELSE Length
        /\ \A v \in Workers \ {w} : at'[v] = at[v]
        /\ currentIndex' \in 0..Length
        /\ currentIndex <= currentIndex'
        /\ currentIndex < Length => currentIndex' = currentIndex + 1
        /\ currentIndex = Length => currentIndex' = Length
    BY BatchAssumption DEF BatchTypeOK, Return, Takes
  <1>3. BatchTypeOK'
    BY <1>1, <1>2, BatchAssumption DEF BatchTypeOK, Return, Takes
  <1>4. HoldsInv'
    <2>1. results' = results \cup {at[w]}
      BY DEF Return
    <2>2. \A v \in Workers : Busy(v)' => at'[v] < currentIndex' /\ at'[v] \notin results'
      <3>1. Busy(w)' => at'[w] < currentIndex' /\ at'[w] \notin results'
        BY <1>1, <1>2, <2>1, BatchAssumption DEF BatchTypeOK, HoldsInv
      <3>2. ASSUME NEW v \in Workers \ {w}, Busy(v)'
            PROVE  at'[v] < currentIndex' /\ at'[v] \notin results'
        <4>1. at'[v] = at[v] /\ at[v] \in 0..Length /\ at[v] < currentIndex
              /\ at[v] \notin results /\ at[v] # at[w]
          BY <1>2, <3>2 DEF BatchTypeOK, HoldsInv
        <4> QED BY <1>2, <2>1, <4>1, BatchAssumption DEF BatchTypeOK
      <3> QED BY <3>1, <3>2
    <2>3. ASSUME NEW v \in Workers, NEW u \in Workers, Busy(v)', at'[v] = at'[u]
          PROVE  v = u
      <3>1. CASE v # w /\ u # w
        BY <1>2, <2>3, <3>1 DEF HoldsInv
      <3>2. ASSUME NEW x \in Workers \ {w}, at'[w] = at'[x], at'[w] # Length
            PROVE  FALSE
        <4>1. at[x] = currentIndex /\ at[x] # Length
          BY <1>2, <3>2
        <4> QED BY <4>1, BatchAssumption DEF BatchTypeOK, HoldsInv
      <3> QED BY <2>3, <3>1, <3>2
    <2>4. \A i \in results' : i < currentIndex'
      BY <1>1, <1>2, <2>1, BatchAssumption DEF BatchTypeOK, HoldsInv, Indexes
    <2> QED BY <2>2, <2>3, <2>4 DEF HoldsInv
  <1>5. w \notin threw
    BY DEF EndsInv, Return
  <1>6. EndsInv'
    <2>1. \A v \in threw' : ~Busy(v)'
      BY <1>2, <1>5 DEF EndsInv, Return, BatchTypeOK
    <2>2. \A v \in Workers \ threw' : ~Busy(v)' => currentIndex' = Length
      BY <1>2, BatchAssumption DEF EndsInv, Return, BatchTypeOK
    <2>3. ASSUME threw' = {}, NEW i \in 0..(currentIndex' - 1)
          PROVE  i \in results' \/ \E v \in Workers : at'[v] = i
      <3>1. (i = currentIndex /\ currentIndex < Length) \/ i \in 0..(currentIndex - 1)
        <4>1. currentIndex \in 0..Length
          BY DEF BatchTypeOK
        <4>2. CASE currentIndex < Length
          BY <1>2, <4>1, <4>2, BatchAssumption
        <4>3. CASE currentIndex = Length
          BY <1>2, <4>1, <4>3, BatchAssumption
        <4> QED BY <4>1, <4>2, <4>3, BatchAssumption
      <3>2. CASE i = currentIndex /\ currentIndex < Length
        BY <1>2, <3>2
      <3>3. CASE i \in 0..(currentIndex - 1)
        BY <1>2, <2>3, <3>3 DEF EndsInv, Return
      <3> QED BY <3>1, <3>2, <3>3
    <2>4. answer # "resolved"
      BY DEF EndsInv, Return, AllOver
    <2>5. answer' = "resolved" => threw' = {} /\ AllOver(at)'
      BY <2>4 DEF EndsInv, Return, AllOver
    <2>6. (threw' # {} => answer' = "rejected") /\ (answer' = "pending" => threw' = {})
      BY DEF EndsInv, Return
    <2> QED BY <2>1, <2>2, <2>3, <2>5, <2>6 DEF EndsInv
  <1> QED BY <1>3, <1>4, <1>6

LEMMA ThrowKeepsInv ==
  ASSUME BatchInv, NEW w \in Workers, Throw(w)
  PROVE  BatchInv'
  <1> USE DEF BatchInv, Busy, Idle
  <1>1. at'[w] = Length /\ \A v \in Workers \ {w} : at'[v] = at[v]
    BY DEF BatchTypeOK, Throw
  <1>2. BatchTypeOK'
    BY BatchAssumption DEF BatchTypeOK, Throw, Rejected
  <1>3. HoldsInv'
    BY <1>1, BatchAssumption DEF BatchTypeOK, HoldsInv, Throw
  <1>4. answer' = "rejected"
    BY DEF EndsInv, BatchTypeOK, Throw, Rejected, AllOver
  <1>5. EndsInv'
    BY <1>1, <1>4 DEF EndsInv, BatchTypeOK, Throw
  <1> QED BY <1>2, <1>3, <1>5

LEMMA StepKeepsBatch == BatchInv /\ [BatchNext]_batchVars => BatchInv'
  <1> SUFFICES ASSUME BatchInv, [BatchNext]_batchVars PROVE BatchInv'
    OBVIOUS
  <1>1. CASE BatchNext
    BY <1>1, ReturnKeepsInv, ThrowKeepsInv DEF BatchNext
  <1>2. CASE UNCHANGED batchVars
    BY <1>2 DEF batchVars, BatchInv, BatchTypeOK, HoldsInv, EndsInv, Busy, AllOver
  <1> QED BY <1>1, <1>2

LEMMA AlwaysBatch == BatchSpec => []BatchInv
  BY StartBatch, StepKeepsBatch, PTL DEF BatchSpec

LEMMA InvAnswers == BatchInv => AnswersAreTrue
  <1> SUFFICES ASSUME BatchInv PROVE AnswersAreTrue
    OBVIOUS
  <1>1. ASSUME answer = "resolved" PROVE results = Indexes
    <2>1. threw = {} /\ AllOver(at)
      BY <1>1 DEF BatchInv, EndsInv
    <2>2. CASE Length = 0
      BY <2>2 DEF BatchInv, BatchTypeOK, Indexes
    <2>3. CASE Length # 0
      <3>1. 0 \in Workers
        BY <2>3, BatchAssumption DEF Workers
      <3>2. currentIndex = Length
        BY <2>1, <3>1 DEF BatchInv, EndsInv, AllOver, Busy, Idle
      <3>3. ASSUME NEW i \in Indexes PROVE i \in results
        <4>1. i \in results \/ \E w \in Workers : at[w] = i
          BY <2>1, <3>2 DEF BatchInv, EndsInv, Indexes
        <4>2. \A w \in Workers : at[w] # i
          BY <2>1, BatchAssumption DEF AllOver, Idle, Indexes
        <4> QED BY <4>1, <4>2
      <3> QED BY <3>3 DEF BatchInv, BatchTypeOK
    <2> QED BY <2>2, <2>3
  <1>2. AllOver(at) /\ threw # Workers => currentIndex = Length
    BY DEF BatchInv, EndsInv, BatchTypeOK, AllOver, Busy
  <1> QED BY <1>1, <1>2 DEF AnswersAreTrue, BatchInv, EndsInv

-----------------------------------------------------------------------------
(* Batch: the refinement.                                                  *)

LEMMA StartRefines == BatchInit => Each!Init
  <1> SUFFICES ASSUME BatchInit PROVE Each!Init
    OBVIOUS
  <1>1. currentIndex = (IF BatchSize < Length THEN BatchSize ELSE Length)
    BY Begin DEF BatchInit
  <1>2. ASSUME NEW i \in Indexes
        PROVE  StateOf(i) = IF i \in Workers THEN "running" ELSE "waiting"
    BY <1>1, BatchAssumption DEF BatchInit, StateOf, Workers, Indexes
  <1>3. Workers \subseteq Indexes
    BY BatchAssumption DEF Workers, Indexes
  <1>4. Each!In("running") = Workers
    BY <1>2, <1>3 DEF Each!In
  <1>5. \E number \in [Workers -> 1..BatchSize] :
           \A v, w \in Workers : number[v] = number[w] => v = w
    <2> DEFINE number == [w \in Workers |-> w + 1]
    <2>1. number \in [Workers -> 1..BatchSize]
      BY BatchAssumption DEF Workers
    <2>2. \A v, w \in Workers : number[v] = number[w] => v = w
      BY DEF Workers
    <2> QED BY <2>1, <2>2
  <1> QED BY <1>2, <1>4, <1>5 DEF Each!Init

LEMMA ReturnRefines ==
  ASSUME BatchInv, NEW w \in Workers, Return(w)
  PROVE  Each!Next
  <1> DEFINE state == [i \in Indexes |-> StateOf(i)]
  <1> USE DEF BatchInv, Busy, Idle
  <1> PICK e \in Indexes : e = at[w]
    BY BatchAssumption DEF BatchTypeOK, Return, Indexes
  <1> PICK f \in 0..Length : f = currentIndex
    BY DEF BatchTypeOK
  <1>1. e \in Indexes /\ e < currentIndex /\ state[e] = "running"
    BY BatchAssumption DEF BatchTypeOK, HoldsInv, Return, Indexes, StateOf
  <1>2. /\ at'[w] = IF currentIndex < Length THEN currentIndex ELSE Length
        /\ \A v \in Workers \ {w} : at'[v] = at[v]
        /\ currentIndex' = IF currentIndex < Length THEN currentIndex + 1 ELSE currentIndex
        /\ results' = results \cup {e}
        /\ currentIndex \in 0..Length
    BY DEF BatchTypeOK, Return, Takes
  <1>3. ~(\E v \in Workers : at'[v] = e)
    BY <1>1, <1>2, BatchAssumption DEF HoldsInv, Indexes
  <1>4. StateOf(e)' = "finished"
    BY <1>1, <1>2, <1>3, BatchAssumption DEF StateOf, Indexes
  <1>5. ASSUME NEW i \in Indexes \ {e}, i # currentIndex
        PROVE  StateOf(i)' = StateOf(i)
    <2>1. (\E v \in Workers : at'[v] = i) <=> (\E v \in Workers : at[v] = i)
      BY <1>2, <1>5, BatchAssumption DEF Indexes
    <2>2. (i >= currentIndex') <=> (i >= currentIndex)
      BY <1>2, <1>5, BatchAssumption DEF Indexes
    <2>3. i \in results' <=> i \in results
      BY <1>2, <1>5
    <2> QED BY <2>1, <2>2, <2>3 DEF StateOf
  <1>6. CASE currentIndex < Length
    <2>1. f \in Indexes /\ state[f] = "waiting" /\ f # e
      BY <1>1, <1>2, <1>6, BatchAssumption DEF StateOf, Indexes
    <2>2. (IF f >= currentIndex' THEN "waiting"
           ELSE IF \E v \in Workers : at'[v] = f THEN "running"
           ELSE IF f \in results' THEN "finished" ELSE "failed") = "running"
      BY <1>2, <1>6, BatchAssumption
    <2>3. state' = [i \in Indexes |-> IF i = e THEN "finished"
                                     ELSE IF i = f THEN "running" ELSE StateOf(i)]
      <3> SUFFICES ASSUME NEW i \in Indexes
                   PROVE  StateOf(i)' = IF i = e THEN "finished"
                                        ELSE IF i = f THEN "running" ELSE StateOf(i)
        OBVIOUS
      <3>1. CASE i = e
        BY <1>4, <3>1
      <3>2. CASE i = f
        BY <2>1, <2>2, <3>2 DEF StateOf
      <3> QED BY <1>5, <3>1, <3>2
    <2>5. state' = [state EXCEPT ![e] = "finished", ![f] = "running"]
      BY <1>1, <2>1, <2>3
    <2>4. Each!FinishAndStart(e, f)
      BY <1>1, <2>1, <2>5 DEF Each!FinishAndStart
    <2> QED BY <1>1, <2>1, <2>4 DEF Each!Next
  <1>7. CASE currentIndex = Length
    <2>1. state' = [state EXCEPT ![e] = "finished"]
      <3>1. ASSUME NEW i \in Indexes
            PROVE  StateOf(i)' = IF i = e THEN "finished" ELSE StateOf(i)
        BY <1>4, <1>5, <1>7, BatchAssumption DEF Indexes
      <3> QED BY <1>1, <3>1
    <2>2. Each!Finish(e)
      BY <1>1, <2>1 DEF Each!Finish
    <2> QED BY <1>1, <2>2 DEF Each!Next
  <1> QED BY <1>2, <1>6, <1>7, BatchAssumption

LEMMA ThrowRefines ==
  ASSUME BatchInv, NEW w \in Workers, Throw(w)
  PROVE  Each!Next
  <1> DEFINE state == [i \in Indexes |-> StateOf(i)]
  <1> USE DEF BatchInv, Busy, Idle
  <1> PICK e \in Indexes : e = at[w]
    BY BatchAssumption DEF BatchTypeOK, Throw, Indexes
  <1>1. e \in Indexes /\ e < currentIndex /\ e \notin results /\ state[e] = "running"
    BY BatchAssumption DEF BatchTypeOK, HoldsInv, Throw, Indexes, StateOf
  <1>2. /\ at'[w] = Length /\ \A v \in Workers \ {w} : at'[v] = at[v]
        /\ currentIndex' = currentIndex /\ results' = results
    BY DEF BatchTypeOK, Throw
  <1>3. ~(\E v \in Workers : at'[v] = e)
    BY <1>1, <1>2, BatchAssumption DEF HoldsInv, Indexes
  <1>4. StateOf(e)' = "failed"
    <2>1. ~(e >= currentIndex')
      BY <1>1, <1>2, BatchAssumption DEF Indexes, BatchTypeOK
    <2>2. e \notin results'
      BY <1>1, <1>2
    <2> QED BY <1>3, <2>1, <2>2 DEF StateOf
  <1>5. ASSUME NEW i \in Indexes \ {e} PROVE StateOf(i)' = StateOf(i)
    BY <1>2, BatchAssumption DEF StateOf, Indexes
  <1>6. state' = [state EXCEPT ![e] = "failed"]
    <2>1. ASSUME NEW i \in Indexes
          PROVE  StateOf(i)' = IF i = e THEN "failed" ELSE StateOf(i)
      BY <1>4, <1>5
    <2> QED BY <1>1, <2>1
  <1>7. Each!FailElement(e)
    BY <1>1, <1>6 DEF Each!FailElement
  <1> QED BY <1>1, <1>7 DEF Each!Next

LEMMA StepRefines ==
  BatchInv /\ [BatchNext]_batchVars => [Each!Next]_([i \in Indexes |-> StateOf(i)])
  <1> SUFFICES ASSUME BatchInv, [BatchNext]_batchVars, ~Each!Next
               PROVE  [i \in Indexes |-> StateOf(i)]' = [i \in Indexes |-> StateOf(i)]
    OBVIOUS
  <1>1. UNCHANGED batchVars
    BY ReturnRefines, ThrowRefines DEF BatchNext
  <1> QED BY <1>1 DEF batchVars, StateOf

-----------------------------------------------------------------------------
(* The theorems.                                                           *)

\* The loops keep their types.
THEOREM BatchTypesAreKept == BatchSpec => []BatchTypeOK
  BY AlwaysBatch, PTL DEF BatchInv

\* A batch that resolves has all its results; one that lost a loop rejects.
THEOREM AnswersStayTrue == BatchSpec => []AnswersAreTrue
  BY AlwaysBatch, InvAnswers, PTL

\* batchable implements ForEach: loops that share an index neither repeat an
\* element nor leave one out, and never exceed the batch size.
THEOREM BatchImplementsForEach == BatchSpec => EachElementOnce
  BY StartRefines, StepRefines, AlwaysBatch, PTL DEF BatchSpec, EachElementOnce, Each!Spec

-----------------------------------------------------------------------------
(* The update of the system settings runs on Batch.                        *)

\* What the items for a setting select.
Selected(s) == {SystemValue(items[j]) : j \in {k \in DOMAIN items : items[k].setting = s}}

\* An item whose upsert is next has passed the checks, and the setting of one
\* that is done holds what an item for it selects.
SystemInv ==
    /\ BatchInv
    /\ step \in [Workers -> {"find", "upsert"}]
    /\ items \in Requests
    /\ systemSelection = [s \in Known |-> systemSelection[s]]
    /\ \A w \in Workers : step[w] = "upsert" => Element(w).setting \in Known
    /\ \A i \in results : /\ items[i + 1].setting \in Known
                          /\ systemSelection[items[i + 1].setting]
                                \in Selected(items[i + 1].setting)

LEMMA StartSystem == SystemInit => SystemInv
  BY StartBatch DEF SystemInit, SettingsInit, BatchInit, SystemInv

LEMMA UpsertKeepsSystem ==
  ASSUME SystemInv, NEW w \in Workers, Upsert(w)
  PROVE  SystemInv'
  <1> DEFINE x == Element(w)
             i == at[w]
  <1>1. BatchInv'
    BY ReturnKeepsInv DEF SystemInv, Upsert
  <1>2. i \in Indexes /\ results' = results \cup {i}
    BY BatchAssumption DEF SystemInv, BatchInv, BatchTypeOK, Upsert, Return, Busy, Idle, Indexes
  <1>3. x.setting \in Known /\ x = items[i + 1] /\ i + 1 \in DOMAIN items
    BY <1>2, UpdatesAssumption, BatchAssumption
       DEF SystemInv, Upsert, Element, Indexes
  <1>4. systemSelection' = [systemSelection EXCEPT ![x.setting] = SystemValue(x)]
    BY DEF Upsert, UpdateSystemSetting
  <1>5. step' = [step EXCEPT ![w] = "find"] /\ items' = items
    BY DEF Upsert
  <1>6. \A v \in Workers : step'[v] = "upsert" => Element(v)' = Element(v) /\ step[v] = "upsert"
    BY <1>5 DEF SystemInv, Upsert, Return, Takes, Element, BatchInv, BatchTypeOK
  <1>7. SystemValue(x) \in Selected(x.setting)
    BY <1>3 DEF Selected
  <1>8. \A s \in Known : Selected(s)' = Selected(s)
    BY <1>5 DEF Selected
  <1> HIDE DEF x, i
  <1>9. ASSUME NEW k \in results'
        PROVE  /\ items[k + 1].setting \in Known
               /\ systemSelection'[items[k + 1].setting] \in Selected(items[k + 1].setting)
    <2>1. CASE items[k + 1].setting = x.setting
      BY <1>3, <1>4, <1>7, <2>1 DEF SystemInv
    <2>2. CASE items[k + 1].setting # x.setting
      <3>1. k \in results
        BY <1>2, <1>3, <1>9, <2>2
      <3> QED BY <1>4, <2>2, <3>1 DEF SystemInv
    <2> QED BY <2>1, <2>2
  <1>10. systemSelection' = [s \in Known |-> systemSelection'[s]]
    BY <1>3, <1>4 DEF SystemInv
  <1> QED BY <1>1, <1>5, <1>6, <1>8, <1>9, <1>10 DEF SystemInv

\* A call of fn that throws, before the upsert or in it.
LEMMA ThrowKeepsSystem ==
  ASSUME SystemInv, NEW w \in Workers, Refuse(w) \/ Break(w)
  PROVE  SystemInv'
  <1>1. Throw(w) /\ UNCHANGED <<settingVars, items>>
    BY DEF Refuse, Break
  <1>2. BatchInv'
    BY <1>1, ThrowKeepsInv DEF SystemInv
  <1>3. results' = results
    BY <1>1 DEF Throw
  <1>4. step' \in [Workers -> {"find", "upsert"}] /\ (step'[w] = "find")
    BY DEF Refuse, Break, SystemInv
  <1>5. \A v \in Workers \ {w} : at'[v] = at[v] /\ step'[v] = step[v]
    BY <1>1 DEF Refuse, Break, Throw, SystemInv, BatchInv, BatchTypeOK
  <1>6. \A v \in Workers : step'[v] = "upsert" => Element(v)'.setting \in Known
    BY <1>1, <1>4, <1>5 DEF Element, SystemInv
  <1> QED BY <1>1, <1>2, <1>3, <1>4, <1>6 DEF settingVars, Selected, SystemInv

LEMMA OthersKeepSystem ==
  ASSUME SystemInv,
         \/ \E w \in Workers : Find(w)
         \/ \E u \in Users, x \in UserUpdates : SetForUser(u, x)
         \/ UNCHANGED systemVars
  PROVE  SystemInv'
  <1>1. UNCHANGED <<batchVars, items, systemSelection>>
    BY DEF Find, SetForUser, UpdateUserSetting, systemVars, settingVars
  <1>2. BatchInv'
    BY <1>1, StepKeepsBatch DEF SystemInv
  <1>3. /\ step' \in [Workers -> {"find", "upsert"}]
        /\ \A w \in Workers : step'[w] = "upsert" => Element(w).setting \in Known
    <2>1. CASE \E w \in Workers : Find(w)
      BY <2>1 DEF Find, SystemInv
    <2>2. CASE step' = step
      BY <2>2 DEF SystemInv
    <2> QED BY <2>1, <2>2 DEF SetForUser, systemVars
  <1> QED BY <1>1, <1>2, <1>3 DEF SystemInv, Selected, Element, batchVars

LEMMA StepKeepsSystem == SystemInv /\ [SystemNext]_systemVars => SystemInv'
  BY UpsertKeepsSystem, ThrowKeepsSystem, OthersKeepSystem DEF SystemNext

LEMMA AlwaysSystem == SystemSpec => []SystemInv
  BY StartSystem, StepKeepsSystem, PTL DEF SystemSpec

\* When a request has succeeded, each setting it names holds what one of its
\* items selects, in whatever order the loops came to them.
THEOREM ResolvedIsAlwaysStored == SystemSpec => []ResolvedIsStored
  <1>1. SystemInv => ResolvedIsStored
    <2> SUFFICES ASSUME SystemInv, answer = "resolved", NEW i \in DOMAIN items
                 PROVE  systemSelection[items[i].setting] \in Selected(items[i].setting)
      BY DEF ResolvedIsStored, Selected
    <2>1. i \in 1..Length
      BY UpdatesAssumption DEF SystemInv
    <2>2. i - 1 \in results /\ (i - 1) + 1 = i
      BY <2>1, InvAnswers, BatchAssumption DEF SystemInv, AnswersAreTrue, Indexes
    <2> QED BY <2>2 DEF SystemInv
  <1> QED BY <1>1, AlwaysSystem, PTL

\* Whatever each item does, the update of the system settings is a run of Batch:
\* an item that is refused and a failure of the database are calls of fn that
\* throw, an upsert is one that returns.
THEOREM SystemRunsOnBatch == SystemSpec => BatchSpec
  <1>1. SystemInit => BatchInit
    BY DEF SystemInit
  <1>2. [SystemNext]_systemVars => [BatchNext]_batchVars
    BY DEF SystemNext, Refuse, Find, Upsert, Break, SetForUser, BatchNext, systemVars
  <1> QED BY <1>1, <1>2, PTL DEF SystemSpec, BatchSpec

-----------------------------------------------------------------------------
(* The selections.  What is stored of a selection of options are options,  *)
(* and of options all are shown: the loop that looks them up pushes every  *)
(* one.  That this holds for a sequence of any length is shown on the      *)
(* shortest prefix for which it might not.                                 *)

\* A set of numbers has a least one.
LEMMA LeastNumber ==
  ASSUME NEW C \in SUBSET Nat, C # {}
  PROVE  \E n \in C : \A m \in C : n <= m
  <1> PICK k \in C : TRUE
    OBVIOUS
  <1> DEFINE S == 0..k
             D == {0..i : i \in C \cap S}
  <1>1. IsFiniteSet(S)
    BY FS_Interval
  <1>2. D \in SUBSET SUBSET S
    OBVIOUS
  <1>3. D # {}
    BY k \in C \cap S
  <1>4. PICK X \in D : \A Y \in D : Y \subseteq X => Y = X
    <2> HIDE DEF D, S
    <2> QED BY <1>1, <1>2, <1>3, MinimalSubset
  <1>5. PICK n \in C \cap S : X = 0..n
    BY <1>4
  <1>6. ASSUME NEW m \in C PROVE n <= m
    <2> SUFFICES ASSUME m < n PROVE FALSE
      BY <1>5
    <2>1. m \in C \cap S /\ 0..m \subseteq X
      BY <1>5
    <2>2. 0..m = X
      BY <1>4, <2>1
    <2> QED BY <1>5, <2>2
  <1> QED BY <1>5, <1>6

LEMMA AllOptionsAreShown ==
  ASSUME NEW s, NEW ids \in Seq(Definition[s].options)
  PROVE  OptionsOf(s, ids) = ids
  <1> DEFINE Loop(f) == f = [n \in 0..Len(ids) |->
                               IF n = 0 THEN <<>>
                               ELSE IF ids[n] \in Definition[s].options
                                    THEN Append(f[n - 1], ids[n])
                               ELSE f[n - 1]]
             prefix == [n \in 0..Len(ids) |-> SubSeq(ids, 1, n)]
  <1>1. \A n \in 1..Len(ids) : /\ ids[n] \in Definition[s].options
                               /\ SubSeq(ids, 1, n) = Append(SubSeq(ids, 1, n - 1), ids[n])
    OBVIOUS
  <1>2. SubSeq(ids, 1, 0) = <<>> /\ SubSeq(ids, 1, Len(ids)) = ids
    OBVIOUS
  <1>3. Loop(prefix)
    <2> SUFFICES ASSUME NEW n \in 0..Len(ids)
                 PROVE  prefix[n] = IF n = 0 THEN <<>>
                                    ELSE IF ids[n] \in Definition[s].options
                                         THEN Append(prefix[n - 1], ids[n])
                                    ELSE prefix[n - 1]
      OBVIOUS
    <2>1. CASE n = 0
      BY <1>2, <2>1
    <2>2. CASE n # 0
      <3>1. n \in 1..Len(ids) /\ n - 1 \in 0..Len(ids)
        BY <2>2
      <3> QED BY <1>1, <2>2, <3>1
    <2> QED BY <2>1, <2>2
  <1>4. ASSUME NEW f, Loop(f) PROVE f[Len(ids)] = ids
    <2>1. f[0] = <<>> /\ \A n \in 1..Len(ids) : f[n] = Append(f[n - 1], ids[n])
      <3>1. \A n \in 0..Len(ids) : f[n] = IF n = 0 THEN <<>>
                                          ELSE IF ids[n] \in Definition[s].options
                                               THEN Append(f[n - 1], ids[n])
                                          ELSE f[n - 1]
        BY <1>4
      <3> HIDE DEF Loop
      <3>2. f[0] = <<>>
        BY <3>1
      <3>3. ASSUME NEW n \in 1..Len(ids) PROVE f[n] = Append(f[n - 1], ids[n])
        <4>1. n \in 0..Len(ids) /\ n # 0 /\ ids[n] \in Definition[s].options
          BY <1>1
        <4> QED BY <3>1, <4>1
      <3> QED BY <3>2, <3>3
    <2> DEFINE C == {n \in 0..Len(ids) : f[n] # SubSeq(ids, 1, n)}
    <2>2. C = {}
      <3> SUFFICES ASSUME C # {} PROVE FALSE
        OBVIOUS
      <3>1. PICK n \in C : \A m \in C : n <= m
        <4>1. C \in SUBSET Nat
          OBVIOUS
        <4> HIDE DEF C
        <4> QED BY <4>1, LeastNumber
      <3>2. n # 0
        BY <1>2, <2>1
      <3>3. n \in 1..Len(ids) /\ n - 1 \in 0..Len(ids) /\ n - 1 \notin C
        BY <3>1, <3>2
      <3>4. f[n - 1] = SubSeq(ids, 1, n - 1)
        BY <3>3
      <3>5. f[n] = SubSeq(ids, 1, n)
        <4> HIDE DEF Loop, prefix, C
        <4> QED BY <1>1, <2>1, <3>3, <3>4
      <3> QED BY <3>5
    <2>3. Len(ids) \in 0..Len(ids)
      OBVIOUS
    <2> QED BY <1>2, <2>2, <2>3
  <1>5. Loop(CHOOSE f : Loop(f))
    <2> HIDE DEF prefix, Loop
    <2> QED BY <1>3
  <1>6. OptionsOf(s, ids) = (CHOOSE f : Loop(f))[Len(ids)]
    BY DEF OptionsOf
  <1> QED
    <2> HIDE DEF Loop, prefix
    <2> QED BY <1>4, <1>5, <1>6

\* What is stored for a setting with options are its options.
Fits(s, stored) == stored # None /\ HasOptions(s) => stored \in Seq(Definition[s].options)

SelectionInv ==
    /\ userSelection = [u \in Users |-> [s \in Known |-> userSelection[u][s]]]
    /\ systemSelection = [s \in Known |-> systemSelection[s]]
    /\ \A s \in Known : Fits(s, systemSelection[s])
    /\ \A u \in Users, s \in Known : Fits(s, userSelection[u][s])

LEMMA FittingIsShown ==
  ASSUME NEW s, NEW stored, Fits(s, stored), stored # None
  PROVE  Shown(s, stored) = stored
  BY AllOptionsAreShown DEF Fits, Shown

LEMMA AcceptedFits ==
  ASSUME NEW x \in Update
  PROVE  Fits(x.setting, UserValue(x)) /\ Fits(x.setting, SystemValue(x))
  <1> DEFINE d == Definition[x.setting]
  <1>1. ASSUME UserValue(x) # None, HasOptions(x.setting)
        PROVE  UserValue(x) \in Seq(d.options)
    <2>1. CASE d.type = "SingleSelect"
      <3>1. UserValue(x) = <<Number[x.selection]>> /\ Number[x.selection] \in d.options
        BY <1>1, <2>1 DEF UserValue, HasOptions, IsOption, IdOf
      <3>2. \A S, e : e \in S => <<e>> \in Seq(S)
        OBVIOUS
      <3> QED BY <3>1, <3>2, Zenon
    <2>2. CASE d.type = "MultiSelect"
      <3>1. /\ UserValue(x) = [i \in DOMAIN x.selections |-> Number[x.selections[i]]]
            /\ x.selections # Absent
            /\ \A text \in ToSet(x.selections) : Number[text] \in d.options
        BY <1>1, <2>2 DEF UserValue, HasOptions, IsOption, IdOf
      <3>2. x.selections \in Seq(Texts)
        BY <3>1 DEF Update
      <3>3. \A i \in 1..Len(x.selections) : Number[x.selections[i]] \in d.options
        BY <3>1, <3>2 DEF ToSet
      <3> QED BY <3>1, <3>2, <3>3
    <2>3. CASE d.type \notin {"SingleSelect", "MultiSelect"}
      BY <1>1, <2>3 DEF UserValue, HasOptions
    <2> QED BY <2>1, <2>2, <2>3
  <1>2. HasOptions(x.setting) => SystemValue(x) = UserValue(x)
    BY DEF SystemValue, HasOptions
  <1> QED BY <1>1, <1>2 DEF Fits

LEMMA StartSelections == SystemInit => SelectionInv
  BY DEF SystemInit, SettingsInit, SelectionInv, Fits

LEMMA StepKeepsSelections ==
  ASSUME SystemInv, SelectionInv, [SystemNext]_systemVars
  PROVE  SelectionInv'
  <1>1. CASE \E w \in Workers : Upsert(w)
    <2> PICK w \in Workers : Upsert(w) BY <1>1
    <2> DEFINE x == Element(w)
    <2>1. x.setting \in Known /\ x \in Update
      <3>1. at[w] \in 0..(Length - 1)
        BY BatchAssumption DEF SystemInv, BatchInv, BatchTypeOK, Upsert, Return, Busy, Idle
      <3>2. at[w] + 1 \in 1..Length
        BY <3>1, BatchAssumption
      <3> QED BY <3>2, UpdatesAssumption DEF SystemInv, Upsert, Element
    <2>2. /\ systemSelection' = [systemSelection EXCEPT ![x.setting] = SystemValue(x)]
          /\ userSelection' = userSelection
      BY DEF Upsert, UpdateSystemSetting
    <2>3. Fits(x.setting, SystemValue(x))
      BY <2>1, AcceptedFits
    <2> HIDE DEF x
    <2> QED BY <2>1, <2>2, <2>3 DEF SelectionInv, Fits
  <1>2. CASE \E u \in Users, x \in UserUpdates : SetForUser(u, x)
    <2> PICK u \in Users, x \in UserUpdates : SetForUser(u, x) BY <1>2
    <2>1. x \in Update /\ x.setting \in Known
      BY UpdatesAssumption DEF Update
    <2>2. /\ userSelection' = [userSelection EXCEPT ![u][x.setting] = UserValue(x)]
          /\ systemSelection' = systemSelection
      BY DEF SetForUser, UpdateUserSetting
    <2>3. Fits(x.setting, UserValue(x))
      BY <2>1, AcceptedFits
    <2> QED BY <2>1, <2>2, <2>3 DEF SelectionInv, Fits
  <1>3. CASE UNCHANGED settingVars
    BY <1>3 DEF SelectionInv, Fits, settingVars
  <1> QED BY <1>1, <1>2, <1>3 DEF SystemNext, Refuse, Find, Break, systemVars

\* A selection that was accepted is shown as it was selected, whichever user's or
\* system's update came last and however many options it names.
THEOREM SelectionsAreAlwaysShown == SystemSpec => []SelectionsAreShown
  <1>1. SelectionInv => SelectionsAreShown
    BY FittingIsShown DEF SelectionInv, SelectionsAreShown, Listed
  <1>2. SystemInv /\ SelectionInv /\ [SystemNext]_systemVars => SelectionInv'
    BY StepKeepsSelections
  <1> QED BY <1>1, <1>2, StartSelections, AlwaysSystem, PTL DEF SystemSpec

-----------------------------------------------------------------------------
(* The retry loops.  First that Power, a recursive function, exists: up to *)
(* any number there is a function with its equations, any two agree where  *)
(* both are defined, and Power is what they agree on.                      *)

IsPower(g, n) == /\ g[0] = 1 /\ \A i \in 1..n : g[i] = 2 * g[i - 1]
                 /\ \A i \in 0..n : g[i] \in Nat

LEMMA PowersExist == \A n \in Nat : \E g : IsPower(g, n)
  <1> DEFINE C == {n \in Nat : ~(\E g : IsPower(g, n))}
  <1> SUFFICES ASSUME C # {} PROVE FALSE
    OBVIOUS
  <1>1. PICK n \in C : \A m \in C : n <= m
    <2>1. C \in SUBSET Nat
      OBVIOUS
    <2> HIDE DEF C
    <2> QED BY <2>1, LeastNumber
  <1>2. n \in Nat /\ ~(\E g : IsPower(g, n))
    BY <1>1
  <1>3. n # 0
    <2>1. IsPower([i \in {0} |-> 1], 0)
      BY DEF IsPower
    <2> QED BY <1>2, <2>1
  <1>4. PICK g : IsPower(g, n - 1)
    BY <1>1, <1>2, <1>3
  <1> HIDE DEF C
  <1> DEFINE h == [i \in 0..n |-> IF i = n THEN 2 * g[n - 1] ELSE g[i]]
  <1>5. g[n - 1] \in Nat /\ n - 1 \in 0..n
    BY <1>2, <1>3, <1>4 DEF IsPower
  <1>6. h[n] = 2 * g[n - 1] /\ \A i \in 0..(n - 1) : h[i] = g[i]
    BY <1>2
  <1>7. h[0] = 1
    BY <1>2, <1>3, <1>4, <1>6 DEF IsPower
  <1> HIDE DEF h
  <1>8. \A i \in 1..n : h[i] = 2 * h[i - 1]
    <2> TAKE i \in 1..n
    <2>1. CASE i = n
      BY <1>2, <1>3, <1>6, <2>1
    <2>2. CASE i # n
      <3>1. i \in 1..(n - 1) /\ i \in 0..(n - 1) /\ i - 1 \in 0..(n - 1)
        BY <1>2, <2>2
      <3> QED BY <1>4, <1>6, <3>1 DEF IsPower
    <2> QED BY <2>1, <2>2
  <1>9. \A i \in 0..n : h[i] \in Nat
    <2> TAKE i \in 0..n
    <2>1. CASE i = n
      BY <1>5, <1>6, <2>1
    <2>2. CASE i # n
      <3>1. i \in 0..(n - 1)
        BY <1>2, <2>2
      <3> QED BY <1>4, <1>6, <3>1 DEF IsPower
    <2> QED BY <2>1, <2>2
  <1> QED BY <1>2, <1>7, <1>8, <1>9 DEF IsPower

LEMMA PowersAgree ==
  ASSUME NEW n \in Nat, NEW m \in Nat, NEW g, NEW h, IsPower(g, n), IsPower(h, m),
         NEW k \in 0..n, k \in 0..m
  PROVE  g[k] = h[k]
  <1> DEFINE C == {i \in 0..k : g[i] # h[i]}
  <1> SUFFICES ASSUME C # {} PROVE FALSE
    OBVIOUS
  <1>1. PICK i \in C : \A j \in C : i <= j
    <2>1. C \in SUBSET Nat
      OBVIOUS
    <2> HIDE DEF C
    <2> QED BY <2>1, LeastNumber
  <1>2. i \in 0..k /\ i # 0
    BY <1>1 DEF IsPower
  <1>3. i - 1 \in 0..k /\ i - 1 \notin C
    BY <1>1, <1>2
  <1>4. g[i - 1] = h[i - 1]
    BY <1>3
  <1>5. i \in 1..n /\ i \in 1..m
    BY <1>2
  <1>6. g[i] = h[i]
    BY <1>4, <1>5 DEF IsPower
  <1> QED BY <1>1, <1>6

\* The equations of Power.
LEMMA PowerDoubles ==
  /\ Power[0] = 1
  /\ \A n \in Nat : Power[n] \in Nat /\ Power[n + 1] = 2 * Power[n]
  <1> DEFINE UpTo(n) == CHOOSE g : IsPower(g, n)
             F == [n \in Nat |-> UpTo(n)[n]]
             Defines(f) == f = [n \in Nat |-> IF n = 0 THEN 1 ELSE 2 * f[n - 1]]
  <1>1. \A n \in Nat : IsPower(UpTo(n), n)
    BY PowersExist
  <1> HIDE DEF UpTo
  <1>2. F[0] = 1 /\ \A n \in Nat : F[n] \in Nat
    BY <1>1 DEF IsPower
  <1>3. ASSUME NEW n \in Nat, n # 0 PROVE F[n] = 2 * F[n - 1]
    <2>1. n \in 1..n /\ n - 1 \in Nat /\ n - 1 \in 0..n /\ n - 1 \in 0..(n - 1)
      BY <1>3
    <2>2. UpTo(n)[n] = 2 * UpTo(n)[n - 1]
      BY <1>1, <2>1 DEF IsPower
    <2>3. UpTo(n)[n - 1] = UpTo(n - 1)[n - 1]
      BY <1>1, <2>1, PowersAgree
    <2> QED BY <2>1, <2>2, <2>3
  <1>4. Defines(F)
    <2>1. \A n \in Nat : F[n] = IF n = 0 THEN 1 ELSE 2 * F[n - 1]
      BY <1>2, <1>3
    <2> QED BY <2>1
  <1>5. Power = CHOOSE f : Defines(f)
    BY DEF Power
  <1>6. Defines(Power)
    <2> HIDE DEF Defines, F
    <2> QED BY <1>4, <1>5
  <1>7. \A n \in Nat : Power[n] = IF n = 0 THEN 1 ELSE 2 * Power[n - 1]
    BY <1>6
  <1>8. Power[0] = 1 /\ \A n \in Nat : Power[n + 1] = 2 * Power[n]
    <2> HIDE DEF Defines
    <2>1. \A n \in Nat : n + 1 \in Nat /\ n + 1 # 0 /\ (n + 1) - 1 = n
      OBVIOUS
    <2>2. 0 \in Nat
      OBVIOUS
    <2> QED BY <1>7, <2>1, <2>2
  <1>9. \A n \in Nat : Power[n] \in Nat
    <2> DEFINE C == {n \in Nat : Power[n] \notin Nat}
    <2> HIDE DEF Defines, F
    <2> SUFFICES ASSUME C # {} PROVE FALSE
      OBVIOUS
    <2>1. PICK n \in C : \A m \in C : n <= m
      <3>1. C \in SUBSET Nat
        OBVIOUS
      <3> HIDE DEF C
      <3> QED BY <3>1, LeastNumber
    <2>2. n \in Nat /\ n # 0
      BY <1>8, <2>1
    <2>3. n - 1 \in Nat /\ n - 1 \notin C /\ (n - 1) + 1 = n
      BY <2>1, <2>2
    <2>4. Power[n - 1] \in Nat /\ Power[n] = 2 * Power[n - 1]
      BY <1>8, <2>3
    <2>5. Power[n] \in Nat
      BY <2>4
    <2> QED BY <2>1, <2>5
  <1> QED BY <1>8, <1>9

\* What n calls that failed were waited for.
Waited(n) == IF type = "fixed" THEN 2 * HalfDelay * n ELSE HalfDelay * Power[n] - HalfDelay

\* Every call of rerunnable but the last one is followed by a delay, the last of
\* them possibly still to come.
RetryInv ==
    /\ RetryTypeOK
    /\ loop = "rerunnable" =>
          /\ attempt <= MaxRetries
          /\ calls = IF stage \in {"call", "sleep"} THEN attempt ELSE attempt + 1
          /\ stage = "threw" => attempt = MaxRetries
    /\ loop = "retryable" => stage # "threw"
    /\ loop = "occrunnable" => /\ stage # "sleep"
                               /\ stage = "call" => error \in {"none", "P2025"}
                               /\ stage = "returned" => error = "none"
                               /\ stage = "threw" => error = "other"
    /\ Retrying /\ stage = "sleep" => attempt > 0 /\ slept = Waited(attempt - 1)
    /\ Retrying /\ stage # "sleep" => slept = Waited(attempt)

LEMMA StartRetry == RetryInit => RetryInv
  <1>1. HalfDelay * 1 = HalfDelay
    BY RetryAssumption
  <1> QED BY <1>1, PowerDoubles, RetryAssumption
       DEF RetryInit, RetryInv, RetryTypeOK, Retrying, Waited

\* A delay is a number, and added to the ones before it makes the next sum.
LEMMA DelaysAddUp ==
  ASSUME NEW n \in Nat, n > 0
  PROVE  /\ Delay(n) \in Nat
         /\ Waited(n - 1) + Delay(n) = Waited(n)
  <1>1. n - 1 \in Nat /\ (n - 1) + 1 = n /\ HalfDelay \in Nat
    BY RetryAssumption
  <1>2. Power[n - 1] \in Nat /\ Power[n] = 2 * Power[n - 1]
    BY <1>1, PowerDoubles
  <1>3. ASSUME NEW h \in Nat, NEW p \in Nat
        PROVE  h * p \in Nat /\ h * p - h + h * p = h * (2 * p) - h
    OBVIOUS
  <1>4. ASSUME NEW h \in Nat
        PROVE  2 * h * (n - 1) + 2 * h = 2 * h * n
    OBVIOUS
  <1>5. CASE type = "fixed"
    BY <1>1, <1>4, <1>5 DEF Delay, Waited
  <1>6. CASE type # "fixed"
    <2>1. HalfDelay * Power[n - 1] \in Nat
      BY <1>1, <1>2, <1>3
    <2>2. HalfDelay * Power[n - 1] - HalfDelay + HalfDelay * Power[n - 1]
             = HalfDelay * (2 * Power[n - 1]) - HalfDelay
      BY <1>1, <1>2, <1>3
    <2> QED BY <1>2, <1>6, <2>1, <2>2 DEF Delay, ExponentialDelay, Waited
  <1> QED BY <1>5, <1>6

LEMMA SleepKeepsRetry ==
  ASSUME RetryInv, Sleep
  PROVE  RetryInv'
  <1>1. CASE Retrying
    <2>1. /\ attempt \in Nat /\ attempt > 0 /\ slept = Waited(attempt - 1)
          /\ slept' = slept + Delay(attempt)
      BY <1>1 DEF RetryInv, RetryTypeOK, Sleep
    <2>2. slept' = Waited(attempt) /\ Delay(attempt) \in Nat
      BY <2>1, DelaysAddUp
    <2>3. slept' \in Nat
      BY <2>1, <2>2 DEF RetryInv, RetryTypeOK
    <2>4. Waited(attempt)' = Waited(attempt)
      BY DEF Sleep, Waited
    <2> QED BY <2>1, <2>2, <2>3, <2>4 DEF RetryInv, RetryTypeOK, Sleep, Retrying
  <1>2. CASE ~Retrying
    BY <1>2 DEF RetryInv, RetryTypeOK, Sleep, Retrying
  <1> QED BY <1>1, <1>2

LEMMA SucceedKeepsRetry ==
  ASSUME RetryInv, Succeed
  PROVE  RetryInv'
  BY RetryAssumption DEF RetryInv, RetryTypeOK, Succeed, Retrying, Waited

LEMMA WaitKeepsRetry ==
  ASSUME RetryInv, WaitForValue
  PROVE  RetryInv'
  BY RetryAssumption DEF RetryInv, RetryTypeOK, WaitForValue, Retrying

LEMMA FailCallKeepsRetry ==
  ASSUME RetryInv, NEW e \in {"P2025", "other"}, FailCall(e)
  PROVE  RetryInv'
  <1>1. /\ stage = "call" /\ calls \in 0..MaxCalls /\ calls' = calls + 1
        /\ calls' \in 0..MaxCalls /\ error' = e
        /\ UNCHANGED <<loop, type, slept>>
    BY RetryAssumption DEF RetryInv, RetryTypeOK, FailCall
  <1>2. \A n : Waited(n)' = Waited(n)
    BY <1>1 DEF Waited
  <1>3. CASE loop = "rerunnable"
    <2>1. CASE attempt = MaxRetries
      <3>1. stage' = "threw" /\ attempt' = attempt
        BY <1>3, <2>1 DEF FailCall, GivesUp, IsLast
      <3> QED BY <1>1, <1>2, <1>3, <2>1, <3>1 DEF RetryInv, RetryTypeOK, Retrying
    <2>2. CASE attempt # MaxRetries
      <3>1. stage' = "sleep" /\ attempt' = attempt + 1
        BY <1>3, <2>2 DEF FailCall, GivesUp, IsLast
      <3>2. attempt' \in Nat /\ attempt' > 0 /\ attempt' - 1 = attempt /\ attempt' <= MaxRetries
        BY <1>3, <2>2, <3>1, RetryAssumption DEF RetryInv, RetryTypeOK
      <3> QED BY <1>1, <1>2, <1>3, <3>1, <3>2 DEF RetryInv, RetryTypeOK, Retrying
    <2> QED BY <2>1, <2>2
  <1>4. CASE loop = "retryable"
    <2>1. stage' = "sleep" /\ attempt' = attempt + 1
      BY <1>4 DEF FailCall, GivesUp
    <2>2. attempt' \in Nat /\ attempt' > 0 /\ attempt' - 1 = attempt
      BY <2>1 DEF RetryInv, RetryTypeOK
    <2> QED BY <1>1, <1>2, <1>4, <2>1, <2>2 DEF RetryInv, RetryTypeOK, Retrying
  <1>5. CASE loop = "occrunnable"
    <2>1. CASE e = "P2025"
      BY <1>1, <1>5, <2>1 DEF FailCall, GivesUp, RetryInv, RetryTypeOK, Retrying
    <2>2. CASE e = "other"
      BY <1>1, <1>5, <2>2 DEF FailCall, GivesUp, RetryInv, RetryTypeOK, Retrying
    <2> QED BY <2>1, <2>2
  <1> QED BY <1>3, <1>4, <1>5 DEF FailCall, RetryInv, RetryTypeOK, Loops

LEMMA StepKeepsRetry == RetryInv /\ [RetryNext]_retryVars => RetryInv'
  <1> SUFFICES ASSUME RetryInv, [RetryNext]_retryVars PROVE RetryInv'
    OBVIOUS
  <1>1. CASE RetryNext
    BY <1>1, SleepKeepsRetry, SucceedKeepsRetry, WaitKeepsRetry, FailCallKeepsRetry
       DEF RetryNext
  <1>2. CASE UNCHANGED retryVars
    BY <1>2 DEF retryVars, RetryInv, RetryTypeOK, Retrying, Waited
  <1> QED BY <1>1, <1>2

\* For any limits and delays: rerunnable calls once more than it may retry and
\* throws after the last call only, retryable never throws, and the delays add up
\* to what the backoff promises.
THEOREM LoopsAlwaysEndRight == RetrySpec => []LoopsEndRight
  <1>1. RetryInv => LoopsEndRight
    <2> SUFFICES ASSUME RetryInv PROVE LoopsEndRight
      OBVIOUS
    <2>1. loop = "rerunnable" => /\ calls <= MaxRetries + 1
                                 /\ stage = "threw" => calls = MaxRetries + 1
      BY RetryAssumption DEF RetryInv, RetryTypeOK
    <2>2. loop = "occrunnable" => (stage = "threw") = (error = "other")
      BY DEF RetryInv, RetryTypeOK
    <2> QED BY <2>1, <2>2 DEF RetryInv, LoopsEndRight, Waited
  <1> QED BY <1>1, StartRetry, StepKeepsRetry, PTL DEF RetrySpec

-----------------------------------------------------------------------------
(* Fractions of a cent.                                                    *)

WorthOf == [r \in RowIds |-> Worth(r)]
Drift == balance - opening - Total(WorthOf, RowIds)

\* Money that is stored is in whole cents.
CentsInv ==
    /\ CentsTypeOK
    /\ row = [r \in RowIds |-> row[r]]
    /\ opening % 10 = 0 /\ balance % 10 = 0
    /\ \A r \in RowIds : row[r] # NoRow => row[r].amount % 10 = 0
    /\ Drift % 10 = 0
    /\ -(10 * halves) <= Drift /\ Drift <= 10 * halves

LEMMA Rounded ==
  ASSUME NEW x \in Int
  PROVE  /\ Round(x) \in Int /\ Round(x) % 10 = 0
         /\ x % 10 = 0 => Round(x) = x
  BY DEF Round

\* What rounding a posting adds to what the rounded row is worth.
LEMMA RoundingDiffers ==
  ASSUME NEW before \in Int, before % 10 = 0, NEW t \in {"Credit", "Debit"}, NEW a \in Int
  PROVE  /\ SignedAmount(t, Round(a)) \in Int
         /\ PostedTo(before, t, a) \in Int /\ PostedTo(before, t, a) % 10 = 0
         /\ PostedTo(before, t, a) - before - SignedAmount(t, Round(a))
               \in IF IsHalved(before, t, a) THEN {-10, 10} ELSE {0}
  <1>1. Round(a) \in Int
    BY Rounded
  <1>2. CASE t = "Credit"
    <2>1. SignedAmount(t, a) = a /\ SignedAmount(t, Round(a)) = Round(a)
      BY <1>2 DEF SignedAmount
    <2>2. before + a \in Int
      OBVIOUS
    <2>3. Round(before + a) - before - Round(a)
             \in IF IsHalved(before, t, a) THEN {-10, 10} ELSE {0}
      BY <2>1 DEF Round, IsHalved
    <2> QED BY <1>1, <2>1, <2>2, <2>3, Rounded DEF PostedTo
  <1>3. CASE t = "Debit"
    <2>1. SignedAmount(t, a) = -a /\ SignedAmount(t, Round(a)) = -Round(a)
      BY <1>3 DEF SignedAmount
    <2>2. before + -a \in Int
      OBVIOUS
    <2>3. Round(before + -a) - before - -Round(a)
             \in IF IsHalved(before, t, a) THEN {-10, 10} ELSE {0}
      BY <2>1 DEF Round, IsHalved
    <2> QED BY <1>1, <2>1, <2>2, <2>3, Rounded DEF PostedTo
  <1> QED BY <1>2, <1>3

\* A posting is reversed exactly.
LEMMA ReversalIsExact ==
  ASSUME CentsInv, NEW r \in RowIds, row[r] # NoRow
  PROVE  /\ Reversed(r) = balance - Worth(r)
         /\ Reversed(r) \in Int /\ Reversed(r) % 10 = 0
  <1>1. /\ row[r].type \in {"Credit", "Debit"} /\ row[r].amount \in Int
        /\ row[r].amount % 10 = 0 /\ balance \in Int /\ balance % 10 = 0
    BY DEF CentsInv, CentsTypeOK
  <1>2. \A b, a \in Int : b % 10 = 0 /\ a % 10 = 0 =>
           b + a \in Int /\ b + -a \in Int /\ (b + a) % 10 = 0 /\ (b + -a) % 10 = 0
    OBVIOUS
  <1>3. CASE row[r].type = "Credit"
    <2>1. Worth(r) = row[r].amount /\ Reversed(r) = Round(balance + -row[r].amount)
      BY <1>3 DEF Worth, Reversed, PostedTo, SignedAmount
    <2>2. Round(balance + -row[r].amount) = balance + -row[r].amount
      BY <1>1, <1>2, Rounded
    <2> QED BY <1>1, <1>2, <2>1, <2>2
  <1>4. CASE row[r].type = "Debit"
    <2>1. Worth(r) = -row[r].amount /\ Reversed(r) = Round(balance + row[r].amount)
      BY <1>4 DEF Worth, Reversed, PostedTo, SignedAmount
    <2>2. Round(balance + row[r].amount) = balance + row[r].amount
      BY <1>1, <1>2, Rounded
    <2>3. balance + row[r].amount \in Int /\ (balance + row[r].amount) % 10 = 0
      BY <1>1, <1>2, Zenon
    <2>4. \A b, a \in Int : b + a = b - -a
      OBVIOUS
    <2>5. balance + row[r].amount = balance - -row[r].amount
      BY <1>1, <2>4, Zenon
    <2> QED BY <2>1, <2>2, <2>3, <2>5
  <1> QED BY <1>1, <1>3, <1>4

LEMMA WorthIsInt ==
  ASSUME CentsTypeOK, NEW r \in RowIds
  PROVE  Worth(r) \in Int
  BY DEF CentsTypeOK, Worth, SignedAmount

\* A row that changes alone changes the total by as much.
LEMMA TotalFollowsRow ==
  ASSUME CentsTypeOK, CentsTypeOK', NEW r \in RowIds,
         \A q \in RowIds \ {r} : row'[q] = row[q]
  PROVE  /\ Total(WorthOf, RowIds) \in Int
         /\ Total(WorthOf, RowIds)' = Total(WorthOf, RowIds) - Worth(r) + Worth(r)'
  <1>1. \A q \in RowIds : WorthOf[q] \in Int /\ WorthOf[q] = Worth(q)
    BY WorthIsInt DEF WorthOf
  <1>2. \A q \in RowIds : WorthOf'[q] \in Int /\ WorthOf'[q] = Worth(q)'
    BY DEF CentsTypeOK, Worth, SignedAmount, WorthOf
  <1>3. \A q \in RowIds \ {r} : WorthOf'[q] = WorthOf[q]
    BY <1>1, <1>2 DEF Worth
  <1>4. IsFiniteSet(RowIds)
    BY CentsAssumption
  <1>5. Total(WorthOf, RowIds) \in Int
    BY <1>1, <1>4, TotalTakesOne
  <1>6. Total(WorthOf', RowIds) = Total(WorthOf, RowIds) - WorthOf[r] + WorthOf'[r]
    <2> DEFINE f == WorthOf
               e == WorthOf'
    <2>1. /\ \A q \in RowIds : f[q] \in Int /\ e[q] \in Int
          /\ \A q \in RowIds \ {r} : e[q] = f[q]
      BY <1>1, <1>2, <1>3
    <2> HIDE DEF f, e
    <2>2. Total(e, RowIds) = Total(f, RowIds) - f[r] + e[r]
      BY <1>4, <2>1, TotalChangesByOne
    <2> QED BY <2>2 DEF f, e
  <1>7. Total(WorthOf, RowIds)' = Total(WorthOf', RowIds)
    BY DEF Total, IsSum
  <1> QED BY <1>1, <1>2, <1>5, <1>6, <1>7

LEMMA StartCents == CentsInit => CentsInv
  <1> SUFFICES ASSUME CentsInit PROVE CentsInv
    OBVIOUS
  <1>1. CentsTypeOK
    BY CentsAssumption DEF CentsInit, CentsTypeOK
  <1>2. Total(WorthOf, RowIds) = 0
    <2>1. \A r \in RowIds : WorthOf[r] = 0
      BY DEF CentsInit, WorthOf, Worth
    <2>2. IsFiniteSet(RowIds) /\ {} \subseteq RowIds
      BY CentsAssumption
    <2>3. \A r \in RowIds : WorthOf[r] \in Int
      BY <2>1
    <2>4. Total(WorthOf, RowIds) = Total(WorthOf, {})
      BY <2>1, <2>2, <2>3, TotalWithoutZeros
    <2> QED BY <2>4, EmptyTotal
  <1>3. Drift = 0 /\ halves = 0
    BY <1>1, <1>2 DEF Drift, CentsInit, CentsTypeOK
  <1>4. opening % 10 = 0 /\ balance % 10 = 0
    BY CentsAssumption DEF CentsInit
  <1>5. /\ row = [r \in RowIds |-> row[r]]
        /\ \A r \in RowIds : row[r] # NoRow => row[r].amount % 10 = 0
    BY DEF CentsInit
  <1> QED BY <1>1, <1>3, <1>4, <1>5 DEF CentsInv

\* A row is written and its amount posted to what the balance is without it.
LEMMA PostsKeepCents ==
  ASSUME CentsInv, NEW r \in RowIds, NEW t \in {"Credit", "Debit"}, NEW a \in Int,
         NEW before \in Int, before % 10 = 0, before = balance - Worth(r),
         Posts(r, before, t, a), changes' = changes + 1, changes < MaxChanges,
         opening' = opening
  PROVE  CentsInv'
  <1> DEFINE d == PostedTo(before, t, a) - before - SignedAmount(t, Round(a))
  <1>1. /\ SignedAmount(t, Round(a)) \in Int /\ Round(a) \in Int /\ Round(a) % 10 = 0
        /\ balance' = PostedTo(before, t, a) /\ balance' \in Int /\ balance' % 10 = 0
    <2>1. Round(a) \in Int /\ Round(a) % 10 = 0
      BY Rounded
    <2>2. /\ SignedAmount(t, Round(a)) \in Int
          /\ PostedTo(before, t, a) \in Int /\ PostedTo(before, t, a) % 10 = 0
      BY RoundingDiffers
    <2>3. balance' = PostedTo(before, t, a)
      BY DEF Posts
    <2> QED BY <2>1, <2>2, <2>3, Zenon
  <1>2. d \in (IF IsHalved(before, t, a) THEN {-10, 10} ELSE {0})
    BY RoundingDiffers
  <1>3. /\ row'[r] = [type |-> t, amount |-> Round(a)]
        /\ \A q \in RowIds \ {r} : row'[q] = row[q]
        /\ row' = [q \in RowIds |-> row'[q]]
    BY DEF CentsInv, Posts
  <1>4. Worth(r)' = SignedAmount(t, Round(a))
    <2>1. row'[r] # NoRow
      BY <1>1, <1>3, CentsAssumption
    <2> QED BY <1>3, <2>1 DEF Worth, SignedAmount
  <1>5. /\ halves \in 0..changes /\ halves' \in 0..changes'
        /\ halves' = IF IsHalved(before, t, a) THEN halves + 1 ELSE halves
        /\ changes' \in 0..MaxChanges
    BY CentsAssumption DEF CentsInv, CentsTypeOK, Posts
  <1>6. CentsTypeOK'
    BY <1>1, <1>3, <1>5 DEF CentsInv, CentsTypeOK
  <1>7. /\ Total(WorthOf, RowIds) \in Int /\ Worth(r) \in Int
        /\ Total(WorthOf, RowIds)' = Total(WorthOf, RowIds) - Worth(r) + Worth(r)'
    BY <1>3, <1>6, TotalFollowsRow, WorthIsInt DEF CentsInv
  <1>8. opening \in Int /\ balance \in Int
    BY DEF CentsInv, CentsTypeOK
  <1>9. Drift' = Drift + d /\ Drift \in Int
    <2> DEFINE total == Total(WorthOf, RowIds)
               w == Worth(r)
               s == SignedAmount(t, Round(a))
               b == PostedTo(before, t, a)
    <2>1. total \in Int /\ w \in Int /\ s \in Int /\ b \in Int /\ opening \in Int /\ balance \in Int
      BY <1>1, <1>7, <1>8
    <2>2. Drift' = b - opening - (total - w + s)
      BY <1>1, <1>4, <1>7 DEF Drift
    <2>3. Drift = balance - opening - total /\ d = b - before - s /\ before = balance - w
      BY DEF Drift
    <2> HIDE DEF total, w, s, b, d
    <2> QED BY <2>1, <2>2, <2>3
  <1> HIDE DEF d
  <1>10. Drift' % 10 = 0 /\ -(10 * halves') <= Drift' /\ Drift' <= 10 * halves'
    <2>1. Drift % 10 = 0 /\ -(10 * halves) <= Drift /\ Drift <= 10 * halves
      BY DEF CentsInv
    <2>2. halves \in Int /\ changes \in Int
      BY <1>5 DEF CentsInv, CentsTypeOK
    <2>3. CASE IsHalved(before, t, a)
      <3>1. d \in {-10, 10} /\ halves' = halves + 1
        BY <1>2, <1>5, <2>3
      <3> QED BY <1>9, <2>1, <2>2, <3>1
    <2>4. CASE ~IsHalved(before, t, a)
      <3>1. d = 0 /\ halves' = halves
        BY <1>2, <1>5, <2>4
      <3> QED BY <1>9, <2>1, <2>2, <3>1
    <2> QED BY <2>3, <2>4
  <1>11. \A q \in RowIds : row'[q] # NoRow => row'[q].amount % 10 = 0
    BY <1>1, <1>3 DEF CentsInv
  <1>12. opening' % 10 = 0
    BY DEF CentsInv
  <1> QED BY <1>1, <1>3, <1>6, <1>10, <1>11, <1>12 DEF CentsInv

LEMMA DeleteKeepsCents ==
  ASSUME CentsInv, NEW r \in RowIds, DeleteRow(r),
         changes' = changes + 1, changes < MaxChanges, opening' = opening
  PROVE  CentsInv'
  <1>1. /\ balance' = balance - Worth(r) /\ balance' \in Int /\ balance' % 10 = 0
    BY ReversalIsExact DEF DeleteRow
  <1>2. /\ row'[r] = NoRow /\ halves' = halves
        /\ \A q \in RowIds \ {r} : row'[q] = row[q]
        /\ row' = [q \in RowIds |-> row'[q]]
    BY DEF CentsInv, DeleteRow
  <1>3. CentsTypeOK'
    BY <1>1, <1>2, CentsAssumption DEF CentsInv, CentsTypeOK
  <1>4. Worth(r)' = 0
    BY <1>2 DEF Worth
  <1>5. /\ Total(WorthOf, RowIds) \in Int /\ Worth(r) \in Int
        /\ Total(WorthOf, RowIds)' = Total(WorthOf, RowIds) - Worth(r) + Worth(r)'
    BY <1>2, <1>3, TotalFollowsRow, WorthIsInt DEF CentsInv
  <1>6. Drift' = Drift
    <2> DEFINE total == Total(WorthOf, RowIds)
               w == Worth(r)
    <2>1. total \in Int /\ w \in Int /\ opening \in Int /\ balance \in Int
      BY <1>5 DEF CentsInv, CentsTypeOK
    <2>2. Drift' = (balance - w) - opening - (total - w + 0)
      BY <1>1, <1>4, <1>5 DEF Drift
    <2>3. Drift = balance - opening - total
      BY DEF Drift
    <2> HIDE DEF total, w
    <2> QED BY <2>1, <2>2, <2>3
  <1>7. \A q \in RowIds : row'[q] # NoRow => row'[q].amount % 10 = 0
    BY <1>2 DEF CentsInv
  <1> QED BY <1>1, <1>2, <1>3, <1>6, <1>7 DEF CentsInv

LEMMA StepKeepsCents == CentsInv /\ [CentsNext]_centsVars => CentsInv'
  <1> SUFFICES ASSUME CentsInv, [CentsNext]_centsVars PROVE CentsInv'
    OBVIOUS
  <1>1. CASE CentsNext
    <2>1. changes' = changes + 1 /\ changes < MaxChanges /\ opening' = opening
      BY <1>1 DEF CentsNext
    <2>2. ASSUME NEW r \in RowIds, NEW t \in {"Credit", "Debit"}, NEW a \in GivenAmounts,
                 CreateRow(r, t, a)
          PROVE  CentsInv'
      <3>1. balance \in Int /\ balance % 10 = 0 /\ Worth(r) = 0 /\ a \in Int
            /\ Posts(r, balance, t, a)
        BY <2>2, CentsAssumption DEF CentsInv, CentsTypeOK, CreateRow, Worth
      <3>2. balance = balance - Worth(r)
        BY <3>1
      <3> QED BY <2>1, <3>1, <3>2, PostsKeepCents
    <2>3. ASSUME NEW r \in RowIds, NEW t \in {"Credit", "Debit"},
                 NEW a \in GivenAmounts \cup {NoAmount}, UpdateRow(r, t, a)
          PROVE  CentsInv'
      <3>1. Reversed(r) = balance - Worth(r) /\ Reversed(r) \in Int /\ Reversed(r) % 10 = 0
        BY <2>3, ReversalIsExact DEF UpdateRow
      <3>2. GivenOr(a, row[r].amount) \in Int
        BY <2>3, CentsAssumption DEF UpdateRow, GivenOr, CentsInv, CentsTypeOK
      <3>3. Posts(r, Reversed(r), t, GivenOr(a, row[r].amount))
        BY <2>3 DEF UpdateRow
      <3> QED BY <2>1, <3>1, <3>2, <3>3, PostsKeepCents
    <2>4. ASSUME NEW r \in RowIds, DeleteRow(r) PROVE CentsInv'
      BY <2>1, <2>4, DeleteKeepsCents
    <2> QED BY <1>1, <2>2, <2>3, <2>4 DEF CentsNext
  <1>2. CASE UNCHANGED centsVars
    <2>1. UNCHANGED <<opening, balance, row, changes, halves>>
      BY <1>2 DEF centsVars
    <2>2. Drift' = Drift
      BY <2>1 DEF Drift, Total, IsSum, WorthOf, Worth
    <2> QED BY <2>1, <2>2 DEF CentsInv, CentsTypeOK
  <1> QED BY <1>1, <1>2

\* The sum that the property states is the total of the lemmas.
LEMMA SumIsTotal == MapThenSumSet(Worth, RowIds) = Total(WorthOf, RowIds)
  <1> DEFINE Unfolds(g) == g = [s \in SUBSET RowIds |->
                                  IF s = {} THEN 0
                                  ELSE LET x == CHOOSE y \in s : TRUE
                                       IN  Worth(x) + g[s \ {x}]]
  <1>1. ASSUME NEW g
        PROVE  Unfolds(g) <=> IsSum(g, WorthOf, RowIds)
    <2> DEFINE G == [s \in SUBSET RowIds |->
                       IF s = {} THEN 0 ELSE WorthOf[Chosen(s)] + g[s \ {Chosen(s)}]]
               H == [s \in SUBSET RowIds |->
                       IF s = {} THEN 0
                       ELSE LET x == CHOOSE y \in s : TRUE
                            IN  Worth(x) + g[s \ {x}]]
    <2>1. ASSUME NEW s \in SUBSET RowIds
          PROVE  G[s] = H[s]
      <3>1. CASE s = {}
        BY <3>1
      <3>2. CASE s # {}
        <4>1. Chosen(s) \in s
          BY <3>2, ChosenIsOne
        <4>2. WorthOf[Chosen(s)] = Worth(Chosen(s))
          BY <4>1 DEF WorthOf
        <4>3. G[s] = WorthOf[Chosen(s)] + g[s \ {Chosen(s)}]
          BY <3>2
        <4>4. H[s] = Worth(Chosen(s)) + g[s \ {Chosen(s)}]
          BY <3>2 DEF Chosen
        <4> QED BY <4>2, <4>3, <4>4
      <3> QED BY <3>1, <3>2
    <2>2. G = [s \in SUBSET RowIds |-> G[s]] /\ H = [s \in SUBSET RowIds |-> H[s]]
      OBVIOUS
    <2>3. G = H
      <3> HIDE DEF G, H
      <3> QED BY <2>1, <2>2
    <2>4. Unfolds(g) <=> g = H
      OBVIOUS
    <2>5. IsSum(g, WorthOf, RowIds) <=> g = G
      BY DEF IsSum
    <2> QED
      <3> HIDE DEF G, H, Unfolds
      <3> QED BY <2>3, <2>4, <2>5
  <1>2. IsFiniteSet(RowIds)
    BY CentsAssumption
  <1>3. PICK h : IsSum(h, WorthOf, RowIds) /\ Total(WorthOf, RowIds) = h[RowIds]
    <2> DEFINE f == WorthOf
    <2> HIDE DEF f
    <2>1. \E h : IsSum(h, f, RowIds) /\ Total(f, RowIds) = h[RowIds]
      BY <1>2, TotalIsSum
    <2> QED BY <2>1 DEF f
  <1>4. MapThenSumSet(Worth, RowIds) = (CHOOSE g : Unfolds(g))[RowIds]
    BY DEF MapThenSumSet, MapThenFoldSet
  <1>5. IsSum(CHOOSE g : Unfolds(g), WorthOf, RowIds)
    <2> HIDE DEF Unfolds
    <2> QED BY <1>1, <1>3
  <1>6. ASSUME NEW g, IsSum(g, WorthOf, RowIds) PROVE g[RowIds] = h[RowIds]
    <2>1. RowIds \subseteq RowIds /\ \A x \in RowIds : WorthOf[x] = WorthOf[x]
      OBVIOUS
    <2> DEFINE f == WorthOf
    <2>2. IsSum(g, f, RowIds) /\ IsSum(h, f, RowIds) /\ \A x \in RowIds : f[x] = f[x]
      BY <1>3, <1>6
    <2> HIDE DEF f
    <2> QED BY <1>2, <2>1, <2>2, SumCongruence
  <1> QED
    <2> HIDE DEF Unfolds
    <2> QED BY <1>3, <1>4, <1>5, <1>6

\* For any amounts and rows and any sequence of calls, a balance is what it was
\* opened with and what its rows are worth, but for a cent for each half cent that
\* was rounded in two directions.
THEOREM OnlyHalvesEverDrift == CentsSpec => []OnlyHalvesDrift
  <1>1. CentsInv => OnlyHalvesDrift
    <2> SUFFICES ASSUME CentsInv PROVE OnlyHalvesDrift
      OBVIOUS
    <2>1. balance - opening - MapThenSumSet(Worth, RowIds) = Drift
      BY SumIsTotal DEF Drift
    <2>2. halves \in 0..changes /\ changes \in Nat /\ opening \in Int /\ balance \in Int
      BY DEF CentsInv, CentsTypeOK
    <2>3. Total(WorthOf, RowIds) \in Int
      <3> DEFINE f == WorthOf
      <3>1. \A r \in RowIds : f[r] \in Int
        BY WorthIsInt DEF WorthOf, CentsInv
      <3>2. IsFiniteSet(RowIds)
        BY CentsAssumption
      <3> HIDE DEF f
      <3>3. Total(f, RowIds) \in Int
        BY <3>1, <3>2, TotalTakesOne
      <3> QED BY <3>3 DEF f
    <2>4. Drift \in Int
      BY <2>2, <2>3 DEF Drift
    <2>5. Drift % 10 = 0 /\ Drift \in -(10 * halves)..(10 * halves)
      BY <2>2, <2>4 DEF CentsInv
    <2> QED BY <2>1, <2>5 DEF OnlyHalvesDrift
  <1> QED BY <1>1, StartCents, StepKeepsCents, PTL DEF CentsSpec

-----------------------------------------------------------------------------
(* The parts together.                                                     *)

PartsInv == SystemInv /\ RetryInv /\ MailInv /\ CentsInv

LEMMA AlwaysParts == Spec => []PartsInv
  <1>1. Init => PartsInv
    BY StartSystem, StartRetry, StartMail, StartCents DEF Init, PartsInv
  <1>2. PartsInv /\ [Next]_vars => PartsInv'
    <2> SUFFICES ASSUME PartsInv, [Next]_vars PROVE PartsInv'
      OBVIOUS
    <2>1. /\ [SystemNext]_systemVars /\ [RetryNext]_retryVars
          /\ [MailNext]_mailVars /\ [CentsNext]_centsVars
      BY DEF Next, Settings, Retries, Mails, Amounts, vars
    <2> QED BY <2>1, StepKeepsSystem, StepKeepsRetry, StepKeepsMail, StepKeepsCents
         DEF PartsInv
  <1> QED BY <1>1, <1>2, PTL DEF Spec

\* Every part keeps its types: no loop takes an element that is not there, no
\* worker more jobs than it may, and amounts stay amounts.
THEOREM PartsKeepTheirTypes == Spec => []TypeOK
  <1>1. PartsInv => TypeOK
    BY DEF PartsInv, TypeOK, SystemTypeOK, SystemInv, BatchInv, RetryInv, MailInv, CentsInv
  <1> QED BY <1>1, AlwaysParts, PTL

============================================================================
