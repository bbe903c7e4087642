-------------------------------- MODULE Batch --------------------------------
(***************************************************************************)
(* UtilsService.batchable: a call of fn for each element of an array, by   *)
(* min(batchSize, length) loops that share one index.  Between two awaits  *)
(* a loop runs alone, so it stores a result and takes the next element in  *)
(* one step.  What fn does is left to the modules that use this one.       *)
(*                                                                         *)
(* A definition marked SLIP is not the code's: it is the one after it with *)
(* a mistake such code invites, kept to see that a property notices it.    *)
(***************************************************************************)
EXTENDS Naturals, FiniteSets

CONSTANTS Length,      \* elements.length; the elements are known by their index
          BatchSize

ASSUME BatchAssumption == Length \in Nat /\ BatchSize \in Nat \ {0}

Indexes == 0..(Length - 1)
Workers == 0..((IF BatchSize < Length THEN BatchSize ELSE Length) - 1)

VARIABLES
    currentIndex,
    at,          \* per loop: the element whose fn it awaits, or Idle
    results,     \* the indexes whose result is stored
    threw,       \* the loops that ended because fn threw
    answer       \* of Promise.all

batchVars == <<currentIndex, at, results, threw, answer>>

Idle == Length    \* the loop is over

\* Each loop runs up to its first await before the next one is made.
BatchInit == /\ currentIndex = Cardinality(Workers)
             /\ at = [w \in Workers |-> w]
             /\ results = {}
             /\ threw = {}
             /\ answer = IF Length = 0 THEN "resolved" ELSE "pending"

Busy(w) == at[w] # Idle

TakesSame(w) == [at EXCEPT ![w] = IF currentIndex < Length THEN at[w] ELSE Idle]  \* SLIP
Takes(w) == [at EXCEPT ![w] = IF currentIndex < Length THEN currentIndex ELSE Idle]

AllTaken(now) == currentIndex = Length                            \* SLIP
AllOver(now) == \A v \in Workers : now[v] = Idle

\* fn returns.
Return(w) ==
    /\ Busy(w)
    /\ results' = results \cup {at[w]}
    /\ at' = Takes(w)
    /\ currentIndex' = IF currentIndex < Length THEN currentIndex + 1 ELSE currentIndex
    /\ answer' = IF answer = "pending" /\ AllOver(at') THEN "resolved" ELSE answer
    /\ UNCHANGED threw

StillPending == answer                                            \* SLIP
Rejected == IF answer = "pending" THEN "rejected" ELSE answer

\* fn throws: the loop ends and the caller has its answer, the others go on.
Throw(w) ==
    /\ Busy(w)
    /\ at' = [at EXCEPT ![w] = Idle]
    /\ threw' = threw \cup {w}
    /\ answer' = Rejected
    /\ UNCHANGED <<currentIndex, results>>

BatchNext == \E w \in Workers : Return(w) \/ Throw(w)

BatchSpec == BatchInit /\ [][BatchNext]_batchVars

-----------------------------------------------------------------------------
(* Properties.                                                             *)

BatchTypeOK == /\ currentIndex \in 0..Length
               /\ at \in [Workers -> 0..Length]
               /\ results \subseteq Indexes
               /\ threw \subseteq Workers
               /\ answer \in {"pending", "resolved", "rejected"}

\* The element is waiting, with a loop, stored, or was given up when fn threw.
StateOf(i) == IF i >= currentIndex THEN "waiting"
              ELSE IF \E w \in Workers : at[w] = i THEN "running"
              ELSE IF i \in results THEN "finished" ELSE "failed"

Each == INSTANCE ForEach WITH Elements <- Indexes, Limit <- BatchSize,
                              state <- [i \in Indexes |-> StateOf(i)]

\* batchable does what ForEach promises: loops that share an index neither
\* repeat an element nor skip one, and keep to the batch size.
EachElementOnce == Each!Spec

\* A resolved batch has every result; a rejected one has lost a loop, and
\* elements are left over for good only if it has lost all of them.
AnswersAreTrue ==
    /\ answer = "resolved" => results = Indexes
    /\ threw # {} => answer = "rejected"
    /\ AllOver(at) /\ threw # Workers => currentIndex = Length

=============================================================================
