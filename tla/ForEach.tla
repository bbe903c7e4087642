------------------------------- MODULE ForEach -------------------------------
(***************************************************************************)
(* What UtilsService.batchable promises: every element is worked on once,  *)
(* no more than Limit of them at a time.  When one is finished the next    *)
(* may begin; after one has failed its place is not taken again.           *)
(***************************************************************************)
EXTENDS Naturals

CONSTANTS Elements, Limit

VARIABLE state

States == {"waiting", "running", "finished", "failed"}
In(s) == {e \in Elements : state[e] = s}

\* Those that run have different numbers up to Limit.
Init == /\ state \in [Elements -> {"waiting", "running"}]
        /\ \E number \in [In("running") -> 1..Limit] :
              \A e, f \in In("running") : number[e] = number[f] => e = f

Finish(e) == /\ state[e] = "running"
             /\ state' = [state EXCEPT ![e] = "finished"]

FinishAndStart(e, f) == /\ state[e] = "running" /\ state[f] = "waiting"
                        /\ state' = [state EXCEPT ![e] = "finished", ![f] = "running"]

FailElement(e) == /\ state[e] = "running"
                  /\ state' = [state EXCEPT ![e] = "failed"]

Next == \E e \in Elements : \/ Finish(e) \/ FailElement(e)
                            \/ \E f \in Elements : FinishAndStart(e, f)

Spec == Init /\ [][Next]_state

=============================================================================
