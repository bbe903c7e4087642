---------------------------- MODULE SystemSettings ---------------------------
(***************************************************************************)
(* SystemService.updateSettings: a batch whose fn is updateSystemSetting,  *)
(* which reads the definition of the setting and then upserts a selection. *)
(* Beside it, calls of updateUserSetting.                                  *)
(***************************************************************************)
EXTENDS Batch, Settings

CONSTANTS Requests,      \* what clients may ask for: sequences of Length updates
          UserUpdates    \* what updateUserSetting may be called with

ASSUME UpdatesAssumption ==
    /\ UserUpdates \subseteq Update
    /\ \A r \in Requests : /\ DOMAIN r = 1..Length
                           /\ \A i \in 1..Length : r[i].setting \in Known => r[i] \in Update

VARIABLES
    items,         \* the body of the request
    step           \* per loop: where updateSystemSetting is

systemVars == <<batchVars, settingVars, items, step>>

SystemInit == /\ BatchInit /\ SettingsInit
              /\ items \in Requests
              /\ step = [w \in Workers |-> "find"]

Element(w) == items[at[w] + 1]

\* getById finds no such setting, or what is selected is none of its options.
Refuse(w) == /\ Busy(w) /\ step[w] = "find"
             /\ Element(w).setting \in Known => SystemValue(Element(w)) = None
             /\ Throw(w)
             /\ UNCHANGED <<settingVars, items, step>>

Find(w) == /\ Busy(w) /\ step[w] = "find"
           /\ Element(w).setting \in Known
           /\ SystemValue(Element(w)) # None
           /\ step' = [step EXCEPT ![w] = "upsert"]
           /\ UNCHANGED <<batchVars, settingVars, items>>

Upsert(w) == /\ step[w] = "upsert"
             /\ UpdateSystemSetting(Element(w))
             /\ Return(w)
             /\ step' = [step EXCEPT ![w] = "find"]
             /\ UNCHANGED items

\* The database fails.
Break(w) == /\ Throw(w)
            /\ step' = [step EXCEPT ![w] = "find"]
            /\ UNCHANGED <<settingVars, items>>

SetForUser(u, x) == /\ UpdateUserSetting(u, x)
                    /\ UNCHANGED <<batchVars, items, step>>

SystemNext == \/ \E w \in Workers : Refuse(w) \/ Find(w) \/ Upsert(w) \/ Break(w)
              \/ \E u \in Users, x \in UserUpdates : SetForUser(u, x)

SystemSpec == SystemInit /\ [][SystemNext]_systemVars

-----------------------------------------------------------------------------
(* Properties.                                                             *)

SystemTypeOK == /\ BatchTypeOK
                /\ step \in [Workers -> {"find", "upsert"}]

\* When the request has succeeded, each setting it names holds what one of the
\* items for it selects.  (Which one, if there are several, is up to the loops.)
ResolvedIsStored ==
    answer = "resolved" =>
       \A i \in DOMAIN items :
          systemSelection[items[i].setting] \in
             {SystemValue(items[j]) :
                j \in {k \in DOMAIN items : items[k].setting = items[i].setting}}

=============================================================================
