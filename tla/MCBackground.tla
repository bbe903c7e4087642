---------------------------- MODULE MCBackground ----------------------------
(***************************************************************************)
(* The smaller parts, checked together: the update of the system settings  *)
(* with its batch, the retry loops, the mails with the codes, and the      *)
(* fractions of a cent.  They share no state, so a behaviour is one of a   *)
(* single part, which `part` names, and their states add up.               *)
(***************************************************************************)
EXTENDS SystemSettings, Retry, CodeMail, Cents

VARIABLE part

\* A switch, a selection of one of two options, of several of them, a text, and
\* a setting that is never listed.
Setting(t, c, d, sub) == [type |-> t, context |-> c, defined |-> d, sub |-> sub,
                          options |-> IF d THEN {"id 11", "id 12"} ELSE {}]
MCDefinition ==
    [switch  |-> Setting("Binary", "system", FALSE, FALSE),
     theme   |-> Setting("SingleSelect", "user", TRUE, FALSE),
     formats |-> Setting("MultiSelect", "system", TRUE, FALSE),
     motto   |-> Setting("SingleSelect", "system", FALSE, FALSE),
     detail  |-> Setting("Binary", "user", FALSE, TRUE)]
MCTexts == {"11", "12", " 11", "x"}
MCNumber ==
    [text \in MCTexts |-> CASE text \in {"11", " 11"} -> "id 11"
                            [] text = "12" -> "id 12" [] text = "x" -> "NaN"]

Item(s, e, one, several) == [setting |-> s, enable |-> e, selection |-> one,
                             selections |-> several]
Updates == {Item("switch", "true", Absent, Absent), Item("switch", "false", Absent, Absent),
            Item("theme", Absent, " 11", Absent),   Item("theme", Absent, "x", Absent),
            Item("formats", Absent, Absent, <<"12", " 11">>),
            Item("formats", Absent, "11", <<"11", "x">>),
            Item("motto", Absent, "x", Absent),     Item("detail", "true", Absent, Absent)}
MCUserUpdates == {x \in Updates : x.setting \in {"theme", "formats", "detail"}}
MCRequests == [1..3 -> {x \in Updates : x.setting # "detail"}
                       \cup {Item("unknown", "true", Absent, Absent)}]

MCOpenings == {-10, 0, 20}
MCAmounts == {-15, 5, 12, 20, 25}

vars == <<part, systemVars, retryVars, mailVars, centsVars>>

\* The parts that are not followed rest in one of their initial states.
Init == /\ part \in {"settings", "retry", "mail", "cents"}
        /\ SystemInit /\ RetryInit /\ MailInit /\ CentsInit
        /\ part # "settings" => items = [i \in 1..3 |-> Item("switch", "true", Absent, Absent)]
        /\ part # "retry" => loop = "rerunnable" /\ type = "fixed"
        /\ part # "cents" => opening = 0

Settings == part = "settings" /\ SystemNext /\ UNCHANGED <<part, retryVars, mailVars, centsVars>>
Retries  == part = "retry" /\ RetryNext /\ UNCHANGED <<part, systemVars, mailVars, centsVars>>
Mails    == part = "mail" /\ MailNext /\ UNCHANGED <<part, systemVars, retryVars, centsVars>>
MailWork == part = "mail" /\ Work /\ UNCHANGED <<part, systemVars, retryVars, centsVars>>

Amounts  == part = "cents" /\ CentsNext /\ UNCHANGED <<part, systemVars, retryVars, mailVars>>

Next == Settings \/ Retries \/ Mails \/ Amounts

\* A worker that waits for jobs goes on working.
Spec == Init /\ [][Next]_vars /\ WF_vars(MailWork)

-----------------------------------------------------------------------------
(* Properties.                                                             *)

\* Every part keeps its types.
TypeOK == SystemTypeOK /\ RetryTypeOK /\ MailTypeOK /\ CentsTypeOK

=============================================================================
