------------------------------- MODULE Settings ------------------------------
(***************************************************************************)
(* SettingsService: what may be selected for a setting, what is stored of  *)
(* it and what is shown of what is stored.  A stored selection (JSON) is   *)
(* written as a sequence: of one element for a switch, a text or the id of *)
(* an option, of the ids of the options for a multiple selection.          *)
(*                                                                         *)
(* A definition marked SLIP is not the code's: it is the one after it with *)
(* a mistake such code invites, kept to see that a property notices it.    *)
(***************************************************************************)
EXTENDS Naturals, Sequences, SequencesExt

CONSTANTS Users,
          Definition,  \* per setting id: its type, context, whether it has
                       \* defined options and is a sub setting, its options
          Texts,       \* what clients send
          Number,      \* Number(text): an id of an option, or something else
          Absent, None

Known == DOMAIN Definition

VARIABLES userSelection, systemSelection
settingVars == <<userSelection, systemSelection>>

SettingsInit == /\ userSelection = [u \in Users |-> [s \in Known |-> None]]
                /\ systemSelection = [s \in Known |-> None]

\* UpdateSystemSettingDto, but for the id of a setting that is not known.
Update == [setting: Known, enable: {"true", "false", Absent},
           selection: Texts \cup {Absent}, selections: Seq(Texts) \cup {Absent}]

-----------------------------------------------------------------------------
IsOption(s, text) == Number[text] \in Definition[s].options

AsText(text) == text                                              \* SLIP
\* What is stored of a selected option.
IdOf(text) == Number[text]

\* What updateUserSetting stores; None: it throws.
UserValue(x) ==
    LET d == Definition[x.setting] IN
    CASE d.type = "Binary" /\ x.enable # Absent -> <<x.enable>>
      [] d.type = "SingleSelect" /\ x.selection # Absent /\ d.defined
         /\ IsOption(x.setting, x.selection) -> <<IdOf(x.selection)>>
      [] d.type = "MultiSelect" /\ x.selections # Absent /\ d.defined
         /\ \A text \in ToSet(x.selections) : IsOption(x.setting, text) ->
            [i \in DOMAIN x.selections |-> IdOf(x.selections[i])]
      [] OTHER -> None

\* updateSystemSetting also stores a text for a setting whose options are not
\* defined.
SystemValue(x) ==
    LET d == Definition[x.setting] IN
    IF d.type = "SingleSelect" /\ x.selection # Absent /\ ~d.defined
    THEN <<x.selection>> ELSE UserValue(x)

\* Each is one upsert; it is the last one that stays.
UpdateUserSetting(u, x) == /\ UserValue(x) # None
                           /\ userSelection' = [userSelection EXCEPT ![u][x.setting] =
                                                  UserValue(x)]
                           /\ UNCHANGED systemSelection

UpdateSystemSetting(x) == /\ SystemValue(x) # None
                          /\ systemSelection' = [systemSelection EXCEPT ![x.setting] =
                                                   SystemValue(x)]
                          /\ UNCHANGED userSelection

-----------------------------------------------------------------------------
(* getUserSettings and getSystemSettings.                                  *)

HasOptions(s) == Definition[s].type # "Binary" /\ Definition[s].defined
Listed(context) == {s \in Known : Definition[s].context = context /\ ~Definition[s].sub}

\* What has been found after the first n ids.
OptionsOf(s, ids) ==
    LET found[n \in 0..Len(ids)] ==
          IF n = 0 THEN <<>>
          ELSE IF ids[n] \in Definition[s].options THEN Append(found[n - 1], ids[n])
          ELSE found[n - 1]
    IN found[Len(ids)]

\* mapSettings: of ids of options only those that are options are shown.
Shown(s, stored) == CASE stored = None -> <<>>
                      [] stored # None /\ HasOptions(s) -> OptionsOf(s, stored)
                      [] stored # None /\ ~HasOptions(s) -> stored

\* What was accepted as a selection is shown as it was selected.  (Not if it is
\* a sub setting, or one of the other context: neither is ever listed, though
\* both can be set.)
SelectionsAreShown ==
    /\ \A u \in Users, s \in Listed("user") :
          userSelection[u][s] # None => Shown(s, userSelection[u][s]) = userSelection[u][s]
    /\ \A s \in Listed("system") :
          systemSelection[s] # None => Shown(s, systemSelection[s]) = systemSelection[s]

=============================================================================
