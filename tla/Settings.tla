------------------------------ MODULE Settings ------------------------------
(***************************************************************************)
(* A user's preferences: the row, the query that caches it, the store the  *)
(* components read, and the settings page, whose changes wait 400 ms each  *)
(* before they are sent.  The PATCH route reads, merges and writes back.   *)
(***************************************************************************)
EXTENDS Naturals, FiniteSets

CONSTANTS
    Fields,      \* the keys of UserPreferences
    Options,     \* their values
    Unset,       \* JavaScript's undefined
    Default,     \* UserPreferencesDefault, per field
    Patches,     \* PATCH requests ever sent
    MaxChanges   \* bound: changes made on the page

ASSUME SettingsAssumption ==
    Unset \notin Options /\ Default \in [Fields -> Options] /\ MaxChanges \in Nat

VARIABLES
    uRow,      \* users.preferences, as mergePreferences completes it
    uQuery,    \* the data of ['me','preferences']
    uStore,    \* the preferences the components read
    uGet,      \* the GET: "idle", "sent", "read", and what it read
    uOpen,     \* the settings page is mounted
    uTimer,    \* per field: the value its timer will send
    uPatch,    \* per PATCH: where it is, its field and value, what it read
    uChosen,   \* history: the value chosen last, per field
    uSent,     \* history: the value sent last, per field
    uChanges,  \* changes made so far
    uTangled   \* history: two requests were under way together, or one failed

client == <<uQuery, uStore, uGet>>
settingsVars == <<uRow, client, uOpen, uTimer, uPatch, uChosen, uSent, uChanges, uTangled>>

Stored == [Fields -> Options]

SettingsInit ==
    /\ uRow = Default /\ uQuery = Default /\ uStore = Default
    /\ uGet = [at |-> "idle", saw |-> Default]
    /\ uOpen = FALSE /\ uTimer = [f \in Fields |-> Unset]
    /\ uPatch = [p \in Patches |-> [at |-> "idle", field |-> Unset, value |-> Unset, saw |-> Default]]
    /\ uChosen = Default /\ uSent = Default /\ uChanges = 0 /\ uTangled = FALSE

PatchUnderway == \E p \in Patches : uPatch[p].at # "idle"

\* The effect that mirrors the query's data: it runs when the data changed.
Mirrors(data, store) ==
    /\ uQuery' = data
    /\ uStore' = IF data = uQuery THEN store ELSE data

-----------------------------------------------------------------------------
(* The settings page.                                                       *)

OpenSettings ==
    /\ ~uOpen /\ uOpen' = TRUE
    /\ UNCHANGED <<uRow, client, uTimer, uPatch, uChosen, uSent, uChanges, uTangled>>

\* commit: one timer per field; the select shows the store's value meanwhile.
Commit(f, v) ==
    /\ uOpen /\ uChanges < MaxChanges /\ v # uStore[f]
    /\ uTimer' = [uTimer EXCEPT ![f] = v]
    /\ uChosen' = [uChosen EXCEPT ![f] = v]
    /\ uChanges' = uChanges + 1
    /\ UNCHANGED <<uRow, client, uOpen, uPatch, uSent, uTangled>>

\* The timer fires: the store is changed and the PATCH sent.
Mutate(p, f) ==
    /\ uTimer[f] # Unset /\ uPatch[p].at = "idle"
    /\ uTimer' = [uTimer EXCEPT ![f] = Unset]
    /\ uStore' = [uStore EXCEPT ![f] = uTimer[f]]
    /\ uPatch' = [uPatch EXCEPT ![p] =
                    [at |-> "sent", field |-> f, value |-> uTimer[f], saw |-> Default]]
    /\ uSent' = [uSent EXCEPT ![f] = uTimer[f]]
    /\ uTangled' = (uTangled \/ PatchUnderway \/ uGet.at # "idle")
    /\ UNCHANGED <<uRow, uQuery, uGet, uOpen, uChosen, uChanges>>

\* The cleanup on unmount clears the timers.
LeaveSettings ==
    /\ uOpen /\ uOpen' = FALSE
    /\ uTimer' = [f \in Fields |-> Unset]
    /\ UNCHANGED <<uRow, client, uPatch, uChosen, uSent, uChanges, uTangled>>

-----------------------------------------------------------------------------
(* PATCH /api/me/preferences.                                               *)

ReadPreferences(p) ==
    /\ uPatch[p].at = "sent"
    /\ uPatch' = [uPatch EXCEPT ![p].at = "read", ![p].saw = uRow]
    /\ UNCHANGED <<uRow, client, uOpen, uTimer, uChosen, uSent, uChanges, uTangled>>

\* Variant: the change is merged into the defaults.
Forgotten(p) == [Default EXCEPT ![uPatch[p].field] = uPatch[p].value]

Merged(p) == [uPatch[p].saw EXCEPT ![uPatch[p].field] = uPatch[p].value]

WritePreferences(p) ==
    /\ uPatch[p].at = "read"
    /\ uRow' = Merged(p)
    /\ uPatch' = [uPatch EXCEPT ![p].at = "written", ![p].saw = Merged(p)]
    /\ UNCHANGED <<client, uOpen, uTimer, uChosen, uSent, uChanges, uTangled>>

Idle(p) == uPatch' = [uPatch EXCEPT ![p] =
                        [at |-> "idle", field |-> Unset, value |-> Unset, saw |-> Default]]

\* onSuccess puts the answer into the query.
PatchSucceeds(p) ==
    /\ uPatch[p].at = "written"
    /\ Mirrors(uPatch[p].saw, uStore)
    /\ Idle(p)
    /\ UNCHANGED <<uRow, uGet, uOpen, uTimer, uChosen, uSent, uChanges, uTangled>>

\* A failure is not rolled back from the store.
PatchFails(p) ==
    /\ uPatch[p].at \in {"sent", "read", "written"}
    /\ Idle(p) /\ uTangled' = TRUE
    /\ UNCHANGED <<uRow, client, uOpen, uTimer, uChosen, uSent, uChanges>>

-----------------------------------------------------------------------------
(* GET /api/me/preferences, when the data is 60 seconds old.                *)

Refetch ==
    /\ uGet.at = "idle"
    /\ uGet' = [uGet EXCEPT !.at = "sent"]
    /\ uTangled' = (uTangled \/ PatchUnderway)
    /\ UNCHANGED <<uRow, uQuery, uStore, uOpen, uTimer, uPatch, uChosen, uSent, uChanges>>

ReadForGet ==
    /\ uGet.at = "sent"
    /\ uGet' = [at |-> "read", saw |-> uRow]
    /\ UNCHANGED <<uRow, uQuery, uStore, uOpen, uTimer, uPatch, uChosen, uSent, uChanges, uTangled>>

\* The data arrives, or the query keeps what it had.
GetSettles ==
    /\ uGet.at # "idle"
    /\ \/ uGet.at = "read" /\ Mirrors(uGet.saw, uStore)
       \/ UNCHANGED <<uQuery, uStore>>
    /\ uGet' = [at |-> "idle", saw |-> Default]
    /\ UNCHANGED <<uRow, uOpen, uTimer, uPatch, uChosen, uSent, uChanges, uTangled>>

-----------------------------------------------------------------------------

SettingsNext ==
    \/ OpenSettings \/ LeaveSettings \/ Refetch \/ ReadForGet \/ GetSettles
    \/ \E f \in Fields, v \in Options : Commit(f, v)
    \/ \E p \in Patches : \/ ReadPreferences(p) \/ WritePreferences(p)
                          \/ PatchSucceeds(p) \/ PatchFails(p)
                          \/ \E f \in Fields : Mutate(p, f)

SettingsSpec == SettingsInit /\ [][SettingsNext]_settingsVars

-----------------------------------------------------------------------------
(* Properties.                                                              *)

\* The typing of the row, the client and the requests.
SettingsTypeOK ==
    /\ {uRow, uQuery, uStore, uChosen, uSent} \subseteq Stored
    /\ uGet \in [at : {"idle", "sent", "read"}, saw : Stored]
    /\ uOpen \in BOOLEAN /\ uTangled \in BOOLEAN /\ uChanges \in 0..MaxChanges
    /\ uTimer \in [Fields -> Options \cup {Unset}]
    /\ uPatch \in [Patches -> [at : {"idle", "sent", "read", "written"}, saw : Stored,
                       field : Fields \cup {Unset}, value : Options \cup {Unset}]]

\* Changes that did not overlap are all kept: at rest the row, the query and
\* the store hold for every field the value sent last, unless two requests were
\* ever under way together or one failed.
SequentialChangesKept ==
    ~uTangled /\ ~PatchUnderway => uRow = uSent /\ uStore = uSent /\ uQuery = uSent

\* The cleanup of the settings page says that "a navigation-in-flight delta
\* still fires": a change has been sent once no timer is waiting.
NavigationStillFires ==
    \A f \in Fields : uTimer[f] = Unset => uSent[f] = uChosen[f]

=============================================================================
