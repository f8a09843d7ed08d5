----------------------------- MODULE MCConsole -----------------------------
(***************************************************************************)
(* The parts of the console around the live run.  They share no state, so  *)
(* one of them moves and the others stay as they began: the states are the *)
(* sum of the parts' states, not their product.                            *)
(***************************************************************************)
EXTENDS Governance, RunViews, Sharing, History, Panels, Settings, Push, Limits, Onboarding

VARIABLE focus   \* the part that moves

early == <<governVars, viewVars, shareVars>>
middle == <<historyVars, panelVars, settingsVars>>
late == <<pushVars, limitVars, onboardingVars>>
consoleVars == <<focus, early, middle, late>>

Parts == {"governance", "views", "sharing", "history", "panels", "settings", "push",
          "limits", "onboarding"}

AnyOf(S) == CHOOSE x \in S : TRUE

\* What a part may begin with is left open for the part that moves only.
ConsoleInit ==
    /\ focus \in Parts
    /\ GovernInit /\ ViewsInit /\ SharingInit /\ HistoryInit /\ PanelsInit
    /\ SettingsInit /\ PushInit /\ LimitsInit /\ OnboardingInit
    /\ focus # "governance" => \A r \in Runs : status[r] = "none"
    /\ focus # "views" => vMode = "clean"
    /\ focus # "onboarding" => provisioning = [a \in Tenants |->
          [at |-> "insert", slug |-> AnyOf(Slugs), email |-> AnyOf(Emails)]]

Moves(part) == focus = part /\ UNCHANGED focus

ConsoleNext ==
    \/ Moves("governance") /\ UNCHANGED <<viewVars, shareVars, middle, late>> /\ GovernNext
    \/ Moves("views") /\ UNCHANGED <<governVars, shareVars, middle, late>> /\ ViewsNext
    \/ Moves("sharing") /\ UNCHANGED <<governVars, viewVars, middle, late>> /\ SharingNext
    \/ Moves("history") /\ UNCHANGED <<early, panelVars, settingsVars, late>> /\ HistoryNext
    \/ Moves("panels") /\ UNCHANGED <<early, historyVars, settingsVars, late>> /\ PanelsNext
    \/ Moves("settings") /\ UNCHANGED <<early, historyVars, panelVars, late>> /\ SettingsNext
    \/ Moves("push") /\ UNCHANGED <<early, middle, limitVars, onboardingVars>> /\ PushNext
    \/ Moves("limits") /\ UNCHANGED <<early, middle, pushVars, onboardingVars>> /\ LimitsNext
    \/ Moves("onboarding") /\ UNCHANGED <<early, middle, pushVars, limitVars>> /\ OnboardingNext

ConsoleSpec == ConsoleInit /\ [][ConsoleNext]_consoleVars

-----------------------------------------------------------------------------
(* Requests, links and the like are numbered in the order of their use,     *)
(* which loses nothing: no part tells one unused number from another.       *)

Prefix(S, inUse) == \A i \in inUse, j \in S : j < i => j \in inUse

InOrder ==
    /\ Prefix(Runs, {r \in Runs : \E q \in Requests : req[q].run = r})
    /\ Prefix(Requests, {q \in Requests : req[q].at # "idle"})
    /\ Prefix(ShareLinks, {l \in ShareLinks : sPost[l] # "none"})
    /\ Prefix(Deletes, {d \in Deletes : sDelete[d].at # "idle"})
    /\ Prefix(Grants, {g \in Grants : bPost[g] # "idle"})
    /\ Prefix(Endpoints, used)
    /\ Prefix(SignUps, {v \in SignUps : joining[v].at # "unsent"})
    /\ Prefix(Tenants, {a \in Tenants : provisioning[a].at # "insert"})
    /\ provisioning[1].slug = AnyOf(Slugs) /\ provisioning[1].email = AnyOf(Emails)

\* What tells two states apart: the other parts are as they began.
Moving ==
    CASE focus = "governance" -> <<focus, governVars>>
      [] focus = "views" -> <<focus, viewVars>>
      [] focus = "sharing" -> <<focus, shareVars>>
      [] focus = "history" -> <<focus, historyVars>>
      [] focus = "panels" -> <<focus, panelVars>>
      [] focus = "settings" -> <<focus, settingsVars>>
      [] focus = "push" -> <<focus, pushVars>>
      [] focus = "limits" -> <<focus, limitVars>>
      [] focus = "onboarding" -> <<focus, onboardingVars>>

DefaultPreferences == [f \in Fields |-> "a"]

-----------------------------------------------------------------------------

\* The type invariants of the parts.
TypesOK ==
    /\ focus = "governance" => GovernTypeOK
    /\ focus = "views" => ViewsTypeOK
    /\ focus = "sharing" => SharingTypeOK
    /\ focus = "history" => HistoryTypeOK
    /\ focus = "panels" => PanelsTypeOK
    /\ focus = "settings" => SettingsTypeOK
    /\ focus = "push" => PushTypeOK
    /\ focus = "limits" => LimitsTypeOK
    /\ focus = "onboarding" => OnboardingTypeOK

=============================================================================
