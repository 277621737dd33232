---------------------------- MODULE AdminConsole ----------------------------
(***************************************************************************)
(* The console's operations together (internal/admin): settings, API keys  *)
(* and batch imports of one process, which may end at any time and start   *)
(* again with what it finds in .env.                                       *)
(***************************************************************************)
EXTENDS RuntimeSettings, KeyRing, BatchImport

CONSTANTS
    MaxRequests,    \* bound on the requests to the console
    MaxRestarts     \* bound on restarts

VARIABLES requests, restarts    \* how many there have been

vars == <<settingsVars, keyVars, batchVars, requests, restarts>>

Init ==
    /\ SettingsInit /\ KeysInit /\ BatchInit
    /\ requests = 0 /\ restarts = 0

Request ==
    /\ requests < MaxRequests
    /\ requests' = requests + 1
    /\ up
    /\ UNCHANGED restarts

\* HandleAddRegularKey, HandleDeleteRegularKey
ChangeKeys(key) ==
    /\ Request
    /\ AddRegularKey(key) \/ DeleteRegularKey(key)
    /\ UNCHANGED <<settingsVars, batchVars>>

ChangeSettings(a) ==
    /\ Request
    /\ SettingsBegin(a)
    /\ UNCHANGED <<keyVars, batchVars>>

\* HandleSetAccounts reads the concurrency once.
ImportAccounts(t, list) ==
    /\ Request
    /\ Import(t, list, runtime.concurrency)
    /\ UNCHANGED <<settingsVars, keyVars>>

\* main: settings are loaded, the keys taken from them, the store asked for the accounts.
Restart ==
    /\ restarts < MaxRestarts
    /\ restarts' = restarts + 1
    /\ RestartSettings /\ NewKeyring /\ ForgetTasks
    /\ UNCHANGED <<configured, requests>>

ContinueSettings(a) ==
    /\ SettingsStep(a)
    /\ UNCHANGED <<keyVars, batchVars, requests, restarts>>

ContinueImport(t) ==
    /\ up
    /\ TaskStep(t)
    /\ UNCHANGED <<settingsVars, keyVars, requests, restarts>>

Next ==
    \/ \E key \in Keys : ChangeKeys(key)
    \/ \E a \in Admins : ChangeSettings(a) \/ ContinueSettings(a)
    \/ \E t \in Tasks, list \in Lists : ImportAccounts(t, list)
    \/ \E t \in Tasks : ContinueImport(t)
    \/ Restart

\* Goroutines go on; nobody has to ask for anything, or to restart.
Fairness == \A t \in Tasks : WF_vars(ContinueImport(t))

Spec == Init /\ [][Next]_vars /\ Fairness
-----------------------------------------------------------------------------
\* An import is completed, whatever becomes of its accounts, unless the process ends.
ImportsEnd ==
    \A t \in Tasks :
        (task[t] # NoTask) ~> (IsA(t, "completed") \/ task[t] = NoTask)
=============================================================================
