--------------------------- MODULE AccountRegistry ---------------------------
(***************************************************************************)
(* Which accounts the process has (account.Service.accounts) and which the *)
(* store has, while the administrator's requests and the background        *)
(* Initialize of main.go run at the same time, store operations fail and   *)
(* the process restarts.  s.mu makes a deletion, a refresh and the second  *)
(* half of an addition single steps; an addition logs in between its two   *)
(* halves, and Initialize reads and writes the store outside s.mu.         *)
(* Emails stand for their strings.EqualFold classes.                       *)
(***************************************************************************)
EXTENDS Naturals

CONSTANTS
    Emails,
    Guest,          \* the guest account
    Admins,         \* concurrent callers of the account service
    MaxToken,       \* bound: tokens issued in a behaviour
    None,
    ReadOnly,       \* DATA_SAVE_MODE none: the store refuses every write
    StoreFails,     \* store operations may fail
    Restarts        \* the process may be restarted

ASSUME RegistryAssumption ==
    /\ MaxToken \in Nat
    /\ None \notin Nat /\ Guest \notin Emails
    /\ ReadOnly \in BOOLEAN /\ StoreFails \in BOOLEAN /\ Restarts \in BOOLEAN

VARIABLES
    pool,           \* pool[e]: the token the process holds for e, or None
    guest,          \* the pool has the guest account
    initialized,
    stored,         \* stored[e]: the token the store holds for e, or None
    init,           \* where Initialize is
    loaded,         \* the accounts Initialize has loaded
    validated,      \* the accounts Initialize found usable, then those it saves
    pc,             \* pc[a]: what admin a is doing
    target,         \* target[a]: the email a is adding, or the accounts it still refreshes
    issued,         \* tokens issued so far; a new one is greater than all others
    owed,           \* history: emails added or stored at first, and not deleted
    harm            \* history: the kinds of event that part pool and store, so far

vars == <<pool, guest, initialized, stored, init, loaded, validated,
          pc, target, issued, owed, harm>>

Tokens == 0 .. MaxToken
Accounts == [Emails -> Tokens \cup {None}]
NoAccounts == [e \in Emails |-> None]
Has(accounts) == {e \in Emails : accounts[e] # None}

TypeOK ==
    /\ pool \in Accounts /\ stored \in Accounts
    /\ loaded \in Accounts /\ validated \in Accounts
    /\ guest \in BOOLEAN /\ initialized \in BOOLEAN
    /\ init \in {"load", "assign", "merge", "save", "done", "failed"}
    /\ pc \in [Admins -> {"idle", "login", "refresh"}]
    /\ target \in [Admins -> SUBSET (Emails \cup {Guest})]
    /\ \A a \in Admins : /\ pc[a] = "idle" <=> target[a] = {}
                         /\ pc[a] = "login" => target[a] \subseteq Emails
    /\ issued \in Tokens
    /\ owed \subseteq Emails
    /\ harm \subseteq {"race", "store"}

\* Accounts written by an earlier process; their token is 0.
Init ==
    /\ stored \in [Emails -> {0, None}]
    /\ pool = NoAccounts /\ guest = FALSE /\ initialized = FALSE
    /\ init = "load" /\ loaded = NoAccounts /\ validated = NoAccounts
    /\ pc = [a \in Admins |-> "idle"]
    /\ target = [a \in Admins |-> {}]
    /\ issued = 0
    /\ owed = Has(stored)
    /\ harm = {}

initVars == <<initialized, init, loaded, validated>>
adminVars == <<pc, target>>

\* An administrator's change falls between Initialize's read of the store and its
\* write back.
Race == IF init \in {"assign", "merge", "save"} THEN {"race"} ELSE {}

-----------------------------------------------------------------------------
(* Initialize *)

\* LoadAccounts, then ensureAccountReady on each account: its token is good, or it
\* is logged in again, or it is left out.
InitLoad ==
    /\ init = "load"
    /\ loaded' = stored
    /\ \E relogin \in SUBSET Has(stored) : \E dropped \in SUBSET (Has(stored) \ relogin) :
          /\ relogin # {} => issued < MaxToken
          /\ issued' = IF relogin = {} THEN issued ELSE issued + 1
          /\ validated' = [e \in Emails |->
                IF e \in relogin THEN issued + 1
                ELSE IF e \in dropped THEN None ELSE stored[e]]
    /\ init' = "assign"
    /\ UNCHANGED <<pool, guest, initialized, stored, adminVars, owed, harm>>

\* A failed load ends Initialize for the life of the process.
InitLoadFails ==
    /\ StoreFails /\ init = "load"
    /\ init' = "failed"
    /\ UNCHANGED <<pool, guest, initialized, stored, loaded, validated, adminVars,
                   issued, owed, harm>>

\* Mutant: no guest is called in when no account validates.
InitAssignNoGuest ==
    /\ init = "assign"
    /\ pool' = validated
    /\ guest' = FALSE
    /\ initialized' = TRUE
    /\ init' = "merge"
    /\ UNCHANGED <<stored, loaded, validated, adminVars, issued, owed, harm>>

\* The pool becomes what Initialize validated, or the guest alone, whatever has been
\* added to it in the meantime.
InitAssign ==
    /\ init = "assign"
    /\ pool' = validated
    /\ guest' = (Has(validated) = {})
    /\ initialized' = TRUE
    /\ init' = "merge"
    /\ UNCHANGED <<stored, loaded, validated, adminVars, issued, owed, harm>>

\* Mutant: only the accounts that validated are saved.
MergedDrops(v) == v

\* Mutant: what was loaded wins over what was validated.
MergedStale(v) == [e \in Emails |-> IF loaded[e] # None THEN loaded[e] ELSE v[e]]

\* Mutant: an account that did not validate is saved without its token.
MergedBlank(v) ==
    [e \in Emails |-> IF v[e] = None /\ loaded[e] # None THEN 0 ELSE v[e]]

\* mergePersistentAccounts: an account that did not validate keeps what was loaded.
Merged(v) == [e \in Emails |-> IF v[e] # None THEN v[e] ELSE loaded[e]]

\* The merge reads the validated accounts without s.mu, in the array that is by now the
\* pool's: a change an administrator makes meanwhile is seen, or not seen, or moves
\* an account out of the reader's sight.
InitMerge ==
    /\ init = "merge"
    /\ \E seen \in Accounts :
          /\ \A e \in Emails : seen[e] \in IF pool = validated THEN {validated[e]}
                                          ELSE {validated[e], pool[e], None}
          /\ validated' = Merged(seen)
    /\ init' = "save"
    /\ UNCHANGED <<pool, guest, initialized, stored, loaded, adminVars, issued, owed, harm>>

\* SaveAllAccounts of what was merged; a failure is only logged.
InitSave ==
    /\ init = "save"
    /\ \/ /\ ~ReadOnly
          /\ stored' = validated
          /\ UNCHANGED harm
       \/ /\ ReadOnly \/ StoreFails
          /\ UNCHANGED stored
          /\ harm' = IF ReadOnly THEN harm ELSE harm \cup {"store"}
    /\ init' = "done"
    /\ UNCHANGED <<pool, guest, initialized, loaded, validated, adminVars, issued, owed>>

-----------------------------------------------------------------------------
(* The administrator's requests *)

\* AddAccount, first half: no account of that email is in the pool.
AddCheck(a, e) ==
    /\ pc[a] = "idle"
    /\ pool[e] = None
    /\ pc' = [pc EXCEPT ![a] = "login"]
    /\ target' = [target EXCEPT ![a] = {e}]
    /\ UNCHANGED <<pool, guest, stored, initVars, issued, owed, harm>>

Done(a) ==
    /\ pc' = [pc EXCEPT ![a] = "idle"]
    /\ target' = [target EXCEPT ![a] = {}]

\* The login fails, or AddAccountWithToken finds that the email has been added since.
AddFails(a) ==
    /\ pc[a] = "login"
    /\ Done(a)
    /\ UNCHANGED <<pool, guest, stored, initVars, issued, owed, harm>>

\* Its SaveAccount fails: the pool is put back as it was, but what Initialize is about
\* to merge may have been overwritten in place.
AddUnsaved(a) ==
    /\ StoreFails /\ ~ReadOnly
    /\ pc[a] = "login"
    /\ issued < MaxToken
    /\ issued' = issued + 1
    /\ \E e \in target[a] :
          /\ pool[e] = None
          /\ validated' \in IF init = "merge"
                            THEN {validated, [validated EXCEPT ![e] = issued + 1]}
                            ELSE {validated}
    /\ harm' = IF init = "merge" THEN harm \cup {"store"} ELSE harm
    /\ Done(a)
    /\ UNCHANGED <<pool, guest, stored, initialized, init, loaded, owed>>

\* Mutant: the email is not looked up again after the login.
AddFinishUnchecked(a) ==
    /\ pc[a] = "login"
    /\ issued < MaxToken
    /\ \E e \in target[a] :
          /\ pool' = [pool EXCEPT ![e] = issued + 1]
          /\ stored' = IF ReadOnly THEN stored ELSE [stored EXCEPT ![e] = issued + 1]
          /\ owed' = owed \cup {e}
    /\ issued' = issued + 1
    /\ guest' = FALSE
    /\ harm' = harm \cup Race
    /\ Done(a)
    /\ UNCHANGED initVars

\* AddAccountWithToken: the guest gives way, and the account is saved.  A read-only
\* store's refusal is not an error.
AddFinish(a) ==
    /\ pc[a] = "login"
    /\ issued < MaxToken
    /\ \E e \in target[a] :
          /\ pool[e] = None
          /\ pool' = [pool EXCEPT ![e] = issued + 1]
          /\ stored' = IF ReadOnly THEN stored ELSE [stored EXCEPT ![e] = issued + 1]
          /\ owed' = owed \cup {e}
    /\ issued' = issued + 1
    /\ guest' = FALSE
    /\ harm' = harm \cup Race
    /\ Done(a)
    /\ UNCHANGED initVars

\* DeleteAccount: the guest comes back when the last account goes.  When the store
\* fails the caller is told so, but the pool stays changed.
Delete(a, e) ==
    /\ pc[a] = "idle"
    /\ pool[e] # None
    /\ pool' = [pool EXCEPT ![e] = None]
    /\ guest' = (guest \/ Has(pool) = {e})
    /\ \/ /\ stored' = IF ReadOnly THEN stored ELSE [stored EXCEPT ![e] = None]
          /\ owed' = owed \ {e}
          /\ harm' = harm \cup Race
       \/ /\ StoreFails /\ ~ReadOnly
          /\ harm' = harm \cup {"store"}
          /\ UNCHANGED <<stored, owed>>
    /\ UNCHANGED <<initVars, adminVars, issued>>

\* RefreshAccount of a persistent account, holding s.mu during the login.  The pool
\* keeps the new token when the store does not.
RefreshOne(e) ==
    \/ \* the login fails, or the email is not in the pool any more
       UNCHANGED <<pool, stored, issued, harm>>
    \/ /\ pool[e] # None
       /\ issued < MaxToken
       /\ issued' = issued + 1
       /\ pool' = [pool EXCEPT ![e] = issued + 1]
       /\ \/ /\ stored' = IF ReadOnly THEN stored ELSE [stored EXCEPT ![e] = issued + 1]
             /\ harm' = harm \cup Race
          \/ /\ StoreFails /\ ~ReadOnly
             /\ UNCHANGED stored
             /\ harm' = harm \cup {"store"}

Refresh(a, e) ==
    /\ pc[a] = "idle"
    /\ RefreshOne(e)
    /\ UNCHANGED <<guest, initVars, adminVars, owed>>

\* Mutant: a round in which nothing is due is begun, with nothing to end it.
RefreshAllOfNone(a) ==
    /\ pc[a] = "idle"
    /\ \E due \in SUBSET Has(pool) :
          target' = [target EXCEPT ![a] = IF guest THEN due \cup {Guest} ELSE due]
    /\ pc' = [pc EXCEPT ![a] = "refresh"]
    /\ UNCHANGED <<pool, guest, stored, initVars, issued, owed, harm>>

\* RefreshAllAccounts, by the administrator or by runAutoRefresh: a copy of the pool,
\* from which the accounts that expire late enough are passed over, never the guest ...
RefreshAll(a) ==
    /\ pc[a] = "idle"
    /\ \E due \in SUBSET Has(pool) :
          target' = [target EXCEPT ![a] = IF guest THEN due \cup {Guest} ELSE due]
    /\ target'[a] # {}
    /\ pc' = [pc EXCEPT ![a] = "refresh"]
    /\ UNCHANGED <<pool, guest, stored, initVars, issued, owed, harm>>

\* RefreshAccount of the guest changes its browser session only, found or not.
RefreshGuest == UNCHANGED <<pool, stored, issued, harm>>

\* ... and each of the others is refreshed, if it still exists.
RefreshNext(a) ==
    /\ pc[a] = "refresh"
    /\ \E e \in target[a] :
          /\ \/ e = Guest /\ RefreshGuest
             \/ e # Guest /\ RefreshOne(e)
          /\ target' = [target EXCEPT ![a] = @ \ {e}]
    /\ pc' = [pc EXCEPT ![a] = IF target'[a] = {} THEN "idle" ELSE "refresh"]
    /\ UNCHANGED <<guest, initVars, owed>>

\* The process is restarted: only the store stays.
Restart ==
    /\ Restarts
    /\ pool' = NoAccounts /\ guest' = FALSE /\ initialized' = FALSE
    /\ init' = "load" /\ loaded' = NoAccounts /\ validated' = NoAccounts
    /\ pc' = [a \in Admins |-> "idle"]
    /\ target' = [a \in Admins |-> {}]
    /\ UNCHANGED <<stored, issued, owed, harm>>

Initialize == InitLoad \/ InitLoadFails \/ InitAssign \/ InitMerge \/ InitSave

Next ==
    \/ Initialize
    \/ \E a \in Admins :
          \/ \E e \in Emails : AddCheck(a, e) \/ Delete(a, e) \/ Refresh(a, e)
          \/ AddFails(a) \/ AddUnsaved(a) \/ AddFinish(a)
          \/ RefreshAll(a) \/ RefreshNext(a)
    \/ Restart

Spec == Init /\ [][Next]_vars

-----------------------------------------------------------------------------
\* The guest stands in for the persistent accounts: once the service is initialized,
\* the pool has the guest exactly when it has no other account, so the pool is never
\* empty and real accounts never share the load with the guest.
GuestStandsIn ==
    /\ guest => Has(pool) = {}
    /\ initialized /\ Has(pool) = {} => guest

\* Unless an administrator's change falls into Initialize's window or the store fails,
\* the store holds exactly the accounts that are owed ...
StoreHoldsOwed == ~ReadOnly /\ harm = {} => Has(stored) = owed

\* ... and, outside that window, with the tokens the process uses.
PoolMatchesStore ==
    ~ReadOnly /\ harm = {} /\ init \notin {"merge", "save"} =>
        \A e \in Emails : pool[e] # None => stored[e] = pool[e]

KeepsTokens ==
    ~ReadOnly /\ harm = {} =>
        \A e \in Emails :
            /\ pool[e] # None /\ pool'[e] # None => pool'[e] >= pool[e]
            /\ stored[e] # None /\ stored'[e] # None => stored'[e] >= stored[e]

\* No token goes back to an older one, in the pool or in the store, unless an
\* administrator's change has fallen into Initialize's window or the store failed.
TokensNeverGoBack == [][KeepsTokens]_vars

KeepsOthers ==
    \A a \in Admins :
        pc[a] = "login" /\ pc'[a] = "idle" /\ issued' # issued =>
            \A e \in Emails : pool[e] # None => pool'[e] = pool[e]

\* The second half of an addition never replaces an account: one that another
\* administrator added during the login keeps its token.
AddNeverReplaces == [][KeepsOthers]_vars
=============================================================================
