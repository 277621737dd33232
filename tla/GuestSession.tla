---------------------------- MODULE GuestSession ----------------------------
(***************************************************************************)
(* The guest's cookies and the browser sessions of the upstream client     *)
(* (internal/qwen), used and replaced by every request that goes upstream. *)
(*                                                                         *)
(* guestMu guards the guest's cookie header and is held while a new one is *)
(* fetched; browserSessions.mu guards the captured browser sessions.  A    *)
(* read under RLock is one step that waits while somebody writes.          *)
(*                                                                         *)
(* Of a cookie header there are "cna", the number of the visit it comes    *)
(* from (0 if made up on the spot), and "token", an account.               *)
(***************************************************************************)
EXTENDS Integers, FiniteSets

CONSTANTS
    Procs,      \* requests that go upstream, and the console's operations
    Restorer,   \* Initialize, which restores the saved sessions
    Accounts,
    Does,       \* what each process may do
    Configs,    \* pairs: is browser capture enabled, is there a saved guest session
    MaxClock,   \* bound on time; one tick is more than guestCookieTTL and browserSessionTTL
    None

ASSUME ConfigsAssumption == Configs \subseteq BOOLEAN \X BOOLEAN
ASSUME RestorerAssumption == Restorer \notin Procs
\* The token an account had when its browser session was captured.
OldToken == "old token"

\* The key of the session that was captured with cookies pasted into the console
\* (CaptureBrowserSessionWithCookie), whoever they belonged to.
Auth == "auth"

ASSUME AccountsAssumption == {OldToken, Auth, None} \cap Accounts = {} /\ None # Auth
ASSUME ProcsAssumption == IsFiniteSet(Procs) /\ None \notin Procs

VARIABLES
    config,     \* one of Configs, and the token in the guest's saved session, if any
    clock,
    visits,     \* how many times new cookies have been fetched
    guest,      \* guestAuth: a cookie header and the time it was set
    sessions,   \* browserSessions: of the guest (None), of accounts, and "auth"
    guestMu,    \* who holds guestMu for writing, or None
    sessionsMu, \* who holds browserSessions.mu for writing, or None
    proc        \* what each process is at

vars == <<config, clock, visits, guest, sessions, guestMu, sessionsMu, proc>>

Keys == Accounts \cup {Auth, None}
All == Procs \cup {Restorer}

NoCookie == [name \in {} |-> 0]
Token(a) == [token |-> a]

\* mergeCookieHeader: a header's cookies over others.
Merged(cookies, header) ==
    [name \in DOMAIN cookies \cup DOMAIN header |->
        IF name \in DOMAIN header THEN header[name] ELSE cookies[name]]

\* fillGuestCookieDefaults: cookies that nobody has set.
MadeUp == [cna |-> 0]

\* bootstrapGuestRequest: the cookies that upstream sets in answer to a visit.
Visited(n) == [cna |-> n]

BrowserAuth == config[1]
SavedGuest == config[2]
SavedToken == config[3]

Idle == [pc |-> "idle", kind |-> "none", account |-> None, session |-> NoCookie,
         header |-> NoCookie, force |-> FALSE, asked |-> FALSE, failed |-> FALSE]

\* CaptureBrowserSessionForAccount, with the token the account had then among the cookies; so
\* for the cookies from the console.
AccountSession == [cookie |-> [cna |-> 0, token |-> OldToken], at |-> 0]

Init ==
    /\ \E c \in Configs, token \in {NoCookie} \cup {Token(a) : a \in Accounts} :
          config = <<c[1], c[2], IF c[2] THEN token ELSE NoCookie>>
    /\ clock = 0
    /\ visits = IF SavedGuest THEN 1 ELSE 0
    /\ guest = [cookie |-> NoCookie, at |-> 0]
    /\ \E captured \in SUBSET (Keys \ {None}) :
          sessions = [k \in Keys |-> IF k \in captured THEN AccountSession ELSE None]
    /\ guestMu = None /\ sessionsMu = None
    /\ proc = [p \in All |-> Idle]

Finished(r) == [Idle EXCEPT !.pc = "done", !.asked = r.asked]

At(p, pc) == proc[p].pc = pc
Goto(p, pc) == proc' = [proc EXCEPT ![p].pc = pc]

\* isAnonymousRequest: the guest's requests, and an account's sign-in.
Anonymous(p) == proc[p].kind \in {"guest", "signin"}

Fresh == guest.cookie # NoCookie /\ clock = guest.at

Session(cookie, time) == [cookie |-> cookie, at |-> time]

\* browserSessionForRequest, its cookie: the guest's, or an account's, or else "auth".
SessionKey(kind, a) ==
    IF kind # "account" THEN None ELSE IF sessions[a] # None THEN a ELSE Auth

SessionCookie(key) ==
    IF sessions[key] = None THEN NoCookie
    ELSE IF clock > sessions[key].at THEN NoCookie
    ELSE sessions[key].cookie

-----------------------------------------------------------------------------
\* newRequestWithOptions: the browser session is read first, then the guest's cookies.  A
\* sign-in (SignIn) does without those; while Initialize runs, the console may add an account
\* and so sign it in, but GetAccountSession has nobody for the other requests.
Request(p, kind, a) ==
    /\ At(p, "idle") /\ kind \in Does[p] /\ sessionsMu = None
    /\ (kind = "guest") <=> (a = None)
    /\ kind = "signin" \/ At(Restorer, "done")
    /\ proc' = [proc EXCEPT ![p] =
          [Idle EXCEPT !.pc = IF kind = "signin" THEN "send" ELSE "ensure",
                       !.kind = kind, !.account = a,
                       !.session = SessionCookie(SessionKey(kind, a))]]
    /\ UNCHANGED <<config, clock, visits, guest, sessions, guestMu, sessionsMu>>

\* RefreshGuestCookieHeader, for the console
RefreshGuest(p) ==
    /\ At(p, "idle") /\ "refresh" \in Does[p]
    /\ proc' = [proc EXCEPT ![p] = [Idle EXCEPT !.pc = "lock", !.kind = "refresh", !.force = TRUE,
                                                !.asked = TRUE]]
    /\ UNCHANGED <<config, clock, visits, guest, sessions, guestMu, sessionsMu>>

\* Where ensureGuestCookieHeader returns to with a header: a retry builds its cookies anew.
Ensured(p, header) ==
    proc' = [proc EXCEPT ![p] =
        IF @.kind = "refresh" THEN Finished(@)
        ELSE IF @.force THEN [@ EXCEPT !.pc = "ensure", !.force = FALSE]
        ELSE [@ EXCEPT !.pc = "send", !.header = header]]

\* ensureGuestCookieHeader: a fresh header is used as it is.
Ensure(p) ==
    /\ At(p, "ensure") /\ guestMu = None
    /\ IF Fresh THEN Ensured(p, guest.cookie) ELSE Goto(p, "lock")
    /\ UNCHANGED <<config, clock, visits, guest, sessions, guestMu, sessionsMu>>

Lock(p) ==
    /\ At(p, "lock") /\ guestMu = None
    /\ guestMu' = p
    /\ Goto(p, "locked")
    /\ UNCHANGED <<config, clock, visits, guest, sessions, sessionsMu>>

\* Mutant: the header is not looked at again under the lock.
RefreshedMeanwhileNever(p) == FALSE

RefreshedMeanwhile(p) == ~proc[p].force /\ Fresh

\* Mutant: guestMu is kept when there is nothing to fetch.
UseRefreshedLocked(p) ==
    /\ At(p, "locked") /\ RefreshedMeanwhile(p)
    /\ Ensured(p, guest.cookie)
    /\ UNCHANGED <<config, clock, visits, guest, sessions, guestMu, sessionsMu>>

UseRefreshed(p) ==
    /\ At(p, "locked") /\ RefreshedMeanwhile(p)
    /\ guestMu' = None
    /\ Ensured(p, guest.cookie)
    /\ UNCHANGED <<config, clock, visits, guest, sessions, sessionsMu>>

\* captureBrowserSession, under guestMu, with success
Capture(p) ==
    /\ At(p, "locked") /\ ~RefreshedMeanwhile(p) /\ BrowserAuth
    /\ visits' = visits + 1
    /\ proc' = [proc EXCEPT ![p].pc = "store", ![p].header = Visited(visits + 1)]
    /\ UNCHANGED <<config, clock, guest, sessions, guestMu, sessionsMu>>

\* setBrowserSession, still under guestMu; then the header is set.
Store(p) ==
    /\ At(p, "store") /\ sessionsMu = None
    /\ sessions' = [sessions EXCEPT ![None] = Session(proc[p].header, clock)]
    /\ guest' = [cookie |-> proc[p].header, at |-> clock]
    /\ guestMu' = None
    /\ Ensured(p, proc[p].header)
    /\ UNCHANGED <<config, clock, visits, sessionsMu>>

\* fetchAnonymousCookieHeader, if there is no browser or its capture failed.  Of its eight
\* requests all may fail: what is missing is made up.
Bootstrap(p) ==
    /\ At(p, "locked") /\ ~RefreshedMeanwhile(p)
    /\ visits' = visits + 1
    /\ guest' = [cookie |-> Visited(visits + 1), at |-> clock]
    /\ guestMu' = None
    /\ Ensured(p, guest'.cookie)
    /\ UNCHANGED <<config, clock, sessions, sessionsMu>>

OwnToken(p) == IF proc[p].kind = "account" THEN Token(proc[p].account) ELSE NoCookie

\* Mutant: what is captured overrides the account's token.
CookieHeaderSessionLast(p) ==
    Merged(Merged(Merged(MadeUp, proc[p].header), OwnToken(p)), proc[p].session)

\* buildCookieHeader: the guest's cookies, over them the browser's, over them the token.
CookieHeader(p) ==
    Merged(Merged(Merged(MadeUp, proc[p].header), proc[p].session), OwnToken(p))

\* do, after a failed attempt: an anonymous request is repeated once, with refreshed cookies
\* and without the browser's (cloneRequestWithRefreshedGuestCookie).
AfterFailure(p) ==
    IF Anonymous(p) /\ ~proc[p].asked
    THEN [proc[p] EXCEPT !.pc = "lock", !.force = TRUE, !.asked = TRUE,
                         !.session = NoCookie, !.header = NoCookie, !.failed = FALSE]
    ELSE Finished(proc[p])

\* doOnce: an answer, which may be an error, or none.  An anonymous request's answer is
\* remembered first.
Send(p) ==
    /\ At(p, "send")
    /\ \/ \E ok \in BOOLEAN : proc' = [proc EXCEPT ![p] =
              IF Anonymous(p)
              THEN [@ EXCEPT !.pc = "read", !.failed = ~ok,
                             !.session = NoCookie, !.header = NoCookie]
              ELSE Finished(@)]
       \/ proc' = [proc EXCEPT ![p] = AfterFailure(p)]
    /\ UNCHANGED <<config, clock, visits, guest, sessions, guestMu, sessionsMu>>

\* rememberAnonymousResponse: the guest's header is read, the answer's cookies are merged
\* into it (upstream may set the token of who signs in) ...
RememberRead(p, token) ==
    /\ At(p, "read") /\ guestMu = None
    /\ token # NoCookie => proc[p].kind = "signin"
    /\ proc' = [proc EXCEPT ![p].pc = "write",
                            ![p].header = Merged(Merged(MadeUp, guest.cookie), token)]
    /\ UNCHANGED <<config, clock, visits, guest, sessions, guestMu, sessionsMu>>

\* (without any cookies nothing is written), ...
RememberNothing(p) ==
    /\ At(p, "read") /\ guestMu = None
    /\ guest.cookie = NoCookie
    /\ proc' = [proc EXCEPT ![p] = IF @.failed THEN AfterFailure(p) ELSE Finished(@)]
    /\ UNCHANGED <<config, clock, visits, guest, sessions, guestMu, sessionsMu>>

\* ... and written back, as set now (setGuestCookieHeader), ...
RememberWrite(p) ==
    /\ At(p, "write") /\ guestMu = None
    /\ guest' = [cookie |-> proc[p].header, at |-> clock]
    /\ Goto(p, "session")
    /\ UNCHANGED <<config, clock, visits, sessions, guestMu, sessionsMu>>

\* ... and into the guest's browser session, if there is one (setGuestBrowserSessionCookie).
RememberSession(p) ==
    /\ At(p, "session") /\ sessionsMu = None
    /\ IF sessions[None] # None
       THEN sessions' = [sessions EXCEPT ![None] = Session(proc[p].header, clock)]
       ELSE UNCHANGED sessions
    /\ proc' = [proc EXCEPT ![p] = IF @.failed THEN AfterFailure(p) ELSE Finished(@)]
    /\ UNCHANGED <<config, clock, visits, guest, guestMu, sessionsMu>>

-----------------------------------------------------------------------------
\* CaptureGuestBrowserSession, for the console: without guestMu, and in two steps.
CaptureGuest(p) ==
    /\ At(p, "idle") /\ "capture" \in Does[p] /\ BrowserAuth /\ sessionsMu = None
    /\ visits' = visits + 1
    /\ sessions' = [sessions EXCEPT ![None] = Session(Visited(visits + 1), clock)]
    /\ proc' = [proc EXCEPT ![p] = [Idle EXCEPT !.pc = "captured", !.kind = "capture",
                                                !.asked = TRUE, !.header = Visited(visits + 1)]]
    /\ UNCHANGED <<config, clock, guest, guestMu, sessionsMu>>

CaptureGuestSet(p) ==
    /\ At(p, "captured") /\ guestMu = None
    /\ guest' = [cookie |-> proc[p].header, at |-> clock]
    /\ proc' = [proc EXCEPT ![p] = Finished(@)]
    /\ UNCHANGED <<config, clock, visits, sessions, guestMu, sessionsMu>>

\* RestoreBrowserSessions: browserSessions.mu first, and guestMu within it.  The guest's session
\* may have been saved with the token of somebody who had signed in (setGuestBrowserSessionCookie).
Saved == Session(Merged(Visited(1), SavedToken), 0)

Restore ==
    /\ At(Restorer, "idle") /\ sessionsMu = None
    /\ IF SavedGuest
       THEN /\ sessionsMu' = Restorer
            /\ sessions' = [sessions EXCEPT ![None] = Saved]
            /\ Goto(Restorer, "restoring")
       ELSE /\ Goto(Restorer, "done")
            /\ UNCHANGED <<sessions, sessionsMu>>
    /\ UNCHANGED <<config, clock, visits, guest, guestMu>>

RestoreGuest ==
    /\ At(Restorer, "restoring") /\ guestMu = None
    /\ guest' = [cookie |-> Saved.cookie, at |-> Saved.at]
    /\ sessionsMu' = None
    /\ Goto(Restorer, "done")
    /\ UNCHANGED <<config, clock, visits, sessions, guestMu>>

Tick ==
    /\ clock < MaxClock
    /\ clock' = clock + 1
    /\ UNCHANGED <<config, visits, guest, sessions, guestMu, sessionsMu, proc>>

\* What a process that has begun does next.
Step(p) ==
    \/ Ensure(p) \/ Lock(p) \/ UseRefreshed(p) \/ Capture(p) \/ Store(p) \/ Bootstrap(p)
    \/ Send(p)
    \/ \E token \in {NoCookie} \cup {Token(a) : a \in {proc[p].account} \ {None}} :
          RememberRead(p, token)
    \/ RememberNothing(p) \/ RememberWrite(p) \/ RememberSession(p) \/ CaptureGuestSet(p)

Begin(p) ==
    \/ Request(p, "guest", None)
    \/ \E a \in Accounts : Request(p, "account", a) \/ Request(p, "signin", a)
    \/ RefreshGuest(p) \/ CaptureGuest(p)

Next ==
    \/ \E p \in Procs : Begin(p) \/ Step(p)
    \/ Restore \/ RestoreGuest
    \/ Tick

Fairness ==
    /\ \A p \in Procs : WF_vars(Step(p))
    /\ WF_vars(Restore \/ RestoreGuest)

Spec == Init /\ [][Next]_vars /\ Fairness
-----------------------------------------------------------------------------
\* The deadlock that there is: a fetch holds guestMu and wants browserSessions.mu, which
\* Initialize holds while it wants guestMu.
MayBlock == BrowserAuth /\ SavedGuest

\* Once Initialize has restored the saved sessions, nobody waits for ever: what goes upstream
\* comes back, although a fetch holds guestMu while others want it.  It does restore them, but
\* for where MayBlock (see SavedSessionsAreRestored).
EverythingEnds ==
    /\ \A p \in Procs :
          (proc[p].pc # "idle" /\ proc[Restorer].pc = "done") ~> (proc[p].pc = "done")
    /\ MayBlock \/ <>(proc[Restorer].pc = "done")

\* What TestInitializeRestoresPersistedBrowserSession says: Initialize restores the saved guest
\* session.  Here while the console signs an account in.
SavedSessionsAreRestored == <>(proc[Restorer].pc = "done")

\* Requests that find the cookies expired at the same time fetch new ones once: there are no
\* more fetches than expiries, refreshes that were asked for, and the saved session.
OneFetchPerExpiry ==
    visits <= 1 + clock + Cardinality({p \in Procs : proc[p].asked}) + (IF SavedGuest THEN 2 ELSE 0)

\* An account's request carries the account's token, and the old one of a session captured with
\* an account's cookies goes upstream with nobody: not with an account, whose token overrides
\* it, though the session be another's, and not with the requests of the guest and of those who
\* sign in, whatever was captured, remembered, fetched and restored before.
TokensAreTheAccounts ==
    \A p \in Procs : At(p, "send") =>
        LET header == CookieHeader(p) IN
        /\ proc[p].kind = "account" => header["token"] = proc[p].account
        /\ "token" \in DOMAIN header => header["token"] # OldToken
=============================================================================
