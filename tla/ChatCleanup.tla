----------------------------- MODULE ChatCleanup -----------------------------
(***************************************************************************)
(* The hourly cleanup of upstream chats (cleanup.Service) against the      *)
(* requests that use the chats and record them in the chat tracker.  Mode  *)
(* 1 works through a copy of the tracker's records, mode 2 through the     *)
(* pages of each account's list of chats upstream.  "old" is more than 24  *)
(* hours ago.  The upstream list is external: its page n is cut out of the *)
(* chats there are when it is asked for.                                   *)
(***************************************************************************)
EXTENDS Naturals, FiniteSets

CONSTANTS
    Accounts, Guest,
    Chats,          \* chat ids
    Modes,          \* the values CHAT_CLEANUP_MODE is set to meanwhile
    PageSize,       \* chats on a page of the upstream list
    Fails,          \* upstream calls may fail, accounts may be unavailable
    Restarts,       \* the process may be restarted
    None

ASSUME CleanupAssumption ==
    /\ Guest \in Accounts /\ IsFiniteSet(Chats)
    /\ Modes \subseteq 0 .. 2
    /\ PageSize \in Nat \ {0}
    /\ Fails \in BOOLEAN /\ Restarts \in BOOLEAN
    /\ None \notin Chats \cup Accounts \cup {"new", "old"}

VARIABLES
    alive,      \* the chats upstream
    owner,      \* owner[c]: the account c was created in, or None
    born,       \* born[c]: c was the born[c]-th chat created, or 0
    used,       \* used[c]: when the last message went into c, "new" or "old"
    program,    \* chats this process has had an answer from
    answered,   \* chats with an answer that is not recorded yet
    usages,     \* usages[c]: the tracker's time for c, or None
    phase,      \* where the cleanup is
    todo,       \* the chats it still has to look at
    current,    \* the chat it has deleted, or the account it lists
    accs,       \* the accounts it still has to list
    page,
    recorded    \* history: chats recorded since the process started

vars == <<alive, owner, born, used, program, answered, usages, phase, todo, current, accs,
          page, recorded>>
upstream == <<alive, owner, born, used>>
cleaner == <<phase, todo, current, accs, page>>

Ages == {"new", "old"}

TypeOK ==
    /\ alive \subseteq Chats
    /\ owner \in [Chats -> Accounts \cup {None}]
    /\ born \in [Chats -> 0 .. Cardinality(Chats)]
    /\ used \in [Chats -> Ages]
    /\ program \subseteq Chats /\ answered \subseteq Chats
    /\ usages \in [Chats -> Ages \cup {None}]
    /\ phase \in {"idle", "usages", "forget", "accounts", "list", "page"}
    /\ todo \subseteq Chats /\ accs \subseteq Accounts
    /\ current \in Chats \cup Accounts \cup {None}
    /\ page \in 0 .. Cardinality(Chats) + 1
    /\ recorded \subseteq Chats

Init ==
    /\ alive = {}
    /\ owner = [c \in Chats |-> None]
    /\ born = [c \in Chats |-> 0]
    /\ used = [c \in Chats |-> "new"]
    /\ program = {} /\ answered = {}
    /\ usages = [c \in Chats |-> None]
    /\ phase = "idle" /\ todo = {} /\ current = None /\ accs = {} /\ page = 0
    /\ recorded = {}

Created == {c \in Chats : owner[c] # None}

\* A chat is created: by somebody else, or by a request, which records it only if it gets
\* an answer.
CreateChat(c, a, how) ==
    /\ owner[c] = None
    /\ how = "other" => a # Guest
    /\ alive' = alive \cup {c}
    /\ owner' = [owner EXCEPT ![c] = a]
    /\ born' = [born EXCEPT ![c] = Cardinality(Created) + 1]
    /\ program' = IF how = "answered" THEN program \cup {c} ELSE program
    /\ answered' = IF how = "answered" THEN answered \cup {c} ELSE answered
    /\ UNCHANGED <<used, usages, cleaner, recorded>>

\* A chat is used again, by a request that found it in a conversation session or by
\* whoever created it.
UseChat(c) ==
    /\ c \in alive
    /\ used' = [used EXCEPT ![c] = "new"]
    /\ answered' = IF c \in program THEN answered \cup {c} ELSE answered
    /\ UNCHANGED <<alive, owner, born, program, usages, cleaner, recorded>>

\* RecordChatUsage
RecordChatUsage(c) ==
    /\ c \in answered
    /\ usages' = [usages EXCEPT ![c] = "new"]
    /\ answered' = answered \ {c}
    /\ recorded' = recorded \cup {c}
    /\ UNCHANGED <<upstream, program, cleaner>>

\* 24 hours pass.  A request does not take that long; a record is as old as the use it
\* records, and older than a use that is not recorded yet.
ChatAges(c) ==
    /\ c \in alive /\ used[c] = "new" /\ c \notin answered
    /\ used' = [used EXCEPT ![c] = "old"]
    /\ UNCHANGED <<alive, owner, born, program, answered, usages, cleaner, recorded>>

UsageAges(c) ==
    /\ usages[c] = "new"
    /\ used[c] = "old" \/ c \in answered
    /\ usages' = [usages EXCEPT ![c] = "old"]
    /\ UNCHANGED <<upstream, program, answered, cleaner, recorded>>

\* The tracker of the file and none modes is a map in memory.
Restart ==
    /\ Restarts
    /\ program' = {} /\ answered' = {} /\ recorded' = {}
    /\ usages' = [c \in Chats |-> None]
    /\ phase' = "idle" /\ todo' = {} /\ current' = None /\ accs' = {} /\ page' = 0
    /\ UNCHANGED upstream
-----------------------------------------------------------------------------
(* The cleanup.  DeleteChat answers that c is deleted, or fails; when its answer is lost *)
(* the chat is gone all the same.  Without Fails it succeeds.                            *)

Deleted(c) == c \in alive /\ alive' = alive \ {c} /\ UNCHANGED <<owner, born, used>>

DeleteFails(c) ==
    /\ Fails \/ c \notin alive
    /\ alive' \in {alive, alive \ {c}}
    /\ UNCHANGED <<owner, born, used>>

\* Mutant: the cutoff is compared the wrong way round.
ListUsagesNew ==
    /\ phase = "idle" /\ 1 \in Modes
    /\ todo' = {c \in Chats : usages[c] = "new"}
    /\ phase' = "usages"
    /\ UNCHANGED <<upstream, program, answered, usages, current, accs, page, recorded>>

\* cleanupProgramChats: ListChatUsages, and the records that are old by then.
ListUsages ==
    /\ phase = "idle" /\ 1 \in Modes
    /\ todo' = {c \in Chats : usages[c] = "old"}
    /\ phase' = "usages"
    /\ UNCHANGED <<upstream, program, answered, usages, current, accs, page, recorded>>

\* A chat of the guest is only forgotten.
ForgetGuestChat(c) ==
    /\ phase = "usages" /\ c \in todo /\ owner[c] = Guest
    /\ usages' = [usages EXCEPT ![c] = None]
    /\ todo' = todo \ {c}
    /\ UNCHANGED <<upstream, program, answered, phase, current, accs, page, recorded>>

\* The chat of an account that is available is deleted upstream ...
DeleteUsedChat(c) ==
    /\ phase = "usages" /\ c \in todo /\ owner[c] # Guest
    /\ Deleted(c)
    /\ todo' = todo \ {c}
    /\ phase' = "forget" /\ current' = c
    /\ UNCHANGED <<program, answered, usages, accs, page, recorded>>

\* ... and then forgotten.
DeleteChatUsage ==
    /\ phase = "forget"
    /\ usages' = [usages EXCEPT ![current] = None]
    /\ phase' = "usages" /\ current' = None
    /\ UNCHANGED <<upstream, program, answered, todo, accs, page, recorded>>

\* Mutant: a chat is forgotten although its deletion failed.
KeepUsageForgets(c) ==
    /\ phase = "usages" /\ c \in todo /\ owner[c] # Guest
    /\ DeleteFails(c)
    /\ todo' = todo \ {c}
    /\ usages' = [usages EXCEPT ![c] = None]
    /\ UNCHANGED <<program, answered, phase, current, accs, page, recorded>>

\* The account is not available, or the deletion fails: the record stays for the next hour.
KeepUsage(c) ==
    /\ phase = "usages" /\ c \in todo /\ owner[c] # Guest
    /\ DeleteFails(c)
    /\ todo' = todo \ {c}
    /\ UNCHANGED <<program, answered, usages, phase, current, accs, page, recorded>>

UsagesDone ==
    /\ phase = "usages" /\ todo = {}
    /\ phase' = "idle"
    /\ UNCHANGED <<upstream, program, answered, usages, todo, current, accs, page, recorded>>

\* Mutant: the guest is listed with the others.
ListAccountsAll ==
    /\ phase = "idle" /\ 2 \in Modes
    /\ accs' = Accounts
    /\ phase' = "accounts"
    /\ UNCHANGED <<upstream, program, answered, usages, todo, current, page, recorded>>

\* cleanupAllChats: the accounts but the guest.
ListAccounts ==
    /\ phase = "idle" /\ 2 \in Modes
    /\ accs' = Accounts \ {Guest}
    /\ phase' = "accounts"
    /\ UNCHANGED <<upstream, program, answered, usages, todo, current, page, recorded>>

\* Mutant: the listing starts with the second page.
NextAccountSecondPage(a) ==
    /\ phase = "accounts" /\ a \in accs
    /\ accs' = accs \ {a}
    /\ current' = a /\ page' = 2 /\ phase' = "list"
    /\ UNCHANGED <<upstream, program, answered, usages, todo, recorded>>

\* cleanupAccountAllChats, which starts with the first page.
NextAccount(a) ==
    /\ phase = "accounts" /\ a \in accs
    /\ accs' = accs \ {a}
    /\ current' = a /\ page' = 1 /\ phase' = "list"
    /\ UNCHANGED <<upstream, program, answered, usages, todo, recorded>>

\* The account's chats, the newest first.
Page(a, n) ==
    {c \in alive :
        /\ owner[c] = a
        /\ Cardinality({d \in alive : owner[d] = a /\ born[d] > born[c]}) \div PageSize = n - 1}

\* Mutant: the listing goes on after an empty page.
ListChatsEndless ==
    /\ phase = "list"
    /\ todo' = {c \in Page(current, page) : used[c] = "old"}
    /\ phase' = "page"
    /\ UNCHANGED <<upstream, program, answered, usages, current, accs, page, recorded>>

\* A page is listed, and what is old on it will be deleted ...
ListChats ==
    /\ phase = "list"
    /\ Page(current, page) # {}
    /\ todo' = {c \in Page(current, page) : used[c] = "old"}
    /\ phase' = "page"
    /\ UNCHANGED <<upstream, program, answered, usages, current, accs, page, recorded>>

DeleteListedChat(c) ==
    /\ phase = "page" /\ c \in todo
    /\ Deleted(c) \/ DeleteFails(c)
    /\ todo' = todo \ {c}
    /\ UNCHANGED <<program, answered, usages, phase, current, accs, page, recorded>>

\* ... before the page of the next number is.
NextPage ==
    /\ phase = "page" /\ todo = {}
    /\ page' = page + 1 /\ phase' = "list"
    /\ UNCHANGED <<upstream, program, answered, usages, todo, current, accs, recorded>>

\* An empty page ends the account, and so does a listing that fails.
ListingEnds ==
    /\ phase = "list"
    /\ Page(current, page) = {} \/ Fails
    /\ phase' = "accounts" /\ current' = None /\ page' = 0
    /\ UNCHANGED <<upstream, program, answered, usages, todo, accs, recorded>>

AccountsDone ==
    /\ phase = "accounts" /\ accs = {}
    /\ phase' = "idle"
    /\ UNCHANGED <<upstream, program, answered, usages, todo, current, accs, page, recorded>>

Cleanup ==
    \/ ListUsages \/ UsagesDone \/ DeleteChatUsage
    \/ \E c \in Chats : ForgetGuestChat(c) \/ DeleteUsedChat(c) \/ KeepUsage(c)
    \/ ListAccounts \/ AccountsDone
    \/ \E a \in Accounts : NextAccount(a)
    \/ ListChats \/ NextPage \/ ListingEnds
    \/ \E c \in Chats : DeleteListedChat(c)

Use ==
    \E c \in Chats :
        \/ \E a \in Accounts, how \in {"other", "unanswered", "answered"} : CreateChat(c, a, how)
        \/ UseChat(c) \/ RecordChatUsage(c) \/ ChatAges(c) \/ UsageAges(c)

Next == Use \/ Restart \/ Cleanup

Spec == Init /\ [][Next]_vars

\* The hourly ticker keeps the cleanup going, and upstream does not fail for ever.
FairSpec ==
    /\ Spec
    /\ WF_vars(Cleanup)
    /\ \A c \in Chats :
          /\ SF_vars(DeleteUsedChat(c)) /\ WF_vars(RecordChatUsage(c))
          /\ SF_vars(DeleteListedChat(c) /\ c \notin alive')
    /\ \A a \in Accounts, n \in 1 .. Cardinality(Chats) :
          SF_vars(ListChats /\ current = a /\ page = n)
-----------------------------------------------------------------------------
DeletesOwnChats ==
    \A c \in alive \ alive' : owner[c] # Guest /\ (phase = "usages" => c \in recorded)

\* Mode 1 deletes nothing but chats that this process has recorded, and no chat of the
\* guest is ever deleted.
OnlyOwnChats == [][DeletesOwnChats]_vars

\* A recorded chat stays on record as long as it exists, the guest's apart: the cleanup
\* never loses track of a chat it could not delete.
TrackedWhileAlive ==
    \A c \in recorded \cap alive : owner[c] # Guest => usages[c] # None

\* If mode 1 runs again and again, a record that has become old goes away: the chat is
\* deleted, or used again.
OldUsagesGo ==
    []<><<ListUsages>>_vars =>
        \A c \in Chats :
            (usages[c] = "old" /\ c \in alive) ~> (usages[c] # "old" \/ c \notin alive)

\* If mode 2 runs again and again, every old chat of an account is deleted, or used again: the
\* chats that move to an earlier page while a listing deletes are met by a later one.
OldChatsGo ==
    []<><<ListAccounts>>_vars /\ <>[][~Restart]_vars =>
        \A c \in Chats :
            (c \in alive /\ used[c] = "old" /\ owner[c] # Guest) ~> (c \notin alive \/ used[c] # "old")

\* cleanup/service.go: mode 1 deletes chats "unused for >24h".
OnlyUnusedChats ==
    [][ \A c \in alive \ alive' : used[c] = "old" ]_vars
=============================================================================
