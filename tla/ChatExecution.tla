--------------------------- MODULE ChatExecution ---------------------------
(***************************************************************************)
(* executeChatRequest (internal/openai): a chat request is sent into the   *)
(* upstream chat its context hash is mapped to, or fails over from account *)
(* to account, each time with a new chat, until one answers.  Requests run *)
(* at the same time over one pool and one table of conversation sessions.  *)
(* A request carries the messages of a conversation: the last one, its     *)
(* turn, comes after a prefix, and the context hash identifies the prefix. *)
(* (The tail sent into a mapped chat is one message here; the code adds    *)
(* the tool results just before it.)  A chat is what was sent into it.     *)
(***************************************************************************)
EXTENDS Naturals, FiniteSets, Sequences

CONSTANTS
    Requests,       \* requests, each made once
    Accounts,       \* accounts that may be in the pool
    Guest,          \* the guest account, in Accounts or not
    Turns,          \* messages
    Conversations,  \* what requests carry: a prefix and a turn
    MaxChats,       \* bound: upstream chats created
    Resumed,        \* an earlier process has left the session of a conversation
    None

ASSUME ExecutionAssumption ==
    /\ IsFiniteSet(Accounts)
    /\ Conversations # {} /\ Conversations \subseteq [prefix : Seq(Turns), turn : Turns]
    /\ MaxChats \in Nat \ {0}
    /\ Resumed \in BOOLEAN
    /\ None \notin Accounts /\ None \notin Nat

VARIABLES
    pool,       \* accounts in the pool
    sessions,   \* sessions[p]: the ConversationSession saved for prefix p, or None
    chats,      \* upstream chats in order of creation; a chat's id is its position
    usages,     \* <<account, chat>> recorded by the chat tracker
    pc,         \* pc[r]: where request r is
    call,       \* call[r]: the local variables of request r
    sent        \* history: sent[r], the chats r has asked for an answer

vars == <<pool, sessions, chats, usages, pc, call, sent>>

Contexts == {c.prefix : c \in Conversations}
ChatIds == 1 .. MaxChats

Session == [account : Accounts, chat : ChatIds, old : BOOLEAN]
Chat == [owner : Accounts, turns : Seq(Turns), alive : BOOLEAN]
Call == [prefix : Contexts, turn : Turns,
         max : Nat,                         \* maxAttempts
         attempted : SUBSET Accounts,
         doomed : SUBSET Contexts,          \* expired sessions listed by cleanupExpired
         account : Accounts \cup {None},    \* the session in use
         chat : ChatIds \cup {None},        \* chatID of the attempt
         mapped : ChatIds \cup {None},      \* mapped.ChatID during the mapped attempt
         incremental : BOOLEAN,
         refresh : BOOLEAN]                 \* allowGuestRefresh

NoCall == [prefix |-> CHOOSE p \in Contexts : TRUE, turn |-> CHOOSE t \in Turns : TRUE, max |-> 0,
           attempted |-> {}, doomed |-> {}, account |-> None, chat |-> None,
           mapped |-> None, incremental |-> FALSE, refresh |-> FALSE]

Active == {"list", "clean", "get", "expired", "pick", "create", "send", "save", "record"}

TypeOK ==
    /\ pool \subseteq Accounts
    /\ sessions \in [Contexts -> Session \cup {None}]
    /\ chats \in Seq(Chat) /\ Len(chats) <= MaxChats
    /\ usages \subseteq Accounts \X ChatIds
    /\ pc \in [Requests -> {"new", "done", "failed"} \cup Active]
    /\ call \in [Requests -> Call]
    /\ sent \in [Requests -> Seq(ChatIds)]

\* The sessions of the file and redis modes outlive the process, as the chats do.
Init ==
    /\ pool \in (SUBSET Accounts) \ {{}}
    /\ IF Resumed
       THEN \E a \in Accounts, c \in Conversations :
               /\ chats = <<[owner |-> a, turns |-> Append(c.prefix, c.turn), alive |-> TRUE]>>
               /\ sessions = [p \in Contexts |->
                     IF p = c.prefix THEN [account |-> a, chat |-> 1, old |-> FALSE] ELSE None]
       ELSE chats = <<>> /\ sessions = [p \in Contexts |-> None]
    /\ usages = {}
    /\ pc = [r \in Requests |-> "new"]
    /\ call = [r \in Requests |-> NoCall]
    /\ sent = [r \in Requests |-> <<>>]

Goto(r, place) == pc' = [pc EXCEPT ![r] = place]

\* ConversationSessionService.Delete; a store that fails is logged, at most.
Forget(p) ==
    \/ sessions' = [sessions EXCEPT ![p] = None]
    \/ UNCHANGED sessions

\* computeContextHash: the qwen control prompt goes before every request, so there is a
\* prefix to hash unless that prompt is emptied and the request has a single message.
\* Here it is not emptied.
Start(r, c) ==
    /\ pc[r] = "new"
    /\ call' = [call EXCEPT ![r] = [NoCall EXCEPT
                    !.prefix = c.prefix, !.turn = c.turn,
                    !.max = IF pool = {} THEN 1 ELSE Cardinality(pool)]]
    /\ Goto(r, "list")
    /\ UNCHANGED <<pool, sessions, chats, usages, sent>>

\* cleanupExpired lists the sessions (or gives up, when the store fails) ...
List(r) ==
    /\ pc[r] = "list"
    /\ \/ /\ call' = [call EXCEPT ![r].doomed =
                          {p \in Contexts : sessions[p] # None /\ sessions[p].old}]
          /\ Goto(r, "clean")
       \/ /\ UNCHANGED call
          /\ Goto(r, "get")
    /\ UNCHANGED <<pool, sessions, chats, usages, sent>>

\* ... and deletes those it found expired, one by one, whatever they have become.
Clean(r) ==
    /\ pc[r] = "clean"
    /\ \/ /\ \E p \in call[r].doomed :
                 /\ Forget(p)
                 /\ call' = [call EXCEPT ![r].doomed = @ \ {p}]
          /\ UNCHANGED pc
       \/ /\ call[r].doomed = {}
          /\ Goto(r, "get")
          /\ UNCHANGED <<sessions, call>>
    /\ UNCHANGED <<pool, chats, usages, sent>>

\* Then the session of the prefix is loaded.  If it has not expired, its account is looked
\* for with GetAccountSessionByEmail, which may find it gone or cooling down.
Get(r) ==
    LET found == sessions[call[r].prefix] IN
    /\ pc[r] = "get"
    /\ \/ /\ found # None /\ ~found.old /\ found.account \in pool
          /\ call' = [call EXCEPT ![r].account = found.account, ![r].chat = found.chat,
                                  ![r].mapped = found.chat, ![r].incremental = TRUE,
                                  ![r].refresh = TRUE]
          /\ Goto(r, "send")
       \/ /\ found # None /\ found.old
          /\ Goto(r, "expired")
          /\ UNCHANGED call
       \/ /\ Goto(r, "pick")
          /\ UNCHANGED call
    /\ UNCHANGED <<pool, sessions, chats, usages, sent>>

\* The session that was loaded had expired since the clean-up: what is there now is deleted.
DeleteExpired(r) ==
    /\ pc[r] = "expired"
    /\ Forget(call[r].prefix)
    /\ Goto(r, "pick")
    /\ UNCHANGED <<pool, chats, usages, call, sent>>

\* Mutant: a failover saves and records the mapped chat.
PickKeepsMapped(r) ==
    /\ pc[r] = "pick"
    /\ Cardinality(call[r].attempted) < call[r].max
    /\ \E a \in pool \ call[r].attempted :
          call' = [call EXCEPT ![r].attempted = @ \cup {a}, ![r].account = a,
                               ![r].chat = None, ![r].incremental = FALSE,
                               ![r].refresh = TRUE]
    /\ Goto(r, "create")
    /\ UNCHANGED <<pool, sessions, chats, usages, sent>>

\* Mutant: a failover goes on in the chat of the attempt before.
PickKeepsChat(r) ==
    /\ pc[r] = "pick"
    /\ Cardinality(call[r].attempted) < call[r].max
    /\ \E a \in pool \ call[r].attempted :
          call' = [call EXCEPT ![r].attempted = @ \cup {a}, ![r].account = a,
                               ![r].mapped = None, ![r].incremental = FALSE,
                               ![r].refresh = TRUE]
    /\ Goto(r, IF call[r].chat = None THEN "create" ELSE "send")
    /\ UNCHANGED <<pool, sessions, chats, usages, sent>>

\* Mutant: a failover sends the last message alone.
PickStaysIncremental(r) ==
    /\ pc[r] = "pick"
    /\ Cardinality(call[r].attempted) < call[r].max
    /\ \E a \in pool \ call[r].attempted :
          call' = [call EXCEPT ![r].attempted = @ \cup {a}, ![r].account = a,
                               ![r].chat = None, ![r].mapped = None,
                               ![r].refresh = TRUE]
    /\ Goto(r, "create")
    /\ UNCHANGED <<pool, sessions, chats, usages, sent>>

\* Mutant: an account that was tried is not noted.
PickForgets(r) ==
    /\ pc[r] = "pick"
    /\ Cardinality(call[r].attempted) < call[r].max
    /\ \E a \in pool \ call[r].attempted :
          call' = [call EXCEPT ![r].account = a, ![r].chat = None,
                               ![r].mapped = None, ![r].incremental = FALSE,
                               ![r].refresh = TRUE]
    /\ Goto(r, "create")
    /\ UNCHANGED <<pool, sessions, chats, usages, sent>>

\* GetAccountSessionExcluding(attempted).  Which accounts are cooling down is left open.
Pick(r) ==
    /\ pc[r] = "pick"
    /\ Cardinality(call[r].attempted) < call[r].max
    /\ \E a \in pool \ call[r].attempted :
          call' = [call EXCEPT ![r].attempted = @ \cup {a}, ![r].account = a,
                               ![r].chat = None, ![r].mapped = None,
                               ![r].incremental = FALSE, ![r].refresh = TRUE]
    /\ Goto(r, "create")
    /\ UNCHANGED <<pool, sessions, chats, usages, sent>>

\* Every attempt is used up, or no account is available.
GiveUp(r) ==
    /\ pc[r] = "pick"
    /\ Goto(r, "failed")
    /\ UNCHANGED <<pool, sessions, chats, usages, call, sent>>

\* qwen.NewChat
Create(r) ==
    /\ pc[r] = "create"
    /\ Len(chats) < MaxChats
    /\ chats' = Append(chats, [owner |-> call[r].account, turns |-> <<>>, alive |-> TRUE])
    /\ call' = [call EXCEPT ![r].chat = Len(chats) + 1]
    /\ Goto(r, "send")
    /\ UNCHANGED <<pool, sessions, usages, sent>>

\* The messages of an attempt: the last turn, or the whole conversation.
Messages(c) == IF c.incremental THEN <<c.turn>> ELSE Append(c.prefix, c.turn)

Deliver(r) == chats' = [chats EXCEPT ![call[r].chat].turns = @ \o Messages(call[r])]

\* ChatCompletions and InspectUpstreamStream: the upstream answers in this chat.
Answer(r) ==
    /\ pc[r] = "send"
    /\ chats[call[r].chat].alive
    /\ Deliver(r)
    /\ sent' = [sent EXCEPT ![r] = Append(@, call[r].chat)]
    /\ Goto(r, "save")
    /\ UNCHANGED <<pool, sessions, usages, call>>

\* Mutant: the attempt after a refresh may refresh again.
GuestRefreshedAgain(r) ==
    /\ call[r].refresh /\ call[r].account = Guest
    /\ call' = [call EXCEPT ![r].chat = None, ![r].incremental = FALSE]
    /\ Goto(r, "create")
    /\ UNCHANGED sessions

\* The guest's cookies are refreshed, once, and the request goes into a new chat.
GuestRefreshed(r) ==
    /\ call[r].refresh /\ call[r].account = Guest
    /\ call' = [call EXCEPT ![r].refresh = FALSE, ![r].chat = None,
                            ![r].incremental = FALSE]
    /\ Goto(r, "create")
    /\ UNCHANGED sessions

\* The mapped attempt failed: the mapping is deleted, or the account counts as tried,
\* or the error is final.
MappedFailed(r) ==
    /\ call[r].mapped # None
    /\ \/ /\ Forget(call[r].prefix)
          /\ UNCHANGED call
          /\ Goto(r, "pick")
       \/ /\ call' = [call EXCEPT ![r].attempted = @ \cup {call[r].account}]
          /\ UNCHANGED sessions
          /\ Goto(r, "pick")
       \/ /\ UNCHANGED <<sessions, call>>
          /\ Goto(r, "failed")

\* A failover attempt failed: the next account for a retryable error, else the end;
\* either way the mapping is deleted when the error says so.
AttemptFailed(r) ==
    /\ call[r].mapped = None
    /\ Forget(call[r].prefix)
    /\ Goto(r, "pick") \/ Goto(r, "failed")
    /\ UNCHANGED call

Failed(r) == GuestRefreshed(r) \/ MappedFailed(r) \/ AttemptFailed(r)

CreateFails(r) ==
    /\ pc[r] = "create"
    /\ Failed(r)
    /\ UNCHANGED <<pool, chats, usages, sent>>

\* The upstream refuses, or breaks off after it has taken the messages.
SendFails(r) ==
    /\ pc[r] = "send"
    /\ Failed(r)
    /\ \/ UNCHANGED chats
       \/ chats[call[r].chat].alive /\ Deliver(r)
    /\ sent' = [sent EXCEPT ![r] = Append(@, call[r].chat)]
    /\ UNCHANGED <<pool, usages>>

\* Mutant: the mapped chat is saved even when there is none.
SavedChatMapped(c) == c.mapped

\* What is saved (a failure to save is logged) and recorded: the mapped chat after a mapped
\* attempt, else the chat of the stream.
SavedChat(c) == IF c.mapped # None THEN c.mapped ELSE c.chat

Save(r) ==
    /\ pc[r] = "save"
    /\ \/ sessions' = [sessions EXCEPT ![call[r].prefix] =
                          [account |-> call[r].account, chat |-> SavedChat(call[r]), old |-> FALSE]]
       \/ UNCHANGED sessions
    /\ Goto(r, "record")
    /\ UNCHANGED <<pool, chats, usages, call, sent>>

Record(r) ==
    /\ pc[r] = "record"
    /\ usages' = usages \cup {<<call[r].account, SavedChat(call[r])>>}
    /\ Goto(r, "done")
    /\ UNCHANGED <<pool, sessions, chats, call, sent>>

-----------------------------------------------------------------------------
(* The surroundings: 24 hours pass, a chat is deleted upstream (by the cleanup service  *)
(* or by the account's owner), an administrator adds or deletes an account.             *)

Expire(p) ==
    /\ sessions[p] # None /\ ~sessions[p].old
    /\ sessions' = [sessions EXCEPT ![p].old = TRUE]
    /\ UNCHANGED <<pool, chats, usages, pc, call, sent>>

RemoveChat(id) ==
    /\ chats[id].alive
    /\ chats' = [chats EXCEPT ![id].alive = FALSE]
    /\ UNCHANGED <<pool, sessions, usages, pc, call, sent>>

PoolChanges(a) ==
    /\ pool' = IF a \in pool THEN pool \ {a} ELSE pool \cup {a}
    /\ UNCHANGED <<sessions, chats, usages, pc, call, sent>>

Step(r) ==
    \/ List(r) \/ Clean(r) \/ Get(r) \/ DeleteExpired(r) \/ Pick(r) \/ GiveUp(r)
    \/ Create(r) \/ CreateFails(r) \/ Answer(r) \/ SendFails(r)
    \/ Save(r) \/ Record(r)

Surroundings ==
    \/ \E p \in Contexts : Expire(p)
    \/ \E id \in 1 .. Len(chats) : RemoveChat(id)
    \/ \E a \in Accounts : PoolChanges(a)

Next ==
    \/ \E r \in Requests :
          \/ \E c \in Conversations : Start(r, c)
          \/ Step(r)
    \/ Surroundings

Spec == Init /\ [][Next]_vars

\* The upstream answers or fails: every call of a request has a timeout.
FairSpec == Spec /\ \A r \in Requests : WF_vars(Step(r))
-----------------------------------------------------------------------------
\* A conversation has this prefix.
Begins(turns, p) == Len(p) <= Len(turns) /\ \A i \in 1 .. Len(p) : turns[i] = p[i]

\* A saved session names a chat of its own account which began with the conversation the
\* session stands for, whatever failovers, refreshes and other requests came between.  (Not
\* that nothing else is in it: two turns after one prefix are sent into the same chat.)
SessionsNameTheirConversation ==
    \A p \in Contexts : sessions[p] # None =>
        LET chat == chats[sessions[p].chat] IN
        /\ chat.owner = sessions[p].account
        /\ Begins(chat.turns, p)

\* The tracker records a chat under the account that owns it: the cleanup deletes it with
\* that account's token.
UsagesNameTheOwner == \A u \in usages : chats[u[2]].owner = u[1]

\* A request asks for an answer at most once per account of the pool it began with, once
\* more in a mapped chat, and once more for each of the two guest refreshes.
WorkIsBounded ==
    \A r \in Requests :
        Len(sent[r]) <= call[r].max + 1 + (IF Guest \in Accounts THEN 2 ELSE 0)

\* No request is sent into a chat of another account than the one whose session it uses.
SentWithItsAccount ==
    \A r \in Requests : pc[r] = "send" => chats[call[r].chat].owner = call[r].account

\* The chat saved for a conversation is the one that gave the answer, unless the answer came
\* after a guest refresh within the mapped attempt (the code then saves the chat that failed):
\* no failover and no other request's work leaves another chat than the answering one.
SavedChatAnsweredUnlessRefreshed ==
    [][ \A r \in Requests :
            pc[r] = "save" /\ pc'[r] = "record" /\ sessions' # sessions
            /\ ~(call[r].mapped # None /\ ~call[r].refresh) =>
               sessions'[call[r].prefix].chat = sent[r][Len(sent[r])] ]_vars

\* Every request ends, however its attempts fail.
RequestsEnd == \A r \in Requests : pc[r] = "list" ~> pc[r] \in {"done", "failed"}
=============================================================================
