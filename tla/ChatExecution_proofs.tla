------------------------ MODULE ChatExecution_proofs ------------------------
(***************************************************************************)
(* Type correctness of ChatExecution; that every chat is used, saved and   *)
(* recorded with the account that owns it; that the saved chat is the one  *)
(* that answered, but for one case; that the work of a request is bounded; *)
(* and that a session names a chat of its own conversation.                *)
(***************************************************************************)
EXTENDS ChatExecution, FiniteSetTheorems, TLAPS

LEMMA ConversationType ==
    ASSUME NEW c \in Conversations
    PROVE  /\ c.prefix \in Contexts /\ c.prefix \in Seq(Turns) /\ c.turn \in Turns
           /\ Append(c.prefix, c.turn) \in Seq(Turns)
<1>1. c \in [prefix : Seq(Turns), turn : Turns]
  BY ExecutionAssumption
<1>2. c.prefix \in Seq(Turns) /\ c.turn \in Turns
  BY <1>1
<1>3. Append(c.prefix, c.turn) \in Seq(Turns)
  BY <1>2
<1>. QED  BY <1>2, <1>3 DEF Contexts

LEMMA ContextsAreSequences == Contexts \subseteq Seq(Turns)
BY ConversationType DEF Contexts

LEMMA MessagesType == ASSUME NEW c \in Call PROVE Messages(c) \in Seq(Turns)
BY ContextsAreSequences DEF Call, Messages

LEMMA AppendChat ==
    ASSUME NEW s \in Seq(Chat), NEW c \in Chat
    PROVE  /\ Append(s, c) \in Seq(Chat)
           /\ Len(Append(s, c)) = Len(s) + 1
           /\ \A i \in 1 .. Len(s) : Append(s, c)[i] = s[i]
           /\ Append(s, c)[Len(s) + 1] = c
OBVIOUS

\* Delivering messages and deleting a chat change neither how many chats there are nor
\* whose they are.
LEMMA ChatsChange ==
    ASSUME NEW s \in Seq(Chat), NEW i \in 1 .. Len(s), NEW c \in Chat
    PROVE  /\ [s EXCEPT ![i] = c] \in Seq(Chat)
           /\ Len([s EXCEPT ![i] = c]) = Len(s)
OBVIOUS

-----------------------------------------------------------------------------
Owns(cs, a, id) == id \in 1 .. Len(cs) /\ cs[id].owner = a

\* Whatever names a chat beside an account names a chat of that account.
Owned ==
    /\ \A p \in Contexts : sessions[p] # None => Owns(chats, sessions[p].account, sessions[p].chat)
    /\ \A u \in usages : Owns(chats, u[1], u[2])
    /\ \A r \in Requests :
          /\ call[r].mapped # None => Owns(chats, call[r].account, call[r].mapped)
          /\ pc[r] \in {"send", "save", "record"} => Owns(chats, call[r].account, call[r].chat)
          /\ pc[r] = "create" => call[r].account \in Accounts

OInv == TypeOK /\ Owned

\* Chats are only added, and keep their owner.
Growing ==
    /\ chats' \in Seq(Chat)
    /\ Len(chats') \in Len(chats) .. MaxChats
    /\ \A id \in 1 .. Len(chats) : chats'[id].owner = chats[id].owner

LEMMA OwnsStays == ASSUME TypeOK, Growing, NEW a, NEW id, Owns(chats, a, id) PROVE Owns(chats', a, id)
BY DEF TypeOK, Growing, Owns

LEMMA OwnerType ==
    ASSUME TypeOK, NEW a, NEW id, Owns(chats, a, id)
    PROVE  a \in Accounts /\ id \in ChatIds
<1>1. id \in 1 .. Len(chats) /\ chats[id] \in Chat /\ chats[id].owner = a
  BY DEF TypeOK, Owns
<1>2. a \in Accounts
  BY <1>1 DEF Chat
<1>3. id \in ChatIds
  BY <1>1, ExecutionAssumption DEF TypeOK, ChatIds
<1>. QED  BY <1>2, <1>3

LEMMA UnchangedGrows == ASSUME TypeOK, UNCHANGED chats PROVE Growing
BY ExecutionAssumption DEF TypeOK, Growing

LEMMA ConversationGrows ==
    ASSUME NEW c \in Chat, NEW m \in Seq(Turns)
    PROVE  [c EXCEPT !.turns = @ \o m] \in Chat /\ [c EXCEPT !.turns = @ \o m].owner = c.owner
<1>1. c.turns \in Seq(Turns)
  BY DEF Chat
<1>2. c.turns \o m \in Seq(Turns)
  BY <1>1
<1>. DEFINE turns == c.turns \o m
<1>. HIDE DEF turns
<1>3. turns \in Seq(Turns)
  BY <1>2 DEF turns
<1>4. [c EXCEPT !.turns = turns] \in Chat /\ [c EXCEPT !.turns = turns].owner = c.owner
  BY <1>3 DEF Chat
<1>. QED  BY <1>4 DEF turns

LEMMA DeliverGrows ==
    ASSUME TypeOK, NEW r \in Requests, call[r].chat \in 1 .. Len(chats), Deliver(r)
    PROVE  Growing
<1>. DEFINE id == call[r].chat
            c == [chats[id] EXCEPT !.turns = @ \o Messages(call[r])]
<1>1. chats[id] \in Chat /\ Messages(call[r]) \in Seq(Turns)
  BY MessagesType DEF TypeOK
<1>2. c \in Chat /\ c.owner = chats[id].owner
  BY <1>1, ConversationGrows
<1>3. chats' = [chats EXCEPT ![id] = c]
  BY DEF Deliver
<1>. HIDE DEF c
<1>4. chats' \in Seq(Chat) /\ Len(chats') = Len(chats)
  BY <1>2, <1>3, ChatsChange DEF TypeOK
<1>5. \A i \in 1 .. Len(chats) : chats'[i].owner = chats[i].owner
  BY <1>2, <1>3 DEF TypeOK
<1>. QED  BY <1>4, <1>5, ExecutionAssumption DEF Growing, TypeOK

\* What a step of one request does to its own call, sessions and place is all there is to
\* check: the other calls keep what they have.
LEMMA OthersKeep ==
    ASSUME OInv, Growing, NEW r \in Requests,
           \A q \in Requests \ {r} : pc'[q] = pc[q] /\ call'[q] = call[q],
           \A p \in Contexts : sessions'[p] # None =>
               sessions'[p] = sessions[p] \/ Owns(chats', sessions'[p].account, sessions'[p].chat),
           \A u \in usages' : u \in usages \/ Owns(chats', u[1], u[2]),
           call'[r].mapped # None => Owns(chats', call'[r].account, call'[r].mapped),
           pc'[r] \in {"send", "save", "record"} => Owns(chats', call'[r].account, call'[r].chat),
           pc'[r] = "create" => call'[r].account \in Accounts
    PROVE  Owned'
<1>1. \A a, id : Owns(chats, a, id) => Owns(chats', a, id)
  BY OwnsStays DEF OInv
<1>2. ASSUME NEW p \in Contexts, sessions'[p] # None
      PROVE  Owns(chats', sessions'[p].account, sessions'[p].chat)
  BY <1>1, <1>2 DEF OInv, Owned
<1>3. ASSUME NEW u \in usages' PROVE Owns(chats', u[1], u[2])
  BY <1>1, <1>3 DEF OInv, Owned
<1>4. ASSUME NEW q \in Requests
      PROVE  /\ call'[q].mapped # None => Owns(chats', call'[q].account, call'[q].mapped)
             /\ pc'[q] \in {"send", "save", "record"} =>
                    Owns(chats', call'[q].account, call'[q].chat)
             /\ pc'[q] = "create" => call'[q].account \in Accounts
  <2>1. CASE q = r
    BY <2>1
  <2>2. CASE q # r
    <3>1. pc'[q] = pc[q] /\ call'[q] = call[q]
      BY <2>2
    <3>. QED  BY <1>1, <3>1 DEF OInv, Owned
  <2>. QED  BY <2>1, <2>2
<1>. QED  BY <1>2, <1>3, <1>4 DEF Owned

LEMMA NoCallType == NoCall \in Call
<1>1. PICK c \in Conversations : TRUE
  BY ExecutionAssumption
<1>2. c.prefix \in Contexts /\ c.turn \in Turns
  BY ConversationType
<1>3. (CHOOSE p \in Contexts : TRUE) \in Contexts /\ (CHOOSE t \in Turns : TRUE) \in Turns
  BY <1>2
<1>. QED  BY <1>3 DEF NoCall, Call

\* A step of request r: its locals become c, its place is now place, and no session and no
\* record names a chat beside another account than its owner.
LEMMA RequestSteps ==
    ASSUME OInv, Growing, UNCHANGED pool, NEW r \in Requests, NEW c \in Call,
           NEW place \in {"new", "done", "failed"} \cup Active,
           pc' = [pc EXCEPT ![r] = place], call' = [call EXCEPT ![r] = c],
           sessions' \in [Contexts -> Session \cup {None}],
           usages' \subseteq Accounts \X ChatIds,
           sent' \in [Requests -> Seq(ChatIds)],
           \A p \in Contexts : sessions'[p] # None =>
               sessions'[p] = sessions[p] \/ Owns(chats', sessions'[p].account, sessions'[p].chat),
           \A u \in usages' : u \in usages \/ Owns(chats', u[1], u[2]),
           c.mapped # None => Owns(chats', c.account, c.mapped),
           place \in {"send", "save", "record"} => Owns(chats', c.account, c.chat),
           place = "create" => c.account \in Accounts
    PROVE  OInv'
<1>1. TypeOK'
  <2>1. pool' \subseteq Accounts /\ chats' \in Seq(Chat) /\ Len(chats') <= MaxChats
    BY ExecutionAssumption DEF OInv, TypeOK, Growing
  <2>2. /\ pc' \in [Requests -> {"new", "done", "failed"} \cup Active]
        /\ call' \in [Requests -> Call]
    BY DEF OInv, TypeOK
  <2>. QED  BY <2>1, <2>2 DEF TypeOK
<1>2. /\ pc'[r] = place /\ call'[r] = c
      /\ \A q \in Requests \ {r} : pc'[q] = pc[q] /\ call'[q] = call[q]
  BY DEF OInv, TypeOK
<1>3. Owned'
  BY <1>2, OthersKeep
<1>. QED  BY <1>1, <1>3 DEF OInv

LEMMA CallChanges ==
    ASSUME OInv, NEW r \in Requests, NEW c \in Call,
           NEW place \in {"new", "done", "failed"} \cup Active,
           pc' = [pc EXCEPT ![r] = place], call' = [call EXCEPT ![r] = c],
           UNCHANGED <<pool, chats, usages, sent>>,
           sessions' \in [Contexts -> Session \cup {None}],
           \A p \in Contexts : sessions'[p] # None => sessions'[p] = sessions[p],
           c.mapped # None => Owns(chats, c.account, c.mapped),
           place \in {"send", "save", "record"} => Owns(chats, c.account, c.chat),
           place = "create" => c.account \in Accounts
    PROVE  OInv'
<1>1. Growing
  BY UnchangedGrows DEF OInv
<1>2. usages' \subseteq Accounts \X ChatIds /\ sent' \in [Requests -> Seq(ChatIds)]
  BY DEF OInv, TypeOK
<1>. QED  BY <1>1, <1>2, RequestSteps

LEMMA StartKeeps ==
    ASSUME OInv, NEW r \in Requests, NEW e \in Conversations, Start(r, e)
    PROVE  OInv'
<1>. DEFINE c == [NoCall EXCEPT !.prefix = e.prefix, !.turn = e.turn,
                                !.max = IF pool = {} THEN 1 ELSE Cardinality(pool)]
<1>0. e.prefix \in Contexts /\ e.turn \in Turns
  BY ConversationType
<1>1. Cardinality(pool) \in Nat
  BY FS_Subset, FS_CardinalityType, ExecutionAssumption DEF OInv, TypeOK
<1>2. c \in Call /\ c.mapped = None
  BY <1>0, <1>1, NoCallType DEF Call, NoCall
<1>3. call' = [call EXCEPT ![r] = c] /\ pc' = [pc EXCEPT ![r] = "list"]
  BY DEF Start, Goto
<1>. HIDE DEF c
<1>. QED  BY <1>2, <1>3, CallChanges DEF Start, OInv, TypeOK, Active

\* Until it has loaded its session, or found none, a request has only its list of doomed
\* sessions changed, and sessions are only deleted.
LEMMA Tidied ==
    ASSUME OInv, NEW r \in Requests, List(r) \/ Clean(r) \/ DeleteExpired(r)
    PROVE  /\ \E doomed \in SUBSET Contexts, place \in {"clean", "get", "pick"} :
                 /\ call' = [call EXCEPT ![r] = [call[r] EXCEPT !.doomed = doomed]]
                 /\ pc' = [pc EXCEPT ![r] = place]
           /\ pc[r] \in {"list", "clean", "expired"}
           /\ sessions' \in [Contexts -> Session \cup {None}]
           /\ \A p \in Contexts : sessions'[p] # None => sessions'[p] = sessions[p]
           /\ UNCHANGED <<pool, chats, usages, sent>>
<1>1. call[r] \in Call /\ call[r].doomed \in SUBSET Contexts /\ call[r].prefix \in Contexts
  BY DEF OInv, TypeOK, Call
<1>2. call = [call EXCEPT ![r] = [call[r] EXCEPT !.doomed = call[r].doomed]]
  <2>1. [call[r] EXCEPT !.doomed = call[r].doomed] = call[r]
    BY <1>1 DEF Call
  <2>. QED  BY <2>1 DEF OInv, TypeOK
<1>3. CASE List(r)
  <2>1. UNCHANGED <<sessions, pool, chats, usages, sent>> /\ pc[r] = "list"
    BY <1>3 DEF List
  <2>. DEFINE found == {p \in Contexts : sessions[p] # None /\ sessions[p].old}
  <2>2. \/ /\ call' = [call EXCEPT ![r].doomed = found]
           /\ pc' = [pc EXCEPT ![r] = "clean"]
        \/ call' = call /\ pc' = [pc EXCEPT ![r] = "get"]
    BY <1>3 DEF List, Goto
  <2>3. found \in SUBSET Contexts
    OBVIOUS
  <2>. HIDE DEF found
  <2>. QED  BY <1>1, <1>2, <2>1, <2>2, <2>3 DEF OInv, TypeOK
<1>4. CASE Clean(r)
  <2>1. CASE \E p \in call[r].doomed :
                 /\ Forget(p)
                 /\ call' = [call EXCEPT ![r].doomed = @ \ {p}]
                 /\ UNCHANGED pc
    <3>1. PICK p \in call[r].doomed :
                 /\ Forget(p)
                 /\ call' = [call EXCEPT ![r].doomed = @ \ {p}]
                 /\ UNCHANGED pc
      BY <2>1
    <3>2. call' = [call EXCEPT ![r] = [call[r] EXCEPT !.doomed = call[r].doomed \ {p}]]
      BY <3>1
    <3>3. pc' = [pc EXCEPT ![r] = "clean"] /\ pc[r] = "clean"
      BY <1>4, <3>1 DEF Clean, OInv, TypeOK
    <3>4. /\ sessions' \in [Contexts -> Session \cup {None}]
          /\ \A q \in Contexts : sessions'[q] # None => sessions'[q] = sessions[q]
      BY <3>1 DEF Forget, OInv, TypeOK
    <3>5. UNCHANGED <<pool, chats, usages, sent>>
      BY <1>4 DEF Clean
    <3>6. call[r].doomed \ {p} \in SUBSET Contexts
      BY <1>1
    <3>. QED  BY <3>2, <3>3, <3>4, <3>5, <3>6
  <2>2. CASE UNCHANGED <<sessions, call>> /\ Goto(r, "get")
    BY <1>1, <1>2, <1>4, <2>2 DEF Clean, Goto, OInv, TypeOK
  <2>. QED  BY <1>4, <2>1, <2>2 DEF Clean
<1>5. CASE DeleteExpired(r)
  <2>1. UNCHANGED <<call, pool, chats, usages, sent>> /\ pc[r] = "expired"
        /\ pc' = [pc EXCEPT ![r] = "pick"] /\ Forget(call[r].prefix)
    BY <1>5 DEF DeleteExpired, Goto
  <2>2. /\ sessions' \in [Contexts -> Session \cup {None}]
        /\ \A q \in Contexts : sessions'[q] # None => sessions'[q] = sessions[q]
    BY <2>1 DEF Forget, OInv, TypeOK
  <2>. QED  BY <1>1, <1>2, <2>1, <2>2
<1>. QED  BY <1>3, <1>4, <1>5

LEMMA TidyKeeps ==
    ASSUME OInv, NEW r \in Requests, List(r) \/ Clean(r) \/ DeleteExpired(r) PROVE OInv'
<1>1. PICK doomed \in SUBSET Contexts, place \in {"clean", "get", "pick"} :
          /\ call' = [call EXCEPT ![r] = [call[r] EXCEPT !.doomed = doomed]]
          /\ pc' = [pc EXCEPT ![r] = place]
  BY Tidied
<1>. DEFINE c == [call[r] EXCEPT !.doomed = doomed]
<1>2. c \in Call /\ c.mapped = call[r].mapped /\ c.account = call[r].account
  BY DEF OInv, TypeOK, Call
<1>3. call' = [call EXCEPT ![r] = c]
  BY <1>1
<1>. HIDE DEF c
<1>4. /\ sessions' \in [Contexts -> Session \cup {None}]
      /\ \A p \in Contexts : sessions'[p] # None => sessions'[p] = sessions[p]
      /\ UNCHANGED <<pool, chats, usages, sent>>
  BY Tidied
<1>5. c.mapped # None => Owns(chats, c.account, c.mapped)
  BY <1>2 DEF OInv, Owned
<1>. QED  BY <1>1, <1>2, <1>3, <1>4, <1>5, CallChanges DEF Active

LEMMA PickKeeps == ASSUME OInv, NEW r \in Requests, Pick(r) PROVE OInv'
<1>1. PICK a \in pool \ call[r].attempted :
          call' = [call EXCEPT ![r].attempted = @ \cup {a}, ![r].account = a,
                               ![r].chat = None, ![r].mapped = None,
                               ![r].incremental = FALSE, ![r].refresh = TRUE]
  BY DEF Pick
<1>. DEFINE c == [call[r] EXCEPT !.attempted = @ \cup {a}, !.account = a,
                                 !.chat = None, !.mapped = None,
                                 !.incremental = FALSE, !.refresh = TRUE]
<1>2. c \in Call /\ c.mapped = None /\ c.account \in Accounts
  <2>1. call[r] \in Call /\ a \in Accounts
    BY DEF OInv, TypeOK
  <2>2. call[r].attempted \cup {a} \in SUBSET Accounts
    BY <2>1 DEF Call
  <2>. QED  BY ONLY <2>1, <2>2 DEF Call
<1>3. call' = [call EXCEPT ![r] = c] /\ pc' = [pc EXCEPT ![r] = "create"]
  BY <1>1, ZenonT(30) DEF Pick, Goto, OInv, TypeOK
<1>. HIDE DEF c
<1>. QED  BY <1>2, <1>3, CallChanges DEF Pick, OInv, TypeOK, Active

LEMMA GiveUpKeeps == ASSUME OInv, NEW r \in Requests, GiveUp(r) PROVE OInv'
<1>1. call[r] \in Call /\ call' = [call EXCEPT ![r] = call[r]]
  BY DEF GiveUp, OInv, TypeOK
<1>. QED  BY <1>1, CallChanges DEF GiveUp, Goto, OInv, Owned, TypeOK, Active

\* The call that goes into the chat of a session.
Into(r, found) ==
    [call[r] EXCEPT !.account = found.account, !.chat = found.chat,
                    !.mapped = found.chat, !.incremental = TRUE, !.refresh = TRUE]

LEMMA IntoIs ==
    ASSUME OInv, NEW r \in Requests, NEW found \in Session
    PROVE  LET c == Into(r, found) IN
           /\ c \in Call /\ c.account = found.account /\ c.chat = found.chat
           /\ c.mapped = found.chat /\ c.incremental = TRUE /\ c.prefix = call[r].prefix
           /\ c.attempted = call[r].attempted /\ c.max = call[r].max
<1>1. call[r] \in Call /\ found.account \in Accounts /\ found.chat \in ChatIds
  BY DEF OInv, TypeOK, Session
<1>. QED  BY <1>1 DEF Call, Into

\* The session found is used, found expired, or not used.
LEMMA Found ==
    ASSUME OInv, NEW r \in Requests, Get(r)
    PROVE  /\ pc[r] = "get" /\ UNCHANGED <<pool, sessions, chats, usages, sent>>
           /\ \/ /\ call' = call
                 /\ pc' \in {[pc EXCEPT ![r] = "expired"], [pc EXCEPT ![r] = "pick"]}
              \/ \E p \in Contexts :
                    /\ p = call[r].prefix /\ sessions[p] # None /\ sessions[p] \in Session
                    /\ call' = [call EXCEPT ![r] = Into(r, sessions[p])]
                    /\ pc' = [pc EXCEPT ![r] = "send"]
<1>. DEFINE p == call[r].prefix
<1>1. p \in Contexts
  BY DEF OInv, TypeOK, Call
<1>2. sessions[p] # None => sessions[p] \in Session
  BY <1>1 DEF OInv, TypeOK
<1>3. \/ call' = call /\ pc' \in {[pc EXCEPT ![r] = "expired"], [pc EXCEPT ![r] = "pick"]}
      \/ /\ sessions[p] # None
         /\ call' = [call EXCEPT ![r] = Into(r, sessions[p])]
         /\ pc' = [pc EXCEPT ![r] = "send"]
  BY DEF Get, Goto, Into, OInv, TypeOK
<1>4. pc[r] = "get" /\ UNCHANGED <<pool, sessions, chats, usages, sent>>
  BY DEF Get
<1>. HIDE DEF p
<1>5. p = call[r].prefix
  BY DEF p
<1>. QED  BY <1>1, <1>2, <1>3, <1>4, <1>5

LEMMA GetKeeps == ASSUME OInv, NEW r \in Requests, Get(r) PROVE OInv'
<1>1. call[r] \in Call /\ call = [call EXCEPT ![r] = call[r]]
  BY DEF OInv, TypeOK
<1>2. /\ UNCHANGED <<pool, sessions, chats, usages, sent>>
      /\ sessions' \in [Contexts -> Session \cup {None}]
  BY Found DEF OInv, TypeOK
<1>3. CASE call' = call /\ pc' \in {[pc EXCEPT ![r] = "expired"], [pc EXCEPT ![r] = "pick"]}
  BY <1>1, <1>2, <1>3, CallChanges DEF Active, OInv, Owned
<1>4. ASSUME NEW p \in Contexts, sessions[p] # None, sessions[p] \in Session,
             call' = [call EXCEPT ![r] = Into(r, sessions[p])],
             pc' = [pc EXCEPT ![r] = "send"]
      PROVE  OInv'
  <2>. DEFINE c == Into(r, sessions[p])
  <2>1. c \in Call /\ c.account = sessions[p].account /\ c.chat = sessions[p].chat
        /\ c.mapped = sessions[p].chat
    BY <1>4, IntoIs
  <2>2. Owns(chats, sessions[p].account, sessions[p].chat)
    BY <1>4 DEF OInv, Owned
  <2>3. call' = [call EXCEPT ![r] = c]
    BY <1>4
  <2>. HIDE DEF c
  <2>. QED  BY <1>2, <1>4, <2>1, <2>2, <2>3, CallChanges DEF Active
<1>. QED  BY <1>3, <1>4, Found

LEMMA CreateKeeps == ASSUME OInv, NEW r \in Requests, Create(r) PROVE OInv'
<1>. DEFINE new == [owner |-> call[r].account, turns |-> <<>>, alive |-> TRUE]
            c == [call[r] EXCEPT !.chat = Len(chats) + 1]
<1>1. new \in Chat /\ new.owner = call[r].account
  BY DEF Create, OInv, Owned, Chat
<1>2. Len(chats) + 1 \in ChatIds
  BY ExecutionAssumption DEF Create, OInv, TypeOK, ChatIds
<1>3. /\ c \in Call /\ c.chat = Len(chats) + 1
      /\ c.account = call[r].account /\ c.mapped = call[r].mapped
  BY <1>2 DEF OInv, TypeOK, Call
<1>4. /\ call' = [call EXCEPT ![r] = c] /\ pc' = [pc EXCEPT ![r] = "send"]
      /\ chats' = Append(chats, new)
  BY DEF Create, Goto
<1>. HIDE DEF new, c
<1>5. Growing /\ Owns(chats', c.account, c.chat)
  BY <1>1, <1>3, <1>4, AppendChat, ExecutionAssumption
     DEF Create, OInv, TypeOK, Growing, Owns
<1>6. c.mapped # None => Owns(chats', c.account, c.mapped)
  BY <1>3, <1>5, OwnsStays DEF OInv, Owned
<1>. QED  BY <1>3, <1>4, <1>5, <1>6, RequestSteps DEF Create, OInv, TypeOK, Active

LEMMA SentType ==
    ASSUME OInv, NEW r \in Requests, pc[r] = "send",
           sent' = [sent EXCEPT ![r] = Append(@, call[r].chat)]
    PROVE  /\ sent' \in [Requests -> Seq(ChatIds)]
           /\ Owns(chats, call[r].account, call[r].chat)
           /\ call[r].chat \in 1 .. Len(chats)
<1>1. Owns(chats, call[r].account, call[r].chat)
  BY DEF OInv, Owned
<1>2. call[r].chat \in 1 .. Len(chats) /\ call[r].chat \in ChatIds
  BY <1>1, ExecutionAssumption DEF Owns, ChatIds, OInv, TypeOK
<1>. QED  BY <1>1, <1>2 DEF OInv, TypeOK

LEMMA AnswerKeeps == ASSUME OInv, NEW r \in Requests, Answer(r) PROVE OInv'
<1>1. call[r] \in Call /\ call' = [call EXCEPT ![r] = call[r]]
  BY DEF Answer, OInv, TypeOK
<1>2. Growing
  BY SentType, DeliverGrows DEF Answer, OInv
<1>3. /\ Owns(chats', call[r].account, call[r].chat)
      /\ call[r].mapped # None => Owns(chats', call[r].account, call[r].mapped)
  BY <1>2, SentType, OwnsStays DEF Answer, OInv, Owned
<1>4. sent' \in [Requests -> Seq(ChatIds)] /\ pc' = [pc EXCEPT ![r] = "save"]
  BY SentType DEF Answer, Goto
<1>5. UNCHANGED <<pool, sessions, usages>>
  BY DEF Answer
<1>. QED  BY <1>1, <1>2, <1>3, <1>4, <1>5, RequestSteps DEF OInv, TypeOK, Active

\* A failed attempt leaves the account of the call as it is, and no chat once it goes on to
\* another.
LEMMA FailedCall ==
    ASSUME OInv, NEW r \in Requests, pc[r] \in {"create", "send"}, Failed(r)
    PROVE  /\ \E c \in Call, place \in {"pick", "create", "failed"} :
                 /\ pc' = [pc EXCEPT ![r] = place]
                 /\ call' = [call EXCEPT ![r] = c]
                 /\ c.account = call[r].account /\ c.mapped = call[r].mapped
           /\ sessions' \in [Contexts -> Session \cup {None}]
           /\ \A p \in Contexts : sessions'[p] # None => sessions'[p] = sessions[p]
<1>. DEFINE refreshed == [call[r] EXCEPT !.refresh = FALSE, !.chat = None, !.incremental = FALSE]
            tried == [call[r] EXCEPT !.attempted = @ \cup {call[r].account}]
<1>1. call[r] \in Call /\ call = [call EXCEPT ![r] = call[r]]
  BY DEF OInv, TypeOK
<1>2. call[r].account \in Accounts
  BY OwnerType DEF OInv, Owned
<1>3. /\ refreshed \in Call /\ refreshed.account = call[r].account
      /\ refreshed.mapped = call[r].mapped
      /\ tried \in Call /\ tried.account = call[r].account /\ tried.mapped = call[r].mapped
  BY <1>1, <1>2 DEF Call
<1>4. /\ sessions' \in [Contexts -> Session \cup {None}]
      /\ \A p \in Contexts : sessions'[p] # None => sessions'[p] = sessions[p]
  BY DEF Failed, GuestRefreshed, MappedFailed, AttemptFailed, Forget, OInv, TypeOK
<1>5. \/ call' = [call EXCEPT ![r] = refreshed] /\ pc' = [pc EXCEPT ![r] = "create"]
      \/ call' = [call EXCEPT ![r] = tried] /\ pc' = [pc EXCEPT ![r] = "pick"]
      \/ call' = call /\ pc' \in {[pc EXCEPT ![r] = "pick"], [pc EXCEPT ![r] = "failed"]}
  BY DEF Failed, GuestRefreshed, MappedFailed, AttemptFailed, Goto, OInv, TypeOK
<1>. HIDE DEF refreshed, tried
<1>. QED  BY <1>1, <1>3, <1>4, <1>5

LEMMA FailureKeeps ==
    ASSUME OInv, NEW r \in Requests, CreateFails(r) \/ SendFails(r) PROVE OInv'
<1>1. pc[r] \in {"create", "send"} /\ Failed(r)
  BY DEF CreateFails, SendFails
<1>2. PICK c \in Call, place \in {"pick", "create", "failed"} :
          /\ pc' = [pc EXCEPT ![r] = place]
          /\ call' = [call EXCEPT ![r] = c]
          /\ c.account = call[r].account /\ c.mapped = call[r].mapped
  BY <1>1, FailedCall
<1>3. /\ sessions' \in [Contexts -> Session \cup {None}]
      /\ \A p \in Contexts : sessions'[p] # None => sessions'[p] = sessions[p]
  BY <1>1, FailedCall
<1>4. call[r].account \in Accounts
  BY <1>1, OwnerType DEF OInv, Owned
<1>5. Growing
  BY UnchangedGrows, SentType, DeliverGrows DEF CreateFails, SendFails, OInv
<1>6. sent' \in [Requests -> Seq(ChatIds)]
  BY SentType DEF CreateFails, SendFails, OInv, TypeOK
<1>7. c.mapped # None => Owns(chats', c.account, c.mapped)
  BY <1>2, <1>5, OwnsStays DEF OInv, Owned
<1>8. UNCHANGED pool /\ usages' \subseteq Accounts \X ChatIds /\ \A u \in usages' : u \in usages
  BY DEF CreateFails, SendFails, OInv, TypeOK
<1>. QED  BY <1>2, <1>3, <1>4, <1>5, <1>6, <1>7, <1>8, RequestSteps DEF Active

\* What is saved and recorded is a chat of the account of the call.
LEMMA SavedIsOwned ==
    ASSUME OInv, NEW r \in Requests, pc[r] \in {"save", "record"}
    PROVE  /\ call[r].account \in Accounts /\ SavedChat(call[r]) \in ChatIds
           /\ Owns(chats, call[r].account, SavedChat(call[r]))
<1>1. Owns(chats, call[r].account, SavedChat(call[r]))
  BY DEF OInv, Owned, SavedChat
<1>. QED  BY <1>1, OwnerType DEF OInv

LEMMA SaveKeeps == ASSUME OInv, NEW r \in Requests, Save(r) PROVE OInv'
<1>. DEFINE s == [account |-> call[r].account, chat |-> SavedChat(call[r]), old |-> FALSE]
<1>1. s \in Session /\ Owns(chats, s.account, s.chat)
  BY SavedIsOwned DEF Save, Session
<1>2. sessions' = [sessions EXCEPT ![call[r].prefix] = s] \/ UNCHANGED sessions
  BY DEF Save
<1>. HIDE DEF s
<1>3. /\ sessions' \in [Contexts -> Session \cup {None}]
      /\ \A p \in Contexts : sessions'[p] = sessions[p] \/ sessions'[p] = s
  BY <1>1, <1>2 DEF OInv, TypeOK
<1>4. call[r] \in Call /\ call' = [call EXCEPT ![r] = call[r]] /\ Growing
  BY UnchangedGrows DEF Save, OInv, TypeOK
<1>5. pc' = [pc EXCEPT ![r] = "record"] /\ UNCHANGED <<pool, chats, usages, sent>>
  BY DEF Save, Goto
<1>6. /\ Owns(chats, call[r].account, call[r].chat)
      /\ call[r].mapped # None => Owns(chats, call[r].account, call[r].mapped)
  BY DEF Save, OInv, Owned
<1>7. usages' \subseteq Accounts \X ChatIds /\ sent' \in [Requests -> Seq(ChatIds)]
  BY <1>5 DEF OInv, TypeOK
<1>. QED  BY <1>1, <1>3, <1>4, <1>5, <1>6, <1>7, RequestSteps DEF Active

LEMMA RecordKeeps == ASSUME OInv, NEW r \in Requests, Record(r) PROVE OInv'
<1>. DEFINE u == <<call[r].account, SavedChat(call[r])>>
<1>1. u \in Accounts \X ChatIds /\ Owns(chats, u[1], u[2])
  BY SavedIsOwned DEF Record
<1>2. usages' = usages \cup {u}
  BY DEF Record
<1>. HIDE DEF u
<1>3. call[r] \in Call /\ call' = [call EXCEPT ![r] = call[r]] /\ Growing
  BY UnchangedGrows DEF Record, OInv, TypeOK
<1>4. pc' = [pc EXCEPT ![r] = "done"] /\ UNCHANGED <<pool, sessions, chats, sent>>
  BY DEF Record, Goto
<1>5. call[r].mapped # None => Owns(chats, call[r].account, call[r].mapped)
  BY DEF OInv, Owned
<1>6. /\ sessions' \in [Contexts -> Session \cup {None}]
      /\ usages' \subseteq Accounts \X ChatIds /\ sent' \in [Requests -> Seq(ChatIds)]
  BY <1>1, <1>2, <1>4 DEF OInv, TypeOK
<1>. QED  BY <1>1, <1>2, <1>3, <1>4, <1>5, <1>6, RequestSteps DEF Active

\* No request takes part: sessions may expire, chats be removed, the pool change.
LEMMA SurroundingsKeep == ASSUME OInv, Surroundings PROVE OInv'
<1>1. ASSUME NEW p \in Contexts, Expire(p) PROVE OInv'
  <2>. DEFINE s == [sessions[p] EXCEPT !.old = TRUE]
  <2>1. s \in Session /\ s.account = sessions[p].account /\ s.chat = sessions[p].chat
    BY <1>1 DEF Expire, OInv, TypeOK, Session
  <2>2. sessions' = [sessions EXCEPT ![p] = s]
    BY <1>1 DEF Expire
  <2>. HIDE DEF s
  <2>3. TypeOK'
    BY <1>1, <2>1, <2>2 DEF Expire, OInv, TypeOK
  <2>4. Owned'
    BY <1>1, <2>1, <2>2 DEF Expire, OInv, Owned, TypeOK
  <2>. QED  BY <2>3, <2>4 DEF OInv
<1>2. ASSUME NEW id \in 1 .. Len(chats), RemoveChat(id) PROVE OInv'
  <2>. DEFINE c == [chats[id] EXCEPT !.alive = FALSE]
  <2>1. chats[id] \in Chat
    BY DEF OInv, TypeOK
  <2>2. c \in Chat /\ c.owner = chats[id].owner
    BY <2>1 DEF Chat
  <2>3. chats' = [chats EXCEPT ![id] = c]
    BY <1>2 DEF RemoveChat
  <2>. HIDE DEF c
  <2>4. chats' \in Seq(Chat) /\ Len(chats') = Len(chats)
    BY <2>2, <2>3, ChatsChange DEF OInv, TypeOK
  <2>5. Growing
    BY <2>2, <2>3, <2>4, ExecutionAssumption DEF Growing, OInv, TypeOK
  <2>6. \A a, i : Owns(chats, a, i) => Owns(chats', a, i)
    BY <2>5, OwnsStays DEF OInv
  <2>7. TypeOK'
    BY <1>2, <2>4 DEF RemoveChat, OInv, TypeOK
  <2>8. Owned'
    BY <1>2, <2>6 DEF RemoveChat, OInv, Owned
  <2>. QED  BY <2>7, <2>8 DEF OInv
<1>3. ASSUME NEW a \in Accounts, PoolChanges(a) PROVE OInv'
  BY <1>3 DEF PoolChanges, OInv, Owned, TypeOK
<1>. QED  BY <1>1, <1>2, <1>3 DEF Surroundings

-----------------------------------------------------------------------------
LEMMA OwnedInit == Init => OInv
<1>. SUFFICES ASSUME Init PROVE OInv
  OBVIOUS
<1>1. /\ pool \subseteq Accounts /\ usages = {}
      /\ pc = [r \in Requests |-> "new"] /\ call = [r \in Requests |-> NoCall]
      /\ sent = [r \in Requests |-> <<>>]
  BY DEF Init
<1>2. NoCall \in Call /\ NoCall.mapped = None
  BY NoCallType DEF NoCall
<1>3. /\ chats \in Seq(Chat) /\ Len(chats) <= MaxChats
      /\ sessions \in [Contexts -> Session \cup {None}]
      /\ \A q \in Contexts : sessions[q] # None =>
            Owns(chats, sessions[q].account, sessions[q].chat)
  <2>1. CASE Resumed
    <3>1. PICK a \in Accounts, e \in Conversations :
             /\ chats = <<[owner |-> a, turns |-> Append(e.prefix, e.turn), alive |-> TRUE]>>
             /\ sessions = [q \in Contexts |->
                   IF q = e.prefix THEN [account |-> a, chat |-> 1, old |-> FALSE] ELSE None]
      BY <2>1 DEF Init
    <3>. DEFINE p == e.prefix
                c == [owner |-> a, turns |-> Append(e.prefix, e.turn), alive |-> TRUE]
                s == [account |-> a, chat |-> 1, old |-> FALSE]
    <3>2. c \in Chat /\ c.owner = a
      BY ConversationType DEF Chat
    <3>3. s \in Session /\ s.account = a /\ s.chat = 1
      BY ExecutionAssumption DEF Session, ChatIds
    <3>4. chats = <<c>> /\ sessions = [q \in Contexts |-> IF q = p THEN s ELSE None]
      BY <3>1
    <3>. HIDE DEF c, s, p
    <3>. QED  BY <3>2, <3>3, <3>4, ExecutionAssumption DEF Owns
  <2>2. CASE ~Resumed
    BY <2>2, ExecutionAssumption DEF Init
  <2>. QED  BY <2>1, <2>2
<1>4. TypeOK
  BY <1>1, <1>2, <1>3 DEF TypeOK
<1>5. Owned
  BY <1>1, <1>2, <1>3 DEF Owned
<1>. QED  BY <1>4, <1>5 DEF OInv

LEMMA OwnedStep == OInv /\ [Next]_vars => OInv'
<1>. SUFFICES ASSUME OInv, [Next]_vars PROVE OInv'
  OBVIOUS
<1>1. ASSUME NEW r \in Requests, NEW c \in Conversations, Start(r, c)
      PROVE  OInv'
  BY <1>1, StartKeeps
<1>2. ASSUME NEW r \in Requests, Step(r) PROVE OInv'
  BY <1>2, TidyKeeps, GetKeeps, PickKeeps, GiveUpKeeps, CreateKeeps, AnswerKeeps,
     FailureKeeps, SaveKeeps, RecordKeeps DEF Step
<1>3. CASE Surroundings
  BY <1>3, SurroundingsKeep
<1>4. CASE UNCHANGED vars
  BY <1>4 DEF vars, OInv, Owned, TypeOK
<1>. QED  BY <1>1, <1>2, <1>3, <1>4 DEF Next

\* What the requests, the sessions, the chats and the tracker are stays well typed.
THEOREM TypeCorrect == Spec => []TypeOK
<1>1. OInv => TypeOK
  BY DEF OInv
<1>. QED  BY <1>1, OwnedInit, OwnedStep, PTL DEF Spec

\* The cleanup deletes a recorded chat with the token of the account that owns it.
THEOREM RecordedWithItsOwner == Spec => []UsagesNameTheOwner
<1>1. OInv => UsagesNameTheOwner
  BY DEF OInv, Owned, Owns, UsagesNameTheOwner
<1>. QED  BY <1>1, OwnedInit, OwnedStep, PTL DEF Spec

\* A request sends into a chat with the session of the account that owns the chat, after
\* any failovers and refreshes, and whoever else saves for the same conversation.
THEOREM SentAsTheOwner == Spec => []SentWithItsAccount
<1>1. OInv => SentWithItsAccount
  BY DEF OInv, Owned, Owns, SentWithItsAccount
<1>. QED  BY <1>1, OwnedInit, OwnedStep, PTL DEF Spec

-----------------------------------------------------------------------------
\* The chat of a call that has its answer is the one asked last, and as long as a mapped
\* attempt has not been refreshed it is in the mapped chat.
Followed(r) ==
    /\ pc[r] = "save" => sent[r][Len(sent[r])] = call[r].chat
    /\ pc[r] = "create" /\ call[r].mapped # None => ~call[r].refresh
    /\ pc[r] \in {"send", "save"} /\ call[r].mapped # None /\ call[r].refresh =>
           call[r].chat = call[r].mapped

LEMMA FollowedByOthers ==
    ASSUME NEW r \in Requests, Followed(r),
           pc'[r] = pc[r], call'[r] = call[r], sent'[r] = sent[r]
    PROVE  Followed(r)'
BY DEF Followed

LEMMA FollowedStep ==
    ASSUME OInv, NEW r \in Requests, Followed(r), Step(r)
    PROVE  Followed(r)'
<1>. USE DEF OInv, TypeOK, Goto
<1>1. CASE List(r) \/ Clean(r) \/ DeleteExpired(r)
  <2>1. pc'[r] \in {"clean", "get", "pick"}
    BY <1>1, Tidied
  <2>. QED  BY <2>1 DEF Followed
<1>2. CASE Get(r)
  <2>1. CASE pc'[r] \in {"expired", "pick"}
    BY <2>1 DEF Followed
  <2>2. ASSUME NEW p \in Contexts, sessions[p] \in Session,
               call' = [call EXCEPT ![r] = Into(r, sessions[p])],
               pc' = [pc EXCEPT ![r] = "send"]
        PROVE  Followed(r)'
    <3>1. call'[r].chat = call'[r].mapped
      BY <2>2, IntoIs, ZenonT(30)
    <3>. QED  BY <2>2, <3>1 DEF Followed
  <2>. QED  BY <1>2, <2>1, <2>2, Found
<1>3. CASE Pick(r)
  BY <1>3 DEF Pick, Followed, Call
<1>4. CASE GiveUp(r)
  BY <1>4 DEF GiveUp, Followed
<1>5. CASE Create(r)
  BY <1>5 DEF Create, Followed, Call
<1>6. CASE Answer(r)
  <2>1. sent'[r][Len(sent'[r])] = call[r].chat
    <3>1. sent[r] \in Seq(ChatIds) /\ call[r].chat \in ChatIds
      BY <1>6, OwnerType DEF Answer, Owned
    <3>. QED  BY <1>6, <3>1 DEF Answer
  <2>. QED  BY <1>6, <2>1 DEF Answer, Followed
<1>7. CASE (CreateFails(r) \/ SendFails(r)) /\ GuestRefreshed(r)
  BY <1>7 DEF GuestRefreshed, Followed, Call
<1>8. CASE (CreateFails(r) \/ SendFails(r)) /\ (MappedFailed(r) \/ AttemptFailed(r))
  BY <1>8 DEF MappedFailed, AttemptFailed, Followed
<1>9. CASE Save(r) \/ Record(r)
  BY <1>9 DEF Save, Record, Followed
<1>. QED  BY <1>1, <1>2, <1>3, <1>4, <1>5, <1>6, <1>7, <1>8, <1>9
          DEF Step, CreateFails, SendFails, Failed

\* A step of one request leaves the others where they are.
LEMMA OthersUntouched ==
    ASSUME OInv, NEW q \in Requests, NEW r \in Requests, q # r,
           Step(q) \/ \E c \in Conversations : Start(q, c)
    PROVE  pc'[r] = pc[r] /\ call'[r] = call[r] /\ sent'[r] = sent[r]
BY DEF OInv, TypeOK, Step, Start, List, Clean, Get, DeleteExpired, Pick, GiveUp, Create,
       CreateFails, Answer, SendFails, Save, Record, Failed, GuestRefreshed, MappedFailed, AttemptFailed, Goto

LEMMA SurroundingsUntouched ==
    Surroundings \/ UNCHANGED vars => UNCHANGED <<pc, call, sent>>
BY DEF Surroundings, Expire, RemoveChat, PoolChanges, vars

LEMMA FollowedAll ==
    OInv /\ (\A r \in Requests : Followed(r)) /\ [Next]_vars
        => \A r \in Requests : Followed(r)'
<1>. SUFFICES ASSUME OInv, \A r \in Requests : Followed(r), [Next]_vars, NEW r \in Requests
              PROVE  Followed(r)'
  OBVIOUS
<1>1. ASSUME NEW q \in Requests, q # r,
             Step(q) \/ \E c \in Conversations : Start(q, c)
      PROVE  Followed(r)'
  BY <1>1, OthersUntouched, FollowedByOthers
<1>2. ASSUME Step(r) PROVE Followed(r)'
  BY <1>2, FollowedStep
<1>3. ASSUME NEW c \in Conversations, Start(r, c) PROVE Followed(r)'
  BY <1>3 DEF Start, Goto, Followed, OInv, TypeOK
<1>4. CASE Surroundings \/ UNCHANGED vars
  BY <1>4, SurroundingsUntouched, FollowedByOthers
<1>. QED  BY <1>1, <1>2, <1>3, <1>4 DEF Next

LEMMA SavesTheAnswer ==
    ASSUME OInv, \A r \in Requests : Followed(r), [Next]_vars, NEW r \in Requests,
           pc[r] = "save", pc'[r] = "record", sessions' # sessions,
           ~(call[r].mapped # None /\ ~call[r].refresh)
    PROVE  sessions'[call[r].prefix].chat = sent[r][Len(sent[r])]
<1>1. Save(r)
  <2>1. ASSUME NEW q \in Requests, q # r,
               Step(q) \/ \E c \in Conversations : Start(q, c)
        PROVE  FALSE
    BY <2>1, OthersUntouched
  <2>2. ~(Surroundings \/ UNCHANGED vars)
    BY SurroundingsUntouched
  <2>3. Step(r)
    BY <2>1, <2>2 DEF Next, Start
  <2>. QED  BY <2>3 DEF Step, List, Clean, Get, DeleteExpired, Pick, GiveUp, Create,
                       CreateFails, Answer, SendFails, Record
<1>2. SavedChat(call[r]) = call[r].chat
  BY DEF Followed, SavedChat, OInv, TypeOK, Call
<1>3. call[r].prefix \in Contexts
  BY DEF OInv, TypeOK, Call
<1>. QED  BY <1>1, <1>2, <1>3 DEF Save, Followed, OInv, TypeOK

\* Unless the answer came after a guest refresh within the mapped attempt, the chat saved
\* for the conversation is the one that gave it.
THEOREM SavesWhatAnswered == Spec => SavedChatAnsweredUnlessRefreshed
<1>. DEFINE AllFollowed == \A r \in Requests : Followed(r)
<1>1. Init => AllFollowed
  BY DEF Init, Followed
<1>2. OInv /\ AllFollowed /\ [Next]_vars => AllFollowed'
  BY FollowedAll
<1>3. OInv /\ AllFollowed /\ [Next]_vars =>
        [\A r \in Requests :
            pc[r] = "save" /\ pc'[r] = "record" /\ sessions' # sessions
            /\ ~(call[r].mapped # None /\ ~call[r].refresh) =>
               sessions'[call[r].prefix].chat = sent[r][Len(sent[r])]]_vars
  BY SavesTheAnswer
<1>. QED  BY <1>1, <1>2, <1>3, OwnedInit, OwnedStep, PTL
          DEF Spec, SavedChatAnsweredUnlessRefreshed

-----------------------------------------------------------------------------
(***************************************************************************)
(* Why the work of a request is bounded.  What it has asked for, with what *)
(* the attempt it is in may still ask for, is paid by the accounts it has  *)
(* tried: one each, one more for the guest, and the mapped attempt.        *)
(***************************************************************************)
Extra(set) == IF Guest \in set THEN 1 ELSE 0

Tried(r) == Cardinality(call[r].attempted)

Owed(r) ==
    IF pc[r] \notin {"create", "send"} THEN 0
    ELSE IF call[r].refresh /\ call[r].account = Guest THEN 2 ELSE 1

Budgeted(r) ==
    /\ Tried(r) <= call[r].max
    /\ pc[r] \in {"new", "list", "clean", "get", "expired"} =>
           call[r].attempted = {} /\ sent[r] = <<>>
    /\ pc[r] # "new" => call[r].max >= 1
    /\ pc[r] \in {"create", "send"} /\ call[r].mapped # None => call[r].attempted = {}
    /\ Len(sent[r]) + Owed(r) <= 1 + Extra(Accounts) + Tried(r) + Extra(call[r].attempted)

LEMMA BudgetTypes ==
    ASSUME TypeOK, NEW r \in Requests
    PROVE  /\ call[r] \in Call /\ call[r].attempted \subseteq Accounts /\ call[r].max \in Nat
           /\ IsFiniteSet(call[r].attempted) /\ Tried(r) \in Nat
           /\ Len(sent[r]) \in Nat
<1>1. call[r] \in Call /\ call[r].attempted \subseteq Accounts /\ call[r].max \in Nat
  BY DEF TypeOK, Call
<1>2. IsFiniteSet(call[r].attempted)
  BY <1>1, FS_Subset, ExecutionAssumption
<1>3. Len(sent[r]) \in Nat
  BY DEF TypeOK
<1>. QED  BY <1>1, <1>2, <1>3, FS_CardinalityType DEF Tried

\* A step that leaves the accounts tried and their limit alone needs to pay only for what
\* it sends.
LEMMA BudgetKept ==
    ASSUME TypeOK, NEW r \in Requests, Budgeted(r),
           pc[r] \notin {"new", "list", "clean", "get", "expired"},
           pc'[r] \notin {"new", "list", "clean", "get", "expired"},
           call'[r].attempted = call[r].attempted, call'[r].max = call[r].max,
           pc'[r] \in {"create", "send"} =>
               pc[r] \in {"create", "send"} /\ call'[r].mapped = call[r].mapped,
           Len(sent'[r]) \in Nat, Owed(r)' \in Nat, Owed(r) \in Nat,
           Len(sent'[r]) + Owed(r)' <= Len(sent[r]) + Owed(r)
    PROVE  Budgeted(r)'
<1>. DEFINE paid == 1 + Extra(Accounts) + Tried(r) + Extra(call[r].attempted)
<1>1. paid' = paid /\ Tried(r)' = Tried(r)
  BY DEF Tried, Extra
<1>2. paid \in Nat /\ Len(sent[r]) \in Nat
  BY BudgetTypes DEF Extra
<1>3. Len(sent[r]) + Owed(r) <= paid
  BY DEF Budgeted
<1>. HIDE DEF paid
<1>4. Len(sent'[r]) + Owed(r)' <= paid
  BY <1>2, <1>3
<1>5. Len(sent'[r]) + Owed(r)' <= paid'
  BY <1>1, <1>4
<1>. QED  BY <1>1, <1>5 DEF Budgeted, paid

LEMMA OwedType == \A r : Owed(r) \in {0, 1, 2} /\ Owed(r)' \in {0, 1, 2}
BY DEF Owed

LEMMA BudgetStart ==
    ASSUME OInv, NEW r \in Requests, Budgeted(r), NEW c \in Conversations,
           Start(r, c)
    PROVE  Budgeted(r)'
<1>. DEFINE max == IF pool = {} THEN 1 ELSE Cardinality(pool)
            new == [NoCall EXCEPT !.prefix = c.prefix, !.turn = c.turn, !.max = max]
<1>1. max \in Nat /\ max >= 1
  BY FS_Subset, FS_CardinalityType, FS_EmptySet, ExecutionAssumption DEF OInv, TypeOK
<1>2. new.attempted = {} /\ new.max = max
  BY DEF NoCall
<1>3. call'[r] = new /\ pc'[r] = "list" /\ UNCHANGED sent /\ pc[r] = "new"
  BY DEF Start, Goto, OInv, TypeOK
<1>. HIDE DEF new, max
<1>4. /\ call'[r].attempted = {} /\ Tried(r)' = 0 /\ sent'[r] = <<>>
  BY <1>2, <1>3, FS_EmptySet DEF Tried, Budgeted
<1>5. Owed(r)' = 0
  BY <1>3 DEF Owed
<1>. QED  BY <1>1, <1>2, <1>3, <1>4, <1>5 DEF Budgeted, Extra

LEMMA OwnedAccount == OInv => \A q \in Requests : pc[q] = "send" => call[q].account \in Accounts
BY OwnerType DEF OInv, Owned

LEMMA BudgetGet ==
    ASSUME OInv, OInv', NEW r \in Requests, Budgeted(r),
           List(r) \/ Clean(r) \/ DeleteExpired(r) \/ Get(r)
    PROVE  Budgeted(r)'
<1>0. call[r] \in Call
  BY BudgetTypes DEF OInv
<1>1. /\ call'[r].attempted = call[r].attempted /\ call'[r].max = call[r].max
      /\ UNCHANGED sent
      /\ pc[r] \in {"list", "clean", "get", "expired"}
      /\ pc'[r] \in {"clean", "get", "expired", "send", "pick"}
  <2>1. CASE List(r) \/ Clean(r) \/ DeleteExpired(r)
    <3>1. PICK doomed \in SUBSET Contexts, place \in {"clean", "get", "pick"} :
              /\ call' = [call EXCEPT ![r] = [call[r] EXCEPT !.doomed = doomed]]
              /\ pc' = [pc EXCEPT ![r] = place]
      BY <2>1, Tidied
    <3>2. call'[r] = [call[r] EXCEPT !.doomed = doomed] /\ pc'[r] = place
      BY <3>1 DEF OInv, TypeOK
    <3>3. call'[r].attempted = call[r].attempted /\ call'[r].max = call[r].max
      BY <1>0, <3>2 DEF Call
    <3>. QED  BY <2>1, <3>2, <3>3, Tidied
  <2>2. CASE Get(r)
    <3>1. CASE call' = call /\ pc' \in {[pc EXCEPT ![r] = "expired"], [pc EXCEPT ![r] = "pick"]}
      BY <2>2, <3>1, Found DEF OInv, TypeOK
    <3>2. ASSUME NEW p \in Contexts, sessions[p] \in Session,
                 call' = [call EXCEPT ![r] = Into(r, sessions[p])],
                 pc' = [pc EXCEPT ![r] = "send"]
          PROVE  /\ call'[r].attempted = call[r].attempted /\ call'[r].max = call[r].max
                 /\ pc'[r] = "send"
      <4>1. call'[r] = Into(r, sessions[p]) /\ pc'[r] = "send"
        BY <3>2 DEF OInv, TypeOK
      <4>. QED  BY <3>2, <4>1, IntoIs, ZenonT(30)
    <3>. QED  BY <2>2, <3>1, <3>2, Found
  <2>. QED  BY <2>1, <2>2
<1>2. call'[r].attempted = {} /\ sent[r] = <<>> /\ sent'[r] = <<>> /\ pc'[r] # "new"
      /\ call[r].attempted = {} /\ call[r].max >= 1
  BY <1>1 DEF Budgeted
<1>3. Tried(r)' = 0 /\ Tried(r) = 0 /\ Len(sent[r]) = 0 /\ Len(sent'[r]) = 0
  BY <1>2, FS_EmptySet DEF Tried
<1>4. pc'[r] = "send" => call'[r].account \in Accounts
  <2>1. (OInv => \A q \in Requests : pc[q] = "send" => call[q].account \in Accounts)'
    BY OwnedAccount, PTL
  <2>. QED  BY <2>1
<1>5. Owed(r)' <= 1 + Extra(Accounts)
  BY <1>1, <1>4 DEF Owed, Extra
<1>6. Owed(r)' \in Nat /\ Extra(Accounts) \in Nat
  BY OwedType DEF Extra
<1>. QED  BY <1>1, <1>2, <1>3, <1>5, <1>6, BudgetTypes DEF Budgeted, Extra, OInv

LEMMA BudgetPick ==
    ASSUME OInv, NEW r \in Requests, Budgeted(r), Pick(r)
    PROVE  Budgeted(r)'
<1>1. PICK a \in pool \ call[r].attempted :
          call' = [call EXCEPT ![r].attempted = @ \cup {a}, ![r].account = a,
                               ![r].chat = None, ![r].mapped = None,
                               ![r].incremental = FALSE, ![r].refresh = TRUE]
  BY DEF Pick
<1>2. /\ call'[r].attempted = call[r].attempted \cup {a} /\ call'[r].account = a
      /\ call'[r].mapped = None /\ call'[r].max = call[r].max
  BY <1>1 DEF OInv, TypeOK, Call
<1>3. pc'[r] = "create" /\ pc[r] = "pick" /\ UNCHANGED sent /\ Tried(r) < call[r].max
  BY DEF Pick, Goto, Tried, OInv, TypeOK
<1>4. Tried(r)' = Tried(r) + 1
  BY <1>1, <1>2, BudgetTypes, FS_AddElement, ZenonT(30) DEF Tried, OInv
<1>5. Owed(r) = 0 /\ Owed(r)' \in {1, 2} /\ (Owed(r)' = 2 => a = Guest)
  BY <1>2, <1>3 DEF Owed
<1>. DEFINE e == Extra(call[r].attempted)
            f == Extra(call'[r].attempted)
            g == 1 + Extra(Accounts)
<1>6. e \in {0, 1} /\ f \in {0, 1} /\ g \in Nat /\ e <= f /\ (a = Guest => e = 0 /\ f = 1)
  <2>. DEFINE tried == call[r].attempted
  <2>1. call'[r].attempted = tried \cup {a} /\ a \notin tried
    BY <1>1, <1>2
  <2>2. f = Extra(tried \cup {a})
    BY <2>1
  <2>. HIDE DEF tried, f
  <2>3. f \in {0, 1} /\ Extra(tried) \in {0, 1} /\ Extra(tried) <= f
    BY <2>2 DEF Extra
  <2>4. a = Guest => Extra(tried) = 0 /\ f = 1
    BY <2>1, <2>2 DEF Extra
  <2>5. e = Extra(tried) /\ g \in Nat
    BY DEF tried, Extra
  <2>. QED  BY <2>3, <2>4, <2>5
<1>7. Budgeted(r)' <=> /\ Tried(r)' <= call'[r].max
                       /\ call'[r].max >= 1
                       /\ Len(sent'[r]) + Owed(r)' <= g + Tried(r)' + f
  BY <1>2, <1>3 DEF Budgeted, Extra
<1>8. Len(sent[r]) <= g + Tried(r) + e /\ call[r].max >= 1
  BY <1>3, <1>5, BudgetTypes DEF Budgeted, OInv
<1>. HIDE DEF e, f, g
<1>9. Len(sent[r]) + Owed(r)' <= g + Tried(r) + 1 + f
  <2>1. Len(sent[r]) \in Nat /\ Tried(r) \in Nat
    BY BudgetTypes DEF OInv
  <2>2. CASE Owed(r)' = 1
    BY <1>6, <1>8, <2>1, <2>2
  <2>3. CASE Owed(r)' = 2
    BY <1>5, <1>6, <1>8, <2>1, <2>3
  <2>. QED  BY <1>5, <2>2, <2>3
<1>10. Tried(r) + 1 <= call[r].max
  BY <1>3, BudgetTypes DEF OInv
<1>11. Tried(r)' <= call'[r].max /\ call'[r].max >= 1
  BY <1>2, <1>4, <1>8, <1>10
<1>12. Len(sent'[r]) + Owed(r)' <= g + Tried(r)' + f
  <2>1. g + Tried(r) + 1 + f = g + (Tried(r) + 1) + f
    BY <1>6, BudgetTypes DEF OInv
  <2>. QED  BY <1>3, <1>4, <1>9, <2>1
<1>. QED  BY <1>7, <1>11, <1>12

LEMMA BudgetFailure ==
    ASSUME OInv, OInv', NEW r \in Requests, Budgeted(r), CreateFails(r) \/ SendFails(r)
    PROVE  Budgeted(r)'
<1>0. call[r] \in Call /\ pc[r] \in {"create", "send"}
  BY BudgetTypes DEF OInv, CreateFails, SendFails
<1>1. Len(sent'[r]) \in Nat /\ Len(sent'[r]) <= Len(sent[r]) + 1
      /\ (pc[r] = "create" => Len(sent'[r]) = Len(sent[r]))
  <2>1. CASE CreateFails(r)
    BY <2>1, BudgetTypes DEF CreateFails, OInv
  <2>2. CASE SendFails(r)
    <3>1. sent'[r] = Append(sent[r], call[r].chat) /\ pc[r] = "send"
      BY <2>2 DEF SendFails, OInv, TypeOK
    <3>2. sent[r] \in Seq(ChatIds) /\ call[r].chat \in ChatIds
      BY <3>1, OwnerType DEF OInv, Owned, TypeOK
    <3>. QED  BY <3>1, <3>2
  <2>. QED  BY <2>1, <2>2
<1>2. CASE GuestRefreshed(r)
  <2>1. /\ call'[r].attempted = call[r].attempted /\ call'[r].max = call[r].max
        /\ call'[r].mapped = call[r].mapped /\ call'[r].refresh = FALSE
        /\ pc'[r] = "create" /\ call[r].refresh /\ call[r].account = Guest
    BY <1>0, <1>2 DEF GuestRefreshed, Goto, OInv, TypeOK, Call
  <2>2. Owed(r) = 2 /\ Owed(r)' = 1
    BY <1>0, <2>1 DEF Owed
  <2>. QED  BY <1>0, <1>1, <2>1, <2>2, BudgetKept, BudgetTypes DEF OInv
<1>3. ASSUME UNCHANGED call, pc'[r] \in {"pick", "failed"} PROVE Budgeted(r)'
  <2>1. Owed(r) \in {1, 2} /\ Owed(r)' = 0
    BY <1>0, <1>3 DEF Owed
  <2>. QED  BY <1>0, <1>1, <1>3, <2>1, BudgetKept, BudgetTypes DEF OInv
<1>4. CASE /\ call[r].mapped # None /\ pc'[r] = "pick"
           /\ call' = [call EXCEPT ![r].attempted = @ \cup {call[r].account}]
  <2>1. call[r].attempted = {} /\ Tried(r) = 0 /\ call[r].max >= 1
    BY <1>0, <1>4, FS_EmptySet DEF Budgeted, Tried
  <2>2. call'[r].attempted = {call[r].account} /\ call'[r].max = call[r].max
    BY <1>0, <1>4, <2>1 DEF OInv, TypeOK, Call
  <2>3. Tried(r)' = 1
    BY <2>2, FS_Singleton DEF Tried
  <2>4. Owed(r) \in {1, 2} /\ Owed(r)' = 0
    BY <1>0, <1>4 DEF Owed
  <2>5. Extra(call[r].attempted) = 0 /\ Extra(call[r].attempted)' \in {0, 1}
    BY <2>1 DEF Extra
  <2>6. Extra(Accounts) \in {0, 1} /\ Extra(Accounts)' = Extra(Accounts)
    BY DEF Extra
  <2>. QED  BY <1>1, <1>4, <2>1, <2>2, <2>3, <2>4, <2>5, <2>6, BudgetTypes DEF Budgeted, OInv
<1>5. \/ GuestRefreshed(r)
      \/ UNCHANGED call /\ pc'[r] \in {"pick", "failed"}
      \/ /\ call[r].mapped # None /\ pc'[r] = "pick"
         /\ call' = [call EXCEPT ![r].attempted = @ \cup {call[r].account}]
  BY DEF CreateFails, SendFails, Failed, MappedFailed, AttemptFailed, Goto, OInv, TypeOK
<1>. QED  BY <1>2, <1>3, <1>4, <1>5

LEMMA BudgetStep ==
    ASSUME OInv, OInv', NEW r \in Requests, Budgeted(r), Step(r)
    PROVE  Budgeted(r)'
<1>1. CASE Create(r)
  <2>1. /\ call'[r].attempted = call[r].attempted /\ call'[r].max = call[r].max
        /\ call'[r].mapped = call[r].mapped /\ call'[r].refresh = call[r].refresh
        /\ call'[r].account = call[r].account
        /\ pc'[r] = "send" /\ pc[r] = "create" /\ UNCHANGED sent
    BY <1>1 DEF Create, Goto, OInv, TypeOK, Call
  <2>2. Owed(r)' = Owed(r)
    BY <2>1 DEF Owed
  <2>. QED  BY <2>1, <2>2, BudgetKept, BudgetTypes, OwedType DEF OInv
<1>2. CASE Answer(r)
  <2>1. sent'[r] = Append(sent[r], call[r].chat) /\ pc[r] = "send" /\ pc'[r] = "save"
        /\ UNCHANGED call
    BY <1>2 DEF Answer, Goto, OInv, TypeOK
  <2>2. sent[r] \in Seq(ChatIds) /\ call[r].chat \in ChatIds
    BY <2>1, OwnerType DEF OInv, Owned, TypeOK
  <2>3. Len(sent'[r]) = Len(sent[r]) + 1
    BY <2>1, <2>2
  <2>4. Owed(r) \in {1, 2} /\ Owed(r)' = 0
    BY <2>1 DEF Owed
  <2>. QED  BY <2>1, <2>3, <2>4, BudgetKept, BudgetTypes DEF OInv
<1>3. CASE GiveUp(r) \/ Save(r) \/ Record(r)
  <2>1. /\ pc[r] \in {"pick", "save", "record"} /\ pc'[r] \in {"failed", "record", "done"}
        /\ UNCHANGED <<call, sent>>
    BY <1>3 DEF GiveUp, Save, Record, Goto, OInv, TypeOK
  <2>2. Owed(r) = 0 /\ Owed(r)' = 0
    BY <2>1 DEF Owed
  <2>. QED  BY <2>1, <2>2, BudgetKept, BudgetTypes DEF OInv
<1>. QED  BY <1>1, <1>2, <1>3, BudgetGet, BudgetPick, BudgetFailure DEF Step

LEMMA BudgetOthers ==
    ASSUME NEW r \in Requests, Budgeted(r),
           pc'[r] = pc[r], call'[r] = call[r], sent'[r] = sent[r]
    PROVE  Budgeted(r)'
<1>1. Tried(r)' = Tried(r) /\ Owed(r)' = Owed(r)
  BY DEF Tried, Owed
<1>. QED  BY <1>1 DEF Budgeted, Extra

\* A request asks for an answer at most once per account of its pool, once more in the
\* mapped chat and once more for each guest refresh, whatever fails and however the pool
\* changes meanwhile.
THEOREM BoundedWork == Spec => []WorkIsBounded
<1>. DEFINE AllBudgeted == \A r \in Requests : Budgeted(r)
<1>1. Init => AllBudgeted
  <2>. SUFFICES ASSUME Init, NEW r \in Requests PROVE Budgeted(r)
    OBVIOUS
  <2>1. /\ call[r].attempted = {} /\ call[r].max = 0 /\ sent[r] = <<>> /\ pc[r] = "new"
    BY DEF Init, NoCall
  <2>2. Tried(r) = 0 /\ Owed(r) = 0
    BY <2>1, FS_EmptySet DEF Tried, Owed
  <2>. QED  BY <2>1, <2>2 DEF Budgeted, Extra
<1>2. OInv /\ OInv' /\ AllBudgeted /\ [Next]_vars => AllBudgeted'
  <2>. SUFFICES ASSUME OInv, OInv', AllBudgeted, [Next]_vars, NEW r \in Requests
                PROVE  Budgeted(r)'
    OBVIOUS
  <2>1. ASSUME NEW q \in Requests, q # r,
               Step(q) \/ \E c \in Conversations : Start(q, c)
        PROVE  Budgeted(r)'
    BY <2>1, OthersUntouched, BudgetOthers
  <2>2. ASSUME Step(r) PROVE Budgeted(r)'
    BY <2>2, BudgetStep
  <2>3. ASSUME NEW c \in Conversations, Start(r, c) PROVE Budgeted(r)'
    BY <2>3, BudgetStart
  <2>4. CASE Surroundings \/ UNCHANGED vars
    BY <2>4, SurroundingsUntouched, BudgetOthers
  <2>. QED  BY <2>1, <2>2, <2>3, <2>4 DEF Next
<1>3. OInv /\ AllBudgeted => WorkIsBounded
  <2>. SUFFICES ASSUME OInv, AllBudgeted, NEW r \in Requests
                PROVE  Len(sent[r]) <= call[r].max + 1 + (IF Guest \in Accounts THEN 2 ELSE 0)
    BY DEF WorkIsBounded
  <2>1. Extra(call[r].attempted) <= Extra(Accounts)
    BY BudgetTypes DEF Extra, OInv
  <2>2. Extra(call[r].attempted) \in Nat /\ Owed(r) \in Nat
    BY OwedType DEF Extra
  <2>. QED  BY <2>1, <2>2, BudgetTypes, SMTT(30) DEF Budgeted, Extra, OInv
<1>. QED  BY <1>1, <1>2, <1>3, OwnedInit, OwnedStep, PTL DEF Spec

-----------------------------------------------------------------------------
(***************************************************************************)
(* Why a session names its conversation.  A chat begins with the prefix of *)
(* the request that gets its answer there: the session it was found in did *)
(* so, or it is new, and as long as nothing has been sent into a new chat  *)
(* nobody else knows of it.                                                *)
(***************************************************************************)
LEMMA BeginsMore ==
    ASSUME NEW s \in Seq(Turns), NEW m \in Seq(Turns), NEW p \in Seq(Turns), Begins(s, p)
    PROVE  Begins(s \o m, p)
BY DEF Begins

LEMMA BeginsWhole ==
    ASSUME NEW p \in Seq(Turns), NEW t \in Turns
    PROVE  Begins(<<>> \o Append(p, t), p)
BY DEF Begins

Names(q, id) == call[q].chat = id \/ call[q].mapped = id

Fresh(r) ==
    /\ chats[call[r].chat].turns = <<>>
    /\ \A p \in Contexts : sessions[p] # None => sessions[p].chat # call[r].chat
    /\ \A q \in Requests \ {r} : ~Names(q, call[r].chat)

Conversing(r) ==
    /\ call[r].chat # None => call[r].chat \in 1 .. Len(chats)
    /\ call[r].mapped # None => Begins(chats[call[r].mapped].turns, call[r].prefix)
    /\ pc[r] = "create" => ~call[r].incremental
    /\ pc[r] = "send" /\ ~call[r].incremental => Fresh(r)
    /\ (pc[r] = "send" /\ call[r].incremental) \/ pc[r] = "save" =>
           Begins(chats[call[r].chat].turns, call[r].prefix)

SessionsBegin ==
    \A p \in Contexts : sessions[p] # None => Begins(chats[sessions[p].chat].turns, p)

SInv == SessionsBegin /\ \A r \in Requests : Conversing(r)

\* Chats keep the beginning of their conversation.
Lengthened ==
    \A id \in 1 .. Len(chats) : \A p \in Contexts :
        Begins(chats[id].turns, p) => Begins(chats'[id].turns, p)

LEMMA SameConversations ==
    ASSUME TypeOK, UNCHANGED chats
    PROVE  Growing /\ Lengthened
BY UnchangedGrows DEF Lengthened

\* What a step of one request does to the others, and to the sessions.
LEMMA ConversationSteps ==
    ASSUME OInv, SInv, Growing, Lengthened, NEW r \in Requests,
           \A q \in Requests \ {r} : pc'[q] = pc[q] /\ call'[q] = call[q],
           \A id \in 1 .. Len(chats) :
               chats'[id].turns = chats[id].turns \/ (pc[r] = "send" /\ id = call[r].chat),
           \A p \in Contexts : sessions'[p] # None =>
               \/ sessions[p] # None /\ sessions'[p].chat = sessions[p].chat
               \/ pc[r] = "save" /\ p = call[r].prefix /\ sessions'[p].chat = SavedChat(call[r]),
           \A id \in 1 .. Len(chats) : Names(r, id)' =>
               \/ Names(r, id)
               \/ \E p \in Contexts : sessions[p] # None /\ sessions[p].chat = id,
           Conversing(r)'
    PROVE  SInv'
<1>1. ASSUME NEW p \in Contexts, sessions'[p] # None
      PROVE  Begins(chats'[sessions'[p].chat].turns, p)
  <2>1. CASE sessions[p] # None /\ sessions'[p].chat = sessions[p].chat
    <3>1. sessions[p].chat \in 1 .. Len(chats) /\ Begins(chats[sessions[p].chat].turns, p)
      BY <2>1 DEF OInv, Owned, Owns, SInv, SessionsBegin
    <3>. QED  BY <2>1, <3>1 DEF Lengthened
  <2>2. CASE pc[r] = "save" /\ p = call[r].prefix /\ sessions'[p].chat = SavedChat(call[r])
    <3>1. SavedChat(call[r]) \in 1 .. Len(chats)
      BY <2>2 DEF OInv, Owned, Owns, SavedChat
    <3>2. Begins(chats[SavedChat(call[r])].turns, p)
      BY <2>2 DEF SInv, Conversing, SavedChat
    <3>. QED  BY <2>2, <3>1, <3>2 DEF Lengthened
  <2>. QED  BY <1>1, <2>1, <2>2
<1>2. ASSUME NEW q \in Requests, q # r PROVE Conversing(q)'
  <2>1. pc'[q] = pc[q] /\ call'[q] = call[q] /\ Conversing(q)
    BY <1>2 DEF SInv
  <2>2. call[q].prefix \in Contexts /\ Len(chats) \in Nat /\ Len(chats') \in Nat
    BY DEF OInv, TypeOK, Call, Growing
  <2>3. call[q].chat # None => call[q].chat \in 1 .. Len(chats')
    BY <2>1, <2>2 DEF Conversing, Growing
  <2>4. call[q].mapped # None => Begins(chats'[call[q].mapped].turns, call[q].prefix)
    <3>1. call[q].mapped # None => call[q].mapped \in 1 .. Len(chats)
      BY DEF OInv, Owned, Owns
    <3>. QED  BY <2>1, <2>2, <3>1 DEF Conversing, Lengthened
  <2>5. pc[q] \in {"send", "save"} => call[q].chat \in 1 .. Len(chats)
    BY DEF OInv, Owned, Owns
  <2>6. (pc[q] = "send" /\ call[q].incremental) \/ pc[q] = "save" =>
            Begins(chats'[call[q].chat].turns, call[q].prefix)
    BY <2>1, <2>2, <2>5 DEF Conversing, Lengthened
  <2>7. ASSUME pc[q] = "send", ~call[q].incremental PROVE Fresh(q)'
    <3>. DEFINE id == call[q].chat
    <3>1. Fresh(q) /\ id \in 1 .. Len(chats)
      BY <2>1, <2>5, <2>7 DEF Conversing
    <3>2. ~Names(r, id) /\ call'[q].chat = id
      BY <1>2, <2>1, <3>1 DEF Fresh
    <3>3. chats'[id].turns = <<>>
      BY <3>1, <3>2 DEF Fresh, Names
    <3>4. ASSUME NEW p \in Contexts, sessions'[p] # None PROVE sessions'[p].chat # id
      BY <3>1, <3>2, <3>4 DEF Fresh, Names, SavedChat
    <3>5. ASSUME NEW o \in Requests \ {q} PROVE ~Names(o, id)'
      <4>1. CASE o = r
        BY <3>1, <3>2, <4>1 DEF Fresh
      <4>2. CASE o # r
        BY <3>1, <3>2, <4>2, <2>1 DEF Fresh, Names
      <4>. QED  BY <4>1, <4>2
    <3>. QED  BY <3>2, <3>3, <3>4, <3>5 DEF Fresh, Names
  <2>. QED  BY <2>1, <2>3, <2>4, <2>6, <2>7 DEF Conversing
<1>. QED  BY <1>1, <1>2 DEF SInv, SessionsBegin

LEMMA ConversationStarts ==
    ASSUME OInv, SInv, NEW r \in Requests, NEW c \in Conversations, Start(r, c)
    PROVE  SInv'
<1>. DEFINE max == IF pool = {} THEN 1 ELSE Cardinality(pool)
            new == [NoCall EXCEPT !.prefix = c.prefix, !.turn = c.turn, !.max = max]
<1>1. new.chat = None /\ new.mapped = None
  BY DEF NoCall
<1>2. call' = [call EXCEPT ![r] = new] /\ pc' = [pc EXCEPT ![r] = "list"]
      /\ UNCHANGED <<chats, sessions>>
  BY DEF Start, Goto
<1>. HIDE DEF new
<1>3. /\ call'[r].chat = None /\ call'[r].mapped = None /\ pc'[r] = "list"
      /\ \A q \in Requests \ {r} : pc'[q] = pc[q] /\ call'[q] = call[q]
  BY <1>1, <1>2 DEF OInv, TypeOK
<1>4. Conversing(r)' /\ \A id \in 1 .. Len(chats) : ~Names(r, id)'
  BY <1>3, ExecutionAssumption DEF Conversing, Names, OInv, TypeOK
<1>. QED  BY <1>2, <1>3, <1>4, SameConversations, ConversationSteps DEF OInv

\* The request finds the session of its prefix, or goes on without.
LEMMA ConversationFound ==
    ASSUME OInv, SInv, NEW r \in Requests, Get(r)
    PROVE  SInv'
<1>1. UNCHANGED <<chats, sessions>> /\ pc[r] = "get"
  BY Found
<1>2. \A q \in Requests \ {r} : pc'[q] = pc[q] /\ call'[q] = call[q]
  BY OthersUntouched DEF Step
<1>3. Conversing(r)' /\ \A id \in 1 .. Len(chats) : Names(r, id)' =>
               \/ Names(r, id)
               \/ \E p \in Contexts : sessions[p] # None /\ sessions[p].chat = id
  <2>1. CASE call' = call /\ pc' \in {[pc EXCEPT ![r] = "expired"], [pc EXCEPT ![r] = "pick"]}
    <3>1. call'[r] = call[r] /\ pc'[r] \in {"expired", "pick"}
      BY <2>1 DEF OInv, TypeOK
    <3>. QED  BY <1>1, <3>1 DEF SInv, Conversing, Names
  <2>2. ASSUME NEW p \in Contexts, p = call[r].prefix, sessions[p] # None,
               sessions[p] \in Session,
               call' = [call EXCEPT ![r] = Into(r, sessions[p])],
               pc' = [pc EXCEPT ![r] = "send"]
        PROVE  Conversing(r)' /\ \A id \in 1 .. Len(chats) : Names(r, id)' =>
                   \E o \in Contexts : sessions[o] # None /\ sessions[o].chat = id
    <3>1. call'[r] = Into(r, sessions[p]) /\ pc'[r] = "send"
      BY <2>2 DEF OInv, TypeOK
    <3>2. /\ call'[r].chat = sessions[p].chat /\ call'[r].mapped = sessions[p].chat
          /\ call'[r].incremental = TRUE /\ call'[r].prefix = p
      <4>. DEFINE c == Into(r, sessions[p])
      <4>1. /\ c.chat = sessions[p].chat /\ c.mapped = sessions[p].chat
            /\ c.incremental = TRUE /\ c.prefix = call[r].prefix
        BY <2>2, IntoIs
      <4>2. call'[r] = c
        BY <3>1
      <4>. HIDE DEF c
      <4>. QED  BY <2>2, <4>1, <4>2
    <3>3. sessions[p].chat \in 1 .. Len(chats) /\ Begins(chats[sessions[p].chat].turns, p)
      BY <2>2 DEF SInv, SessionsBegin, OInv, Owned, Owns
    <3>. QED  BY <1>1, <2>2, <3>1, <3>2, <3>3 DEF Conversing, Names
  <2>. QED  BY <2>1, <2>2, Found
<1>. QED  BY <1>1, <1>2, <1>3, SameConversations, ConversationSteps DEF OInv

\* Steps that send nothing and save nothing, and take no chat but those they have.
LEMMA ConversationWaits ==
    ASSUME OInv, SInv, NEW r \in Requests,
           List(r) \/ Clean(r) \/ DeleteExpired(r) \/ Pick(r) \/ GiveUp(r) \/ Record(r)
    PROVE  SInv'
<1>1. call[r] \in Call
  BY DEF OInv, TypeOK
<1>2. /\ UNCHANGED chats /\ \A p \in Contexts : sessions'[p] # None => sessions'[p] = sessions[p]
      /\ pc'[r] \in {"clean", "get", "pick", "create", "failed", "done"}
      /\ \A q \in Requests \ {r} : pc'[q] = pc[q] /\ call'[q] = call[q]
  <2>1. CASE List(r) \/ Clean(r) \/ DeleteExpired(r)
    BY <2>1, Tidied DEF OInv, TypeOK
  <2>2. CASE Pick(r) \/ GiveUp(r) \/ Record(r)
    BY <2>2, ZenonT(30) DEF Pick, GiveUp, Record, Goto, OInv, TypeOK
  <2>. QED  BY <2>1, <2>2
<1>3. /\ call'[r].prefix = call[r].prefix
      /\ call'[r].chat \in {None, call[r].chat} /\ call'[r].mapped \in {None, call[r].mapped}
      /\ pc'[r] = "create" => ~call'[r].incremental
  <2>1. CASE List(r) \/ Clean(r) \/ DeleteExpired(r)
    <3>1. PICK doomed \in SUBSET Contexts, place \in {"clean", "get", "pick"} :
              /\ call' = [call EXCEPT ![r] = [call[r] EXCEPT !.doomed = doomed]]
              /\ pc' = [pc EXCEPT ![r] = place]
      BY <2>1, Tidied
    <3>2. call'[r] = [call[r] EXCEPT !.doomed = doomed] /\ pc'[r] = place
      BY <3>1 DEF OInv, TypeOK
    <3>. QED  BY <1>1, <3>2 DEF Call
  <2>2. CASE Pick(r)
    <3>1. PICK a \in pool \ call[r].attempted :
              call' = [call EXCEPT ![r].attempted = @ \cup {a}, ![r].account = a,
                                   ![r].chat = None, ![r].mapped = None,
                                   ![r].incremental = FALSE, ![r].refresh = TRUE]
      BY <2>2 DEF Pick
    <3>. QED  BY <1>1, <3>1 DEF OInv, TypeOK, Call
  <2>3. CASE GiveUp(r) \/ Record(r)
    BY <2>3 DEF GiveUp, Record, Goto, OInv, TypeOK
  <2>. QED  BY <2>1, <2>2, <2>3
<1>4. Conversing(r)'
  BY <1>2, <1>3 DEF SInv, Conversing
<1>5. \A id \in 1 .. Len(chats) : Names(r, id)' => Names(r, id)
  BY <1>3, ExecutionAssumption DEF Names, OInv, TypeOK
<1>6. \A p \in Contexts : sessions'[p] # None =>
          sessions[p] # None /\ sessions'[p].chat = sessions[p].chat
  BY <1>2
<1>. QED  BY <1>2, <1>4, <1>5, <1>6, SameConversations, ConversationSteps DEF OInv

\* A new chat is empty, and nobody knows of it.
LEMMA ConversationOpened ==
    ASSUME OInv, SInv, NEW r \in Requests, Create(r)
    PROVE  SInv'
<1>. DEFINE chat == [owner |-> call[r].account, turns |-> <<>>, alive |-> TRUE]
            id == Len(chats) + 1
<1>1. chat \in Chat /\ chat.turns = <<>> /\ chats \in Seq(Chat) /\ id \in Nat
  BY DEF Create, OInv, Owned, TypeOK, Chat
<1>2. chats' = Append(chats, chat) /\ UNCHANGED sessions /\ pc[r] = "create"
      /\ \A q \in Requests \ {r} : pc'[q] = pc[q] /\ call'[q] = call[q]
  BY DEF Create, Goto, OInv, TypeOK
<1>3. /\ call'[r].chat = id /\ call'[r].mapped = call[r].mapped /\ pc'[r] = "send"
      /\ call'[r].prefix = call[r].prefix /\ call'[r].incremental = call[r].incremental
  BY DEF Create, Goto, OInv, TypeOK, Call
<1>. HIDE DEF chat
<1>4. /\ Len(chats') = id /\ chats'[id] = chat /\ Growing
      /\ \A i \in 1 .. Len(chats) : chats'[i] = chats[i]
  BY <1>1, <1>2, AppendChat, ExecutionAssumption DEF Create, Growing, OInv, TypeOK
<1>5. Lengthened
  BY <1>4 DEF Lengthened
<1>6. \A q \in Requests \ {r} : ~Names(q, id)
  <2>1. \A q \in Requests : call[q].chat # None => call[q].chat \in 1 .. Len(chats)
    BY DEF SInv, Conversing
  <2>2. \A q \in Requests : call[q].mapped # None => call[q].mapped \in 1 .. Len(chats)
    BY DEF OInv, Owned, Owns
  <2>. QED  BY <1>1, <2>1, <2>2, ExecutionAssumption DEF Names
<1>7. \A p \in Contexts : sessions[p] # None => sessions[p].chat # id
  BY <1>1 DEF OInv, Owned, Owns
<1>8. Fresh(r)'
  BY <1>1, <1>2, <1>3, <1>4, <1>6, <1>7 DEF Fresh, Names
<1>9. call[r].mapped # None => Begins(chats'[call[r].mapped].turns, call[r].prefix)
  BY <1>4 DEF SInv, Conversing, OInv, Owned, Owns
<1>10. Conversing(r)'
  <2>1. ~call[r].incremental
    BY <1>2 DEF SInv, Conversing
  <2>2. id \in 1 .. Len(chats')
    BY <1>1, <1>4
  <2>. QED  BY <1>3, <1>8, <1>9, <2>1, <2>2 DEF Conversing
<1>11. \A i \in 1 .. Len(chats) : Names(r, i)' => Names(r, i)
  BY <1>1, <1>3 DEF Names
<1>. QED  BY <1>2, <1>4, <1>5, <1>10, <1>11, ConversationSteps

LEMMA DeliverLengthens ==
    ASSUME OInv, NEW r \in Requests, call[r].chat \in 1 .. Len(chats), Deliver(r)
    PROVE  /\ Growing /\ Lengthened
           /\ chats'[call[r].chat].turns = chats[call[r].chat].turns \o Messages(call[r])
           /\ \A id \in 1 .. Len(chats) : id # call[r].chat => chats'[id] = chats[id]
<1>. DEFINE i == call[r].chat
            m == Messages(call[r])
            c == [chats[i] EXCEPT !.turns = @ \o m]
<1>1. chats[i] \in Chat /\ m \in Seq(Turns) /\ chats[i].turns \in Seq(Turns)
  <2>1. chats[i] \in Chat /\ call[r] \in Call
    BY DEF OInv, TypeOK
  <2>2. chats[i].turns \in Seq(Turns)
    BY <2>1 DEF Chat
  <2>. QED  BY <2>1, <2>2, MessagesType
<1>2. c.turns = chats[i].turns \o m
  BY <1>1 DEF Chat
<1>3. chats' = [chats EXCEPT ![i] = c]
  BY DEF Deliver
<1>. HIDE DEF c, m
<1>4. chats'[i] = c /\ \A id \in 1 .. Len(chats) : id # i => chats'[id] = chats[id]
  BY <1>3 DEF OInv, TypeOK
<1>5. ASSUME NEW id \in 1 .. Len(chats), NEW p \in Contexts, Begins(chats[id].turns, p)
      PROVE  Begins(chats'[id].turns, p)
  <2>1. CASE id = i
    BY <1>1, <1>2, <1>4, <1>5, <2>1, BeginsMore, ContextsAreSequences
  <2>2. CASE id # i
    BY <1>4, <1>5, <2>2
  <2>. QED  BY <2>1, <2>2
<1>6. Growing
  BY DeliverGrows DEF OInv
<1>. QED  BY <1>2, <1>4, <1>5, <1>6 DEF Lengthened, m

LEMMA ConversationAnswered ==
    ASSUME OInv, SInv, NEW r \in Requests, Answer(r)
    PROVE  SInv'
<1>. DEFINE id == call[r].chat
<1>1. call[r] \in Call /\ pc[r] = "send" /\ id \in 1 .. Len(chats) /\ Deliver(r)
  BY DEF Answer, OInv, Owned, Owns, TypeOK
<1>2. /\ Growing /\ Lengthened /\ chats'[id].turns = chats[id].turns \o Messages(call[r])
      /\ \A i \in 1 .. Len(chats) : i # id => chats'[i] = chats[i]
  BY <1>1, DeliverLengthens
<1>3. UNCHANGED <<sessions, call>> /\ pc'[r] = "save"
      /\ \A q \in Requests \ {r} : pc'[q] = pc[q] /\ call'[q] = call[q]
  BY DEF Answer, Goto, OInv, TypeOK
<1>4. call[r].prefix \in Contexts /\ call[r].prefix \in Seq(Turns) /\ call[r].turn \in Turns
  BY <1>1, ContextsAreSequences DEF Call
<1>5. Begins(chats'[id].turns, call[r].prefix)
  <2>1. CASE call[r].incremental
    BY <1>1, <1>2, <1>4, <2>1 DEF SInv, Conversing, Lengthened
  <2>2. CASE ~call[r].incremental
    <3>1. chats[id].turns = <<>>
      BY <1>1, <2>2 DEF SInv, Conversing, Fresh
    <3>2. Messages(call[r]) = Append(call[r].prefix, call[r].turn)
      BY <2>2 DEF Messages
    <3>. QED  BY <1>2, <1>4, <3>1, <3>2, BeginsWhole
  <2>. QED  BY <2>1, <2>2
<1>6. call[r].mapped # None => Begins(chats'[call[r].mapped].turns, call[r].prefix)
  BY <1>2, <1>4 DEF SInv, Conversing, OInv, Owned, Owns, Lengthened
<1>7. Len(chats') \in Nat /\ Len(chats) \in Nat /\ Len(chats') >= Len(chats)
  BY <1>2 DEF Growing, OInv, TypeOK
<1>8. Conversing(r)'
  BY <1>1, <1>3, <1>5, <1>6, <1>7 DEF Conversing
<1>9. \A i \in 1 .. Len(chats) : Names(r, i)' => Names(r, i)
  BY <1>3 DEF Names
<1>. QED  BY <1>1, <1>2, <1>3, <1>8, <1>9, ConversationSteps

LEMMA ConversationFails ==
    ASSUME OInv, SInv, NEW r \in Requests, CreateFails(r) \/ SendFails(r)
    PROVE  SInv'
<1>. DEFINE id == call[r].chat
<1>1. call[r] \in Call /\ pc[r] \in {"create", "send"} /\ Failed(r)
  BY DEF CreateFails, SendFails, OInv, TypeOK
<1>2. /\ Growing /\ Lengthened
      /\ \A i \in 1 .. Len(chats) :
            chats'[i].turns = chats[i].turns \/ (pc[r] = "send" /\ i = id)
  <2>1. CASE UNCHANGED chats
    BY <2>1, SameConversations DEF OInv
  <2>2. CASE pc[r] = "send" /\ Deliver(r)
    <3>1. id \in 1 .. Len(chats)
      BY <2>2 DEF OInv, Owned, Owns
    <3>. QED  BY <2>2, <3>1, DeliverLengthens
  <2>. QED  BY <2>1, <2>2 DEF CreateFails, SendFails
<1>3. \A p \in Contexts : sessions'[p] # None => sessions'[p] = sessions[p]
  BY <1>1, FailedCall
<1>4. \A q \in Requests \ {r} : pc'[q] = pc[q] /\ call'[q] = call[q]
  BY <1>1, FailedCall DEF OInv, TypeOK
<1>5. /\ call'[r].prefix = call[r].prefix /\ call'[r].mapped = call[r].mapped
      /\ call'[r].chat \in {None, call[r].chat}
      /\ pc'[r] \in {"create", "pick", "failed"}
      /\ pc'[r] = "create" => ~call'[r].incremental
  <2>1. CASE GuestRefreshed(r)
    BY <1>1, <2>1 DEF GuestRefreshed, Goto, OInv, TypeOK, Call
  <2>2. CASE MappedFailed(r)
    <3>1. ASSUME call' = [call EXCEPT ![r].attempted = @ \cup {call[r].account}]
          PROVE  /\ call'[r].prefix = call[r].prefix /\ call'[r].mapped = call[r].mapped
                 /\ call'[r].chat = call[r].chat
      BY <1>1, <3>1 DEF OInv, TypeOK, Call
    <3>. QED  BY <2>2, <3>1 DEF MappedFailed, Goto, OInv, TypeOK
  <2>3. CASE AttemptFailed(r)
    BY <2>3 DEF AttemptFailed, Goto, OInv, TypeOK
  <2>. QED  BY <1>1, <2>1, <2>2, <2>3 DEF Failed
<1>6. call[r].prefix \in Contexts
  BY <1>1 DEF Call
<1>7. call[r].mapped # None => Begins(chats'[call[r].mapped].turns, call[r].prefix)
  BY <1>2, <1>6 DEF SInv, Conversing, OInv, Owned, Owns, Lengthened
<1>8. Len(chats') \in Nat /\ Len(chats) \in Nat /\ Len(chats') >= Len(chats)
  BY <1>2 DEF Growing, OInv, TypeOK
<1>9. Conversing(r)'
  BY <1>5, <1>7, <1>8 DEF SInv, Conversing
<1>10. \A i \in 1 .. Len(chats) : Names(r, i)' => Names(r, i)
  BY <1>5, <1>8, ExecutionAssumption DEF Names
<1>11. \A p \in Contexts : sessions'[p] # None =>
           sessions[p] # None /\ sessions'[p].chat = sessions[p].chat
  BY <1>3
<1>. QED  BY <1>2, <1>4, <1>9, <1>10, <1>11, ConversationSteps

LEMMA ConversationSaved ==
    ASSUME OInv, SInv, NEW r \in Requests, Save(r)
    PROVE  SInv'
<1>. DEFINE s == [account |-> call[r].account, chat |-> SavedChat(call[r]), old |-> FALSE]
<1>1. /\ s.chat = SavedChat(call[r])
      /\ sessions' = [sessions EXCEPT ![call[r].prefix] = s] \/ UNCHANGED sessions
  BY DEF Save
<1>2. UNCHANGED <<chats, call>> /\ pc[r] = "save" /\ pc'[r] = "record"
      /\ \A q \in Requests \ {r} : pc'[q] = pc[q] /\ call'[q] = call[q]
  BY DEF Save, Goto, OInv, TypeOK
<1>. HIDE DEF s
<1>3. \A p \in Contexts : sessions'[p] # None =>
               \/ sessions[p] # None /\ sessions'[p].chat = sessions[p].chat
               \/ p = call[r].prefix /\ sessions'[p].chat = SavedChat(call[r])
  BY <1>1 DEF OInv, TypeOK
<1>4. Conversing(r)' /\ \A i \in 1 .. Len(chats) : Names(r, i)' => Names(r, i)
  BY <1>2 DEF SInv, Conversing, Names
<1>. QED  BY <1>2, <1>3, <1>4, SameConversations, ConversationSteps DEF OInv

LEMMA ConversationsOutlast ==
    ASSUME OInv, SInv, Surroundings \/ UNCHANGED vars
    PROVE  SInv'
<1>1. UNCHANGED <<pc, call>>
  BY SurroundingsUntouched
<1>2. Len(chats') = Len(chats) /\ \A id \in 1 .. Len(chats) : chats'[id].turns = chats[id].turns
  <2>1. ASSUME NEW i \in 1 .. Len(chats), RemoveChat(i)
        PROVE  Len(chats') = Len(chats)
               /\ \A id \in 1 .. Len(chats) : chats'[id].turns = chats[id].turns
    <3>. DEFINE c == [chats[i] EXCEPT !.alive = FALSE]
    <3>1. chats[i] \in Chat
      BY DEF OInv, TypeOK
    <3>2. c \in Chat /\ c.turns = chats[i].turns
      BY <3>1 DEF Chat
    <3>3. chats' = [chats EXCEPT ![i] = c]
      BY <2>1 DEF RemoveChat
    <3>. HIDE DEF c
    <3>. QED  BY <3>2, <3>3, ChatsChange DEF OInv, TypeOK
  <2>. QED  BY <2>1 DEF Surroundings, Expire, PoolChanges, vars
<1>3. \A p \in Contexts : sessions'[p] # None =>
          sessions[p] # None /\ sessions'[p].chat = sessions[p].chat
  <2>1. ASSUME NEW q \in Contexts, Expire(q), NEW p \in Contexts, sessions'[p] # None
        PROVE  sessions[p] # None /\ sessions'[p].chat = sessions[p].chat
    <3>1. sessions[q] \in Session /\ sessions' = [sessions EXCEPT ![q].old = TRUE]
      BY <2>1 DEF Expire, OInv, TypeOK
    <3>2. [sessions[q] EXCEPT !.old = TRUE].chat = sessions[q].chat
      BY <3>1 DEF Session
    <3>. QED  BY <2>1, <3>1, <3>2 DEF Expire, OInv, TypeOK
  <2>. QED  BY <2>1 DEF Surroundings, RemoveChat, PoolChanges, vars
<1>4. SessionsBegin'
  BY <1>2, <1>3 DEF SInv, SessionsBegin, OInv, Owned, Owns
<1>5. ASSUME NEW r \in Requests PROVE Conversing(r)'
  <2>1. Conversing(r) /\ call'[r] = call[r] /\ pc'[r] = pc[r]
    BY <1>1 DEF SInv
  <2>2. call[r].mapped # None => call[r].mapped \in 1 .. Len(chats)
    BY DEF OInv, Owned, Owns
  <2>3. pc[r] \in {"send", "save"} => call[r].chat \in 1 .. Len(chats)
    BY DEF OInv, Owned, Owns
  <2>4. Fresh(r) /\ pc[r] = "send" => Fresh(r)'
    BY <1>1, <1>2, <1>3, <2>3 DEF Fresh, Names
  <2>. QED  BY <1>2, <2>1, <2>2, <2>3, <2>4 DEF Conversing
<1>. QED  BY <1>4, <1>5 DEF SInv

LEMMA SessionsInit == Init => SInv
<1>. SUFFICES ASSUME Init PROVE SInv
  OBVIOUS
<1>1. ASSUME NEW r \in Requests PROVE Conversing(r)
  <2>1. call[r] = NoCall /\ pc[r] = "new" /\ NoCall.chat = None /\ NoCall.mapped = None
    BY DEF Init, NoCall
  <2>. QED  BY <2>1 DEF Conversing
<1>2. ASSUME NEW q \in Contexts, sessions[q] # None
      PROVE  Begins(chats[sessions[q].chat].turns, q)
  <2>1. Resumed
    BY <1>2 DEF Init
  <2>2. PICK a \in Accounts, c \in Conversations :
           /\ chats = <<[owner |-> a, turns |-> Append(c.prefix, c.turn), alive |-> TRUE]>>
           /\ sessions = [o \in Contexts |->
                 IF o = c.prefix THEN [account |-> a, chat |-> 1, old |-> FALSE] ELSE None]
    BY <2>1 DEF Init
  <2>3. q = c.prefix /\ sessions[q].chat = 1 /\ chats[1].turns = Append(c.prefix, c.turn)
    BY <1>2, <2>2
  <2>4. c.prefix \in Seq(Turns) /\ c.turn \in Turns
    BY ConversationType
  <2>5. Begins(Append(c.prefix, c.turn), c.prefix)
    BY <2>4 DEF Begins
  <2>. QED  BY <2>3, <2>5
<1>. QED  BY <1>1, <1>2 DEF SInv, SessionsBegin

\* A saved session names a chat of its own account that begins with the conversation the
\* session stands for, through every failover, refresh and race of two requests.  What comes
\* after that beginning may be the turns of several requests: the code lets two turns that
\* follow the same prefix into one chat.
THEOREM SessionsFollowTheirConversation == Spec => []SessionsNameTheirConversation
<1>1. OInv /\ SInv /\ [Next]_vars => SInv'
  <2>. SUFFICES ASSUME OInv, SInv, [Next]_vars PROVE SInv'
    OBVIOUS
  <2>1. ASSUME NEW r \in Requests, Step(r) PROVE SInv'
    BY <2>1, ConversationFound, ConversationWaits, ConversationOpened, ConversationAnswered,
       ConversationFails, ConversationSaved DEF Step
  <2>2. ASSUME NEW r \in Requests, NEW c \in Conversations, Start(r, c)
        PROVE  SInv'
    BY <2>2, ConversationStarts
  <2>. QED  BY <2>1, <2>2, ConversationsOutlast DEF Next
<1>2. OInv /\ SInv => SessionsNameTheirConversation
  BY DEF OInv, Owned, Owns, SInv, SessionsBegin, SessionsNameTheirConversation
<1>. QED  BY <1>1, <1>2, SessionsInit, OwnedInit, OwnedStep, PTL DEF Spec
=============================================================================
