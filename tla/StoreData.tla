----------------------------- MODULE StoreData -----------------------------
(***************************************************************************)
(* The contents of data/data.json (type FileData) and what each operation  *)
(* of the two store interfaces, AccountStore and ConversationStore, does   *)
(* to them.  Emails stand for their strings.EqualFold classes, a value for *)
(* everything else an account, a browser session or a conversation holds.  *)
(***************************************************************************)

CONSTANTS
    Emails,     \* account emails
    Hashes,     \* context hashes, the keys of conversation sessions
    Values,     \* payloads
    None,       \* absent entry
    Ok          \* the answer of a write

ASSUME NoneIsNoValue == None \notin Values

Entry == Values \cup {None}

Data == [accounts : [Emails -> Entry],
         browser  : Entry,
         sessions : [Hashes -> Entry]]

\* The file ensure() creates: FileData{Accounts: []Account{}}.
EmptyData == [accounts |-> [e \in Emails |-> None],
              browser  |-> None,
              sessions |-> [h \in Hashes |-> None]]

AccountWrites ==
    [op : {"SaveAccount"}, email : Emails, value : Values]
        \cup [op : {"DeleteAccount"}, email : Emails]
        \cup [op : {"SaveAllAccounts"}, accounts : [Emails -> Entry]]
        \cup [op : {"SaveBrowserSessions"}, value : Values]

AccountReads == [op : {"LoadAccounts", "LoadBrowserSessions"}]

ConversationWrites ==
    [op : {"SaveConversationSession"}, hash : Hashes, value : Values]
        \cup [op : {"DeleteConversationSession"}, hash : Hashes]

ConversationReads ==
    [op : {"GetConversationSession"}, hash : Hashes]
        \cup [op : {"ListConversationSessions"}]

Writes == AccountWrites \cup ConversationWrites
Reads == AccountReads \cup ConversationReads
AllRequests == Writes \cup Reads

\* The fileStore object a request is made on: main.go creates one for the
\* accounts and one for the conversations, over the same path.
Stores == {"account", "conversation"}

StoreOf(r) ==
    IF r.op \in {"SaveConversationSession", "DeleteConversationSession",
                 "GetConversationSession", "ListConversationSessions"}
    THEN "conversation" ELSE "account"

IsWrite(r) == r.op \notin {"LoadAccounts", "LoadBrowserSessions",
                           "GetConversationSession", "ListConversationSessions"}

\* What a request makes of the data it read.
Apply(r, d) ==
    CASE r.op = "SaveAccount" -> [d EXCEPT !.accounts[r.email] = r.value]
      [] r.op = "DeleteAccount" -> [d EXCEPT !.accounts[r.email] = None]
      [] r.op = "SaveAllAccounts" -> [d EXCEPT !.accounts = r.accounts]
      [] r.op = "SaveBrowserSessions" -> [d EXCEPT !.browser = r.value]
      [] r.op = "SaveConversationSession" -> [d EXCEPT !.sessions[r.hash] = r.value]
      [] r.op = "DeleteConversationSession" -> [d EXCEPT !.sessions[r.hash] = None]
      [] OTHER -> d

\* What a request answers when it finds the data d.
Answer(r, d) ==
    CASE r.op = "LoadAccounts" -> d.accounts
      [] r.op = "LoadBrowserSessions" -> d.browser
      [] r.op = "GetConversationSession" -> d.sessions[r.hash]
      [] r.op = "ListConversationSessions" -> d.sessions
      [] OTHER -> Ok
=============================================================================
