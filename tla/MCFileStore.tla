---------------------------- MODULE MCFileStore ----------------------------
(* Instances of FileStore for TLC. *)
EXTENDS FileStore, TLC

CONSTANTS e1, h1, v1

\* Every operation of the two stores, on one email and one hash.
OneOfEach ==
    AccountReads \cup ConversationReads
        \cup [op : {"SaveAccount"}, email : {e1}, value : {v1}]
        \cup [op : {"DeleteAccount"}, email : {e1}]
        \cup [op : {"SaveAllAccounts"}, accounts : {[e \in Emails |-> v1]}]
        \cup [op : {"SaveBrowserSessions"}, value : {v1}]
        \cup [op : {"SaveConversationSession"}, hash : {h1}, value : {v1}]
        \cup [op : {"DeleteConversationSession"}, hash : {h1}]

\* A write on either store.
MixedRequests ==
    [op : {"SaveAccount"}, email : {e1}, value : {v1}]
        \cup [op : {"SaveConversationSession"}, hash : {h1}, value : {v1}]

Symmetry == Permutations(Callers)
=============================================================================
