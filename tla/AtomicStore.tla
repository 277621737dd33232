---------------------------- MODULE AtomicStore ----------------------------
(***************************************************************************)
(* What the callers of storage.AccountStore and storage.ConversationStore  *)
(* rely on: a request takes effect at one instant between its call and its *)
(* return, or fails without effect; a restart of the process forgets the   *)
(* requests and keeps the data; nothing else changes the stored data.      *)
(* Once something has happened that the store is not made for, nothing is  *)
(* promised any more.                                                      *)
(***************************************************************************)
EXTENDS StoreData

CONSTANTS
    Callers, Requests,
    Failed      \* the answer of a request that failed

VARIABLES
    db,         \* the stored data
    pending,    \* pending[c]: the request c waits for, or None
    reply,      \* reply[c]: the answer c has got, or None
    sound       \* nothing has happened yet that the store is not made for

vars == <<db, pending, reply, sound>>

Init ==
    /\ db \in Data
    /\ pending = [c \in Callers |-> None]
    /\ reply = [c \in Callers |-> None]
    /\ sound = TRUE

Call(c, r) ==
    /\ pending[c] = None
    /\ pending' = [pending EXCEPT ![c] = r]
    /\ reply' = [reply EXCEPT ![c] = None]
    /\ UNCHANGED db

Perform(c) ==
    /\ pending[c] # None
    /\ db' = Apply(pending[c], db)
    /\ reply' = [reply EXCEPT ![c] = Answer(pending[c], db)]
    /\ pending' = [pending EXCEPT ![c] = None]

Fail(c) ==
    /\ pending[c] # None
    /\ reply' = [reply EXCEPT ![c] = Failed]
    /\ pending' = [pending EXCEPT ![c] = None]
    /\ UNCHANGED db

Restart ==
    /\ pending' = [c \in Callers |-> None]
    /\ reply' = [c \in Callers |-> None]
    /\ UNCHANGED db

Next ==
    \/ /\ sound /\ UNCHANGED sound
       /\ \/ \E c \in Callers : Perform(c) \/ Fail(c) \/ \E r \in Requests : Call(c, r)
          \/ Restart
    \/ sound' = FALSE

Spec == Init /\ [][Next]_vars
=============================================================================
