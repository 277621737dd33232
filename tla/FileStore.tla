----------------------------- MODULE FileStore -----------------------------
(***************************************************************************)
(* fileStore (internal/storage): both stores of the process kept in the    *)
(* one file data/data.json.  A request locks the mutex of its own store    *)
(* object, reads the whole file, and a write truncates the file and writes *)
(* it again.  NewAccountStore and NewConversationStore each build a        *)
(* fileStore over that path, so nothing orders a request on one store with *)
(* a request on the other.                                                 *)
(***************************************************************************)
EXTENDS StoreData

CONSTANTS
    Callers,    \* goroutines
    Requests,   \* the requests made, a subset of AllRequests
    Faults,     \* the faults that may happen, a subset of {"io", "crash"}
    Absent,     \* the file does not exist
    Empty,      \* the file has been truncated
    Garbled,    \* the file holds bytes that do not parse
    Failed      \* a request's error answer

NotData == {Absent, Empty, Garbled}

ASSUME FileStoreAssumption ==
    /\ Requests \subseteq AllRequests
    /\ None \notin AllRequests
    /\ None \notin Callers
    /\ NotData \cap Data = {} /\ None \notin Data
    /\ Absent # Empty /\ Absent # Garbled /\ Empty # Garbled
    /\ Faults \subseteq {"io", "crash"}

VARIABLES
    disk,       \* contents of data/data.json
    lock,       \* lock[s]: the caller that holds the mutex of store s, or None
    pc,         \* pc[c]: where c is in its request
    req,        \* req[c]: c's request, or None
    data,       \* data[c]: the FileData c is to write back, or None until it has read
    reply,      \* reply[c]: the answer c has got, or None
    promised,   \* history: what all the writes answered Ok amount to
    harm        \* history: the kinds of event that can destroy data, so far

vars == <<disk, lock, pc, req, data, reply, promised, harm>>

Inside == {"stat", "create", "fill", "read", "truncate", "write"}
Places == {"idle", "lock"} \cup Inside

TypeOK ==
    /\ disk \in Data \cup NotData
    /\ lock \in [Stores -> Callers \cup {None}]
    /\ pc \in [Callers -> Places]
    /\ req \in [Callers -> Requests \cup {None}]
    /\ data \in [Callers -> Data \cup {None}]
    /\ promised \in Data
    /\ harm \subseteq {"overlap", "io", "crash"}

\* What a reader of the file would find; a missing file is created empty.
Contents(d) == IF d = Absent THEN EmptyData ELSE d

Init ==
    /\ disk \in {Absent} \cup Data
    /\ lock = [s \in Stores |-> None]
    /\ pc = [c \in Callers |-> "idle"]
    /\ req = [c \in Callers |-> None]
    /\ data = [c \in Callers |-> None]
    /\ reply = [c \in Callers |-> None]
    /\ promised = Contents(disk)
    /\ harm = {}

Goto(c, place) == pc' = [pc EXCEPT ![c] = place]

Call(c, r) ==
    /\ pc[c] = "idle"
    /\ Goto(c, "lock")
    /\ req' = [req EXCEPT ![c] = r]
    /\ reply' = [reply EXCEPT ![c] = None]
    /\ UNCHANGED <<disk, lock, data, promised, harm>>

\* Mutant: the mutex is not waited for.
LockAnyway(c) ==
    /\ pc[c] = "lock"
    /\ lock' = [lock EXCEPT ![StoreOf(req[c])] = c]
    /\ harm' = IF \E s \in Stores : lock[s] # None THEN harm \cup {"overlap"} ELSE harm
    /\ Goto(c, "stat")
    /\ UNCHANGED <<disk, req, data, reply, promised>>

\* s.mu.Lock().  The other store's mutex does not matter: that is an overlap.
Lock(c) ==
    /\ pc[c] = "lock"
    /\ lock[StoreOf(req[c])] = None
    /\ lock' = [lock EXCEPT ![StoreOf(req[c])] = c]
    /\ harm' = IF \E s \in Stores : lock[s] # None THEN harm \cup {"overlap"} ELSE harm
    /\ Goto(c, "stat")
    /\ UNCHANGED <<disk, req, data, reply, promised>>

\* The deferred Unlock and the answer.
Return(c, answer) ==
    /\ lock' = [lock EXCEPT ![StoreOf(req[c])] = None]
    /\ reply' = [reply EXCEPT ![c] = answer]
    /\ req' = [req EXCEPT ![c] = None]
    /\ data' = [data EXCEPT ![c] = None]
    /\ Goto(c, "idle")

\* ensure() is called by read(), and once more by write() with the data in hand.
Ensured(c) == IF data[c] = None THEN "read" ELSE "truncate"

\* Mutant: ensure() writes the default file whether or not there is one.
StatCreatesAlways(c) ==
    /\ pc[c] = "stat"
    /\ Goto(c, "create")
    /\ UNCHANGED <<disk, lock, req, data, reply, promised, harm>>

\* ensure(): os.Stat decides whether the default file has to be written.  Any
\* failure of it counts as a missing file.
Stat(c) ==
    /\ pc[c] = "stat"
    /\ \/ /\ Goto(c, IF disk = Absent THEN "create" ELSE Ensured(c))
          /\ UNCHANGED harm
       \/ /\ "io" \in Faults
          /\ Goto(c, "create")
          /\ harm' = harm \cup {"io"}
    /\ UNCHANGED <<disk, lock, req, data, reply, promised>>

\* os.WriteFile opens with O_TRUNC ...
Truncate(c, from, to) ==
    /\ pc[c] = from
    /\ disk' = Empty
    /\ Goto(c, to)

\* Every entry of d is the same in e, so that d takes no more bytes than e.
Within(d, e) ==
    /\ \A x \in Emails : d.accounts[x] \in {None, e.accounts[x]}
    /\ d.browser \in {None, e.browser}
    /\ \A h \in Hashes : d.sessions[h] \in {None, e.sessions[h]}

\* ... and then writes from offset 0: over what another writer has put there since, the
\* shorter leaves a tail of the longer, which does not parse.
Written(d) ==
    IF disk = Empty \/ (disk \in Data /\ Within(disk, d)) THEN {d}
    ELSE IF disk \in Data /\ Within(d, disk) THEN {Garbled}
    ELSE {d, Garbled}

EnsureCreates(c) ==
    /\ Truncate(c, "create", "fill")
    /\ UNCHANGED <<lock, req, data, reply, promised, harm>>

EnsureFills(c) ==
    /\ pc[c] = "fill"
    /\ disk' \in Written(EmptyData)
    /\ Goto(c, Ensured(c))
    /\ UNCHANGED <<lock, req, data, reply, promised, harm>>

\* Mutant: a write goes on with an empty file when the file does not parse.
ReadStartsAfresh(c) ==
    /\ pc[c] = "read"
    /\ IF IsWrite(req[c])
       THEN /\ data' = [data EXCEPT ![c] = IF disk \in Data THEN disk ELSE EmptyData]
            /\ Goto(c, "stat")
            /\ UNCHANGED <<lock, req, reply>>
       ELSE Return(c, IF disk \in Data THEN Answer(req[c], disk) ELSE Failed)
    /\ UNCHANGED <<disk, promised, harm>>

\* Mutant: a write ignores that the file does not parse.
ReadIgnoresErrors(c) ==
    /\ pc[c] = "read"
    /\ IF IsWrite(req[c])
       THEN /\ data' = [data EXCEPT ![c] = disk]
            /\ Goto(c, "stat")
            /\ UNCHANGED <<lock, req, reply>>
       ELSE Return(c, IF disk \in Data THEN Answer(req[c], disk) ELSE Failed)
    /\ UNCHANGED <<disk, promised, harm>>

\* os.ReadFile and json.Unmarshal: a file that does not parse fails the request,
\* a read answers and a write goes on with what it has read, into write().
Read(c) ==
    /\ pc[c] = "read"
    /\ \/ /\ disk \notin Data
          /\ Return(c, Failed)
       \/ /\ disk \in Data /\ ~IsWrite(req[c])
          /\ Return(c, Answer(req[c], disk))
       \/ /\ disk \in Data /\ IsWrite(req[c])
          /\ data' = [data EXCEPT ![c] = disk]
          /\ Goto(c, "stat")
          /\ UNCHANGED <<lock, req, reply>>
    /\ UNCHANGED <<disk, promised, harm>>

\* write(), after its ensure(): os.WriteFile.
WriteTruncates(c) ==
    /\ Truncate(c, "truncate", "write")
    /\ UNCHANGED <<lock, req, data, reply, promised, harm>>

\* Mutant: the data read are written back without the change.
WriteFillsUnchanged(c) ==
    /\ pc[c] = "write"
    /\ disk' \in Written(data[c])
    /\ promised' = Apply(req[c], promised)
    /\ Return(c, Answer(req[c], data[c]))
    /\ UNCHANGED harm

WriteFills(c) ==
    /\ pc[c] = "write"
    /\ disk' \in Written(Apply(req[c], data[c]))
    /\ promised' = Apply(req[c], promised)
    /\ Return(c, Answer(req[c], data[c]))
    /\ UNCHANGED harm

\* A system call fails.  After the truncation, part of the bytes may be written.
IOError(c) ==
    /\ "io" \in Faults
    /\ pc[c] \in Inside
    /\ IF pc[c] \in {"fill", "write"}
       THEN disk' \in {disk, Garbled} /\ harm' = harm \cup {"io"}
       ELSE UNCHANGED <<disk, harm>>
    /\ Return(c, Failed)
    /\ UNCHANGED promised

\* The process dies and is started again; what the file holds is all that stays.
Crash ==
    /\ "crash" \in Faults
    /\ harm' = IF \E c \in Callers : pc[c] \in {"fill", "write"}
               THEN harm \cup {"crash"} ELSE harm
    /\ lock' = [s \in Stores |-> None]
    /\ pc' = [c \in Callers |-> "idle"]
    /\ req' = [c \in Callers |-> None]
    /\ data' = [c \in Callers |-> None]
    /\ reply' = [c \in Callers |-> None]
    /\ UNCHANGED <<disk, promised>>

Steps(c) ==
    \/ Stat(c) \/ EnsureCreates(c) \/ EnsureFills(c)
    \/ Read(c) \/ WriteTruncates(c) \/ WriteFills(c)

Next ==
    \/ \E c \in Callers :
          \/ \E r \in Requests : Call(c, r)
          \/ Lock(c)
          \/ Steps(c)
          \/ IOError(c)
    \/ Crash

Spec == Init /\ [][Next]_vars
-----------------------------------------------------------------------------
\* A mutex is held exactly by a caller inside a request on its store: two requests
\* on one store never run together, and none leaves its mutex locked.
LockedByTheOneInside ==
    /\ \A c \in Callers : pc[c] \in Inside => lock[StoreOf(req[c])] = c
    /\ \A s \in Stores : \A c \in Callers :
          lock[s] = c => pc[c] \in Inside /\ StoreOf(req[c]) = s

Quiet == \A c \in Callers : pc[c] \notin Inside

\* As long as no request on one store overlapped a request on the other, no write
\* failed after its truncation and no crash hit between a truncation and the bytes,
\* the file holds, whenever nobody is inside, what the answered writes amount to.
NothingLostUnharmed == harm = {} /\ Quiet => Contents(disk) = promised

\* What CONFIGURATION.md and .env.example say of DATA_SAVE_MODE=file: data/data.json
\* keeps the accounts.  When nobody is inside a request and the file parses, an account
\* whose save was acknowledged, and which no later request changed, is in it.
SavedAccountsAreKept ==
    Quiet /\ disk \in Data =>
        \A e \in Emails : promised.accounts[e] # None =>
                              disk.accounts[e] = promised.accounts[e]

\* A file that does not parse is never written over by a request that reads it: once
\* nobody has data to write back or creates the file, a request that reaches its read
\* fails and the file stays as it is.  Nothing repairs it, and nothing replaces it by an
\* empty pool either.
BrokenFileStays ==
    [][ /\ disk \in {Empty, Garbled}
        /\ \A c \in Callers : data[c] = None /\ pc[c] \notin {"create", "fill"}
        => /\ UNCHANGED disk
           /\ \A c \in Callers : pc[c] = "read" /\ pc'[c] # "read" => pc'[c] = "idle" ]_vars

\* While nothing has harmed the data the truncated file is never seen by another request:
\* the data are those of the one writer inside, or those ensure() is about to write.
OneInside == CHOOSE c \in Callers : pc[c] = "write"

StoredData == IF \E c \in Callers : pc[c] = "write" THEN data[OneInside]
              ELSE IF disk = Empty THEN EmptyData ELSE Contents(disk)

Atomic == INSTANCE AtomicStore WITH
              db <- StoredData, pending <- req, sound <- (harm = {})

\* The file store implements the atomic store its callers assume, for both stores, with
\* failing requests and restarts, until one of the three kinds of harm has happened.
ImplementsAtomicStore == Atomic!Spec
=============================================================================
