-------------------------- MODULE FileStore_proofs --------------------------
(***************************************************************************)
(* Type correctness, mutual exclusion and the absence of data loss of      *)
(* FileStore, that it implements AtomicStore, and that a broken file is    *)
(* left alone, for every set of callers, emails, hashes, values, requests  *)
(* and faults.                                                             *)
(***************************************************************************)
EXTENDS FileStore, TLAPS

LEMMA ApplyType ==
    ASSUME NEW r \in AllRequests, NEW d \in Data
    PROVE  Apply(r, d) \in Data
<1>1. CASE r \in AccountWrites
  BY <1>1 DEF AccountWrites, Apply, Data, Entry
<1>2. CASE r \in ConversationWrites
  BY <1>2 DEF ConversationWrites, Apply, Data, Entry
<1>3. CASE r \in AccountReads
  BY <1>3 DEF AccountReads, Apply
<1>4. CASE r \in ConversationReads
  BY <1>4 DEF ConversationReads, Apply
<1>. QED  BY <1>1, <1>2, <1>3, <1>4 DEF AllRequests, Writes, Reads

LEMMA EmptyDataType == EmptyData \in Data
BY DEF EmptyData, Data, Entry

LEMMA StoreOfType == \A r : StoreOf(r) \in Stores
BY DEF StoreOf, Stores

\* A caller inside a request has one, and it is a request.
Asked == \A c \in Callers : pc[c] # "idle" => req[c] \in Requests

\* A caller about to write has read the data it will write back, and one that has not begun
\* has none.
HasRead ==
    \A c \in Callers : /\ pc[c] \in {"truncate", "write"} => data[c] \in Data
                       /\ pc[c] \in {"idle", "lock"} => data[c] = None

TypeInv == TypeOK /\ Asked /\ HasRead

LEMMA TypeStep == TypeInv /\ [Next]_vars => TypeInv'
<1>. SUFFICES ASSUME TypeInv, [Next]_vars PROVE TypeInv'
  OBVIOUS
<1>. USE FileStoreAssumption, EmptyDataType, StoreOfType
     DEF TypeInv, TypeOK, Asked, HasRead, Places, Inside, Goto
<1>1. ASSUME NEW c \in Callers, NEW r \in Requests, Call(c, r) PROVE TypeInv'
  BY <1>1 DEF Call
<1>2. ASSUME NEW c \in Callers, Lock(c) PROVE TypeInv'
  BY <1>2 DEF Lock
<1>3. ASSUME NEW c \in Callers, Stat(c) PROVE TypeInv'
  BY <1>3 DEF Stat, Ensured
<1>4. ASSUME NEW c \in Callers, EnsureCreates(c) PROVE TypeInv'
  BY <1>4 DEF EnsureCreates, Truncate, NotData
<1>5. ASSUME NEW c \in Callers, EnsureFills(c) PROVE TypeInv'
  BY <1>5 DEF EnsureFills, Ensured, Written, NotData
<1>6. ASSUME NEW c \in Callers, Read(c) PROVE TypeInv'
  BY <1>6 DEF Read, Return
<1>7. ASSUME NEW c \in Callers, WriteTruncates(c) PROVE TypeInv'
  BY <1>7 DEF WriteTruncates, Truncate, NotData
<1>8. ASSUME NEW c \in Callers, WriteFills(c) PROVE TypeInv'
  <2>1. req[c] \in AllRequests /\ data[c] \in Data
    BY <1>8 DEF WriteFills
  <2>2. Apply(req[c], data[c]) \in Data /\ Apply(req[c], promised) \in Data
    BY <2>1, ApplyType
  <2>. QED  BY <1>8, <2>2 DEF WriteFills, Written, Return, NotData
<1>9. ASSUME NEW c \in Callers, IOError(c) PROVE TypeInv'
  BY <1>9 DEF IOError, Return, NotData
<1>10. CASE Crash
  BY <1>10 DEF Crash
<1>11. CASE UNCHANGED vars
  BY <1>11 DEF vars
<1>. QED  BY <1>1, <1>2, <1>3, <1>4, <1>5, <1>6, <1>7, <1>8, <1>9, <1>10, <1>11
          DEF Next, Steps

\* Every variable keeps its type.
THEOREM TypeCorrect == Spec => []TypeOK
<1>1. Init => TypeInv
  BY EmptyDataType, FileStoreAssumption
     DEF Init, TypeInv, TypeOK, Asked, HasRead, Places, Inside, Contents, NotData, Stores
<1>2. TypeInv => TypeOK
  BY DEF TypeInv
<1>. QED  BY <1>1, <1>2, TypeStep, PTL DEF Spec

-----------------------------------------------------------------------------
LEMMA LockStep == TypeInv /\ LockedByTheOneInside /\ [Next]_vars => LockedByTheOneInside'
<1>. SUFFICES ASSUME TypeInv, LockedByTheOneInside, [Next]_vars
              PROVE  LockedByTheOneInside'
  OBVIOUS
<1>. USE FileStoreAssumption, StoreOfType
     DEF TypeInv, TypeOK, Asked, Places, Inside, Goto, LockedByTheOneInside
<1>1. ASSUME NEW c \in Callers, NEW r \in Requests, Call(c, r)
      PROVE  LockedByTheOneInside'
  BY <1>1 DEF Call
<1>2. ASSUME NEW c \in Callers, Lock(c) PROVE LockedByTheOneInside'
  BY <1>2 DEF Lock
<1>3. ASSUME NEW c \in Callers, Stat(c) PROVE LockedByTheOneInside'
  BY <1>3 DEF Stat, Ensured
<1>4. ASSUME NEW c \in Callers, EnsureCreates(c) \/ WriteTruncates(c)
      PROVE  LockedByTheOneInside'
  BY <1>4 DEF EnsureCreates, WriteTruncates, Truncate
<1>5. ASSUME NEW c \in Callers, EnsureFills(c) PROVE LockedByTheOneInside'
  BY <1>5 DEF EnsureFills, Ensured
<1>6. ASSUME NEW c \in Callers, NEW answer, pc[c] \in Inside, Return(c, answer)
      PROVE  LockedByTheOneInside'
  BY <1>6 DEF Return
<1>7. ASSUME NEW c \in Callers, Read(c) PROVE LockedByTheOneInside'
  <2>1. ASSUME NEW answer, Return(c, answer) PROVE LockedByTheOneInside'
    BY <1>6, <1>7, <2>1 DEF Read
  <2>2. CASE Goto(c, "stat") /\ UNCHANGED <<lock, req>>
    BY <1>7, <2>2 DEF Read
  <2>. QED  BY <1>7, <2>1, <2>2 DEF Read
<1>8. ASSUME NEW c \in Callers, WriteFills(c) \/ IOError(c)
      PROVE  LockedByTheOneInside'
  BY <1>6, <1>8 DEF WriteFills, IOError
<1>9. CASE Crash
  BY <1>9 DEF Crash
<1>10. CASE UNCHANGED vars
  BY <1>10 DEF vars
<1>. QED  BY <1>1, <1>2, <1>3, <1>4, <1>5, <1>7, <1>8, <1>9, <1>10 DEF Next, Steps

\* A store's mutex is held exactly by the one caller inside a request on that store.
THEOREM MutualExclusion == Spec => []LockedByTheOneInside
<1>1. Init => TypeInv /\ LockedByTheOneInside
  BY EmptyDataType, FileStoreAssumption
     DEF Init, TypeInv, TypeOK, Asked, HasRead, Places, Inside, Contents, NotData,
         Stores, LockedByTheOneInside
<1>2. TypeInv /\ LockedByTheOneInside /\ [Next]_vars => (TypeInv /\ LockedByTheOneInside)'
  BY TypeStep, LockStep
<1>. QED  BY <1>1, <1>2, PTL DEF Spec

-----------------------------------------------------------------------------
(***************************************************************************)
(* Why nothing is lost unharmed.  Until two requests overlap there is at   *)
(* most one caller inside, so what the file holds is a function of where   *)
(* that caller is: the data answered for, except between a truncation and  *)
(* the bytes, when the caller has those data (or the default, if there     *)
(* was no file) in hand.                                                   *)
(***************************************************************************)
Alone == \A c, d \in Callers : pc[c] \in Inside /\ pc[d] \in Inside => c = d

Whole == disk \in Data \cup {Absent} /\ Contents(disk) = promised

InHand(c) ==
    /\ pc[c] = "create" => disk = Absent /\ data[c] = None
    /\ pc[c] = "fill" => disk = Empty /\ promised = EmptyData /\ data[c] = None
    /\ pc[c] = "stat" /\ data[c] # None => disk # Absent /\ data[c] = promised
    /\ pc[c] = "truncate" => data[c] = promised
    /\ pc[c] = "write" => disk = Empty /\ data[c] = promised
    /\ pc[c] \in Inside \ {"fill", "write"} => Whole

Benign ==
    /\ Alone
    /\ Quiet => Whole
    /\ \A c \in Callers : InHand(c)

Unharmed == harm = {} => Benign

LEMMA HarmStays == [Next]_vars => harm \subseteq harm'
<1>1. ASSUME NEW c \in Callers, NEW r \in Requests, Call(c, r) PROVE harm \subseteq harm'
  BY <1>1 DEF Call
<1>2. ASSUME NEW c \in Callers, Lock(c) PROVE harm \subseteq harm'
  BY <1>2 DEF Lock
<1>3. ASSUME NEW c \in Callers, Steps(c) PROVE harm \subseteq harm'
  BY <1>3 DEF Steps, Stat, EnsureCreates, EnsureFills, Read, WriteTruncates, WriteFills
<1>4. ASSUME NEW c \in Callers, IOError(c) PROVE harm \subseteq harm'
  BY <1>4 DEF IOError
<1>5. CASE Crash
  BY <1>5 DEF Crash
<1>. QED  BY <1>1, <1>2, <1>3, <1>4, <1>5 DEF Next, vars

IInv == TypeInv /\ LockedByTheOneInside /\ Unharmed

LEMMA UnharmedStep == IInv /\ [Next]_vars => Unharmed'
<1>. SUFFICES ASSUME IInv, [Next]_vars, harm' = {} PROVE Benign'
  BY DEF Unharmed
<1>0. harm = {}
  BY HarmStays
<1>. USE <1>0, FileStoreAssumption, EmptyDataType, StoreOfType
     DEF IInv, TypeInv, TypeOK, Asked, HasRead, Unharmed, Benign, Alone, Quiet, Whole, InHand,
         Inside, Goto, LockedByTheOneInside
<1>1. ASSUME NEW c \in Callers, NEW r \in Requests, Call(c, r) PROVE Benign'
  BY <1>1 DEF Call, Places, Contents
<1>2. ASSUME NEW c \in Callers, Lock(c) PROVE Benign'
  <2>1. \A s \in Stores : lock[s] = None
    BY <1>2 DEF Lock
  <2>2. Quiet
    BY <2>1
  <2>. QED  BY <1>2, <2>2 DEF Lock, Contents
<1>3. ASSUME NEW c \in Callers, Stat(c) PROVE Benign'
  BY <1>3 DEF Stat, Ensured, Contents, NotData
<1>4. ASSUME NEW c \in Callers, EnsureCreates(c) PROVE Benign'
  BY <1>4 DEF EnsureCreates, Truncate, Contents
<1>5. ASSUME NEW c \in Callers, EnsureFills(c) PROVE Benign'
  BY <1>5 DEF EnsureFills, Ensured, Written, Contents, NotData
<1>6. ASSUME NEW c \in Callers, Read(c) PROVE Benign'
  BY <1>6 DEF Read, Return, Contents, NotData
<1>7. ASSUME NEW c \in Callers, WriteTruncates(c) PROVE Benign'
  BY <1>7 DEF WriteTruncates, Truncate, Contents
<1>8. ASSUME NEW c \in Callers, WriteFills(c) PROVE Benign'
  <2>1. Apply(req[c], promised) \in Data
    BY <1>8, ApplyType DEF WriteFills
  <2>2. disk' = Apply(req[c], promised)
    BY <1>8 DEF WriteFills, Written
  <2>. QED  BY <1>8, <2>1, <2>2 DEF WriteFills, Return, Contents, NotData
<1>9. ASSUME NEW c \in Callers, IOError(c) PROVE Benign'
  BY <1>9 DEF IOError, Return, Contents
<1>10. CASE Crash
  BY <1>10 DEF Crash, Contents
<1>11. CASE UNCHANGED vars
  BY <1>11 DEF vars, Contents
<1>. QED  BY <1>1, <1>2, <1>3, <1>4, <1>5, <1>6, <1>7, <1>8, <1>9, <1>10, <1>11
          DEF Next, Steps

\* Data are lost only by an overlap of the two stores, an I/O failure or a crash
\* between a truncation and the bytes: never by requests on one store.
THEOREM NoLossUnharmed == Spec => []NothingLostUnharmed
<1>1. Init => IInv
  BY EmptyDataType, FileStoreAssumption
     DEF Init, IInv, TypeInv, TypeOK, Asked, HasRead, Places, Inside, Contents, NotData,
         Stores, LockedByTheOneInside, Unharmed, Benign, Alone, Quiet, Whole, InHand
<1>2. IInv /\ [Next]_vars => IInv'
  BY TypeStep, LockStep, UnharmedStep DEF IInv
<1>3. IInv => NothingLostUnharmed
  BY DEF IInv, Unharmed, Benign, NothingLostUnharmed, Whole
<1>. QED  BY <1>1, <1>2, <1>3, PTL DEF Spec

-----------------------------------------------------------------------------
(***************************************************************************)
(* Why the file store is atomic until harm is done: what a reader would    *)
(* find, were the writer inside done with the truncation, is what the      *)
(* answered writes amount to, so each step is the abstract one it answers  *)
(* with, or none.                                                          *)
(***************************************************************************)
Rested == \A c \in Callers : pc[c] = "idle" => req[c] = None

RInv == IInv /\ Rested

LEMMA RestedStep == TypeInv /\ Rested /\ [Next]_vars => Rested'
<1>. SUFFICES ASSUME TypeInv, Rested, [Next]_vars PROVE Rested'
  OBVIOUS
<1>. USE DEF TypeInv, TypeOK, Rested, Goto
<1>1. ASSUME NEW c \in Callers, NEW r \in Requests, Call(c, r) PROVE Rested'
  BY <1>1 DEF Call
<1>2. ASSUME NEW c \in Callers, Lock(c) PROVE Rested'
  BY <1>2 DEF Lock
<1>3. ASSUME NEW c \in Callers, Steps(c) PROVE Rested'
  BY <1>3 DEF Steps, Stat, Ensured, EnsureCreates, EnsureFills, Read, WriteTruncates,
              WriteFills, Truncate, Return
<1>4. ASSUME NEW c \in Callers, IOError(c) PROVE Rested'
  BY <1>4 DEF IOError, Return
<1>5. CASE Crash \/ UNCHANGED vars
  BY <1>5 DEF Crash, vars
<1>. QED  BY <1>1, <1>2, <1>3, <1>4, <1>5 DEF Next

LEMMA StoredIsPromised == TypeOK /\ Benign => StoredData = promised
<1>. SUFFICES ASSUME TypeOK, Benign PROVE StoredData = promised
  OBVIOUS
<1>1. CASE \E c \in Callers : pc[c] = "write"
  <2>1. OneInside \in Callers /\ pc[OneInside] = "write"
    BY <1>1 DEF OneInside
  <2>. QED  BY <1>1, <2>1 DEF Benign, InHand, StoredData
<1>2. CASE \E c \in Callers : pc[c] = "fill"
  <2>1. PICK c \in Callers : pc[c] = "fill"
    BY <1>2
  <2>2. disk = Empty /\ promised = EmptyData
    BY <2>1 DEF Benign, InHand
  <2>3. \A d \in Callers : pc[d] # "write"
    BY <2>1 DEF Benign, Alone, Inside
  <2>. QED  BY <2>2, <2>3 DEF StoredData
<1>3. CASE \A c \in Callers : pc[c] \notin {"fill", "write"}
  <2>1. Whole
    BY <1>3 DEF Benign, Quiet, InHand
  <2>2. disk # Empty
    BY <2>1, FileStoreAssumption DEF Whole, NotData
  <2>. QED  BY <1>3, <2>1, <2>2 DEF StoredData, Whole
<1>. QED  BY <1>1, <1>2, <1>3

LEMMA ReadsKeep == \A r, d : ~IsWrite(r) => Apply(r, d) = d
BY DEF IsWrite, Apply

\* The two copies of StoreData define the same operators.
LEMMA SameData ==
    /\ Atomic!Data = Data
    /\ \A r, d : Atomic!Apply(r, d) = Apply(r, d)
    /\ \A r, d : Atomic!Answer(r, d) = Answer(r, d)
BY DEF Atomic!Data, Data, Atomic!Entry, Entry, Atomic!Apply, Apply, Atomic!Answer, Answer

LEMMA AtomicStep == RInv /\ [Next]_vars /\ RInv' => [Atomic!Next]_(Atomic!vars)
<1>. SUFFICES ASSUME RInv, [Next]_vars, RInv', harm' = {}
              PROVE  [Atomic!Next]_(Atomic!vars)
  BY DEF Atomic!Next
<1>0. harm = {} /\ Benign
  BY HarmStays DEF RInv, IInv, Unharmed
<1>next. (TypeOK /\ Benign => StoredData = promised)'
  BY StoredIsPromised, PTL
<1>db. StoredData = promised /\ StoredData' = promised'
  BY <1>0, <1>next, StoredIsPromised DEF RInv, IInv, TypeInv, Unharmed
<1>. USE FileStoreAssumption
<1>stutter. ASSUME UNCHANGED <<promised, req, reply>> PROVE UNCHANGED Atomic!vars
  BY <1>stutter, <1>0, <1>db DEF Atomic!vars
<1>1. ASSUME NEW c \in Callers, NEW r \in Requests, Call(c, r) PROVE Atomic!Next
  <2>1. Atomic!Call(c, r)
    BY <1>1, <1>db DEF Call, Atomic!Call, RInv, Rested
  <2>. QED  BY <2>1, <1>0 DEF Atomic!Next
<1>2. ASSUME NEW c \in Callers,
             Lock(c) \/ Stat(c) \/ EnsureCreates(c) \/ EnsureFills(c) \/ WriteTruncates(c)
      PROVE  UNCHANGED Atomic!vars
  BY <1>2, <1>stutter DEF Lock, Stat, EnsureCreates, EnsureFills, WriteTruncates
<1>3. ASSUME NEW c \in Callers, pc[c] \in Inside PROVE req[c] # None
  BY <1>3 DEF RInv, IInv, TypeInv, Asked, Inside
<1>4. ASSUME NEW c \in Callers, Return(c, Failed), pc[c] \in Inside, UNCHANGED promised
      PROVE  Atomic!Next
  <2>1. Atomic!Fail(c)
    BY <1>3, <1>4, <1>db DEF Return, Atomic!Fail
  <2>. QED  BY <2>1, <1>0 DEF Atomic!Next
<1>5. ASSUME NEW c \in Callers, Return(c, Answer(req[c], promised)), pc[c] \in Inside,
             promised' = Apply(req[c], promised)
      PROVE  Atomic!Next
  <2>1. Atomic!Perform(c)
    BY <1>3, <1>5, <1>db, SameData DEF Return, Atomic!Perform
  <2>. QED  BY <2>1, <1>0 DEF Atomic!Next
<1>6. ASSUME NEW c \in Callers, Read(c) PROVE [Atomic!Next]_(Atomic!vars)
  <2>. pc[c] \in Inside /\ UNCHANGED promised
    BY <1>6 DEF Read, Inside
  <2>1. CASE Return(c, Failed)
    BY <1>4, <2>1
  <2>2. CASE disk \in Data /\ ~IsWrite(req[c]) /\ Return(c, Answer(req[c], disk))
    <3>1. disk = promised
      BY <1>0, <1>6, <2>2 DEF Benign, InHand, Whole, Contents, Read, Inside, NotData
    <3>. QED  BY <1>5, <2>2, <3>1, ReadsKeep
  <2>3. CASE UNCHANGED <<req, reply>>
    BY <1>stutter, <2>3
  <2>. QED  BY <1>6, <2>1, <2>2, <2>3 DEF Read
<1>7. ASSUME NEW c \in Callers, WriteFills(c) PROVE Atomic!Next
  <2>1. pc[c] \in Inside /\ data[c] = promised
    BY <1>0, <1>7 DEF WriteFills, Inside, Benign, InHand
  <2>. QED  BY <1>5, <1>7, <2>1 DEF WriteFills
<1>8. ASSUME NEW c \in Callers, IOError(c) PROVE Atomic!Next
  BY <1>4, <1>8 DEF IOError
<1>9. CASE Crash
  <2>1. Atomic!Restart
    BY <1>9, <1>db DEF Crash, Atomic!Restart
  <2>. QED  BY <2>1, <1>0 DEF Atomic!Next
<1>10. CASE UNCHANGED vars
  BY <1>10, <1>stutter DEF vars
<1>. QED  BY <1>1, <1>2, <1>6, <1>7, <1>8, <1>9, <1>10 DEF Next, Steps

LEMMA InvInit == Init => RInv
BY EmptyDataType, FileStoreAssumption
   DEF Init, RInv, Rested, IInv, TypeInv, TypeOK, Asked, HasRead, Places, Inside, Contents,
       NotData, Stores, LockedByTheOneInside, Unharmed, Benign, Alone, Quiet, Whole, InHand

\* fileStore implements the store its callers assume, with both stores in use, failing
\* requests and crashes, until two requests overlap or a write is broken off.
THEOREM Refinement == Spec => ImplementsAtomicStore
<1>1. Init => Atomic!Init
  <2>. SUFFICES ASSUME Init PROVE Atomic!Init
    OBVIOUS
  <2>1. StoredData = promised
    BY InvInit, StoredIsPromised DEF RInv, IInv, TypeInv, Unharmed, Init
  <2>2. promised \in Data
    BY InvInit DEF RInv, IInv, TypeInv, TypeOK
  <2>. QED  BY <2>1, <2>2, SameData DEF Init, Atomic!Init
<1>2. RInv /\ [Next]_vars => RInv'
  BY TypeStep, LockStep, UnharmedStep, RestedStep DEF RInv, IInv
<1>. QED  BY <1>1, <1>2, InvInit, AtomicStep, PTL DEF Spec, ImplementsAtomicStore, Atomic!Spec

-----------------------------------------------------------------------------
(***************************************************************************)
(* Why a broken file stays.  With nobody's data in hand and nobody about   *)
(* to create the file, only requests up to their read and the end of the   *)
(* process can take a step; the read of a file that does not parse fails.  *)
(***************************************************************************)
LEMMA BrokenStep ==
    ASSUME TypeInv, [Next]_vars, disk \in {Empty, Garbled},
           \A c \in Callers : data[c] = None /\ pc[c] \notin {"create", "fill"}
    PROVE  /\ UNCHANGED disk
           /\ \A c \in Callers : pc[c] = "read" /\ pc'[c] # "read" => pc'[c] = "idle"
<1>. DEFINE Kept == /\ UNCHANGED disk
                    /\ \A d \in Callers : pc[d] = "read" /\ pc'[d] # "read" => pc'[d] = "idle"
<1>. USE FileStoreAssumption DEF TypeInv, TypeOK, Goto
<1>1. disk \notin Data /\ \A c \in Callers : pc[c] \notin {"truncate", "write"}
  BY DEF NotData, HasRead
<1>2. ASSUME NEW c \in Callers, \E r \in Requests : Call(c, r) PROVE Kept
  BY <1>2 DEF Call
<1>3. ASSUME NEW c \in Callers, Lock(c) \/ Stat(c) PROVE Kept
  BY <1>3 DEF Lock, Stat
<1>4. ASSUME NEW c \in Callers, Read(c) PROVE Kept
  BY <1>1, <1>4 DEF Read, Return
<1>5. ASSUME NEW c \in Callers,
             EnsureCreates(c) \/ EnsureFills(c) \/ WriteTruncates(c) \/ WriteFills(c)
      PROVE  Kept
  <2>1. pc[c] \in {"create", "fill", "truncate", "write"}
    BY <1>5 DEF EnsureCreates, EnsureFills, WriteTruncates, WriteFills, Truncate
  <2>. QED  BY <1>1, <2>1
<1>6. ASSUME NEW c \in Callers, IOError(c) PROVE Kept
  BY <1>1, <1>6 DEF IOError, Return
<1>7. CASE Crash \/ UNCHANGED vars
  BY <1>7 DEF Crash, vars
<1>. QED  BY <1>2, <1>3, <1>4, <1>5, <1>6, <1>7 DEF Next, Steps

\* A file that does not parse is neither repaired nor replaced by a request that has to
\* read it.
THEOREM BrokenFileKept == Spec => BrokenFileStays
<1>. DEFINE Keeps ==
        /\ disk \in {Empty, Garbled}
        /\ \A c \in Callers : data[c] = None /\ pc[c] \notin {"create", "fill"}
        => /\ UNCHANGED disk
           /\ \A c \in Callers : pc[c] = "read" /\ pc'[c] # "read" => pc'[c] = "idle"
<1>1. TypeInv /\ [Next]_vars => [Keeps]_vars
  BY BrokenStep
<1>2. Init => TypeInv
  BY InvInit DEF RInv, IInv
<1>. QED  BY <1>1, <1>2, TypeStep, PTL DEF Spec, BrokenFileStays
=============================================================================
