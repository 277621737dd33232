-------------------------- MODULE ChatCleanup_proofs --------------------------
(***************************************************************************)
(* What the cleanup may delete, what the tracker remembers and how far a   *)
(* listing goes, for every finite set of chats, every set of accounts, mode *)
(* and page size.                                                          *)
(***************************************************************************)
EXTENDS ChatCleanup, FiniteSetTheorems, TLAPS

Typed ==
    /\ owner \in [Chats -> Accounts \cup {None}]
    /\ usages \in [Chats -> Ages \cup {None}]
    /\ alive \subseteq Chats /\ answered \subseteq Chats /\ recorded \subseteq Chats
    /\ todo \subseteq Chats /\ program \subseteq Chats

\* Only a chat that has been created is answered, recorded or on record; the owner it
\* got then stays.
Known ==
    /\ \A c \in program \cup answered \cup recorded : owner[c] # None
    /\ \A c \in Chats : usages[c] # None => c \in recorded

\* Where the cleanup is: mode 1 looks at recorded chats and forgets one that is gone,
\* mode 2 lists an account that is not the guest and looks at its chats.
Place ==
    /\ phase \in {"usages", "forget"} => todo \subseteq recorded
    /\ phase = "forget" => current \in Chats \ alive /\ owner[current] # None
    /\ Guest \notin accs /\ accs \subseteq Accounts
    /\ phase \in {"list", "page"} => current \in Accounts \ {Guest}
    /\ phase = "page" => \A c \in todo : owner[c] = current

IInv == Typed /\ Known /\ Place /\ TrackedWhileAlive

LEMMA UseStep == IInv /\ Use => IInv'
<1>. SUFFICES ASSUME IInv, Use PROVE IInv'
  OBVIOUS
<1>. USE CleanupAssumption DEF IInv, Typed, Known, Place, TrackedWhileAlive, cleaner, upstream, Ages
<1>1. ASSUME NEW c \in Chats, NEW a \in Accounts, NEW how, CreateChat(c, a, how)
      PROVE  IInv'
  <2>1. /\ owner[c] = None /\ owner' = [owner EXCEPT ![c] = a] /\ a # None
        /\ alive' = alive \cup {c}
        /\ answered' \in {answered, answered \cup {c}}
        /\ program' \in {program, program \cup {c}}
        /\ UNCHANGED <<usages, cleaner, recorded>>
    BY <1>1 DEF CreateChat
  <2>2. Typed' /\ Known'
    BY <2>1
  <2>3. Place'
    BY <2>1
  <2>4. TrackedWhileAlive'
    BY <2>1
  <2>. QED  BY <2>2, <2>3, <2>4 DEF IInv
<1>2. ASSUME NEW c \in Chats, UseChat(c) PROVE IInv'
  BY <1>2 DEF UseChat
<1>3. ASSUME NEW c \in Chats, RecordChatUsage(c) PROVE IInv'
  BY <1>3 DEF RecordChatUsage
<1>4. ASSUME NEW c \in Chats, ChatAges(c) \/ UsageAges(c) PROVE IInv'
  BY <1>4 DEF ChatAges, UsageAges
<1>. QED  BY <1>1, <1>2, <1>3, <1>4 DEF Use

LEMMA CleanupStep == IInv /\ Cleanup => IInv'
<1>. SUFFICES ASSUME IInv, Cleanup PROVE IInv'
  OBVIOUS
<1>. USE CleanupAssumption DEF IInv, Typed, Known, Place, TrackedWhileAlive, upstream, Ages
<1>1. CASE ListUsages \/ UsagesDone
  BY <1>1 DEF ListUsages, UsagesDone
<1>2. CASE DeleteChatUsage
  BY <1>2 DEF DeleteChatUsage
<1>3. ASSUME NEW c \in Chats, ForgetGuestChat(c) PROVE IInv'
  BY <1>3 DEF ForgetGuestChat
<1>4. ASSUME NEW c \in Chats, DeleteUsedChat(c) PROVE IInv'
  BY <1>4 DEF DeleteUsedChat, Deleted
<1>5. ASSUME NEW c \in Chats, KeepUsage(c) PROVE IInv'
  BY <1>5 DEF KeepUsage, DeleteFails
<1>6. CASE ListAccounts \/ AccountsDone
  BY <1>6 DEF ListAccounts, AccountsDone
<1>7. ASSUME NEW a \in Accounts, NextAccount(a) PROVE IInv'
  BY <1>7 DEF NextAccount
<1>8. CASE ListChats
  BY <1>8 DEF ListChats, Page
<1>9. CASE NextPage \/ ListingEnds
  BY <1>9 DEF NextPage, ListingEnds
<1>10. ASSUME NEW c \in Chats, DeleteListedChat(c) PROVE IInv'
  BY <1>10 DEF DeleteListedChat, Deleted, DeleteFails
<1>. QED  BY <1>1, <1>2, <1>3, <1>4, <1>5, <1>6, <1>7, <1>8, <1>9, <1>10 DEF Cleanup

LEMMA InvStep == IInv /\ [Next]_vars => IInv'
<1>1. IInv /\ Restart => IInv'
  BY CleanupAssumption
     DEF Restart, IInv, Typed, Known, Place, TrackedWhileAlive, upstream, Ages
<1>2. IInv /\ UNCHANGED vars => IInv'
  BY DEF vars, IInv, Typed, Known, Place, TrackedWhileAlive
<1>. QED  BY <1>1, <1>2, UseStep, CleanupStep DEF Next

LEMMA InvInit == Init => IInv
BY CleanupAssumption DEF Init, IInv, Typed, Known, Place, TrackedWhileAlive, Ages

\* A recorded chat that is not the guest's stays on record as long as it exists,
\* whichever deletions fail and whatever requests do meanwhile.
THEOREM TrackerKeepsLivingChats == Spec => []TrackedWhileAlive
<1>1. IInv => TrackedWhileAlive
  BY DEF IInv
<1>. QED  BY <1>1, InvInit, InvStep, PTL DEF Spec

\* The chats a step takes away from upstream.
LEMMA OnlyCleanupDeletes ==
    ASSUME IInv, [Next]_vars, NEW c \in alive \ alive'
    PROVE  owner[c] # Guest /\ (phase = "usages" => c \in recorded)
<1>. USE DEF IInv, Typed, Place, upstream
<1>1. CASE Use \/ Restart \/ UNCHANGED vars
  BY <1>1 DEF Use, CreateChat, UseChat, RecordChatUsage, ChatAges, UsageAges, Restart, vars
<1>2. ASSUME NEW d \in Chats, DeleteUsedChat(d) \/ KeepUsage(d)
      PROVE  owner[c] # Guest /\ (phase = "usages" => c \in recorded)
  BY <1>2 DEF DeleteUsedChat, KeepUsage, Deleted, DeleteFails
<1>3. ASSUME NEW d \in Chats, DeleteListedChat(d)
      PROVE  owner[c] # Guest /\ (phase = "usages" => c \in recorded)
  BY <1>3 DEF DeleteListedChat, Deleted, DeleteFails
<1>4. CASE Cleanup /\ ~ \E d \in Chats :
               DeleteUsedChat(d) \/ KeepUsage(d) \/ DeleteListedChat(d)
  BY <1>4 DEF Cleanup, ListUsages, UsagesDone, DeleteChatUsage, ForgetGuestChat,
              ListAccounts, AccountsDone, NextAccount, ListChats, NextPage, ListingEnds
<1>. QED  BY <1>1, <1>2, <1>3, <1>4 DEF Next

\* Mode 1 deletes recorded chats only, and neither mode deletes a chat of the guest.
THEOREM CleanupScope == Spec => OnlyOwnChats
<1>1. IInv /\ [Next]_vars => [DeletesOwnChats]_vars
  BY OnlyCleanupDeletes DEF DeletesOwnChats
<1>. QED  BY <1>1, InvInit, InvStep, PTL DEF Spec, OnlyOwnChats

-----------------------------------------------------------------------------
(***************************************************************************)
(* Why the numbers stay in bounds.  A chat's number is that of the chats   *)
(* created before it, and a page is only left for the next one when there  *)
(* was a chat on it: the chats newer than that one fill the pages before.  *)
(***************************************************************************)
Total == Cardinality(Chats)

TInv == TypeOK /\ (phase = "page" => page <= Total)

LEMMA Parts ==
    ASSUME NEW S \in SUBSET Chats
    PROVE  /\ Cardinality(S) \in Nat /\ Total \in Nat /\ Cardinality(S) <= Total
           /\ S # Chats => Cardinality(S) < Total
BY CleanupAssumption, FS_Subset, FS_CardinalityType DEF Total

LEMMA Quotient ==
    ASSUME NEW x \in Nat, NEW d \in Nat \ {0}
    PROVE  x \div d <= x
<1>1. x = d * (x \div d) + (x % d) /\ x % d >= 0 /\ x \div d \in Nat
  OBVIOUS
<1>. DEFINE q == x \div d
<1>. HIDE DEF q
<1>2. d * q >= q
  BY <1>1 DEF q
<1>. QED  BY <1>1, <1>2 DEF q

LEMMA PagesEnd ==
    ASSUME TypeOK, NEW a, NEW n \in Nat, Page(a, n) # {}
    PROVE  n <= Total
<1>1. PICK c \in alive :
          Cardinality({d \in alive : owner[d] = a /\ born[d] > born[c]}) \div PageSize = n - 1
  BY DEF Page
<1>. DEFINE S == {d \in alive : owner[d] = a /\ born[d] > born[c]}
<1>2. S \subseteq Chats /\ c \in Chats /\ c \notin S
  BY DEF TypeOK
<1>3. Cardinality(S) \in Nat /\ Total \in Nat /\ Cardinality(S) < Total
  BY <1>2, Parts
<1>. DEFINE k == Cardinality(S)
<1>. HIDE DEF S
<1>4. k \div PageSize = n - 1 /\ k \in Nat /\ k < Total
  BY <1>1, <1>3 DEF S
<1>. HIDE DEF k
<1>5. k \div PageSize <= k
  BY <1>4, Quotient, CleanupAssumption
<1>. QED  BY <1>3, <1>4, <1>5

LEMMA TypeUse == TInv /\ Use => TInv'
<1>. SUFFICES ASSUME TInv, Use PROVE TInv'
  OBVIOUS
<1>. USE CleanupAssumption DEF TInv, TypeOK, Ages, Total
<1>1. ASSUME NEW c \in Chats, NEW a \in Accounts, NEW how, CreateChat(c, a, how)
      PROVE  TInv'
  <2>1. Created \in SUBSET Chats /\ c \notin Created
    BY <1>1 DEF CreateChat, Created
  <2>2. Cardinality(Created) + 1 \in 0 .. Total
    BY <2>1, Parts
  <2>3. born' \in [Chats -> 0 .. Cardinality(Chats)]
    BY <1>1, <2>2 DEF CreateChat
  <2>. QED  BY <1>1, <2>3 DEF CreateChat, cleaner
<1>2. ASSUME NEW c \in Chats, UseChat(c) \/ RecordChatUsage(c) PROVE TInv'
  BY <1>2 DEF UseChat, RecordChatUsage, upstream, cleaner
<1>3. ASSUME NEW c \in Chats, ChatAges(c) \/ UsageAges(c) PROVE TInv'
  BY <1>3 DEF ChatAges, UsageAges, upstream, cleaner
<1>. QED  BY <1>1, <1>2, <1>3 DEF Use

LEMMA TypeCleanup == TInv /\ Cleanup => TInv'
<1>. SUFFICES ASSUME TInv, Cleanup PROVE TInv'
  OBVIOUS
<1>. USE CleanupAssumption DEF TInv, TypeOK, Ages
<1>0. Total \in Nat
  BY Parts
<1>1. CASE ListUsages \/ UsagesDone \/ DeleteChatUsage
  BY <1>1 DEF ListUsages, UsagesDone, DeleteChatUsage, upstream
<1>2. ASSUME NEW c \in Chats, ForgetGuestChat(c) \/ DeleteUsedChat(c) \/ KeepUsage(c)
      PROVE  TInv'
  BY <1>2 DEF ForgetGuestChat, DeleteUsedChat, KeepUsage, Deleted, DeleteFails, upstream
<1>3. CASE ListAccounts \/ AccountsDone
  BY <1>3 DEF ListAccounts, AccountsDone, upstream
<1>4. ASSUME NEW a \in Accounts, NextAccount(a) PROVE TInv'
  BY <1>0, <1>4 DEF NextAccount, upstream, Total
<1>5. CASE ListChats
  <2>1. page <= Total
    BY <1>5, PagesEnd DEF ListChats
  <2>2. todo' \subseteq Chats
    BY <1>5 DEF ListChats, Page
  <2>. QED  BY <1>5, <2>1, <2>2 DEF ListChats, upstream, Total
<1>6. CASE NextPage
  BY <1>0, <1>6 DEF NextPage, upstream, Total
<1>7. CASE ListingEnds
  BY <1>0, <1>7 DEF ListingEnds, upstream, Total
<1>8. ASSUME NEW c \in Chats, DeleteListedChat(c) PROVE TInv'
  BY <1>8 DEF DeleteListedChat, Deleted, DeleteFails, Total
<1>. QED  BY <1>1, <1>2, <1>3, <1>4, <1>5, <1>6, <1>7, <1>8 DEF Cleanup

\* Every variable keeps its type: in particular no listing goes on past the pages that all
\* the chats there can be would fill.
THEOREM TypeCorrect == Spec => []TypeOK
<1>1. Init => TInv
  BY Parts, CleanupAssumption DEF Init, TInv, TypeOK, Ages, Total
<1>2. TInv /\ (Restart \/ UNCHANGED vars) => TInv'
  <2>. SUFFICES ASSUME TInv, Restart \/ UNCHANGED vars PROVE TInv'
    OBVIOUS
  <2>1. Total \in Nat
    BY Parts
  <2>. QED  BY <2>1, CleanupAssumption DEF Restart, vars, upstream, TInv, TypeOK, Ages, Total
<1>3. TInv => TypeOK
  BY DEF TInv
<1>. QED  BY <1>1, <1>2, <1>3, TypeUse, TypeCleanup, PTL DEF Spec, Next
=============================================================================
