-------------------------- MODULE AccountRotation --------------------------
(***************************************************************************)
(* Which account of the pool a request gets (account.Service): the one     *)
(* least recently used among those that are not cooling down after         *)
(* failures, or the next in line when all of them are.  failures and       *)
(* lastUsed are maps beside the pool: they outlive the accounts, and an    *)
(* entry that is missing reads as zero.  Accounts are looked up by their   *)
(* name in any spelling (strings.EqualFold), but the maps are kept by the  *)
(* spelling a caller passes.  Every operation holds s.mu.                  *)
(***************************************************************************)
EXTENDS Naturals, Sequences, SequencesExt

CONSTANTS
    Emails,         \* names of persistent accounts, each spelling of one apart
    Fold,           \* Fold[e]: what e's spellings have in common
    Guest,          \* the guest account
    None,
    Limit,          \* failures after which an account cools down; 3 in the code
    Cooldown,       \* how long, 5 minutes in the code
    MaxTime         \* bound: the last tick of the clock

ASSUME RotationAssumption ==
    /\ Limit \in Nat \ {0} /\ Cooldown \in Nat /\ MaxTime \in Nat \ {0}
    /\ IsFiniteSet(Emails) /\ Guest \notin Emails /\ None \notin Emails \cup {Guest}
    /\ Fold \in [Emails \cup {Guest} -> Emails \cup {Guest}]
    /\ \A e \in Emails : Fold[e] # Fold[Guest]

VARIABLES
    accounts,       \* the pool, in order
    failures,       \* failures[e]; at Limit and above they all count the same
    lastUsed,       \* lastUsed[e]: a time, or 0 for the zero time
    currentIndex,   \* of the round robin
    now,            \* the clock
    given,          \* history: the account the last step gave to a request, or None
    turns           \* history: who had a turn in this round of the round robin

vars == <<accounts, failures, lastUsed, currentIndex, now, given, turns>>

Accounts == Emails \cup {Guest}
Pool == ToSet(accounts)
AtMost(n, bound) == IF n < bound THEN n ELSE bound

\* The accounts of the pool that e names, in whatever spelling (strings.EqualFold).
Named(e) == {a \in Pool : Fold[a] = Fold[e]}

\* No account is there twice, not even in two spellings.
Distinct(pool) == \A i, j \in DOMAIN pool : Fold[pool[i]] = Fold[pool[j]] => i = j

TypeOK ==
    /\ accounts \in Seq(Accounts) /\ Distinct(accounts)
    /\ failures \in [Accounts -> 0 .. Limit]
    /\ lastUsed \in [Accounts -> 0 .. now]
    /\ currentIndex \in Nat
    /\ now \in 1 .. MaxTime
    /\ given \in Accounts \cup {None}
    /\ turns \subseteq Accounts

\* The pool Initialize leaves: the accounts in the order of the store, or the guest.
Init ==
    /\ accounts \in {<<Guest>>} \cup UNION {SetToSeqs(E) : E \in (SUBSET Emails) \ {{}}}
    /\ Distinct(accounts)
    /\ failures = [e \in Accounts |-> 0]
    /\ lastUsed = [e \in Accounts |-> 0]
    /\ currentIndex = 0
    /\ now = 1
    /\ given = None
    /\ turns = {}

Cooling(e) == failures[e] >= Limit /\ lastUsed[e] # 0 /\ now - lastUsed[e] < Cooldown

\* availableLocked: the accounts that are not cooling down; those whose time is over
\* start again without failures, whether they are chosen or not.
Available == {e \in Pool : ~Cooling(e)}

Listed ==
    [e \in Accounts |->
        IF e \in Pool /\ failures[e] >= Limit /\ ~Cooling(e) THEN 0 ELSE failures[e]]

\* Mutant: the comparison is the wrong way round.
PreferredLatest(e, best) == best = None \/ lastUsed[e] > lastUsed[best]

\* The next account is preferred when it was used before the one selected, and always when
\* the selected one has never been used.
Preferred(e, best) == best = None \/ lastUsed[e] < lastUsed[best] \/ lastUsed[best] = 0

\* The loop of GetAccountSession and GetAccountSessionExcluding, over the candidates in the
\* order of the pool.
Selected(candidates) ==
    LET best[i \in 0 .. Len(accounts)] ==
            IF i = 0 THEN None
            ELSE IF accounts[i] \in candidates /\ Preferred(accounts[i], best[i - 1])
                 THEN accounts[i] ELSE best[i - 1]
    IN best[Len(accounts)]

Give(e) ==
    /\ lastUsed' = [lastUsed EXCEPT ![e] = now]
    /\ given' = e

\* GetAccountSession, when an account is available.
GetAccountSession ==
    /\ Available # {}
    /\ Give(Selected(Available))
    /\ failures' = Listed
    /\ UNCHANGED <<accounts, currentIndex, now, turns>>

\* Mutant: the index is not moved on when it comes to the end of the pool.
RoundRobinStays ==
    LET i == IF currentIndex >= Len(accounts) THEN 0 ELSE currentIndex IN
    /\ accounts # <<>> /\ Available = {}
    /\ Give(accounts[i + 1])
    /\ currentIndex' = IF i + 1 = Len(accounts) THEN i ELSE i + 1
    /\ turns' = IF turns \cup {given'} = Pool THEN {} ELSE turns \cup {given'}
    /\ UNCHANGED <<accounts, failures, now>>

\* roundRobinLocked, when all accounts are cooling down: every account of the pool has
\* a token or is the guest, so the first one looked at is taken.
RoundRobin ==
    LET i == IF currentIndex >= Len(accounts) THEN 0 ELSE currentIndex IN
    /\ accounts # <<>> /\ Available = {}
    /\ Give(accounts[i + 1])
    /\ currentIndex' = i + 1
    /\ turns' = IF turns \cup {given'} = Pool THEN {} ELSE turns \cup {given'}
    /\ UNCHANGED <<accounts, failures, now>>

\* GetAccountSessionExcluding(excluded), called with the accounts a request has tried; those
\* that have left the pool since make no difference.
GetAccountSessionExcluding(excluded) ==
    LET filtered == Available \ excluded IN
    /\ IF filtered # {} THEN Give(Selected(filtered))
       ELSE given' = None /\ UNCHANGED lastUsed
    /\ failures' = Listed
    /\ UNCHANGED <<accounts, currentIndex, now, turns>>

\* Mutant: an account asked for by name is given although it is cooling down.
GetAccountSessionByEmailHot(e) ==
    /\ \/ \E a \in Named(e) : Give(a)
       \/ Named(e) = {} /\ given' = None /\ UNCHANGED lastUsed
    /\ failures' = Listed
    /\ UNCHANGED <<accounts, currentIndex, now, turns>>

\* GetAccountSessionByEmail(e)
GetAccountSessionByEmail(e) ==
    /\ \/ \E a \in Named(e) \cap Available : Give(a)
       \/ Named(e) \cap Available = {} /\ given' = None /\ UNCHANGED lastUsed
    /\ failures' = Listed
    /\ UNCHANGED <<accounts, currentIndex, now, turns>>

\* RecordFailureAndRefresh(e), of an account that may have been deleted since.
RecordFailure(e) ==
    /\ failures' = [failures EXCEPT ![e] = AtMost(@ + 1, Limit)]
    /\ lastUsed' = [lastUsed EXCEPT ![e] = now]
    /\ given' = None
    /\ UNCHANGED <<accounts, currentIndex, now, turns>>

\* ResetFailure(e), after an answer from the account e.
ResetFailure(e) ==
    /\ failures' = [failures EXCEPT ![e] = 0]
    /\ given' = None
    /\ UNCHANGED <<accounts, lastUsed, currentIndex, now, turns>>

\* RefreshAccount(e), when the login succeeds.  What is cleared is the entry of the name
\* as it was passed, which is not the account's own when the spelling differs.
RefreshAccount(e) == Named(e) # {} /\ ResetFailure(e)

\* Mutant: only the spelling given is looked for in the pool.
AddSpelled(e) ==
    /\ e \in Emails \ Pool
    /\ accounts' = Append(RemoveFirst(accounts, Guest), e)
    /\ given' = None /\ turns' = {}
    /\ UNCHANGED <<failures, lastUsed, currentIndex, now>>

\* AddAccountWithToken: the guest gives way.
Add(e) ==
    /\ e \in Emails /\ Named(e) = {}
    /\ accounts' = Append(RemoveFirst(accounts, Guest), e)
    /\ given' = None /\ turns' = {}
    /\ UNCHANGED <<failures, lastUsed, currentIndex, now>>

\* DeleteAccount: the guest comes in when the last account goes.  As in RefreshAccount,
\* the entries cleared are those of the name passed: an account deleted by another
\* spelling leaves its own behind, to be found when it is added again.
Delete(e) == \E a \in Named(e) \ {Guest} :
    LET rest == RemoveFirst(accounts, a) IN
    /\ accounts' = IF rest = <<>> THEN <<Guest>> ELSE rest
    /\ failures' = [failures EXCEPT ![e] = 0]
    /\ lastUsed' = [lastUsed EXCEPT ![e] = 0]
    /\ given' = None /\ turns' = {}
    /\ UNCHANGED <<currentIndex, now>>

Tick ==
    /\ now < MaxTime
    /\ now' = now + 1
    /\ given' = None
    /\ UNCHANGED <<accounts, failures, lastUsed, currentIndex, turns>>

Next ==
    \/ GetAccountSession
    \/ RoundRobin
    \/ \E excluded \in (SUBSET Pool) \ {{}} : GetAccountSessionExcluding(excluded)
    \/ \E e \in Accounts :
          \/ GetAccountSessionByEmail(e)
          \/ RecordFailure(e) \/ ResetFailure(e) \/ RefreshAccount(e)
          \/ Add(e) \/ Delete(e)
    \/ Tick

Spec == Init /\ [][Next]_vars
-----------------------------------------------------------------------------
\* While all accounts are cooling down they take turns: as long as the pool stays the same,
\* nobody is given a second time by the round robin before everybody was given once,
\* whatever else happens between its steps.
TurnsAreTaken == [][ RoundRobin => given' \notin turns ]_vars

\* An account that is cooling down is left alone, unless all the pool is.
CoolingRests ==
    [][ given' # None /\ Cooling(given') => \A e \in Pool : Cooling(e) ]_vars

\* Once every available account has been used, a request gets one that no other available
\* account was used before; what is asked for by name, or excluded, apart.  (Before that it
\* does not: among accounts that were never used the last one wins, and once that has been
\* used it is given again while the others wait.)
LeastRecentlyUsedFirst ==
    [][ GetAccountSession /\ (\A e \in Available : lastUsed[e] # 0) =>
            \A e \in Available : lastUsed[given'] <= lastUsed[e] ]_vars
=============================================================================
