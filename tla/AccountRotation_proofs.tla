----------------------- MODULE AccountRotation_proofs -----------------------
(***************************************************************************)
(* Type correctness of AccountRotation, that an account that cools down is *)
(* left alone, that the least recently used one is given, and that all     *)
(* take turns when all cool down, for every pool, limit and cooldown.      *)
(***************************************************************************)
EXTENDS AccountRotation, FiniteSetTheorems, WellFoundedInduction, TLAPS

(***************************************************************************)
(* The loop over the pool.  A set of numbers that has 0, and n + 1 with    *)
(* every n, has all of them; so the loop's recursion has a solution, and   *)
(* after n accounts it has one of the candidates among them, if any.       *)
(***************************************************************************)
LEMMA SetInduction ==
    ASSUME NEW S, 0 \in S, \A n \in Nat : n \in S => n + 1 \in S
    PROVE  \A n \in Nat : n \in S
<1>. SUFFICES ASSUME NEW m \in Nat, m \notin S PROVE FALSE
  OBVIOUS
<1>. DEFINE T == {n \in Nat : n \notin S}
            R == OpToRel(<, Nat)
<1>1. IsWellFoundedOn(R, Nat)
  BY NatLessThanWellFounded
<1>2. \A x, y \in Nat : x < y => <<x, y>> \in R
  BY DEF OpToRel
<1>3. T \subseteq Nat /\ T # {}
  OBVIOUS
<1>. HIDE DEF R, T
<1>4. PICK x \in T : \A y \in T : ~ (<<y, x>> \in R)
  BY <1>1, <1>3, WFMin
<1>5. x \in Nat /\ x # 0 /\ x - 1 \in Nat
  BY <1>3, <1>4 DEF T
<1>6. <<x - 1, x>> \in R
  BY <1>2, <1>5
<1>7. x - 1 \in S
  BY <1>4, <1>5, <1>6 DEF T
<1>8. x = (x - 1) + 1
  BY <1>5
<1>9. x \in S
  BY <1>5, <1>7, <1>8
<1>. QED  BY <1>4, <1>9 DEF T

\* The account selected after the next one of the pool has been looked at.
Chosen(C, e, best) == IF e \in C /\ Preferred(e, best) THEN e ELSE best

Loop(C, f, n) == [i \in 0 .. n |-> IF i = 0 THEN None ELSE Chosen(C, accounts[i], f[i - 1])]

LEMMA LoopEnds ==
    ASSUME NEW C, NEW n \in Nat
    PROVE  \E f : f = Loop(C, f, n)
<1>. DEFINE S == {k \in Nat : \E f : f = Loop(C, f, k)}
<1>1. 0 \in S
  <2>. DEFINE g == [i \in 0 .. 0 |-> None]
  <2>1. g = Loop(C, g, 0)
    BY DEF Loop
  <2>. QED  BY <2>1
<1>2. ASSUME NEW k \in Nat, k \in S PROVE k + 1 \in S
  <2>1. PICK f : f = Loop(C, f, k)
    BY <1>2
  <2>. DEFINE next == Chosen(C, accounts[k + 1], f[k])
              g == [i \in 0 .. k + 1 |-> IF i = k + 1 THEN next ELSE f[i]]
  <2>2. ASSUME NEW i \in 0 .. k + 1 PROVE g[i] = Loop(C, g, k + 1)[i]
    <3>1. CASE i = k + 1
      <4>1. g[i] = next /\ g[k] = f[k]
        BY <3>1
      <4>. HIDE DEF g
      <4>. QED  BY <3>1, <4>1 DEF Loop
    <3>2. CASE i \in 0 .. k
      <4>1. g[i] = f[i] /\ (i # 0 => g[i - 1] = f[i - 1])
        BY <3>2
      <4>2. f[i] = Loop(C, f, k)[i]
        BY <2>1
      <4>. HIDE DEF g
      <4>. QED  BY <3>2, <4>1, <4>2 DEF Loop
    <3>. QED  BY <3>1, <3>2
  <2>3. g = Loop(C, g, k + 1)
    BY <2>2 DEF Loop
  <2>. HIDE DEF g
  <2>. QED  BY <2>3
<1>. HIDE DEF S
<1>3. n \in S
  BY <1>1, <1>2, SetInduction
<1>. QED  BY <1>3 DEF S

LEMMA SelectedByLoop ==
    ASSUME NEW C, Len(accounts) \in Nat
    PROVE  \E f : f = Loop(C, f, Len(accounts)) /\ Selected(C) = f[Len(accounts)]
<1>. DEFINE best == CHOOSE f : f = Loop(C, f, Len(accounts))
<1>1. Selected(C) = best[Len(accounts)]
  BY DEF Selected, Loop, Chosen
<1>2. best = Loop(C, best, Len(accounts))
  BY LoopEnds
<1>. QED  BY <1>1, <1>2

\* Of any candidates in the pool one is selected; and if all of them have been used, one
\* that none of the others was used before.
LEMMA Selection ==
    ASSUME TypeOK, NEW C \in SUBSET Pool, C # {}
    PROVE  /\ Selected(C) \in C
           /\ (\A e \in C : lastUsed[e] # 0) =>
                  \A e \in C : lastUsed[Selected(C)] <= lastUsed[e]
<1>1. Len(accounts) \in Nat /\ DOMAIN accounts = 1 .. Len(accounts)
      /\ \A i \in 1 .. Len(accounts) : accounts[i] \in Accounts
  BY DEF TypeOK
<1>2. PICK f : f = Loop(C, f, Len(accounts)) /\ Selected(C) = f[Len(accounts)]
  BY <1>1, SelectedByLoop
<1>3. None \notin Accounts /\ C \subseteq Accounts
  BY <1>1, RotationAssumption DEF Accounts, Pool, ToSet
<1>4. \A e \in Accounts : lastUsed[e] \in Nat
  BY DEF TypeOK
<1>. DEFINE Used == \A e \in C : lastUsed[e] # 0
            Good(n) ==
                /\ f[n] \in C \cup {None}
                /\ f[n] = None => \A j \in 1 .. n : accounts[j] \notin C
                /\ Used => \A j \in 1 .. n : accounts[j] \in C =>
                               f[n] \in C /\ lastUsed[f[n]] <= lastUsed[accounts[j]]
            S == {n \in Nat : n <= Len(accounts) => Good(n)}
<1>5. 0 \in S
  BY <1>1, <1>2 DEF Loop
<1>6. ASSUME NEW n \in Nat, n \in S PROVE n + 1 \in S
  <2>. SUFFICES ASSUME n + 1 <= Len(accounts) PROVE Good(n + 1)
    OBVIOUS
  <2>1. Good(n) /\ n + 1 \in 1 .. Len(accounts)
    BY <1>1, <1>6
  <2>. DEFINE e == accounts[n + 1]
  <2>2. f[n + 1] = Chosen(C, e, f[n]) /\ e \in Accounts
    BY <1>1, <1>2, <2>1 DEF Loop
  <2>3. \A j \in 1 .. n + 1 : j \in 1 .. n \/ j = n + 1
    OBVIOUS
  <2>. HIDE DEF e
  <2>4. CASE e \in C /\ Preferred(e, f[n])
    <3>1. f[n + 1] = e
      BY <2>2, <2>4 DEF Chosen
    <3>2. Used => \A j \in 1 .. n : accounts[j] \in C => lastUsed[e] <= lastUsed[accounts[j]]
      <4>. SUFFICES ASSUME Used, NEW j \in 1 .. n, accounts[j] \in C
                    PROVE  lastUsed[e] <= lastUsed[accounts[j]]
        OBVIOUS
      <4>1. f[n] \in C /\ lastUsed[f[n]] <= lastUsed[accounts[j]] /\ lastUsed[f[n]] # 0
        BY <2>1
      <4>2. lastUsed[e] < lastUsed[f[n]]
        BY <1>3, <2>4, <4>1 DEF Preferred
      <4>. QED  BY <1>3, <1>4, <2>2, <4>1, <4>2
    <3>3. lastUsed[e] <= lastUsed[e]
      BY <1>4, <2>2
    <3>. QED  BY <1>3, <2>3, <2>4, <3>1, <3>2, <3>3 DEF e
  <2>5. CASE ~(e \in C /\ Preferred(e, f[n]))
    <3>1. f[n + 1] = f[n]
      BY <2>2, <2>5 DEF Chosen
    <3>2. e \in C => f[n] \in C /\ lastUsed[f[n]] <= lastUsed[e]
      BY <1>3, <1>4, <2>1, <2>2, <2>5 DEF Preferred
    <3>. QED  BY <1>3, <2>1, <2>3, <3>1, <3>2 DEF e
  <2>. QED  BY <2>4, <2>5
<1>7. Good(Len(accounts))
  <2>. HIDE DEF S, Good
  <2>1. Len(accounts) \in S
    BY <1>1, <1>5, <1>6, SetInduction
  <2>. QED  BY <1>1, <2>1 DEF S
<1>8. \A e \in C : \E j \in 1 .. Len(accounts) : accounts[j] = e
  BY <1>1 DEF Pool, ToSet
<1>9. Selected(C) \in C
  BY <1>2, <1>7, <1>8
<1>10. Used => \A e \in C : lastUsed[Selected(C)] <= lastUsed[e]
  BY <1>2, <1>7, <1>8
<1>. QED  BY <1>9, <1>10

-----------------------------------------------------------------------------
LEMMA Joined ==
    ASSUME NEW S, NEW u \in Seq(S), NEW v \in Seq(S)
    PROVE  u \o v \in Seq(S) /\ Len(u \o v) = Len(u) + Len(v)
OBVIOUS

LEMMA Removal ==
    ASSUME NEW s \in Seq(Accounts), Distinct(s), NEW e
    PROVE  /\ RemoveFirst(s, e) \in Seq(Accounts) /\ Distinct(RemoveFirst(s, e))
           /\ ToSet(RemoveFirst(s, e)) = ToSet(s) \ {e}
<1>1. CASE ~ \E i \in 1 .. Len(s) : s[i] = e
  BY <1>1 DEF RemoveFirst, ToSet
<1>2. CASE \E i \in 1 .. Len(s) : s[i] = e
  <2>1. PICK i \in 1 .. Len(s) : s[i] = e
    BY <1>2
  <2>2. \A j \in 1 .. Len(s) : s[j] = e => j = i
    BY <2>1 DEF Distinct
  <2>3. {j \in 1 .. Len(s) : s[j] = e} = {i}
    BY <2>1, <2>2
  <2>4. Min({i}) = i
    BY DEF Min
  <2>. DEFINE r == RemoveAt(s, i)
  <2>5. RemoveFirst(s, e) = r
    BY <1>2, <2>3, <2>4 DEF RemoveFirst, SelectInSeq
  <2>6. /\ r \in Seq(Accounts) /\ Len(r) = Len(s) - 1
        /\ \A j \in 1 .. Len(s) - 1 : r[j] = IF j < i THEN s[j] ELSE s[j + 1]
    <3>. DEFINE u == SubSeq(s, 1, i - 1)
                v == SubSeq(s, i + 1, Len(s))
    <3>1. /\ u \in Seq(Accounts) /\ Len(u) = i - 1
          /\ \A j \in 1 .. i - 1 : u[j] = s[j]
      BY <2>1
    <3>2. /\ v \in Seq(Accounts) /\ Len(v) = Len(s) - i
          /\ \A j \in 1 .. Len(s) - i : v[j] = s[i + j]
      BY <2>1
    <3>3. r = u \o v
      BY DEF RemoveAt
    <3>. HIDE DEF u, v, r
    <3>4. r \in Seq(Accounts) /\ Len(r) = Len(s) - 1
      <4>1. Len(s) \in Nat /\ (i - 1) + (Len(s) - i) = Len(s) - 1
        BY <2>1
      <4>2. u \o v \in Seq(Accounts) /\ Len(u \o v) = Len(u) + Len(v)
        BY <3>1, <3>2, Joined
      <4>. QED  BY <3>1, <3>2, <3>3, <4>1, <4>2
    <3>5. ASSUME NEW j \in 1 .. Len(s) - 1
          PROVE  r[j] = IF j < i THEN s[j] ELSE s[j + 1]
      <4>1. CASE j < i
        BY <2>1, <3>1, <3>2, <3>3, <4>1
      <4>2. CASE ~(j < i)
        <5>1. j - (i - 1) \in 1 .. Len(s) - i /\ i + (j - (i - 1)) = j + 1
          BY <2>1, <4>2
        <5>2. r[j] = v[j - (i - 1)]
          BY <2>1, <3>1, <3>2, <3>3, <4>2, <5>1
        <5>. QED  BY <3>2, <4>2, <5>1, <5>2
      <4>. QED  BY <4>1, <4>2
    <3>. QED  BY <3>4, <3>5
  <2>. HIDE DEF r
  <2>7. DOMAIN r = 1 .. Len(s) - 1 /\ DOMAIN s = 1 .. Len(s) /\ Len(s) \in Nat
    BY <2>6
  <2>8. Distinct(r)
    <3>. SUFFICES ASSUME NEW a \in 1 .. Len(s) - 1, NEW b \in 1 .. Len(s) - 1,
                         Fold[r[a]] = Fold[r[b]]
                  PROVE  a = b
      BY <2>7 DEF Distinct
    <3>. DEFINE p(k) == IF k < i THEN k ELSE k + 1
    <3>1. p(a) \in 1 .. Len(s) /\ p(b) \in 1 .. Len(s) /\ r[a] = s[p(a)] /\ r[b] = s[p(b)]
      BY <2>1, <2>6, <2>7
    <3>2. p(a) = p(b)
      BY <2>7, <3>1 DEF Distinct
    <3>. QED  BY <2>1, <3>2
  <2>9. ToSet(r) = ToSet(s) \ {e}
    <3>1. ASSUME NEW a \in 1 .. Len(s) - 1 PROVE r[a] \in ToSet(s) \ {e}
      BY <2>1, <2>2, <2>6, <2>7, SMTT(30) DEF ToSet
    <3>2. ASSUME NEW a \in 1 .. Len(s), s[a] # e PROVE \E b \in 1 .. Len(s) - 1 : r[b] = s[a]
      <4>1. CASE a < i
        BY <2>1, <2>6, <2>7, <4>1
      <4>2. CASE a > i
        <5>1. a - 1 \in 1 .. Len(s) - 1 /\ ~(a - 1 < i) /\ (a - 1) + 1 = a
          BY <2>1, <2>7, <4>2
        <5>. QED  BY <2>6, <5>1
      <4>. QED  BY <2>1, <2>7, <3>2, <4>1, <4>2
    <3>3. ToSet(r) \subseteq ToSet(s) \ {e}
      BY <2>7, <3>1 DEF ToSet
    <3>4. ASSUME NEW x \in ToSet(s) \ {e} PROVE x \in ToSet(r)
      <4>1. PICK a \in 1 .. Len(s) : s[a] = x
        BY <2>7 DEF ToSet
      <4>2. PICK b \in 1 .. Len(s) - 1 : r[b] = x
        BY <3>2, <4>1
      <4>. QED  BY <2>7, <4>2 DEF ToSet
    <3>. QED  BY <3>3, <3>4
  <2>. QED  BY <2>5, <2>6, <2>8, <2>9
<1>. QED  BY <1>1, <1>2

LEMMA Addition ==
    ASSUME NEW s \in Seq(Accounts), Distinct(s), NEW e \in Accounts,
           \A a \in ToSet(s) : Fold[a] # Fold[e]
    PROVE  Append(s, e) \in Seq(Accounts) /\ Distinct(Append(s, e))
<1>1. \A i \in 1 .. Len(s) : Fold[s[i]] # Fold[e]
  BY DEF ToSet
<1>2. /\ Len(Append(s, e)) = Len(s) + 1 /\ Append(s, e)[Len(s) + 1] = e
      /\ \A i \in 1 .. Len(s) : Append(s, e)[i] = s[i]
      /\ Append(s, e) \in Seq(Accounts)
  OBVIOUS
<1>3. Distinct(Append(s, e))
  BY <1>1, <1>2 DEF Distinct
<1>. QED  BY <1>2, <1>3

LEMMA Listing == ASSUME TypeOK PROVE Listed \in [Accounts -> 0 .. Limit]
BY RotationAssumption DEF TypeOK, Listed

LEMMA Giving ==
    ASSUME TypeOK, NEW e \in Accounts, Give(e), UNCHANGED now
    PROVE  given' \in Accounts \cup {None} /\ lastUsed' \in [Accounts -> 0 .. now']
BY RotationAssumption DEF TypeOK, Give

LEMMA AvailableInPool == TypeOK => Available \subseteq Pool /\ Pool \subseteq Accounts
BY DEF TypeOK, Available, Pool, ToSet

LEMMA TypeStep == TypeOK /\ [Next]_vars => TypeOK'
<1>. SUFFICES ASSUME TypeOK, [Next]_vars PROVE TypeOK'
  OBVIOUS
<1>. USE RotationAssumption
<1>1. CASE GetAccountSession
  <2>1. Selected(Available) \in Accounts
    BY <1>1, Selection, AvailableInPool DEF GetAccountSession
  <2>. QED  BY <1>1, <2>1, Giving, Listing DEF GetAccountSession, TypeOK
<1>2. CASE RoundRobin
  <2>. DEFINE i == IF currentIndex >= Len(accounts) THEN 0 ELSE currentIndex
  <2>1. i \in Nat /\ i + 1 \in 1 .. Len(accounts)
    BY <1>2 DEF RoundRobin, TypeOK
  <2>2. accounts[i + 1] \in Accounts
    BY <2>1 DEF TypeOK
  <2>3. Give(accounts[i + 1]) /\ currentIndex' = i + 1
        /\ UNCHANGED <<accounts, failures, now>>
    BY <1>2 DEF RoundRobin
  <2>4. given' \in Accounts \cup {None} /\ lastUsed' \in [Accounts -> 0 .. now']
    BY <2>2, <2>3, Giving
  <2>5. currentIndex' \in Nat
    BY <2>1, <2>3
  <2>6. turns' \subseteq Accounts
    BY <1>2, <2>2, <2>3 DEF RoundRobin, Give, TypeOK
  <2>. QED  BY <2>3, <2>4, <2>5, <2>6 DEF TypeOK
<1>3. ASSUME NEW excluded \in SUBSET Pool, GetAccountSessionExcluding(excluded)
      PROVE  TypeOK'
  <2>1. Available \ excluded # {} => Selected(Available \ excluded) \in Accounts
    BY Selection, AvailableInPool
  <2>2. given' \in Accounts \cup {None} /\ lastUsed' \in [Accounts -> 0 .. now']
    BY <1>3, <2>1, Giving DEF GetAccountSessionExcluding, TypeOK
  <2>. QED  BY <1>3, <2>2, Listing DEF GetAccountSessionExcluding, TypeOK
<1>4. ASSUME NEW e \in Accounts, GetAccountSessionByEmail(e) PROVE TypeOK'
  <2>1. Named(e) \subseteq Accounts
    BY AvailableInPool DEF Named
  <2>2. given' \in Accounts \cup {None} /\ lastUsed' \in [Accounts -> 0 .. now']
    BY <1>4, <2>1, Giving DEF GetAccountSessionByEmail, TypeOK
  <2>. QED  BY <1>4, <2>2, Listing DEF GetAccountSessionByEmail, TypeOK
<1>5. ASSUME NEW e \in Accounts, RecordFailure(e) \/ ResetFailure(e) PROVE TypeOK'
  <2>1. CASE RecordFailure(e)
    <3>1. \A n \in 0 .. Limit : AtMost(n + 1, Limit) \in 0 .. Limit
      BY DEF AtMost
    <3>2. failures[e] \in 0 .. Limit /\ now \in 0 .. now
      BY DEF TypeOK
    <3>. QED  BY <2>1, <3>1, <3>2 DEF RecordFailure, TypeOK
  <2>2. CASE ResetFailure(e)
    BY <2>2 DEF ResetFailure, TypeOK
  <2>. QED  BY <1>5, <2>1, <2>2
<1>6. ASSUME NEW e \in Accounts, Add(e) PROVE TypeOK'
  <2>1. /\ RemoveFirst(accounts, Guest) \in Seq(Accounts)
        /\ Distinct(RemoveFirst(accounts, Guest))
        /\ \A a \in ToSet(RemoveFirst(accounts, Guest)) : Fold[a] # Fold[e]
    BY <1>6, Removal DEF Add, Named, Pool, TypeOK
  <2>2. accounts' \in Seq(Accounts) /\ Distinct(accounts')
    BY <1>6, <2>1, Addition DEF Add
  <2>. QED  BY <1>6, <2>2 DEF Add, TypeOK
<1>7. ASSUME NEW e \in Accounts, Delete(e) PROVE TypeOK'
  <2>1. PICK a \in Named(e) \ {Guest} :
               accounts' = IF RemoveFirst(accounts, a) = <<>> THEN <<Guest>>
                           ELSE RemoveFirst(accounts, a)
    BY <1>7 DEF Delete
  <2>2. RemoveFirst(accounts, a) \in Seq(Accounts) /\ Distinct(RemoveFirst(accounts, a))
    BY Removal DEF TypeOK
  <2>3. <<Guest>> \in Seq(Accounts) /\ Distinct(<<Guest>>)
    BY DEF Accounts, Distinct
  <2>4. accounts' \in Seq(Accounts) /\ Distinct(accounts')
    BY <2>1, <2>2, <2>3
  <2>. QED  BY <1>7, <2>4 DEF Delete, TypeOK
<1>8. CASE Tick \/ UNCHANGED vars
  BY <1>8 DEF Tick, vars, TypeOK
<1>. QED  BY <1>1, <1>2, <1>3, <1>4, <1>5, <1>6, <1>7, <1>8 DEF Next, RefreshAccount

LEMMA TypeInit == Init => TypeOK
<1>. SUFFICES ASSUME Init PROVE TypeOK
  OBVIOUS
<1>1. accounts \in Seq(Accounts)
  <2>1. CASE accounts = <<Guest>>
    BY <2>1 DEF Accounts
  <2>2. ASSUME NEW E \in SUBSET Emails, accounts \in SetToSeqs(E)
        PROVE  accounts \in Seq(Accounts)
    <3>1. accounts \in [1 .. Cardinality(E) -> E]
      BY <2>2 DEF SetToSeqs
    <3>2. Cardinality(E) \in Nat
      BY <2>2, FS_CardinalityType, FS_Subset, RotationAssumption
    <3>. QED  BY <3>1, <3>2 DEF Accounts
  <2>. QED  BY <2>1, <2>2 DEF Init
<1>. QED  BY <1>1, RotationAssumption DEF Init, TypeOK

\* The pool never has an account twice, and what is given is an account, in every order of
\* requests, failures, additions and deletions.
THEOREM TypeCorrect == Spec => []TypeOK
BY TypeInit, TypeStep, PTL DEF Spec

\* What a step gives is available, or nothing is: only the round robin gives an account that
\* is cooling down.
THEOREM CoolingAccountsRest == Spec => CoolingRests
<1>. DEFINE Rests == given' # None /\ Cooling(given') => \A e \in Pool : Cooling(e)
<1>1. TypeOK /\ [Next]_vars => [Rests]_vars
  <2>. SUFFICES ASSUME TypeOK, Next, given' # None, Cooling(given'), given' # given
                       \/ ~UNCHANGED vars
                PROVE  \A e \in Pool : Cooling(e)
    OBVIOUS
  <2>1. ASSUME NEW C \in SUBSET Available, C # {}, Give(Selected(C)) PROVE FALSE
    BY <2>1, Selection, AvailableInPool DEF Available, Give
  <2>2. CASE GetAccountSession
    BY <2>1, <2>2 DEF GetAccountSession
  <2>3. CASE RoundRobin
    BY <2>3 DEF RoundRobin, Available
  <2>4. ASSUME NEW excluded \in SUBSET Pool, GetAccountSessionExcluding(excluded)
        PROVE  FALSE
    BY <2>1, <2>4 DEF GetAccountSessionExcluding
  <2>5. ASSUME NEW e \in Accounts, GetAccountSessionByEmail(e) PROVE FALSE
    BY <2>5 DEF GetAccountSessionByEmail, Give, Available
  <2>6. ASSUME NEW e \in Accounts,
               RecordFailure(e) \/ ResetFailure(e) \/ Add(e) \/ Delete(e) \/ Tick
        PROVE  FALSE
    BY <2>6 DEF RecordFailure, ResetFailure, Add, Delete, Tick
  <2>7. ~Tick
    BY DEF Tick
  <2>. QED  BY <2>2, <2>3, <2>4, <2>5, <2>6, <2>7 DEF Next, RefreshAccount
<1>. QED  BY <1>1, TypeInit, TypeStep, PTL DEF Spec, CoolingRests

\* Once all available accounts have been used, a request gets the least recently used of
\* them, however many there are and in whatever order they are in the pool.
THEOREM LeastRecentlyUsed == Spec => LeastRecentlyUsedFirst
<1>. DEFINE First == GetAccountSession /\ (\A e \in Available : lastUsed[e] # 0) =>
                         \A e \in Available : lastUsed[given'] <= lastUsed[e]
<1>1. TypeOK /\ [Next]_vars => [First]_vars
  BY Selection, AvailableInPool DEF GetAccountSession, Give
<1>. QED  BY <1>1, TypeInit, TypeStep, PTL DEF Spec, LeastRecentlyUsedFirst

-----------------------------------------------------------------------------
(***************************************************************************)
(* The round robin.  Those who had a turn stand one after the other before *)
(* the index: from some place to it, or from some place to the end and     *)
(* from the beginning to it.  They are never the whole pool, for then the  *)
(* round is over.                                                          *)
(***************************************************************************)
At(pool, positions) == {pool[j] : j \in positions}

Running(s) ==
    /\ s <= currentIndex /\ (currentIndex <= Len(accounts) \/ s = currentIndex)
    /\ turns = At(accounts, s + 1 .. currentIndex)

Wrapped(s) ==
    /\ currentIndex < s /\ s <= Len(accounts)
    /\ turns = At(accounts, (s + 1 .. Len(accounts)) \cup (1 .. currentIndex))

Round ==
    /\ accounts # <<>> => turns # Pool
    /\ \E s \in Nat : Running(s) \/ Wrapped(s)

LEMMA PoolIsAt == TypeOK => Pool = At(accounts, 1 .. Len(accounts))
BY DEF TypeOK, Pool, ToSet, At

LEMMA NotAt ==
    ASSUME TypeOK, NEW P, P \subseteq 1 .. Len(accounts), NEW k \in 1 .. Len(accounts), k \notin P
    PROVE  accounts[k] \notin At(accounts, P)
<1>1. \A j \in 1 .. Len(accounts) : accounts[j] = accounts[k] => j = k
  BY SMTT(30) DEF TypeOK, Distinct
<1>. QED  BY <1>1 DEF At

LEMMA OneMore ==
    ASSUME NEW P, NEW Q, NEW k, Q = P \cup {k}
    PROVE  At(accounts, Q) = At(accounts, P) \cup {accounts[k]}
BY DEF At

LEMMA RoundStep ==
    ASSUME TypeOK, Round, RoundRobin
    PROVE  Round' /\ given' \notin turns
<1>. DEFINE n == Len(accounts)
            i == IF currentIndex >= n THEN 0 ELSE currentIndex
<1>1. n \in Nat /\ i \in Nat /\ i + 1 \in 1 .. n /\ currentIndex \in Nat /\ accounts # <<>>
  BY DEF RoundRobin, TypeOK
<1>2. /\ given' = accounts[i + 1] /\ currentIndex' = i + 1 /\ accounts' = accounts
      /\ turns' = IF turns \cup {given'} = Pool THEN {} ELSE turns \cup {given'}
  BY DEF RoundRobin, Give
<1>3. PICK s \in Nat : Running(s) \/ Wrapped(s)
  BY DEF Round
<1>4. Pool = At(accounts, 1 .. n) /\ turns # Pool
  BY <1>1, PoolIsAt DEF Round
<1>. HIDE DEF n, i
\* What is to show of the places that have had a turn, with the new one.
<1>5. ASSUME NEW P, P \subseteq 1 .. n, turns = At(accounts, P), i + 1 \notin P, NEW t \in Nat,
             \/ t <= i + 1 /\ P \cup {i + 1} = t + 1 .. i + 1
             \/ i + 1 < t /\ t <= n /\ P \cup {i + 1} = (t + 1 .. n) \cup (1 .. i + 1)
             \/ P \cup {i + 1} = 1 .. n
      PROVE  Round' /\ given' \notin turns
  <2>1. given' \notin turns
    BY <1>1, <1>2, <1>5, NotAt DEF n
  <2>2. turns \cup {given'} = At(accounts, P \cup {i + 1})
    BY <1>2, <1>5, OneMore
  <2>3. Pool' = Pool /\ Len(accounts') = n
    BY <1>2 DEF Pool, n
  <2>4. CASE turns' = {}
    <3>1. turns' # Pool'
      BY <1>1, <1>4, <2>3, <2>4 DEF At
    <3>2. PICK k \in Nat : k = i + 1
      BY <1>1
    <3>3. k + 1 .. k = {} /\ k <= n
      BY <1>1, <3>2
    <3>4. Running(k)'
      BY <1>2, <2>3, <2>4, <3>2, <3>3 DEF Running, At
    <3>. QED  BY <2>1, <3>1, <3>4 DEF Round
  <2>5. CASE turns' = At(accounts, P \cup {i + 1}) /\ turns' # Pool
    <3>1. P \cup {i + 1} # 1 .. n
      BY <1>4, <2>5
    <3>2. CASE t <= i + 1 /\ P \cup {i + 1} = t + 1 .. i + 1
      <4>1. turns' = At(accounts, t + 1 .. i + 1)
        BY <2>5, <3>2
      <4>2. turns' = At(accounts', t + 1 .. currentIndex')
        BY <1>2, <4>1
      <4>3. t <= currentIndex' /\ currentIndex' <= Len(accounts')
        BY <1>1, <1>2, <2>3, <3>2
      <4>4. Running(t)'
        BY <4>2, <4>3 DEF Running
      <4>. QED  BY <2>1, <2>3, <2>5, <4>4 DEF Round
    <3>3. CASE i + 1 < t /\ t <= n /\ P \cup {i + 1} = (t + 1 .. n) \cup (1 .. i + 1)
      <4>1. Wrapped(t)'
        BY <1>1, <1>2, <2>3, <2>5, <3>3 DEF Wrapped
      <4>. QED  BY <2>1, <2>3, <2>5, <4>1 DEF Round
    <3>. QED  BY <1>5, <3>1, <3>2, <3>3
  <2>. QED  BY <1>2, <2>2, <2>4, <2>5
<1>6. CASE turns = {}
  <2>1. turns = At(accounts, {}) /\ {} \cup {i + 1} = i + 1 .. i + 1 /\ i <= i + 1
    BY <1>1, <1>6 DEF At
  <2>. QED  BY <1>1, <1>5, <2>1
<1>7. CASE Running(s) /\ turns # {}
  <2>1. s < currentIndex /\ currentIndex <= n /\ turns = At(accounts, s + 1 .. currentIndex)
    BY <1>1, <1>7 DEF Running, At, n
  <2>. DEFINE P == s + 1 .. currentIndex
  <2>2. P \subseteq 1 .. n /\ turns = At(accounts, P)
    BY <1>1, <2>1
  <2>3. CASE currentIndex < n
    <3>1. i = currentIndex
      BY <1>1, <2>3 DEF i
    <3>2. i + 1 \notin P /\ s <= i + 1 /\ P \cup {i + 1} = s + 1 .. i + 1
      BY <1>1, <2>1, <3>1
    <3>. QED  BY <1>5, <2>2, <3>2
  <2>4. CASE currentIndex = n
    <3>1. i = 0 /\ P = s + 1 .. n
      BY <1>1, <2>4 DEF i
    <3>2. s # 0
      BY <1>4, <2>2, <3>1
    <3>3. i + 1 \notin P
      BY <1>1, <3>1, <3>2
    <3>4. CASE s = 1
      <4>1. P \cup {i + 1} = 1 .. n
        BY <1>1, <3>1, <3>4
      <4>. QED  BY <1>5, <2>2, <3>3, <4>1
    <3>5. CASE s # 1
      <4>1. i + 1 < s /\ s <= n /\ P \cup {i + 1} = (s + 1 .. n) \cup (1 .. i + 1)
        BY <1>1, <2>1, <2>4, <3>1, <3>2, <3>5
      <4>. QED  BY <1>5, <2>2, <3>3, <4>1
    <3>. QED  BY <3>4, <3>5
  <2>. QED  BY <1>1, <2>1, <2>3, <2>4
<1>8. CASE Wrapped(s)
  <2>. DEFINE P == (s + 1 .. n) \cup (1 .. currentIndex)
  <2>1. currentIndex < s /\ s <= n /\ turns = At(accounts, P)
    BY <1>8 DEF Wrapped, n
  <2>2. P \subseteq 1 .. n /\ i = currentIndex /\ i + 1 \notin P
    BY <1>1, <2>1 DEF i
  <2>3. CASE i + 1 < s
    <3>1. P \cup {i + 1} = (s + 1 .. n) \cup (1 .. i + 1)
      BY <1>1, <2>1, <2>2, <2>3
    <3>. QED  BY <1>5, <2>1, <2>2, <2>3, <3>1
  <2>4. CASE i + 1 = s
    <3>1. P \cup {i + 1} = 1 .. n
      BY <1>1, <2>1, <2>2, <2>4
    <3>. QED  BY <1>5, <2>1, <2>2, <3>1
  <2>. QED  BY <1>1, <2>1, <2>2, <2>3, <2>4
<1>. QED  BY <1>3, <1>6, <1>7, <1>8

LEMMA SomeoneThere == ASSUME NEW s \in Seq(Accounts), s # <<>> PROVE ToSet(s) # {}
<1>1. DOMAIN s = 1 .. Len(s) /\ Len(s) \in Nat /\ Len(s) # 0
  OBVIOUS
<1>2. 1 \in DOMAIN s
  BY <1>1
<1>. QED  BY <1>2 DEF ToSet

LEMMA RoundFresh ==
    ASSUME TypeOK', turns' = {} PROVE Round'
<1>1. accounts' # <<>> => Pool' # {}
  BY SomeoneThere DEF Pool, TypeOK
<1>2. PICK s \in Nat : s = currentIndex'
  BY DEF TypeOK
<1>3. s + 1 .. s = {}
  OBVIOUS
<1>4. At(accounts', s + 1 .. s) = {}
  BY <1>3 DEF At
<1>5. turns' = At(accounts', s + 1 .. currentIndex')
  BY <1>2, <1>4
<1>6. Running(s)'
  BY <1>2, <1>5 DEF Running
<1>. QED  BY <1>1, <1>6 DEF Round

LEMMA RoundKept == TypeOK /\ Round /\ [Next]_vars => Round'
<1>. SUFFICES ASSUME TypeOK, Round, [Next]_vars PROVE Round'
  OBVIOUS
<1>1. CASE UNCHANGED <<accounts, currentIndex, turns>>
  BY <1>1 DEF Round, Running, Wrapped, At, Pool
<1>2. CASE RoundRobin
  BY <1>2, RoundStep
<1>3. CASE turns' = {}
  BY <1>3, RoundFresh, TypeStep
<1>. QED
  BY <1>1, <1>2, <1>3 DEF Next, vars, GetAccountSession, GetAccountSessionExcluding,
     GetAccountSessionByEmail, RecordFailure, ResetFailure, RefreshAccount, Add, Delete, Tick

\* While all accounts are cooling down, each of them gets its turn before any gets a
\* second one, however many there are, wherever the index stood, and whatever requests,
\* failures and answers come between.
THEOREM RoundRobinTakesTurns == Spec => TurnsAreTaken
<1>1. Init => Round
  <2>. SUFFICES ASSUME Init PROVE Round
    OBVIOUS
  <2>1. TypeOK /\ turns = {} /\ currentIndex = 0
    BY TypeInit DEF Init
  <2>2. accounts # <<>> => Pool # {}
    BY <2>1, SomeoneThere DEF Pool, TypeOK
  <2>3. Running(0)
    BY <2>1 DEF TypeOK, Running, At
  <2>. QED  BY <2>1, <2>2, <2>3 DEF Round
<1>2. TypeOK /\ Round /\ [Next]_vars => [RoundRobin => given' \notin turns]_vars
  BY RoundStep
<1>. QED  BY <1>1, <1>2, TypeInit, TypeStep, RoundKept, PTL DEF Spec, TurnsAreTaken
=============================================================================
