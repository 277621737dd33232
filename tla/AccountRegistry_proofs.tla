----------------------- MODULE AccountRegistry_proofs -----------------------
(***************************************************************************)
(* Type correctness, the guest fallback, the agreement of pool and store,  *)
(* the order of tokens and what an addition leaves alone, for every set of *)
(* emails and administrators, every store and every pattern of failures and *)
(* restarts.                                                               *)
(***************************************************************************)
EXTENDS AccountRegistry, TLAPS

LEMMA RefreshOneType ==
    ASSUME TypeOK, NEW e \in Emails, RefreshOne(e)
    PROVE  /\ pool' \in Accounts /\ stored' \in Accounts
           /\ issued' \in Tokens /\ harm' \subseteq {"race", "store"}
           /\ Has(pool') = Has(pool)
<1>. USE RegistryAssumption DEF TypeOK, Accounts, Tokens
<1>1. CASE UNCHANGED <<pool, stored, issued, harm>>
  BY <1>1 DEF Has
<1>2. CASE pool[e] # None /\ issued < MaxToken /\ issued' = issued + 1
           /\ pool' = [pool EXCEPT ![e] = issued + 1]
  <2>1. issued + 1 \in Tokens /\ issued + 1 # None
    BY <1>2
  <2>2. Has(pool') = Has(pool)
    BY <1>2, <2>1 DEF Has
  <2>3. pool' \in Accounts /\ stored' \in Accounts
    BY <1>2, <2>1 DEF RefreshOne
  <2>. QED  BY <1>2, <2>1, <2>2, <2>3 DEF RefreshOne, Race
<1>. QED  BY <1>1, <1>2 DEF RefreshOne

\* What a step of a refreshing round does: to one account, or to the guest.
LEMMA RoundStep ==
    ASSUME TypeOK, NEW a \in Admins, RefreshNext(a)
    PROVE  /\ UNCHANGED <<guest, initVars, owed>>
           /\ UNCHANGED <<pool, stored, issued, harm>> \/ \E e \in Emails : RefreshOne(e)
<1>1. PICK e \in Emails \cup {Guest} :
          (e = Guest /\ RefreshGuest) \/ (e # Guest /\ RefreshOne(e))
  BY DEF RefreshNext, TypeOK
<1>. QED  BY <1>1 DEF RefreshGuest, RefreshNext

LEMMA TypeStep == TypeOK /\ [Next]_vars => TypeOK'
<1>. SUFFICES ASSUME TypeOK, [Next]_vars PROVE TypeOK'
  OBVIOUS
<1>. USE RegistryAssumption
<1>1. CASE InitLoad
  BY <1>1 DEF InitLoad, TypeOK, Accounts, Tokens, Has, adminVars
<1>2. CASE InitLoadFails \/ InitAssign
  BY <1>2 DEF InitLoadFails, InitAssign, TypeOK, adminVars
<1>3. CASE InitSave
  <2>1. harm' \in {harm, harm \cup {"store"}} /\ stored' \in {stored, validated}
    BY <1>3 DEF InitSave
  <2>. QED  BY <1>3, <2>1 DEF InitSave, TypeOK, adminVars
<1>merge. CASE InitMerge
  <2>1. PICK seen \in Accounts : validated' = Merged(seen)
    BY <1>merge DEF InitMerge
  <2>2. validated' \in Accounts
    BY <2>1 DEF Merged, TypeOK, Accounts
  <2>. QED  BY <1>merge, <2>2 DEF InitMerge, TypeOK, adminVars
<1>unsaved. ASSUME NEW a \in Admins, AddUnsaved(a) PROVE TypeOK'
  <2>. PICK e \in target[a] :
           validated' \in {validated, [validated EXCEPT ![e] = issued + 1]}
    BY <1>unsaved DEF AddUnsaved
  <2>1. e \in Emails /\ issued + 1 \in Tokens
    BY <1>unsaved DEF AddUnsaved, TypeOK, Tokens
  <2>2. validated' \in Accounts
    BY <2>1 DEF TypeOK, Accounts
  <2>3. issued' \in Tokens /\ harm' \subseteq {"race", "store"}
    BY <1>unsaved, <2>1 DEF AddUnsaved, TypeOK
  <2>. QED  BY <1>unsaved, <2>2, <2>3 DEF AddUnsaved, Done, TypeOK
<1>4. ASSUME NEW a \in Admins, NEW e \in Emails, AddCheck(a, e) PROVE TypeOK'
  BY <1>4 DEF AddCheck, TypeOK, initVars
<1>5. ASSUME NEW a \in Admins, AddFails(a) PROVE TypeOK'
  BY <1>5 DEF AddFails, Done, TypeOK, initVars
<1>6. ASSUME NEW a \in Admins, AddFinish(a) PROVE TypeOK'
  <2>. PICK e \in target[a] :
           /\ pool' = [pool EXCEPT ![e] = issued + 1]
           /\ stored' = IF ReadOnly THEN stored ELSE [stored EXCEPT ![e] = issued + 1]
           /\ owed' = owed \cup {e}
    BY <1>6 DEF AddFinish
  <2>1. e \in Emails /\ issued + 1 \in Tokens
    BY <1>6 DEF AddFinish, TypeOK, Tokens
  <2>2. pool' \in Accounts /\ stored' \in Accounts /\ owed' \subseteq Emails
    BY <2>1 DEF TypeOK, Accounts
  <2>3. harm' \subseteq {"race", "store"} /\ issued' \in Tokens
    BY <1>6, <2>1 DEF AddFinish, TypeOK, Race
  <2>. QED  BY <1>6, <2>2, <2>3 DEF AddFinish, Done, TypeOK, initVars
<1>7. ASSUME NEW a \in Admins, NEW e \in Emails, Delete(a, e) PROVE TypeOK'
  BY <1>7 DEF Delete, TypeOK, Accounts, Race, initVars, adminVars
<1>8. ASSUME NEW a \in Admins, NEW e \in Emails, Refresh(a, e) PROVE TypeOK'
  BY <1>8, RefreshOneType DEF Refresh, TypeOK, initVars, adminVars
<1>9. ASSUME NEW a \in Admins, RefreshAll(a) PROVE TypeOK'
  BY <1>9 DEF RefreshAll, TypeOK, Has, initVars
<1>10. ASSUME NEW a \in Admins, RefreshNext(a) PROVE TypeOK'
  <2>. PICK e \in target[a] :
           /\ (e = Guest /\ RefreshGuest) \/ (e # Guest /\ RefreshOne(e))
           /\ target' = [target EXCEPT ![a] = @ \ {e}]
    BY <1>10 DEF RefreshNext
  <2>1. e = Guest \/ e \in Emails
    BY DEF TypeOK
  <2>2. /\ pool' \in Accounts /\ stored' \in Accounts
        /\ issued' \in Tokens /\ harm' \subseteq {"race", "store"}
    BY <2>1, RefreshOneType DEF RefreshGuest, TypeOK
  <2>. QED  BY <1>10, <2>2 DEF RefreshNext, TypeOK, initVars
<1>11. CASE Restart
  BY <1>11 DEF Restart, TypeOK, NoAccounts, Accounts
<1>12. CASE UNCHANGED vars
  BY <1>12 DEF vars, TypeOK
<1>. QED  BY <1>1, <1>2, <1>3, <1>4, <1>5, <1>6, <1>7, <1>8, <1>9, <1>10, <1>11, <1>12,
             <1>merge, <1>unsaved
          DEF Next, Initialize

LEMMA InitType == Init => TypeOK
<1>. SUFFICES ASSUME Init PROVE TypeOK
  OBVIOUS
<1>1. 0 \in Tokens
  BY RegistryAssumption DEF Tokens
<1>2. stored \in Accounts /\ NoAccounts \in Accounts
  BY <1>1 DEF Init, Accounts, NoAccounts
<1>3. Has(stored) \subseteq Emails
  BY DEF Has
<1>. QED  BY <1>1, <1>2, <1>3 DEF Init, TypeOK

\* Every variable keeps its type.
THEOREM TypeCorrect == Spec => []TypeOK
BY InitType, TypeStep, PTL DEF Spec

-----------------------------------------------------------------------------
LEMMA GuestStep == TypeOK /\ GuestStandsIn /\ [Next]_vars => GuestStandsIn'
<1>. SUFFICES ASSUME TypeOK, GuestStandsIn, [Next]_vars PROVE GuestStandsIn'
  OBVIOUS
<1>. USE RegistryAssumption DEF GuestStandsIn
<1>1. CASE InitLoad \/ InitLoadFails \/ InitMerge \/ InitSave
  BY <1>1 DEF InitLoad, InitLoadFails, InitMerge, InitSave, Has
<1>2. CASE InitAssign
  BY <1>2 DEF InitAssign, Has
<1>3. ASSUME NEW a \in Admins, NEW e \in Emails, AddCheck(a, e) PROVE GuestStandsIn'
  BY <1>3 DEF AddCheck, initVars, Has
<1>4. ASSUME NEW a \in Admins, AddFails(a) \/ AddUnsaved(a) \/ RefreshAll(a)
      PROVE  GuestStandsIn'
  BY <1>4 DEF AddFails, AddUnsaved, RefreshAll, initVars, Has
<1>5. ASSUME NEW a \in Admins, AddFinish(a) PROVE GuestStandsIn'
  <2>. PICK e \in Emails : pool' = [pool EXCEPT ![e] = issued + 1]
    BY <1>5 DEF AddFinish, TypeOK
  <2>1. e \in Has(pool')
    BY DEF Has, TypeOK, Accounts, Tokens
  <2>. QED  BY <1>5, <2>1 DEF AddFinish
<1>6. ASSUME NEW a \in Admins, NEW e \in Emails, Delete(a, e) PROVE GuestStandsIn'
  <2>1. Has(pool') = Has(pool) \ {e} /\ e \in Has(pool)
    BY <1>6 DEF Delete, Has, TypeOK, Accounts
  <2>2. guest' = (guest \/ Has(pool) = {e}) /\ UNCHANGED initialized
    BY <1>6 DEF Delete, initVars
  <2>. QED  BY <2>1, <2>2
<1>7. ASSUME NEW a \in Admins, NEW e \in Emails, Refresh(a, e) PROVE GuestStandsIn'
  BY <1>7, RefreshOneType DEF Refresh, initVars
<1>8. ASSUME NEW a \in Admins, RefreshNext(a) PROVE GuestStandsIn'
  <2>1. Has(pool') = Has(pool)
    BY <1>8, RoundStep, RefreshOneType DEF Has
  <2>. QED  BY <1>8, <2>1, RoundStep DEF initVars
<1>9. CASE Restart
  BY <1>9 DEF Restart, NoAccounts, Has
<1>10. CASE UNCHANGED vars
  BY <1>10 DEF vars, Has
<1>. QED  BY <1>1, <1>2, <1>3, <1>4, <1>5, <1>6, <1>7, <1>8, <1>9, <1>10
          DEF Next, Initialize

\* Once the service is initialized its pool has the guest exactly when it has no other
\* account, whatever additions, deletions, failures and restarts come in between.
THEOREM GuestFallback == Spec => []GuestStandsIn
<1>1. Init => TypeOK /\ GuestStandsIn
  BY InitType DEF Init, GuestStandsIn, NoAccounts, Has
<1>2. TypeOK /\ GuestStandsIn /\ [Next]_vars => (TypeOK /\ GuestStandsIn)'
  BY TypeStep, GuestStep
<1>. QED  BY <1>1, <1>2, PTL DEF Spec

-----------------------------------------------------------------------------
(***************************************************************************)
(* Why pool and store agree.  Between its load and its save Initialize     *)
(* holds a copy of the store, which stays exact as long as nobody changes  *)
(* an account; the merge leaves out nothing it loaded, so that its save    *)
(* adds only the tokens it already gave the pool.                          *)
(***************************************************************************)
Copied == init \in {"assign", "merge", "save"} =>
    /\ loaded = stored
    /\ Has(validated) \subseteq Has(stored)

Exact == \A e \in Emails : pool[e] # None => validated[e] = pool[e]

Agreed ==
    /\ Has(stored) = owed
    /\ Copied
    /\ init = "merge" => pool = validated
    /\ init = "save" => Has(validated) = Has(stored) /\ Exact
    /\ init \notin {"merge", "save"} => \A e \in Emails : pool[e] # None => stored[e] = pool[e]

Agreement == ~ReadOnly /\ harm = {} => Agreed

LEMMA HarmStays == [Next]_vars => harm \subseteq harm'
<1>1. CASE Initialize
  BY <1>1 DEF Initialize, InitLoad, InitLoadFails, InitAssign, InitMerge, InitSave
<1>2. ASSUME NEW e, RefreshOne(e) PROVE harm \subseteq harm'
  BY <1>2 DEF RefreshOne
<1>3. ASSUME NEW a \in Admins, NEW e \in Emails, AddCheck(a, e) \/ Delete(a, e) \/ Refresh(a, e)
      PROVE  harm \subseteq harm'
  BY <1>2, <1>3 DEF AddCheck, Delete, Refresh
<1>4. ASSUME NEW a \in Admins,
             \/ AddFails(a) \/ AddUnsaved(a) \/ AddFinish(a)
             \/ RefreshAll(a) \/ RefreshNext(a)
      PROVE  harm \subseteq harm'
  BY <1>2, <1>4 DEF AddFails, AddUnsaved, AddFinish, RefreshAll, RefreshNext, RefreshGuest
<1>. QED  BY <1>1, <1>3, <1>4 DEF Next, Restart, vars

LEMMA AgreementStep == TypeOK /\ Agreement /\ [Next]_vars => Agreement'
<1>. SUFFICES ASSUME TypeOK, Agreement, [Next]_vars, ~ReadOnly, harm' = {} PROVE Agreed'
  BY DEF Agreement
<1>0. harm = {} /\ Agreed
  BY HarmStays DEF Agreement
<1>. USE RegistryAssumption, <1>0 DEF Agreed, Copied, Exact
<1>1. CASE InitLoad
  <2>1. Has(validated') \subseteq Has(stored) /\ UNCHANGED <<pool, stored, owed>>
    BY <1>1 DEF InitLoad, Has
  <2>. QED  BY <1>1, <2>1 DEF InitLoad, Has
<1>2. CASE InitLoadFails
  BY <1>2 DEF InitLoadFails, Has
<1>3. CASE InitAssign
  BY <1>3 DEF InitAssign, Has
<1>4. CASE InitSave
  <2>1. stored' = validated /\ UNCHANGED <<pool, owed, validated>> /\ init' = "done"
    BY <1>4 DEF InitSave
  <2>2. Has(stored') = Has(stored)
    BY <1>4, <2>1 DEF InitSave, Has
  <2>. QED  BY <1>4, <2>1, <2>2 DEF InitSave
<1>merge. CASE InitMerge
  <2>1. /\ init = "merge" /\ init' = "save"
        /\ UNCHANGED <<pool, owed, stored, loaded>>
    BY <1>merge DEF InitMerge
  <2>2. PICK seen \in Accounts :
            /\ \A e \in Emails : seen[e] = validated[e]
            /\ validated' = Merged(seen)
    BY <1>merge, <2>1 DEF InitMerge
  <2>3. \A e \in Emails :
            validated'[e] = IF validated[e] # None THEN validated[e] ELSE stored[e]
    BY <2>1, <2>2 DEF Merged
  <2>4. Has(validated') = Has(stored)
    BY <2>1, <2>3 DEF Has
  <2>5. Exact'
    BY <2>1, <2>3
  <2>6. Has(stored') = owed'
    BY <2>1 DEF Has
  <2>7. Has(validated') = Has(stored')
    BY <2>1, <2>4 DEF Has
  <2>. QED  BY <2>1, <2>5, <2>6, <2>7
<1>5. ASSUME NEW a \in Admins, NEW e \in Emails, AddCheck(a, e) PROVE Agreed'
  BY <1>5 DEF AddCheck, initVars, Has
<1>6. ASSUME NEW a \in Admins, AddFails(a) \/ RefreshAll(a) PROVE Agreed'
  BY <1>6 DEF AddFails, RefreshAll, initVars, Has
<1>unsaved. ASSUME NEW a \in Admins, AddUnsaved(a) PROVE Agreed'
  <2>1. init # "merge" /\ UNCHANGED <<pool, stored, init, loaded, owed>>
    BY <1>unsaved DEF AddUnsaved
  <2>2. UNCHANGED validated
    BY <1>unsaved, <2>1 DEF AddUnsaved
  <2>. QED  BY <2>1, <2>2 DEF Has
<1>7. ASSUME NEW a \in Admins, AddFinish(a) PROVE Agreed'
  <2>. PICK e \in target[a] :
           /\ pool' = [pool EXCEPT ![e] = issued + 1]
           /\ stored' = [stored EXCEPT ![e] = issued + 1]
           /\ owed' = owed \cup {e}
    BY <1>7 DEF AddFinish
  <2>1. init \notin {"assign", "merge", "save"} /\ UNCHANGED init
    BY <1>7 DEF AddFinish, Race, initVars
  <2>2. e \in Emails /\ issued + 1 \in Nat
    BY <1>7 DEF AddFinish, TypeOK, Tokens
  <2>3. Has(stored') = Has(stored) \cup {e}
    BY <2>2 DEF Has, TypeOK, Accounts
  <2>. QED  BY <2>1, <2>2, <2>3 DEF TypeOK, Accounts
<1>8. ASSUME NEW a \in Admins, NEW e \in Emails, Delete(a, e) PROVE Agreed'
  <2>1. /\ pool' = [pool EXCEPT ![e] = None] /\ stored' = [stored EXCEPT ![e] = None]
        /\ owed' = owed \ {e}
    BY <1>8 DEF Delete
  <2>2. init \notin {"assign", "merge", "save"} /\ UNCHANGED init
    BY <1>8 DEF Delete, Race, initVars
  <2>3. Has(stored') = Has(stored) \ {e}
    BY <2>1 DEF Has, TypeOK, Accounts
  <2>. QED  BY <2>1, <2>2, <2>3 DEF TypeOK, Accounts
<1>9. ASSUME NEW e \in Emails, RefreshOne(e), UNCHANGED <<initVars, owed>> PROVE Agreed'
  <2>1. CASE UNCHANGED <<pool, stored>>
    BY <1>9, <2>1 DEF initVars, Has
  <2>2. CASE /\ pool[e] # None /\ pool' = [pool EXCEPT ![e] = issued + 1]
             /\ stored' = [stored EXCEPT ![e] = issued + 1]
             /\ harm' = harm \cup Race
    <3>1. init \notin {"assign", "merge", "save"} /\ UNCHANGED init
      BY <1>9, <2>2 DEF Race, initVars
    <3>2. issued + 1 \in Nat /\ stored[e] # None
      BY <2>2, <3>1 DEF TypeOK, Tokens
    <3>3. Has(stored') = Has(stored)
      BY <2>2, <3>2 DEF Has, TypeOK, Accounts
    <3>. QED  BY <1>9, <2>2, <3>1, <3>2, <3>3 DEF TypeOK, Accounts
  <2>. QED  BY <1>9, <2>1, <2>2 DEF RefreshOne
<1>10. ASSUME NEW a \in Admins, NEW e \in Emails, Refresh(a, e) PROVE Agreed'
  BY <1>9, <1>10 DEF Refresh
<1>11. ASSUME NEW a \in Admins, RefreshNext(a) PROVE Agreed'
  <2>1. CASE UNCHANGED <<pool, stored, issued, harm, initVars, owed>>
    BY <2>1 DEF initVars, Has
  <2>. QED  BY <1>9, <1>11, <2>1, RoundStep
<1>12. CASE Restart
  BY <1>12 DEF Restart, NoAccounts, Has
<1>13. CASE UNCHANGED vars
  BY <1>13 DEF vars, Has
<1>. QED  BY <1>1, <1>2, <1>3, <1>4, <1>5, <1>6, <1>7, <1>8, <1>10, <1>11, <1>12, <1>13,
             <1>merge, <1>unsaved
          DEF Next, Initialize

LEMMA AgreementHolds == Spec => []Agreement
<1>1. Init => TypeOK /\ Agreement
  BY InitType DEF Init, Agreement, Agreed, Copied, NoAccounts, Has
<1>2. TypeOK /\ Agreement /\ [Next]_vars => (TypeOK /\ Agreement)'
  BY TypeStep, AgreementStep
<1>. QED  BY <1>1, <1>2, PTL DEF Spec

\* Outside Initialize's window, and while no store operation fails, the store holds the
\* accounts it owes.
THEOREM StoreAgreement == Spec => []StoreHoldsOwed
<1>1. Agreement => StoreHoldsOwed
  BY DEF Agreement, Agreed, StoreHoldsOwed
<1>. QED  BY <1>1, AgreementHolds, PTL

\* Pool and store change together there: the accounts in use are those stored, with the
\* tokens stored.
THEOREM PoolAgreement == Spec => []PoolMatchesStore
<1>1. Agreement => PoolMatchesStore
  BY DEF Agreement, Agreed, PoolMatchesStore
<1>. QED  BY <1>1, AgreementHolds, PTL

-----------------------------------------------------------------------------
(***************************************************************************)
(* Why tokens only get newer.  Whatever anybody holds was issued already,  *)
(* so that a new one is newer than all; and what Initialize carries from   *)
(* its load to its save is, for each account, at least what the store has. *)
(***************************************************************************)
Bounded ==
    \A e \in Emails :
        /\ pool[e] # None => pool[e] <= issued
        /\ stored[e] # None => stored[e] <= issued
        /\ loaded[e] # None => loaded[e] <= issued
        /\ validated[e] # None => validated[e] <= issued

Newer ==
    ~ReadOnly /\ harm = {} /\ init \in {"assign", "merge", "save"} =>
        \A e \in Emails :
            stored[e] # None /\ validated[e] # None => validated[e] >= stored[e]

LEMMA BoundedStep == TypeOK /\ Bounded /\ [Next]_vars => Bounded'
<1>. SUFFICES ASSUME TypeOK, Bounded, [Next]_vars PROVE Bounded'
  OBVIOUS
<1>. USE RegistryAssumption DEF Bounded, TypeOK, Accounts, Tokens
<1>1. CASE InitLoad
  BY <1>1 DEF InitLoad, Has
<1>2. CASE InitLoadFails \/ InitAssign \/ InitSave
  BY <1>2 DEF InitLoadFails, InitAssign, InitSave
<1>3. CASE InitMerge
  <2>1. PICK seen \in Accounts :
            /\ \A e \in Emails : seen[e] \in {validated[e], pool[e], None}
            /\ validated' = Merged(seen)
    BY <1>3 DEF InitMerge
  <2>2. \A e \in Emails : validated'[e] \in {validated[e], pool[e], loaded[e], None}
    BY <2>1 DEF Merged
  <2>. QED  BY <1>3, <2>2 DEF InitMerge
<1>4. ASSUME NEW a \in Admins, NEW e \in Emails, AddCheck(a, e) \/ Delete(a, e)
      PROVE  Bounded'
  BY <1>4 DEF AddCheck, Delete, initVars
<1>5. ASSUME NEW a \in Admins, AddFails(a) \/ RefreshAll(a) PROVE Bounded'
  BY <1>5 DEF AddFails, RefreshAll, initVars
<1>6. ASSUME NEW a \in Admins, AddUnsaved(a) PROVE Bounded'
  <2>1. PICK e \in target[a] :
            validated' \in {validated, [validated EXCEPT ![e] = issued + 1]}
    BY <1>6 DEF AddUnsaved
  <2>2. \A f \in Emails : validated'[f] \in {validated[f], issued + 1}
    BY <2>1
  <2>. QED  BY <1>6, <2>2 DEF AddUnsaved
<1>7. ASSUME NEW a \in Admins, AddFinish(a) PROVE Bounded'
  BY <1>7 DEF AddFinish, initVars
<1>8. ASSUME NEW e \in Emails, RefreshOne(e), UNCHANGED initVars PROVE Bounded'
  BY <1>8 DEF RefreshOne, initVars
<1>9. ASSUME NEW a \in Admins, NEW e \in Emails, Refresh(a, e) PROVE Bounded'
  BY <1>8, <1>9 DEF Refresh
<1>10. ASSUME NEW a \in Admins, RefreshNext(a) PROVE Bounded'
  BY <1>8, <1>10, RoundStep DEF initVars
<1>11. CASE Restart \/ UNCHANGED vars
  BY <1>11 DEF Restart, NoAccounts, vars
<1>. QED  BY <1>1, <1>2, <1>3, <1>4, <1>5, <1>6, <1>7, <1>9, <1>10, <1>11
          DEF Next, Initialize

LEMMA NewerStep == TypeOK /\ Bounded /\ Agreement /\ Newer /\ [Next]_vars => Newer'
<1>. SUFFICES ASSUME TypeOK, Bounded, Agreement, Newer, [Next]_vars, ~ReadOnly, harm' = {},
                     init' \in {"assign", "merge", "save"}
              PROVE  Newer'
  BY DEF Newer
<1>0. harm = {} /\ Agreed
  BY HarmStays DEF Agreement
<1>. USE RegistryAssumption, <1>0 DEF Newer, Agreed, Copied, TypeOK, Accounts, Tokens
<1>1. CASE InitLoad
  BY <1>1 DEF InitLoad, Has, Bounded
<1>2. CASE InitLoadFails \/ InitAssign \/ InitSave
  BY <1>2 DEF InitLoadFails, InitAssign, InitSave
<1>3. CASE InitMerge
  <2>1. init = "merge" /\ UNCHANGED stored /\ loaded = stored
    BY <1>3 DEF InitMerge
  <2>2. PICK seen \in Accounts :
            /\ \A e \in Emails : seen[e] = validated[e]
            /\ validated' = Merged(seen)
    BY <1>3, <2>1 DEF InitMerge
  <2>3. \A e \in Emails : validated'[e] = IF validated[e] # None THEN validated[e] ELSE stored[e]
    BY <2>1, <2>2 DEF Merged
  <2>. QED  BY <2>1, <2>3
<1>4. ASSUME NEW a \in Admins, NEW e \in Emails, AddCheck(a, e) \/ Delete(a, e) PROVE Newer'
  BY <1>4 DEF AddCheck, Delete, initVars
<1>5. ASSUME NEW a \in Admins, AddFails(a) \/ RefreshAll(a) \/ AddUnsaved(a) PROVE Newer'
  BY <1>5 DEF AddFails, RefreshAll, AddUnsaved, initVars
<1>6. ASSUME NEW a \in Admins, AddFinish(a) PROVE Newer'
  BY <1>6 DEF AddFinish, Race, initVars
<1>7. ASSUME NEW e \in Emails, RefreshOne(e), UNCHANGED initVars PROVE Newer'
  BY <1>7 DEF RefreshOne, Race, initVars
<1>8. ASSUME NEW a \in Admins, NEW e \in Emails, Refresh(a, e) PROVE Newer'
  BY <1>7, <1>8 DEF Refresh
<1>9. ASSUME NEW a \in Admins, RefreshNext(a) PROVE Newer'
  BY <1>7, <1>9, RoundStep DEF initVars
<1>10. CASE Restart \/ UNCHANGED vars
  BY <1>10 DEF Restart, vars
<1>. QED  BY <1>1, <1>2, <1>3, <1>4, <1>5, <1>6, <1>8, <1>9, <1>10 DEF Next, Initialize

LEMMA TokensStep ==
    TypeOK /\ Bounded /\ Agreement /\ Newer /\ [Next]_vars => [KeepsTokens]_vars
<1>. SUFFICES ASSUME TypeOK, Bounded, Agreement, Newer, [Next]_vars, ~ReadOnly, harm = {},
                     NEW f \in Emails
              PROVE  /\ pool[f] # None /\ pool'[f] # None => pool'[f] >= pool[f]
                     /\ stored[f] # None /\ stored'[f] # None => stored'[f] >= stored[f]
  BY DEF KeepsTokens
<1>. USE RegistryAssumption DEF TypeOK, Accounts, Tokens
<1>0. Agreed
  BY DEF Agreement
<1>1. CASE InitLoad \/ InitLoadFails \/ InitMerge
  BY <1>1 DEF InitLoad, InitLoadFails, InitMerge
<1>2. CASE InitAssign
  BY <1>0, <1>2 DEF InitAssign, Agreed, Newer
<1>3. CASE InitSave
  BY <1>3 DEF InitSave, Newer
<1>4. ASSUME NEW a \in Admins, NEW e \in Emails, AddCheck(a, e) \/ Delete(a, e)
      PROVE  pool'[f] \in {pool[f], None} /\ stored'[f] \in {stored[f], None}
  BY <1>4 DEF AddCheck, Delete
<1>5. ASSUME NEW a \in Admins, AddFails(a) \/ RefreshAll(a) \/ AddUnsaved(a)
      PROVE  UNCHANGED <<pool, stored>>
  BY <1>5 DEF AddFails, RefreshAll, AddUnsaved
<1>6. ASSUME NEW a \in Admins, AddFinish(a)
      PROVE  pool'[f] \in {pool[f], issued + 1} /\ stored'[f] \in {stored[f], issued + 1}
  BY <1>6 DEF AddFinish
<1>7. ASSUME NEW e \in Emails, RefreshOne(e)
      PROVE  pool'[f] \in {pool[f], issued + 1} /\ stored'[f] \in {stored[f], issued + 1}
  BY <1>7 DEF RefreshOne
<1>8. ASSUME NEW a \in Admins, RefreshNext(a)
      PROVE  pool'[f] \in {pool[f], issued + 1} /\ stored'[f] \in {stored[f], issued + 1}
  BY <1>7, <1>8, RoundStep
<1>9. CASE Restart
  BY <1>9 DEF Restart, NoAccounts
<1>10. CASE UNCHANGED vars
  BY <1>10 DEF vars
<1>11. /\ pool[f] # None => pool[f] <= issued + 1
       /\ stored[f] # None => stored[f] <= issued + 1
  BY DEF Bounded
<1>. QED  BY <1>1, <1>2, <1>3, <1>4, <1>5, <1>6, <1>7, <1>8, <1>9, <1>10, <1>11
          DEF Next, Initialize, Refresh

\* In the pool and in the store an account's token is only ever replaced by a newer one,
\* until a change falls into Initialize's window or the store fails.
THEOREM NewerTokens == Spec => TokensNeverGoBack
<1>. DEFINE Inv == TypeOK /\ Bounded /\ Agreement /\ Newer
<1>1. Init => Inv
  BY InitType, RegistryAssumption
     DEF Init, Bounded, Newer, Agreement, Agreed, Copied, NoAccounts, Has
<1>2. Inv /\ [Next]_vars => Inv'
  BY TypeStep, BoundedStep, AgreementStep, NewerStep
<1>3. Inv /\ [Next]_vars => [KeepsTokens]_vars
  BY TokensStep
<1>. QED  BY <1>1, <1>2, <1>3, PTL DEF Spec, TokensNeverGoBack

LEMMA OthersStep == TypeOK /\ [Next]_vars => [KeepsOthers]_vars
<1>. SUFFICES ASSUME TypeOK, [Next]_vars, NEW a \in Admins,
                     pc[a] = "login", pc'[a] = "idle", issued' # issued
              PROVE  \A e \in Emails : pool[e] # None => pool'[e] = pool[e]
  BY DEF KeepsOthers
<1>. USE RegistryAssumption DEF TypeOK
<1>1. CASE Initialize \/ Restart \/ UNCHANGED vars
  BY <1>1 DEF Initialize, InitLoad, InitLoadFails, InitAssign, InitMerge, InitSave,
              Restart, adminVars, vars
<1>2. ASSUME NEW b \in Admins, NEW e \in Emails, AddCheck(b, e) \/ Delete(b, e) \/ Refresh(b, e)
      PROVE  FALSE
  BY <1>2 DEF AddCheck, Delete, Refresh, adminVars
<1>3. ASSUME NEW b \in Admins, AddFails(b) \/ RefreshAll(b) \/ RefreshNext(b) PROVE FALSE
  BY <1>3 DEF AddFails, RefreshAll, RefreshNext, Done
<1>4. ASSUME NEW b \in Admins, AddUnsaved(b) PROVE UNCHANGED pool
  BY <1>4 DEF AddUnsaved
<1>5. ASSUME NEW b \in Admins, AddFinish(b)
      PROVE  \A e \in Emails : pool[e] # None => pool'[e] = pool[e]
  BY <1>5 DEF AddFinish, Accounts
<1>. QED  BY <1>1, <1>2, <1>3, <1>4, <1>5 DEF Next

\* An addition that logged in while another administrator added the same email leaves
\* that account alone.
THEOREM AdditionsKeepOthers == Spec => AddNeverReplaces
BY InitType, TypeStep, OthersStep, PTL DEF Spec, AddNeverReplaces
=============================================================================
