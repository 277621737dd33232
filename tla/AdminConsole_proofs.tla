------------------------- MODULE AdminConsole_proofs -------------------------
(***************************************************************************)
(* For any settings, keys, lists, tasks and requests: imports add up and   *)
(* share the work, the keys accepted are those in force, and the settings  *)
(* that are saved are in effect and last.                                  *)
(***************************************************************************)
EXTENDS AdminConsole, SequenceTheorems, FiniteSetTheorems, TLAPS

-----------------------------------------------------------------------------
(* The imports: the steps of BatchImport.                                    *)

States == {"none", "spawned", "active", "loggedIn", "succeeded", "failed", "done"}

BatchTyped ==
    /\ task \in [Tasks -> Task \cup {NoTask}]
    /\ worker \in [Tasks -> [Emails -> States]]
    /\ added \subseteq Tasks \X Emails

\* Who has been added by a task is in the pool, and was added by no other.
AddedOnce ==
    \A t \in Tasks, e \in Emails : <<t, e>> \in added =>
        e \in pool /\ \A s \in Tasks : <<s, e>> \in added => s = t

Busy(t) == {e \in Emails : worker[t][e] \notin {"none", "done"}}
Success(t) == {e \in Emails : <<t, e>> \in added /\ worker[t][e] = "done"}
Open(t) == {i \in DOMAIN task[t].new : worker[t][task[t].new[i]] # "done"}

NoWork(t) == \A e \in Emails : worker[t][e] = "none" /\ <<t, e>> \notin added

\* The accounts of a task are different; those before next have a goroutine.
Workers(t) ==
    LET new == task[t].new IN
    /\ \A i, j \in DOMAIN new : new[i] = new[j] => i = j
    /\ task[t].next \in 1 .. Len(new) + 1
    /\ \A i \in DOMAIN new : i < task[t].next <=> worker[t][new[i]] # "none"
    /\ \A e \in Emails : worker[t][e] # "none" => \E i \in DOMAIN new : new[i] = e

\* What a goroutine says of itself and what it has added fit together.
Reports(t) ==
    \A e \in Emails :
        /\ worker[t][e] \in {"none", "spawned", "active", "loggedIn", "failed"} => <<t, e>> \notin added
        /\ worker[t][e] = "succeeded" => <<t, e>> \in added
        /\ e \in task[t].active => worker[t][e] \in {"active", "loggedIn", "succeeded", "failed"}

Counts(t) ==
    /\ task[t].completed = task[t].skipped + task[t].invalid + task[t].success + task[t].failed
    /\ task[t].processed = task[t].success + task[t].failed
    /\ task[t].completed + Cardinality(Open(t)) = task[t].total
    /\ task[t].success = Cardinality(Success(t))

Work(t) ==
    /\ Workers(t) /\ Reports(t) /\ Counts(t)
    /\ task[t].next = 1 \/ task[t].status # "pending"
    /\ task[t].status = "completed" => AllDone(t) /\ task[t].next > Len(task[t].new)
    /\ Cardinality(Busy(t)) <= Largest(1, task[t].concurrency)

BatchInv ==
    /\ BatchTyped /\ AddedOnce
    /\ \A t \in Tasks : IF task[t] = NoTask THEN NoWork(t) ELSE Work(t)

-----------------------------------------------------------------------------
(* The accounts of a list that are new.                                     *)

Below(S, i) == {j \in S : j <= i}

\* Of a finite set of numbers there is an n-th, for every n up to its size.
LEMMA Ranks ==
    ASSUME NEW S \in SUBSET Nat, IsFiniteSet(S), NEW n \in 1 .. Cardinality(S)
    PROVE  \E i \in S : Cardinality(Below(S, i)) = n
<1>. DEFINE rank == [i \in S |-> Cardinality(Below(S, i))]
            k == Cardinality(S)
<1>1. k \in Nat
  BY FS_CardinalityType
<1>2. ASSUME NEW i \in S
      PROVE  IsFiniteSet(Below(S, i)) /\ Cardinality(Below(S, i)) \in 1 .. k
  <2>1. Below(S, i) \in SUBSET S /\ i \in Below(S, i)
    BY DEF Below
  <2>2. IsFiniteSet(Below(S, i)) /\ Cardinality(Below(S, i)) <= k
    BY <2>1, FS_Subset
  <2>3. Cardinality(Below(S, i)) \in Nat /\ Cardinality(Below(S, i)) # 0
    BY <2>1, <2>2, FS_CardinalityType, FS_EmptySet
  <2>. QED  BY <2>2, <2>3, <1>1
<1>3. ASSUME NEW i \in S, NEW j \in S, rank[i] = rank[j] PROVE i = j
  <2>1. SUFFICES ASSUME NEW a \in S, NEW b \in S, a < b, rank[a] = rank[b] PROVE FALSE
    BY <1>3
  <2>2. \A x \in Below(S, a) : x \in Below(S, b)
    BY <2>1 DEF Below
  <2>3. b \in Below(S, b) /\ b \notin Below(S, a)
    BY <2>1 DEF Below
  <2>4. Below(S, a) \in SUBSET Below(S, b)
    BY <2>2
  <2>5. Below(S, a) = Below(S, b)
    BY <2>1, <2>4, <1>2, FS_Subset
  <2>. QED  BY <2>3, <2>5
<1>4. rank \in Injection(S, 1 .. k)
  BY <1>2, <1>3 DEF Injection, IsInjective
<1>5. IsFiniteSet(1 .. k) /\ Cardinality(1 .. k) = k
  BY <1>1, FS_Interval
<1>6. rank \in Surjection(S, 1 .. k)
  BY <1>4, <1>5, FS_Injection
<1>. QED  BY <1>6 DEF Surjection

Firsts(list) ==
    {i \in DOMAIN list :
        /\ list[i] \notin pool \cup {Malformed}
        /\ \A j \in 1 .. i - 1 : list[j] # list[i]}

LEMMA NewAccounts ==
    ASSUME NEW list \in Lists
    PROVE  /\ New(list) \in Seq(Emails)
           /\ \A m, n \in DOMAIN New(list) : New(list)[m] = New(list)[n] => m = n
<1>. DEFINE S == Firsts(list)
            k == Cardinality(S)
            Rank(n) == CHOOSE i \in S : Cardinality({j \in S : j <= i}) = n
<1>1. list \in Seq(Emails \cup {Malformed}) /\ DOMAIN list = 1 .. Len(list) /\ Len(list) \in Nat
  BY BatchAssumption
<1>2. S \in SUBSET Nat /\ IsFiniteSet(S) /\ k \in Nat
  <2>1. S \in SUBSET (1 .. Len(list))
    BY <1>1 DEF Firsts
  <2>2. IsFiniteSet(1 .. Len(list))
    BY <1>1, FS_Interval
  <2>. QED  BY <2>1, <2>2, FS_Subset, FS_CardinalityType
<1>3. New(list) = [n \in 1 .. k |-> list[Rank(n)]]
  BY DEF New, Firsts
<1>4. ASSUME NEW n \in 1 .. k
      PROVE  Rank(n) \in S /\ Cardinality(Below(S, Rank(n))) = n /\ list[Rank(n)] \in Emails
  <2>1. \E i \in S : Cardinality({j \in S : j <= i}) = n
    BY <1>2, Ranks DEF Below
  <2>2. Rank(n) \in S /\ Cardinality({j \in S : j <= Rank(n)}) = n
    BY <2>1
  <2>3. list[Rank(n)] \in Emails
    BY <2>2, <1>1 DEF Firsts
  <2>. QED  BY <2>2, <2>3 DEF Below
<1>5. ASSUME NEW m \in 1 .. k, NEW n \in 1 .. k, list[Rank(m)] = list[Rank(n)] PROVE m = n
  <2>1. \A i, j \in S : list[i] = list[j] => ~(i < j)
    BY <1>1 DEF Firsts
  <2>2. \A i, j \in S : list[i] = list[j] => i = j
    BY <2>1, <1>2
  <2>3. Rank(m) = Rank(n)
    BY <2>2, <1>4, <1>5
  <2>. QED  BY <2>3, <1>4
<1>6. New(list) \in [1 .. k -> Emails] /\ \A n \in 1 .. k : New(list)[n] = list[Rank(n)]
  BY <1>3, <1>4
<1>7. New(list) \in Seq(Emails) /\ DOMAIN New(list) = 1 .. k
  BY <1>2, <1>6
<1>8. ASSUME NEW m \in DOMAIN New(list), NEW n \in DOMAIN New(list), New(list)[m] = New(list)[n]
      PROVE  m = n
  <2>1. m \in 1 .. k /\ n \in 1 .. k
    BY <1>7
  <2>2. list[Rank(m)] = list[Rank(n)]
    BY <1>6, <1>8, <2>1
  <2>. QED  BY <1>5, <2>1, <2>2
<1>. HIDE DEF S, k, Rank
<1>. QED  BY <1>7, <1>8

-----------------------------------------------------------------------------
(* The steps.                                                               *)

\* What the invariant says of a task.
TaskInv(t) == IF task[t] = NoTask THEN NoWork(t) ELSE Work(t)

\* A task's part of the invariant depends on nothing of the other tasks.
LEMMA Frame ==
    ASSUME NEW s \in Tasks, TaskInv(s), task'[s] = task[s], worker'[s] = worker[s],
           \A e \in Emails : <<s, e>> \in added' <=> <<s, e>> \in added
    PROVE  TaskInv(s)'
<1>1. CASE task[s] = NoTask
  BY <1>1 DEF TaskInv, NoWork
<1>2. CASE task[s] # NoTask
  <2>1. Busy(s)' = Busy(s) /\ Success(s)' = Success(s) /\ Open(s)' = Open(s)
    BY DEF Busy, Success, Open
  <2>2. Work(s)
    BY <1>2 DEF TaskInv
  <2>3. Workers(s)'
    BY <2>2 DEF Work, Workers
  <2>4. Reports(s)'
    BY <2>2 DEF Work, Reports
  <2>5. Counts(s)'
    BY <2>1, <2>2 DEF Work, Counts
  <2>6. Work(s)'
    BY <2>1, <2>2, <2>3, <2>4, <2>5 DEF Work, AllDone
  <2>. QED  BY <1>2, <2>6 DEF TaskInv
<1>. QED  BY <1>1, <1>2

\* It is enough to look at the task that takes the step.
LEMMA OneTask ==
    ASSUME BatchInv, NEW t \in Tasks, BatchTyped', AddedOnce', TaskInv(t)',
           \A s \in Tasks \ {t} :
              /\ task'[s] = task[s] /\ worker'[s] = worker[s]
              /\ \A e \in Emails : <<s, e>> \in added' <=> <<s, e>> \in added
    PROVE  BatchInv'
<1>1. ASSUME NEW s \in Tasks PROVE TaskInv(s)'
  BY Frame DEF BatchInv, TaskInv
<1>. QED  BY <1>1 DEF BatchInv, TaskInv

LEMMA InvalidType ==
    ASSUME NEW list \in Lists
    PROVE  Invalid(list) \in Nat
<1>1. list \in Seq(Emails \cup {Malformed})
  BY BatchAssumption
<1>2. IsFiniteSet(DOMAIN list)
  BY <1>1, FS_Interval
<1>3. IsFiniteSet({i \in DOMAIN list : list[i] = Malformed})
  BY <1>2, FS_Subset
<1>. QED  BY <1>3, FS_CardinalityType DEF Invalid

LEMMA ImportStep ==
    ASSUME BatchInv, NEW t \in Tasks, NEW list \in Lists, NEW n \in Nat, Import(t, list, n)
    PROVE  BatchInv'
<1>. DEFINE new == New(list)
            k == Len(new)
            r == [status |-> "pending", total |-> Len(list), invalid |-> Invalid(list),
                  skipped |-> Len(list) - Invalid(list) - k, completed |-> Len(list) - k,
                  processed |-> 0, success |-> 0, failed |-> 0,
                  concurrency |-> n, active |-> {}, new |-> new, next |-> 1]
<1>1. new \in Seq(Emails) /\ k \in Nat /\ DOMAIN new = 1 .. k
  BY NewAccounts
<1>2. Len(list) \in Nat /\ Invalid(list) \in Nat
  BY BatchAssumption, InvalidType
<1>3. r \in Task
  <2>. HIDE DEF new, k
  <2>. QED  BY <1>1, <1>2 DEF Task
<1>4. task' = [task EXCEPT ![t] = r] /\ worker' = worker /\ added' = added /\ pool' = pool
  BY DEF Import
<1>5. task'[t] = r /\ r # NoTask
  BY <1>3, <1>4, BatchAssumption DEF BatchInv, BatchTyped
<1>6. NoWork(t)
  BY DEF Import, BatchInv
<1>. HIDE DEF r
<1>7. BatchTyped' /\ AddedOnce'
  BY <1>3, <1>4 DEF BatchInv, BatchTyped, AddedOnce
<1>8. Work(t)'
  <2>. HIDE DEF new
  <2>1. /\ r.status = "pending" /\ r.total = Len(list) /\ r.invalid = Invalid(list)
        /\ r.skipped = Len(list) - Invalid(list) - k /\ r.completed = Len(list) - k
        /\ r.processed = 0 /\ r.success = 0 /\ r.failed = 0 /\ r.concurrency = n
        /\ r.active = {} /\ r.new = new /\ r.next = 1
    BY DEF r
  <2>e. \A e \in Emails : worker'[t][e] = "none" /\ <<t, e>> \notin added'
    BY <1>4, <1>6 DEF NoWork
  <2>n. task'[t].new = new /\ task'[t].next = 1 /\ \A i \in DOMAIN new : new[i] \in Emails
    BY <1>1, <1>5, <2>1
  <2>2. Workers(t)'
    <3>1. \A i, j \in DOMAIN new : new[i] = new[j] => i = j
      BY NewAccounts DEF new
    <3>2. \A i \in DOMAIN new : ~(i < 1)
      BY <1>1
    <3>3. 1 \in 1 .. k + 1
      BY <1>1
    <3>. QED  BY <2>e, <2>n, <3>1, <3>2, <3>3 DEF Workers
  <2>3. Reports(t)'
    BY <1>4, <1>5, <1>6, <2>1 DEF Reports, NoWork
  <2>4. Counts(t)'
    <3>1. Open(t)' = 1 .. k
      BY <1>1, <2>e, <2>n DEF Open
    <3>2. Cardinality(1 .. k) = k
      <4>. HIDE DEF k
      <4>1. k \in Int /\ 1 \in Int
        BY <1>1
      <4>2. Cardinality(1 .. k) = IF 1 > k THEN 0 ELSE k - 1 + 1
        BY <4>1, FS_Interval
      <4>. QED  BY <4>2, <1>1
    <3>3. Success(t)' = {}
      BY <1>4, <1>6 DEF Success, NoWork
    <3>4. Cardinality(Success(t)') = 0
      BY <3>3, FS_EmptySet
    <3>. QED  BY <1>1, <1>2, <1>5, <2>1, <3>1, <3>2, <3>4 DEF Counts
  <2>5. Cardinality(Busy(t)') = 0
    <3>1. Busy(t)' = {}
      BY <1>4, <1>6 DEF Busy, NoWork
    <3>. QED  BY <3>1, FS_EmptySet
  <2>. QED  BY <1>5, <2>1, <2>2, <2>3, <2>4, <2>5 DEF Work, Largest
<1>9. TaskInv(t)'
  BY <1>5, <1>8 DEF TaskInv
<1>. QED  BY <1>4, <1>7, <1>9, OneTask DEF BatchInv, BatchTyped

\* What is left of a task's record when its status or next changes.
LEMMA RecordStep ==
    ASSUME NEW r \in Task, NEW q \in {"pending", "running", "completed"}, NEW n \in Nat
    PROVE  /\ [r EXCEPT !.status = q] \in Task /\ [r EXCEPT !.next = n] \in Task
           /\ [r EXCEPT !.status = q] = [r EXCEPT !.status = q, !.next = r.next]
BY DEF Task

\* The task's steps but Spawn only change its status.
LEMMA StatusStep ==
    ASSUME BatchInv, NEW t \in Tasks, NEW q \in {"running", "completed"}, task[t] # NoTask,
           task' = [task EXCEPT ![t].status = q], UNCHANGED <<pool, worker, added>>,
           q = "completed" => AllDone(t) /\ task[t].next > Len(task[t].new)
    PROVE  BatchInv'
<1>1. task[t] \in Task /\ Work(t)
  BY DEF BatchInv, BatchTyped
<1>2. task'[t] = [task[t] EXCEPT !.status = q] /\ task'[t] \in Task
  BY <1>1, RecordStep DEF BatchInv, BatchTyped
<1>3. /\ task'[t].status = q /\ task'[t].new = task[t].new /\ task'[t].next = task[t].next
      /\ task'[t].active = task[t].active /\ task'[t].concurrency = task[t].concurrency
      /\ task'[t].completed = task[t].completed /\ task'[t].skipped = task[t].skipped
      /\ task'[t].invalid = task[t].invalid /\ task'[t].success = task[t].success
      /\ task'[t].failed = task[t].failed /\ task'[t].processed = task[t].processed
      /\ task'[t].total = task[t].total
  BY <1>1, <1>2 DEF Task
<1>4. BatchTyped' /\ AddedOnce'
  BY <1>2 DEF BatchInv, BatchTyped, AddedOnce
<1>5. Busy(t)' = Busy(t) /\ Success(t)' = Success(t) /\ Open(t)' = Open(t)
  BY <1>3 DEF Busy, Success, Open
<1>6. Workers(t)'
  BY <1>1, <1>3 DEF Work, Workers
<1>7. Reports(t)'
  BY <1>1, <1>3 DEF Work, Reports
<1>8. Counts(t)'
  BY <1>1, <1>3, <1>5 DEF Work, Counts
<1>9. Work(t)'
  BY <1>1, <1>3, <1>5, <1>6, <1>7, <1>8 DEF Work, AllDone
<1>10. TaskInv(t)'
  BY <1>2, <1>9, BatchAssumption DEF TaskInv
<1>. QED  BY <1>4, <1>10, OneTask DEF BatchInv, BatchTyped

LEMMA RunStep ==
    ASSUME BatchInv, NEW t \in Tasks, Run(t)
    PROVE  BatchInv'
BY StatusStep DEF Run, IsA

LEMMA CompleteStep ==
    ASSUME BatchInv, NEW t \in Tasks, Complete(t)
    PROVE  BatchInv'
BY StatusStep DEF Complete, IsA

LEMMA ForgetStep ==
    ASSUME BatchInv, ForgetTasks
    PROVE  BatchInv'
<1>1. BatchTyped' /\ AddedOnce'
  BY DEF ForgetTasks, BatchTyped, AddedOnce, States
<1>2. ASSUME NEW t \in Tasks PROVE TaskInv(t)'
  BY DEF ForgetTasks, TaskInv, NoWork
<1>. QED  BY <1>1, <1>2 DEF BatchInv, TaskInv

LEMMA SpawnStep ==
    ASSUME BatchInv, NEW t \in Tasks, Spawn(t)
    PROVE  BatchInv'
<1>. DEFINE new == task[t].new
            from == task[t].next
            k == Len(new)
            to == Smallest(from + Largest(1, task[t].concurrency), k + 1)
            emails == {new[i] : i \in from .. to - 1}
<1>1. task[t] \in Task /\ Work(t) /\ IsA(t, "running") /\ AllDone(t) /\ from <= k
  BY DEF BatchInv, BatchTyped, Spawn, IsA
<1>2. /\ worker' = [worker EXCEPT ![t] = [e \in Emails |-> IF e \in emails THEN "spawned" ELSE @[e]]]
      /\ task' = [task EXCEPT ![t].next = to] /\ pool' = pool /\ added' = added
  BY DEF Spawn
<1>3. new \in Seq(Emails) /\ k \in Nat /\ from \in Nat /\ task[t].concurrency \in Nat
  BY <1>1 DEF Task
<1>4. /\ to \in Nat /\ from < to /\ to <= k + 1
      /\ to - from <= Largest(1, task[t].concurrency)
  <2>. HIDE DEF from, k
  <2>. QED  BY <1>1, <1>3 DEF to, Smallest, Largest
<1>5. DOMAIN new = 1 .. k /\ \A i \in DOMAIN new : new[i] \in Emails
  BY <1>3
<1>. HIDE DEF to, k
<1>6. task'[t] = [task[t] EXCEPT !.next = to] /\ task'[t] \in Task
  BY <1>1, <1>2, <1>4, RecordStep DEF BatchInv, BatchTyped
<1>7. /\ task'[t].next = to /\ task'[t].new = new /\ task'[t].status = task[t].status
      /\ task'[t].active = task[t].active /\ task'[t].concurrency = task[t].concurrency
      /\ task'[t].completed = task[t].completed /\ task'[t].skipped = task[t].skipped
      /\ task'[t].invalid = task[t].invalid /\ task'[t].success = task[t].success
      /\ task'[t].failed = task[t].failed /\ task'[t].processed = task[t].processed
      /\ task'[t].total = task[t].total
  BY <1>1, <1>6 DEF Task
<1>. HIDE DEF new, from, emails
<1>8. \A e \in Emails : worker'[t][e] = IF e \in emails THEN "spawned" ELSE worker[t][e]
  BY <1>2 DEF BatchInv, BatchTyped
<1>f. from >= 1
  BY <1>1, <1>3 DEF Work, Workers, from, new
<1>9. \A e \in Emails : e \in emails <=> \E i \in DOMAIN new : from <= i /\ i < to /\ new[i] = e
  <2>1. from .. to - 1 = {i \in DOMAIN new : from <= i /\ i < to}
    BY <1>f, <1>3, <1>4, <1>5
  <2>. QED  BY <2>1 DEF emails
\* Those who get a goroutine had none.
<1>10. \A i \in DOMAIN new : new[i] \in emails <=> from <= i /\ i < to
  BY <1>1, <1>5, <1>9 DEF Work, Workers, new
<1>11. \A e \in emails : e \in Emails /\ worker[t][e] = "none"
  <2>1. ASSUME NEW e \in emails PROVE e \in Emails /\ worker[t][e] = "none"
    <3>1. PICK i \in from .. to - 1 : e = new[i]
      BY DEF emails
    <3>2. i \in DOMAIN new /\ ~(i < from)
      BY <3>1, <1>3, <1>4, <1>5, <1>f
    <3>. QED  BY <3>1, <3>2, <1>1, <1>5 DEF Work, Workers, new, from
  <2>. QED  BY <2>1
<1>12. BatchTyped' /\ AddedOnce'
  <2>1. worker' \in [Tasks -> [Emails -> States]]
    BY <1>2 DEF BatchInv, BatchTyped, States
  <2>. QED  BY <1>2, <1>6, <2>1 DEF BatchInv, BatchTyped, AddedOnce
<1>13. Workers(t)'
  <2>1. \A i, j \in DOMAIN new : new[i] = new[j] => i = j
    BY <1>1 DEF Work, Workers, new
  <2>2. ASSUME NEW i \in DOMAIN new
        PROVE  i < to <=> worker'[t][new[i]] # "none"
    <3>1. i < from <=> worker[t][new[i]] # "none"
      BY <1>1 DEF Work, Workers, new, from
    <3>. QED  BY <3>1, <1>3, <1>4, <1>5, <1>8, <1>10
  <2>3. ASSUME NEW e \in Emails, worker'[t][e] # "none"
        PROVE  \E i \in DOMAIN new : new[i] = e
    BY <2>3, <1>1, <1>8, <1>9 DEF Work, Workers, new
  <2>4. to \in 1 .. Len(new) + 1
    BY <1>3, <1>4, <1>f DEF k
  <2>. QED  BY <1>7, <2>1, <2>2, <2>3, <2>4 DEF Workers
<1>14. Reports(t)'
  <2>1. ASSUME NEW e \in Emails
        PROVE  /\ worker'[t][e] \in {"none", "spawned", "active", "loggedIn", "failed"} => <<t, e>> \notin added'
               /\ worker'[t][e] = "succeeded" => <<t, e>> \in added'
               /\ e \in task'[t].active => worker'[t][e] \in {"active", "loggedIn", "succeeded", "failed"}
    BY <1>1, <1>2, <1>7, <1>8, <1>11 DEF Work, Reports, AllDone
  <2>. QED  BY <2>1 DEF Reports
<1>15. Open(t)' = Open(t) /\ Success(t)' = Success(t)
  <2>1. \A i \in DOMAIN new : worker'[t][new[i]] = "done" <=> worker[t][new[i]] = "done"
    BY <1>5, <1>8, <1>11
  <2>2. Open(t)' = Open(t)
    BY <1>7, <2>1 DEF Open, new
  <2>3. Success(t)' = Success(t)
    BY <1>2, <1>8, <1>11 DEF Success
  <2>. QED  BY <2>2, <2>3
<1>16. Counts(t)'
  BY <1>1, <1>7, <1>15 DEF Work, Counts
<1>17. Cardinality(Busy(t)') <= Largest(1, task[t].concurrency)
  <2>1. Busy(t)' = emails
    BY <1>1, <1>8, <1>11 DEF Busy, AllDone
  <2>2. [i \in from .. to - 1 |-> new[i]] \in Surjection(from .. to - 1, emails)
    BY DEF Surjection, emails
  <2>3. IsFiniteSet(from .. to - 1) /\ Cardinality(from .. to - 1) = to - from
    <3>1. from \in Int /\ to - 1 \in Int
      BY <1>3, <1>4
    <3>2. /\ IsFiniteSet(from .. to - 1)
          /\ Cardinality(from .. to - 1) = IF from > to - 1 THEN 0 ELSE to - 1 - from + 1
      BY <3>1, FS_Interval
    <3>. QED  BY <3>2, <1>3, <1>4
  <2>4. IsFiniteSet(emails) /\ Cardinality(emails) <= to - from
    BY <2>2, <2>3, FS_Surjection
  <2>5. Cardinality(emails) \in Nat
    BY <2>4, FS_CardinalityType
  <2>. QED  BY <2>1, <2>4, <2>5, <1>3, <1>4 DEF Largest
<1>18. Work(t)'
  BY <1>1, <1>7, <1>13, <1>14, <1>16, <1>17 DEF Work, IsA
<1>19. TaskInv(t)'
  BY <1>6, <1>18, BatchAssumption DEF TaskInv
<1>. QED  BY <1>2, <1>12, <1>19, OneTask DEF BatchInv, BatchTyped

\* A goroutine that goes on, but is not done: it may say that it is active, and it succeeds
\* exactly when it has added the account.
LEMMA WorkerGoesOn ==
    ASSUME BatchInv, NEW t \in Tasks, NEW e \in Emails,
           NEW from \in {"spawned", "active", "loggedIn"},
           NEW to \in {"active", "loggedIn", "succeeded", "failed"},
           Goes(t, e, from, to),
           \/ task' = task
           \/ task' = [task EXCEPT ![t].active = @ \cup {e}],
           AddedOnce',
           \/ to # "succeeded" /\ added' = added
           \/ to = "succeeded" /\ added' = added \cup {<<t, e>>}
    PROVE  BatchInv'
<1>1. worker' = [worker EXCEPT ![t][e] = to] /\ worker[t][e] = from
  BY DEF Goes
<1>2. task[t] \in Task /\ Work(t)
  BY <1>1 DEF BatchInv, BatchTyped, NoWork
<1>3. /\ task'[t] \in Task
      /\ task'[t].next = task[t].next /\ task'[t].new = task[t].new
      /\ task'[t].status = task[t].status /\ task'[t].concurrency = task[t].concurrency
      /\ task'[t].completed = task[t].completed /\ task'[t].skipped = task[t].skipped
      /\ task'[t].invalid = task[t].invalid /\ task'[t].success = task[t].success
      /\ task'[t].failed = task[t].failed /\ task'[t].processed = task[t].processed
      /\ task'[t].total = task[t].total
      /\ task'[t].active \subseteq task[t].active \cup {e}
      /\ \A s \in Tasks \ {t} : task'[s] = task[s]
      /\ task' \in [Tasks -> Task \cup {NoTask}]
  <2>1. CASE task' = task
    BY <1>2, <2>1 DEF BatchInv, BatchTyped
  <2>2. CASE task' = [task EXCEPT ![t].active = @ \cup {e}]
    <3>1. [task[t] EXCEPT !.active = @ \cup {e}] \in Task
      BY <1>2 DEF Task
    <3>2. task'[t] = [task[t] EXCEPT !.active = @ \cup {e}]
      BY <2>2 DEF BatchInv, BatchTyped
    <3>3. \A s \in Tasks \ {t} : task'[s] = task[s]
      BY <2>2 DEF BatchInv, BatchTyped
    <3>4. task' \in [Tasks -> Task \cup {NoTask}]
      BY <2>2, <3>1 DEF BatchInv, BatchTyped
    <3>. QED  BY <1>2, <3>1, <3>2, <3>3, <3>4 DEF Task
  <2>. QED  BY <2>1, <2>2
<1>4. /\ worker'[t][e] = to
      /\ \A d \in Emails \ {e} : worker'[t][d] = worker[t][d]
      /\ \A s \in Tasks \ {t} : worker'[s] = worker[s]
      /\ worker' \in [Tasks -> [Emails -> States]]
  BY <1>1 DEF BatchInv, BatchTyped, States
<1>5. /\ added' \subseteq Tasks \X Emails
      /\ <<t, e>> \in added' <=> to = "succeeded"
      /\ \A s \in Tasks, d \in Emails : s # t \/ d # e => (<<s, d>> \in added' <=> <<s, d>> \in added)
  <2>1. <<t, e>> \notin added
    BY <1>1, <1>2 DEF Work, Reports
  <2>. QED  BY <2>1 DEF BatchInv, BatchTyped
<1>6. BatchTyped'
  BY <1>3, <1>4, <1>5 DEF BatchTyped
<1>7. task[t].new \in Seq(Emails) /\ \A i \in DOMAIN task[t].new : task[t].new[i] \in Emails
  BY <1>2 DEF Task
<1>8. Workers(t)'
  BY <1>1, <1>2, <1>3, <1>4, <1>7 DEF Work, Workers
<1>9. Reports(t)'
  <2>1. ASSUME NEW d \in Emails
        PROVE  /\ worker'[t][d] \in {"none", "spawned", "active", "loggedIn", "failed"} => <<t, d>> \notin added'
               /\ worker'[t][d] = "succeeded" => <<t, d>> \in added'
               /\ d \in task'[t].active => worker'[t][d] \in {"active", "loggedIn", "succeeded", "failed"}
    <3>1. CASE d = e
      BY <3>1, <1>4, <1>5
    <3>2. CASE d # e
      BY <3>2, <1>2, <1>3, <1>4, <1>5 DEF Work, Reports
    <3>. QED  BY <3>1, <3>2
  <2>. QED  BY <2>1 DEF Reports
<1>10. Open(t)' = Open(t) /\ Success(t)' = Success(t) /\ Busy(t)' = Busy(t)
  <2>1. \A d \in Emails : worker'[t][d] = "done" <=> worker[t][d] = "done"
    BY <1>1, <1>4
  <2>2. \A d \in Emails : worker'[t][d] \in {"none", "done"} <=> worker[t][d] \in {"none", "done"}
    BY <1>1, <1>4
  <2>3. Open(t)' = Open(t)
    BY <1>3, <1>7, <2>1 DEF Open
  <2>4. Success(t)' = Success(t)
    BY <1>1, <1>4, <1>5, <2>1 DEF Success
  <2>. QED  BY <2>2, <2>3, <2>4 DEF Busy
<1>11. Counts(t)'
  BY <1>2, <1>3, <1>10 DEF Work, Counts
<1>12. ~AllDone(t)
  BY <1>1 DEF AllDone
<1>13. Work(t)'
  BY <1>2, <1>3, <1>8, <1>9, <1>10, <1>11, <1>12 DEF Work
<1>14. TaskInv(t)'
  BY <1>3, <1>13, BatchAssumption DEF TaskInv
<1>. QED  BY <1>3, <1>4, <1>5, <1>6, <1>14, OneTask DEF BatchInv, BatchTyped

LEMMA EnterStep ==
    ASSUME BatchInv, NEW t \in Tasks, NEW e \in Emails, Enter(t, e)
    PROVE  BatchInv'
<1>1. AddedOnce'
  BY DEF Enter, BatchInv, AddedOnce
<1>. QED  BY <1>1, WorkerGoesOn DEF Enter

LEMMA LoginStep ==
    ASSUME BatchInv, NEW t \in Tasks, NEW e \in Emails, Login(t, e)
    PROVE  BatchInv'
<1>1. AddedOnce'
  BY DEF Login, BatchInv, AddedOnce
<1>. QED  BY <1>1, WorkerGoesOn DEF Login

\* Whoever adds an account finds it not in the pool, so no task has added it.
LEMMA AddStep ==
    ASSUME BatchInv, NEW t \in Tasks, NEW e \in Emails, AddAccountWithToken(t, e)
    PROVE  BatchInv'
<1>1. CASE /\ e \notin pool /\ Goes(t, e, "loggedIn", "succeeded")
           /\ pool' = pool \cup {e} /\ added' = added \cup {<<t, e>>}
  <2>1. \A s \in Tasks : <<s, e>> \notin added
    BY <1>1 DEF BatchInv, AddedOnce
  <2>2. AddedOnce'
    BY <1>1, <2>1 DEF BatchInv, AddedOnce
  <2>. QED  BY <1>1, <2>2, WorkerGoesOn DEF AddAccountWithToken
<1>2. CASE Goes(t, e, "loggedIn", "failed") /\ UNCHANGED <<pool, added>>
  <2>1. AddedOnce'
    BY <1>2 DEF BatchInv, AddedOnce
  <2>. QED  BY <1>2, <2>1, WorkerGoesOn DEF AddAccountWithToken
<1>. QED  BY <1>1, <1>2 DEF AddAccountWithToken

\* What a report does to a task's record.
LEMMA RecordTyped ==
    ASSUME NEW r \in Task, NEW a \in SUBSET Emails, NEW i \in Nat, NEW j \in Int,
           NEW k \in Nat, NEW m \in Nat
    PROVE  [r EXCEPT !.active = a, !.processed = i, !.completed = j, !.success = k, !.failed = m]
              \in Task
BY DEF Task

LEMMA CountedRecord ==
    ASSUME NEW r \in Task, NEW e \in Emails, NEW ok \in BOOLEAN
    PROVE  LET q == Counted(r, e, ok) IN
           /\ q \in Task
           /\ q.next = r.next /\ q.new = r.new /\ q.status = r.status
           /\ q.concurrency = r.concurrency /\ q.skipped = r.skipped /\ q.invalid = r.invalid
           /\ q.total = r.total /\ q.active = r.active \ {e}
           /\ q.processed = r.processed + 1 /\ q.completed = r.completed + 1
           /\ q.success = (IF ok THEN r.success + 1 ELSE r.success)
           /\ q.failed = (IF ok THEN r.failed ELSE r.failed + 1)
<1>. DEFINE q == Counted(r, e, ok)
            k == IF ok THEN r.success + 1 ELSE r.success
            m == IF ok THEN r.failed ELSE r.failed + 1
<1>1. q = [r EXCEPT !.active = @ \ {e}, !.processed = @ + 1, !.completed = @ + 1,
                    !.success = k, !.failed = m]
  BY DEF Counted
<1>2. /\ r.active \ {e} \in SUBSET Emails /\ r.processed + 1 \in Nat /\ r.completed + 1 \in Int
      /\ k \in Nat /\ m \in Nat
  BY SMTT(30) DEF Task
<1>. HIDE DEF q, k, m
<1>3. q \in Task
  BY <1>1, <1>2, RecordTyped
<1>4. /\ q.next = r.next /\ q.new = r.new /\ q.status = r.status
      /\ q.concurrency = r.concurrency /\ q.skipped = r.skipped /\ q.invalid = r.invalid
      /\ q.total = r.total
  BY <1>1 DEF Task
<1>5. /\ q.active = r.active \ {e} /\ q.processed = r.processed + 1
      /\ q.completed = r.completed + 1
  BY <1>1 DEF Task
<1>6. q.success = k /\ q.failed = m
  BY <1>1 DEF Task
<1>. QED  BY <1>3, <1>4, <1>5, <1>6 DEF q, k, m

LEMMA ReportStep ==
    ASSUME BatchInv, NEW t \in Tasks, NEW e \in Emails, NEW ok \in BOOLEAN, Report(t, e, ok)
    PROVE  BatchInv'
<1>. DEFINE q == Counted(task[t], e, ok)
<1>1. /\ worker[t][e] = IF ok THEN "succeeded" ELSE "failed"
      /\ worker' = [worker EXCEPT ![t][e] = "done"]
      /\ task' = [task EXCEPT ![t] = q] /\ pool' = pool /\ added' = added
  <2>1. Goes(t, e, IF ok THEN "succeeded" ELSE "failed", "done")
    BY DEF Report
  <2>2. task' = [task EXCEPT ![t] = q] /\ pool' = pool /\ added' = added
    BY DEF Report
  <2>. QED  BY <2>1, <2>2 DEF Goes
<1>2. task[t] \in Task /\ Work(t)
  BY <1>1 DEF BatchInv, BatchTyped, NoWork
<1>3. task'[t] = q /\ q \in Task
  BY <1>1, <1>2, CountedRecord DEF BatchInv, BatchTyped
<1>4. LET r == task[t] p == task'[t] IN
      /\ p.next = r.next /\ p.new = r.new /\ p.status = r.status
      /\ p.concurrency = r.concurrency /\ p.skipped = r.skipped /\ p.invalid = r.invalid
      /\ p.total = r.total /\ p.active = r.active \ {e}
      /\ p.processed = r.processed + 1 /\ p.completed = r.completed + 1
      /\ p.success = (IF ok THEN r.success + 1 ELSE r.success)
      /\ p.failed = (IF ok THEN r.failed ELSE r.failed + 1)
  BY <1>2, <1>3, CountedRecord
<1>. HIDE DEF q
<1>5. /\ worker'[t][e] = "done"
      /\ \A d \in Emails \ {e} : worker'[t][d] = worker[t][d]
      /\ \A s \in Tasks \ {t} : worker'[s] = worker[s]
      /\ worker' \in [Tasks -> [Emails -> States]]
  BY <1>1 DEF BatchInv, BatchTyped, States
<1>6. BatchTyped' /\ AddedOnce'
  BY <1>1, <1>3, <1>5 DEF BatchInv, BatchTyped, AddedOnce
<1>7. /\ task[t].new \in Seq(Emails) /\ Len(task[t].new) \in Nat
      /\ DOMAIN task[t].new = 1 .. Len(task[t].new)
      /\ \A i \in DOMAIN task[t].new : task[t].new[i] \in Emails
  BY <1>2 DEF Task
<1>8. Workers(t)'
  <2>1. \A d \in Emails : worker'[t][d] # "none" <=> worker[t][d] # "none"
    BY <1>1, <1>5
  <2>. QED  BY <1>2, <1>4, <1>7, <2>1 DEF Work, Workers
<1>9. Reports(t)'
  <2>1. ASSUME NEW d \in Emails
        PROVE  /\ worker'[t][d] \in {"none", "spawned", "active", "loggedIn", "failed"} => <<t, d>> \notin added'
               /\ worker'[t][d] = "succeeded" => <<t, d>> \in added'
               /\ d \in task'[t].active => worker'[t][d] \in {"active", "loggedIn", "succeeded", "failed"}
    BY <1>1, <1>2, <1>4, <1>5 DEF Work, Reports
  <2>. QED  BY <2>1 DEF Reports
<1>10. IsFiniteSet(Open(t)) /\ Cardinality(Open(t)') = Cardinality(Open(t)) - 1
  <2>1. PICK i \in DOMAIN task[t].new : task[t].new[i] = e
    BY <1>1, <1>2 DEF Work, Workers
  <2>2. \A j \in DOMAIN task[t].new : task[t].new[j] = e => j = i
    BY <1>2, <2>1 DEF Work, Workers
  <2>3. i \in Open(t) /\ Open(t)' = Open(t) \ {i}
    BY <1>1, <1>4, <1>5, <1>7, <2>1, <2>2 DEF Open
  <2>4. IsFiniteSet(1 .. Len(task[t].new))
    <3>1. Len(task[t].new) \in Int
      BY ONLY <1>7
    <3>. QED  BY ONLY <3>1, FS_Interval
  <2>5. IsFiniteSet(Open(t))
    <3>1. Open(t) \in SUBSET (1 .. Len(task[t].new))
      BY <1>7 DEF Open
    <3>. QED  BY <2>4, <3>1, FS_Subset
  <2>6. Cardinality(Open(t) \ {i}) = Cardinality(Open(t)) - 1
    BY <2>3, <2>5, FS_RemoveElement
  <2>. QED  BY <2>3, <2>5, <2>6
<1>11. Cardinality(Success(t)') = IF ok THEN Cardinality(Success(t)) + 1 ELSE Cardinality(Success(t))
  <2>1. IsFiniteSet(Success(t))
    BY BatchAssumption, FS_Subset DEF Success
  <2>2. e \notin Success(t)
    BY <1>1 DEF Success
  <2>3. <<t, e>> \in added <=> ok
    BY <1>1, <1>2 DEF Work, Reports
  <2>4. CASE ok
    <3>1. Success(t)' = Success(t) \cup {e}
      BY <1>1, <1>5, <2>3, <2>4 DEF Success
    <3>. QED  BY <2>1, <2>2, <2>4, <3>1, FS_AddElement
  <2>5. CASE ~ok
    <3>1. Success(t)' = Success(t)
      BY <1>1, <1>5, <2>3, <2>5 DEF Success
    <3>. QED  BY <2>5, <3>1
  <2>. QED  BY <2>4, <2>5
<1>12. Counts(t)'
  <2>1. Cardinality(Open(t)) \in Nat
    BY <1>10, FS_CardinalityType
  <2>2. Counts(t)
    BY <1>2 DEF Work
  <2>3. /\ task[t].completed \in Int /\ task[t].skipped \in Int /\ task[t].invalid \in Int
        /\ task[t].success \in Int /\ task[t].failed \in Int /\ task[t].processed \in Int
    BY <1>2 DEF Task
  <2>4. CASE ok
    BY <1>4, <1>10, <1>11, <2>1, <2>2, <2>3, <2>4 DEF Counts
  <2>5. CASE ~ok
    BY <1>4, <1>10, <1>11, <2>1, <2>2, <2>3, <2>5 DEF Counts
  <2>. QED  BY <2>4, <2>5
<1>13. Cardinality(Busy(t)') <= Largest(1, task[t].concurrency)
  <2>1. Busy(t)' \in SUBSET Busy(t)
    BY <1>5 DEF Busy
  <2>2. IsFiniteSet(Busy(t))
    BY BatchAssumption, FS_Subset DEF Busy
  <2>3. Cardinality(Busy(t)') <= Cardinality(Busy(t)) /\ IsFiniteSet(Busy(t)')
    BY <2>1, <2>2, FS_Subset
  <2>4. Cardinality(Busy(t)') \in Nat /\ Cardinality(Busy(t)) \in Nat
    BY <2>2, <2>3, FS_CardinalityType
  <2>5. Largest(1, task[t].concurrency) \in Nat
    BY <1>2 DEF Task, Largest
  <2>. QED  BY <1>2, <2>3, <2>4, <2>5 DEF Work
<1>14. task[t].status # "completed"
  BY <1>1, <1>2 DEF Work, AllDone
<1>15. Work(t)'
  BY <1>2, <1>4, <1>8, <1>9, <1>12, <1>13, <1>14 DEF Work
<1>16. TaskInv(t)'
  BY <1>3, <1>15, BatchAssumption DEF TaskInv
<1>. QED  BY <1>1, <1>5, <1>6, <1>16, OneTask DEF BatchInv, BatchTyped

LEMMA BatchStarts ==
    ASSUME BatchInit
    PROVE  BatchInv
BY DEF BatchInit, BatchInv, BatchTyped, AddedOnce, NoWork, States

LEMMA BatchStutters ==
    ASSUME BatchInv, UNCHANGED batchVars
    PROVE  BatchInv'
<1>1. \A t \in Tasks : TaskInv(t)'
  BY Frame DEF BatchInv, TaskInv, batchVars
<1>. QED  BY <1>1 DEF BatchInv, BatchTyped, AddedOnce, TaskInv, batchVars

LEMMA TaskStepKeeps ==
    ASSUME BatchInv, NEW t \in Tasks, TaskStep(t)
    PROVE  BatchInv'
<1>1. ASSUME NEW e \in Emails, WorkerStep(t, e) PROVE BatchInv'
  BY <1>1, EnterStep, LoginStep, AddStep, ReportStep DEF WorkerStep
<1>. QED  BY <1>1, RunStep, SpawnStep, CompleteStep DEF TaskStep

LEMMA BatchAddsUp ==
    ASSUME BatchInv
    PROVE  ImportAddsUp
<1>1. SUFFICES ASSUME NEW t \in Tasks, task[t] # NoTask
      PROVE  LET r == task[t]
                 open == {i \in DOMAIN r.new : worker[t][r.new[i]] # "done"}
             IN  /\ r.completed = r.skipped + r.invalid + r.success + r.failed
                 /\ r.processed = r.success + r.failed
                 /\ r.completed + Cardinality(open) = r.total
                 /\ r.success = Cardinality({e \in Emails : <<t, e>> \in added /\ worker[t][e] = "done"})
                 /\ r.status = "completed" => r.completed = r.total /\ r.active = {}
  BY DEF ImportAddsUp
<1>2. task[t] \in Task /\ Work(t)
  BY <1>1 DEF BatchInv, BatchTyped
<1>3. ASSUME task[t].status = "completed"
      PROVE  task[t].completed = task[t].total /\ task[t].active = {}
  <2>1. AllDone(t) /\ task[t].next > Len(task[t].new)
    BY <1>2, <1>3 DEF Work
  <2>2. /\ task[t].next \in Nat /\ Len(task[t].new) \in Nat
        /\ DOMAIN task[t].new = 1 .. Len(task[t].new)
        /\ \A i \in DOMAIN task[t].new : task[t].new[i] \in Emails
    BY <1>2 DEF Task
  <2>3. \A i \in DOMAIN task[t].new : i < task[t].next
    BY <2>1, <2>2
  <2>4. Open(t) = {}
    BY <1>2, <2>1, <2>2, <2>3 DEF Open, Work, Workers, AllDone
  <2>5. Cardinality(Open(t)) = 0
    BY <2>4, FS_EmptySet
  <2>6. task[t].completed = task[t].total
    BY <1>2, <2>5 DEF Work, Counts, Task
  <2>7. task[t].active = {}
    BY <1>2, <2>1 DEF Work, Reports, AllDone, Task
  <2>. QED  BY <2>6, <2>7
<1>. QED  BY <1>2, <1>3 DEF Work, Counts, Open, Success

LEMMA BatchShares ==
    ASSUME BatchInv
    PROVE  ImportsShareTheWork
<1>1. \A s, t \in Tasks, e \in Emails : <<s, e>> \in added /\ <<t, e>> \in added => s = t
  BY DEF BatchInv, AddedOnce
<1>2. \A t \in Tasks : task[t] # NoTask => Cardinality(Busy(t)) <= Largest(1, task[t].concurrency)
  BY DEF BatchInv, Work
<1>. QED  BY <1>1, <1>2 DEF ImportsShareTheWork, Busy

-----------------------------------------------------------------------------
(* The concurrency setting is a number, in every place it passes through.   *)

Kinds == {"think", "concurrency", "control", "prompts"}

LinesTyped(f) == DOMAIN f = Lines /\ f.concurrency \subseteq Nat

SettingsTyped(r) == "concurrency" \in DOMAIN r /\ r.concurrency \in Nat

ChangeTyped(c) == c.kind \in Kinds /\ (c.kind = "concurrency" => c.value \in Nat)

RequestTyped(r) ==
    /\ DOMAIN r = {"pc", "change", "lines"}
    /\ LinesTyped(r.lines)
    /\ r.pc \notin {"idle", "reload"} => ChangeTyped(r.change)

ConcurrencyInv ==
    /\ LinesTyped(file) /\ LinesTyped(env) /\ LinesTyped(given)
    /\ SettingsTyped(runtime)
    /\ DOMAIN admin = Admins /\ \A a \in Admins : RequestTyped(admin[a])

LEMMA LineNames == Lines = {"key", "think", "concurrency", "prompt", "overrides"}
BY DEF Lines, NoLines

LEMMA NoLinesTyped == LinesTyped(NoLines)
BY DEF LinesTyped, Lines, NoLines

LEMMA ParseTyped ==
    ASSUME NEW f, LinesTyped(f)
    PROVE  LinesTyped(Parse(f))
BY LineNames, NoLinesTyped DEF LinesTyped, Parse

LEMMA OverTyped ==
    ASSUME NEW f, NEW g, LinesTyped(f), LinesTyped(g)
    PROVE  LinesTyped(Over(f, g))
BY LineNames DEF LinesTyped, Over

LEMMA LoadTyped ==
    ASSUME NEW f, LinesTyped(f)
    PROVE  SettingsTyped(Load(f))
<1>1. Value(f.concurrency, 5) \in Nat
  BY DEF Value, LinesTyped
<1>2. /\ DOMAIN Load(f) = {"think", "concurrency", "overrides"}
      /\ Load(f).concurrency = Value(f.concurrency, 5)
  BY DEF Load
<1>. QED  BY <1>1, <1>2 DEF SettingsTyped

LEMMA SnapshotTyped ==
    ASSUME NEW s, s.concurrency \in Nat
    PROVE  LinesTyped(RuntimeSnapshotToEnv(s))
BY LineNames DEF LinesTyped, RuntimeSnapshotToEnv, NoLines

LEMMA ApplyTyped ==
    ASSUME NEW c, NEW s, ChangeTyped(c), SettingsTyped(s)
    PROVE  SettingsTyped(Apply(c, s))
<1>1. CASE c.kind = "think"
  BY <1>1 DEF Apply, SettingsTyped
<1>2. CASE c.kind = "concurrency"
  BY <1>2 DEF Apply, SettingsTyped, ChangeTyped
<1>3. CASE c.kind = "control"
  BY <1>3 DEF Apply, SettingsTyped
<1>4. CASE c.kind = "prompts"
  BY <1>4 DEF Apply, SettingsTyped
<1>. QED  BY <1>1, <1>2, <1>3, <1>4 DEF ChangeTyped, Kinds

LEMMA IdleTyped == RequestTyped(Idle)
BY NoLinesTyped DEF RequestTyped, Idle

LEMMA RequestSnapshotTyped ==
    ASSUME NEW c, ChangeTyped(c), SettingsTyped(runtime)
    PROVE  RequestTyped(Snapshot(c))
<1>. DEFINE s == Apply(c, runtime)
            t == [s EXCEPT !.concurrency = AtLeastOne(s.concurrency)]
<1>1. SettingsTyped(s)
  BY ApplyTyped
<1>2. t.concurrency \in Nat
  <2>. HIDE DEF s
  <2>. QED  BY <1>1 DEF SettingsTyped, AtLeastOne
<1>3. LinesTyped(RuntimeSnapshotToEnv(t))
  <2>. HIDE DEF t
  <2>. QED  BY <1>2, SnapshotTyped
<1>4. Snapshot(c) = [pc |-> "read", change |-> c, lines |-> RuntimeSnapshotToEnv(t)]
  BY DEF Snapshot
<1>. HIDE DEF t
<1>. QED  BY <1>3, <1>4 DEF RequestTyped

LEMMA SettingsStart ==
    ASSUME SettingsInit
    PROVE  ConcurrencyInv
<1>1. LinesTyped(file) /\ LinesTyped(given)
  BY SettingsAssumption DEF SettingsInit, LinesTyped
<1>2. LinesTyped(env)
  BY <1>1, ParseTyped, OverTyped DEF SettingsInit
<1>3. SettingsTyped(runtime)
  BY <1>2, LoadTyped DEF SettingsInit
<1>. QED  BY <1>1, <1>2, <1>3, IdleTyped DEF SettingsInit, ConcurrencyInv

LEMMA BeginKeeps ==
    ASSUME ConcurrencyInv, NEW a \in Admins, NEW r, RequestTyped(r), Begin(a, r)
    PROVE  ConcurrencyInv'
BY DEF ConcurrencyInv, Begin

LEMMA SettingsBeginKeeps ==
    ASSUME ConcurrencyInv, NEW a \in Admins, SettingsBegin(a)
    PROVE  ConcurrencyInv'
<1>1. ASSUME NEW c, ChangeTyped(c), Set(a, c) PROVE ConcurrencyInv'
  BY <1>1, RequestSnapshotTyped, BeginKeeps DEF Set, ConcurrencyInv
<1>2. ASSUME NEW o, EditPrompts(a, o) PROVE ConcurrencyInv'
  <2>1. RequestTyped([Idle EXCEPT !.pc = "prompts", !.change = Changed("prompts", 0, o)])
    BY NoLinesTyped DEF RequestTyped, Idle, Changed, ChangeTyped, Kinds
  <2>. QED  BY <1>2, <2>1, BeginKeeps DEF EditPrompts
<1>3. CASE \E v \in 0 .. 1 : Set(a, Changed("think", v, NoOverrides))
  BY <1>1, <1>3 DEF ChangeTyped, Changed, Kinds
<1>4. CASE \E n \in 1 .. 2 : Set(a, Changed("concurrency", n, NoOverrides))
  <2>1. PICK n \in 1 .. 2 : Set(a, Changed("concurrency", n, NoOverrides))
    BY <1>4
  <2>2. ChangeTyped(Changed("concurrency", n, NoOverrides))
    BY DEF ChangeTyped, Changed, Kinds
  <2>. QED  BY <1>1, <2>1, <2>2
<1>5. CASE \E text \in Texts : Set(a, Changed("control", 0, Prompt(Control, text)))
  <2>1. PICK text \in Texts : Set(a, Changed("control", 0, Prompt(Control, text)))
    BY <1>5
  <2>2. ChangeTyped(Changed("control", 0, Prompt(Control, text)))
    BY DEF ChangeTyped, Changed, Kinds
  <2>. QED  BY <1>1, <2>1, <2>2
<1>6. CASE \E id \in Ids, text \in Texts : SetPrompts(a, id, text)
  BY <1>2, <1>6 DEF SetPrompts
<1>7. CASE \E ids \in {Ids} \cup {{id} : id \in Ids} : ResetPrompts(a, ids)
  BY <1>2, <1>7 DEF ResetPrompts
<1>8. CASE Reload(a)
  <2>1. LinesTyped(Parse(file))
    BY ParseTyped DEF ConcurrencyInv
  <2>2. RequestTyped([Idle EXCEPT !.pc = "reload", !.lines = Parse(file)])
    BY <2>1 DEF RequestTyped, Idle
  <2>. QED  BY <1>8, <2>2, BeginKeeps DEF Reload
<1>. QED  BY <1>3, <1>4, <1>5, <1>6, <1>7, <1>8 DEF SettingsBegin

LEMMA SettingsStepKeeps ==
    ASSUME ConcurrencyInv, NEW a \in Admins, SettingsStep(a)
    PROVE  ConcurrencyInv'
<1>. USE DEF ConcurrencyInv
<1>1. CASE PersistPrompts(a)
  <2>1. RequestTyped(Snapshot(admin[a].change))
    BY <1>1, RequestSnapshotTyped DEF PersistPrompts, At, RequestTyped
  <2>. QED  BY <1>1, <2>1 DEF PersistPrompts
<1>2. CASE ReadFile(a)
  <2>1. LinesTyped(SavedLines(a))
    BY OverTyped DEF SavedLines, RequestTyped
  <2>2. RequestTyped([admin[a] EXCEPT !.pc = "truncate", !.lines = SavedLines(a)])
    BY <1>2, <2>1 DEF RequestTyped, ReadFile, At
  <2>. QED  BY <1>2, <2>2 DEF ReadFile
<1>3. CASE TruncateFile(a)
  <2>1. RequestTyped([admin[a] EXCEPT !.pc = "fill"])
    BY <1>3 DEF RequestTyped, TruncateFile, At
  <2>. QED  BY <1>3, <2>1, NoLinesTyped DEF TruncateFile, Goto
<1>4. CASE FillFile(a)
  <2>1. RequestTyped([admin[a] EXCEPT !.pc = "set"])
    BY <1>4 DEF RequestTyped, FillFile, At
  <2>2. LinesTyped(admin[a].lines)
    BY DEF RequestTyped
  <2>3. \A l \in Lines : LinesTyped([admin[a].lines EXCEPT ![l] = file[l]])
    BY <2>2, LineNames DEF LinesTyped
  <2>4. LinesTyped(file')
    BY <1>4, <2>2, <2>3 DEF FillFile
  <2>. QED  BY <1>4, <2>1, <2>4 DEF FillFile, Goto
<1>5. CASE SaveFails(a)
  BY <1>5, IdleTyped DEF SaveFails
<1>6. CASE SetRuntime(a)
  <2>1. SettingsTyped(Apply(admin[a].change, runtime))
    BY <1>6, ApplyTyped DEF SetRuntime, At, RequestTyped
  <2>. QED  BY <1>6, <2>1, IdleTyped DEF SetRuntime
<1>7. CASE ApplyReload(a)
  <2>1. LinesTyped(env')
    BY <1>7, OverTyped DEF ApplyReload, Reloaded, RequestTyped
  <2>. QED  BY <1>7, <2>1, LoadTyped, IdleTyped DEF ApplyReload
<1>. QED  BY <1>1, <1>2, <1>3, <1>4, <1>5, <1>6, <1>7 DEF SettingsStep

LEMMA RestartKeeps ==
    ASSUME ConcurrencyInv, RestartSettings
    PROVE  ConcurrencyInv'
<1>1. LinesTyped(env')
  BY ParseTyped, OverTyped DEF RestartSettings, Boot, ConcurrencyInv
<1>. QED  BY <1>1, LoadTyped, IdleTyped DEF RestartSettings, Boot, ConcurrencyInv

-----------------------------------------------------------------------------
(***************************************************************************)
(* What is saved is in effect.  As long as requests do not overlap and no  *)
(* write breaks off, one request at a time takes the settings through the  *)
(* file to the runtime: what it has at each point is known, and what is    *)
(* in the file, or about to be, is what the next start would load.         *)
(***************************************************************************)
\* The settings that the next start would load are those given, but for what the
\* environment gives.
Agrees(f, settings) ==
    LET next == Load(Over(given, Parse(f))) IN
    /\ given.think = {} => next.think = settings.think
    /\ given.concurrency = {} => AtLeastOne(next.concurrency) = AtLeastOne(settings.concurrency)
    /\ given.prompt = {} /\ given.overrides = {} => next.overrides = settings.overrides

\* What the process's environment has and was not given is in the file, which can be read.
Covers(f) ==
    /\ \A l \in Lines : env[l] # {} => given[l] # {} \/ f[l] # {}
    /\ Over(given, f).key # {}
    /\ Readable(f)

Normal(overrides) == NormalizeOverrides(overrides) = overrides

\* What a request writes into the file, over what it has read.
Written(r, f) == Over(Snapshot(r.change).lines, f)

Saving ==
    /\ up
    /\ \A a, b \in Admins : a # b => At(a, "idle") \/ At(b, "idle")
    /\ DOMAIN runtime = {"think", "concurrency", "overrides"} /\ Normal(runtime.overrides)
    /\ Settled => Agrees(file, runtime)
    /\ (\A a \in Admins : ~At(a, "fill")) => Covers(file)
    /\ \A a \in Admins :
        /\ At(a, "read") => admin[a].lines = Snapshot(admin[a].change).lines
        /\ At(a, "truncate") => admin[a].lines = Written(admin[a], file)
        /\ At(a, "fill") =>
              file = NoLines /\ \E f : Covers(f) /\ admin[a].lines = Written(admin[a], f)
        /\ At(a, "set") => \E f : file = Written(admin[a], f)
        /\ At(a, "reload") => admin[a].lines = Parse(file)

SavingInv == ConcurrencyInv /\ (~harmed => Saving)

LEMMA ValueOfOne == ASSUME NEW v, NEW d PROVE Value({v}, d) = v
BY DEF Value

LEMMA NormalizedIsNormal == ASSUME NEW o PROVE Normal(NormalizeOverrides(o))
BY DEF Normal, NormalizeOverrides

LEMMA LoadFields ==
    ASSUME NEW f
    PROVE  /\ DOMAIN Load(f) = {"think", "concurrency", "overrides"}
           /\ Load(f).think = Value(f.think, FALSE)
           /\ Load(f).concurrency = Value(f.concurrency, 5)
           /\ Normal(Load(f).overrides)
BY NormalizedIsNormal DEF Load

\* Lines over lines, one by one, and what ParseDotEnv leaves of them.
LEMMA OverLine ==
    ASSUME NEW f, NEW g, NEW l \in Lines
    PROVE  Over(f, g)[l] = IF f[l] # {} THEN f[l] ELSE g[l]
BY DEF Over

LEMMA ParseLine ==
    ASSUME NEW f, LinesTyped(f), Readable(f)
    PROVE  /\ \A l \in Lines : Parse(f)[l] = {} <=> f[l] = {}
           /\ Parse(f).think = f.think /\ Parse(f).concurrency = f.concurrency
           /\ Parse(f).overrides = f.overrides /\ Parse(f).key = f.key
           /\ Parse(f).prompt = {Unquoted(text) : text \in f.prompt}
<1>1. /\ Parse(f).think = f.think /\ Parse(f).concurrency = f.concurrency
      /\ Parse(f).overrides = f.overrides /\ Parse(f).key = f.key
      /\ Parse(f).prompt = {Unquoted(text) : text \in f.prompt}
  BY LineNames DEF Parse, LinesTyped
<1>2. ASSUME NEW l \in Lines PROVE Parse(f)[l] = {} <=> f[l] = {}
  <2>1. CASE l = "prompt"
    BY <1>1, <2>1
  <2>2. CASE l # "prompt"
    BY <1>1, <1>2, <2>2, LineNames
  <2>. QED  BY <2>1, <2>2
<1>. QED  BY <1>1, <1>2

\* The prompts that were saved are loaded again: the control prompt's own line adds none.
LEMMA PromptsLoaded ==
    ASSUME NEW o, Normal(o), NEW f, f.overrides = {o},
           f.prompt = {Unquoted(Resolve(o, Control))}
    PROVE  Load(f).overrides = o
<1>. DEFINE legacy == Unquoted(Resolve(o, Control))
            more == IF legacy = "" THEN NoOverrides ELSE Prompt(Control, legacy)
<1>1. Load(f).overrides = NormalizeOverrides(Overridden(o, more))
  BY ValueOfOne DEF Load
<1>2. o = [id \in DOMAIN o |-> o[id]]
  BY DEF Normal, NormalizeOverrides
<1>3. DOMAIN more \subseteq DOMAIN o
  <2>1. CASE Control \in DOMAIN o
    BY <2>1 DEF Prompt, NoOverrides
  <2>2. CASE Control \notin DOMAIN o
    BY <2>2 DEF Resolve, DefaultValue, Unquoted, NoOverrides
  <2>. QED  BY <2>1, <2>2
<1>. HIDE DEF more
<1>4. Overridden(o, more) = [id \in DOMAIN o |-> o[id]]
  BY <1>3 DEF Overridden
<1>. QED  BY <1>1, <1>2, <1>4 DEF Normal

LEMMA ApplyFields ==
    ASSUME NEW c, ChangeTyped(c), NEW s, Normal(s.overrides),
           DOMAIN s = {"think", "concurrency", "overrides"}
    PROVE  /\ DOMAIN Apply(c, s) = {"think", "concurrency", "overrides"}
           /\ Normal(Apply(c, s).overrides)
<1>1. CASE c.kind = "think"
  BY <1>1 DEF Apply
<1>2. CASE c.kind = "concurrency"
  BY <1>2 DEF Apply
<1>3. CASE c.kind = "control"
  BY <1>3, NormalizedIsNormal DEF Apply
<1>4. CASE c.kind = "prompts"
  BY <1>4, NormalizedIsNormal DEF Apply
<1>. QED  BY <1>1, <1>2, <1>3, <1>4 DEF ChangeTyped, Kinds

\* The lines of a snapshot.
LEMMA SnapshotLines ==
    ASSUME NEW c, ChangeTyped(c), SettingsTyped(runtime), Normal(runtime.overrides),
           DOMAIN runtime = {"think", "concurrency", "overrides"}
    PROVE  LET lines == Snapshot(c).lines
               s == Apply(c, runtime)
           IN  /\ LinesTyped(lines) /\ lines.key = {}
               /\ lines.think = {s.think}
               /\ lines.concurrency = {AtLeastOne(s.concurrency)}
               /\ lines.prompt = {Resolve(s.overrides, Control)}
               /\ lines.overrides = {s.overrides}
<1>. DEFINE s == Apply(c, runtime)
            t == [s EXCEPT !.concurrency = AtLeastOne(s.concurrency)]
<1>1. Snapshot(c).lines = RuntimeSnapshotToEnv(t) /\ LinesTyped(Snapshot(c).lines)
  BY RequestSnapshotTyped DEF Snapshot, RequestTyped
<1>2. DOMAIN s = {"think", "concurrency", "overrides"} /\ Normal(s.overrides)
  BY ApplyFields
<1>. HIDE DEF s
<1>3. t.think = s.think /\ t.concurrency = AtLeastOne(s.concurrency) /\ t.overrides = s.overrides
  BY <1>2
<1>. HIDE DEF t
<1>. QED  BY <1>1, <1>2, <1>3, LineNames DEF RuntimeSnapshotToEnv, NoLines, Normal, s

\* What a request writes is what the next start loads, once the request has set it.
LEMMA WrittenAgrees ==
    ASSUME ConcurrencyInv, Normal(runtime.overrides),
           DOMAIN runtime = {"think", "concurrency", "overrides"},
           NEW r, ChangeTyped(r.change), NEW f, LinesTyped(Written(r, f)), Readable(Written(r, f))
    PROVE  Agrees(Written(r, f), Apply(r.change, runtime))
<1>. DEFINE s == Apply(r.change, runtime)
            w == Written(r, f)
            next == Over(given, Parse(w))
<1>1. /\ w.think = {s.think} /\ w.concurrency = {AtLeastOne(s.concurrency)}
      /\ w.prompt = {Resolve(s.overrides, Control)} /\ w.overrides = {s.overrides}
  <2>. DEFINE lines == Snapshot(r.change).lines
  <2>1. /\ lines.think = {s.think} /\ lines.concurrency = {AtLeastOne(s.concurrency)}
        /\ lines.prompt = {Resolve(s.overrides, Control)} /\ lines.overrides = {s.overrides}
    BY SnapshotLines DEF ConcurrencyInv
  <2>2. \A l \in Lines : w[l] = IF lines[l] # {} THEN lines[l] ELSE f[l]
    BY OverLine DEF Written
  <2>. HIDE DEF w, s, lines
  <2>. QED  BY <2>1, <2>2, LineNames
<1>2. s.concurrency \in Nat /\ Normal(s.overrides)
  BY ApplyTyped, ApplyFields DEF SettingsTyped, ConcurrencyInv
<1>. HIDE DEF w, s
<1>3. /\ Parse(w).think = {s.think} /\ Parse(w).concurrency = {AtLeastOne(s.concurrency)}
      /\ Parse(w).prompt = {Unquoted(Resolve(s.overrides, Control))}
      /\ Parse(w).overrides = {s.overrides}
  BY <1>1, ParseLine DEF w
<1>4. ASSUME given.think = {} PROVE Load(next).think = s.think
  <2>1. next.think = {s.think}
    BY <1>3, <1>4, OverLine, LineNames
  <2>. HIDE DEF next
  <2>. QED  BY <2>1, LoadFields, ValueOfOne
<1>5. ASSUME given.concurrency = {}
      PROVE  AtLeastOne(Load(next).concurrency) = AtLeastOne(s.concurrency)
  <2>1. next.concurrency = {AtLeastOne(s.concurrency)}
    BY <1>3, <1>5, OverLine, LineNames
  <2>. HIDE DEF next
  <2>2. Load(next).concurrency = AtLeastOne(s.concurrency)
    BY <2>1, LoadFields, ValueOfOne, ZenonT(30)
  <2>. QED  BY <1>2, <2>2 DEF AtLeastOne
<1>6. ASSUME given.prompt = {}, given.overrides = {} PROVE Load(next).overrides = s.overrides
  <2>1. next.prompt = {Unquoted(Resolve(s.overrides, Control))} /\ next.overrides = {s.overrides}
    BY <1>3, <1>6, OverLine, LineNames
  <2>. HIDE DEF next
  <2>. QED  BY <1>2, <2>1, PromptsLoaded
<1>. QED  BY <1>4, <1>5, <1>6 DEF Agrees, w, s

\* What is reloaded over the environment is what the next start would load.
LEMMA ReloadAgrees ==
    ASSUME LinesTyped(file), LinesTyped(env), LinesTyped(given), Covers(file)
    PROVE  /\ Agrees(file, Load(Over(Parse(file), env)))
           /\ \A l \in Lines :
                 Over(Parse(file), env)[l] # {} => given[l] # {} \/ file[l] # {}
<1>. DEFINE now == Over(Parse(file), env)
            next == Over(given, Parse(file))
<1>1. ASSUME NEW l \in Lines, given[l] = {} PROVE now[l] = next[l]
  <2>1. now[l] = IF Parse(file)[l] # {} THEN Parse(file)[l] ELSE env[l]
    BY OverLine
  <2>2. next[l] = Parse(file)[l]
    BY <1>1, OverLine
  <2>3. Parse(file)[l] = {} => env[l] = {}
    BY <1>1, ParseLine DEF Covers
  <2>. QED  BY <2>1, <2>2, <2>3
<1>2. \A l \in Lines : now[l] # {} => given[l] # {} \/ file[l] # {}
  BY ParseLine, OverLine DEF Covers
<1>3. given.think = {} => now.think = next.think
  BY <1>1, LineNames
<1>4. given.concurrency = {} => now.concurrency = next.concurrency
  BY <1>1, LineNames
<1>5. given.prompt = {} /\ given.overrides = {} =>
         now.prompt = next.prompt /\ now.overrides = next.overrides
  BY <1>1, LineNames
<1>. HIDE DEF now, next
<1>6. given.think = {} => Load(next).think = Load(now).think
  BY <1>3, LoadFields
<1>7. given.concurrency = {} =>
         AtLeastOne(Load(next).concurrency) = AtLeastOne(Load(now).concurrency)
  BY <1>4, LoadFields
<1>8. given.prompt = {} /\ given.overrides = {} => Load(next).overrides = Load(now).overrides
  BY <1>5 DEF Load
<1>. QED  BY <1>2, <1>6, <1>7, <1>8 DEF Agrees, now, next

\* A start leaves what it loads.
LEMMA StartAgrees ==
    ASSUME LinesTyped(file), LinesTyped(given), Over(given, file).key # {}, Readable(file),
           env = Over(given, Parse(file)), runtime = Load(env)
    PROVE  /\ DOMAIN runtime = {"think", "concurrency", "overrides"} /\ Normal(runtime.overrides)
           /\ Agrees(file, runtime) /\ Covers(file) /\ env.key # {}
<1>1. \A l \in Lines : env[l] # {} => given[l] # {} \/ file[l] # {}
  BY ParseLine, OverLine
<1>2. env.key # {}
  BY ParseLine, OverLine, LineNames
<1>. QED  BY <1>1, <1>2, LoadFields DEF Agrees, Covers

LEMMA WrittenCovers ==
    ASSUME ConcurrencyInv, Normal(runtime.overrides),
           DOMAIN runtime = {"think", "concurrency", "overrides"},
           NEW r, ChangeTyped(r.change), NEW f, Covers(f), Readable(Written(r, f))
    PROVE  Covers(Written(r, f))
<1>1. ASSUME NEW l \in Lines, f[l] # {} PROVE Written(r, f)[l] # {}
  BY <1>1, OverLine DEF Written
<1>2. Written(r, f).key = f.key
  BY SnapshotLines, OverLine, LineNames DEF ConcurrencyInv, Written
<1>3. Over(given, f).key = Over(given, Written(r, f)).key
  BY <1>2, OverLine, LineNames
<1>. QED  BY <1>1, <1>3 DEF Covers

\* A step of the only request there is.
LEMMA SavingMove ==
    ASSUME ConcurrencyInv, NEW a \in Admins, NEW r, admin' = [admin EXCEPT ![a] = r],
           \A b \in Admins \ {a} : At(b, "idle"),
           up', given' = given,
           DOMAIN runtime' = {"think", "concurrency", "overrides"}, Normal(runtime'.overrides),
           r.pc \notin {"fill", "set"} => Agrees(file, runtime)',
           r.pc # "fill" => Covers(file)',
           r.pc \in {"read", "truncate", "fill", "set"} => runtime' = runtime /\ env' = env,
           r.pc = "read" => r.lines = Snapshot(r.change).lines,
           r.pc = "truncate" => r.lines = Written(r, file'),
           r.pc = "fill" => file' = NoLines /\ \E f : Covers(f) /\ r.lines = Written(r, f),
           r.pc = "set" => \E f : file' = Written(r, f),
           r.pc = "reload" => r.lines = Parse(file')
    PROVE  Saving'
<1>1. admin'[a] = r /\ \A b \in Admins \ {a} : admin'[b].pc = "idle"
  BY DEF ConcurrencyInv, At
<1>2. \A b, c \in Admins : b # c => At(b, "idle")' \/ At(c, "idle")'
  BY <1>1 DEF At
<1>3. Settled' => Agrees(file, runtime)'
  BY <1>1 DEF Settled
<1>4. (\A b \in Admins : ~At(b, "fill")') => Covers(file)'
  BY <1>1 DEF At
<1>5. ASSUME NEW b \in Admins
      PROVE  (/\ At(b, "read") => admin[b].lines = Snapshot(admin[b].change).lines
              /\ At(b, "truncate") => admin[b].lines = Written(admin[b], file)
              /\ At(b, "fill") =>
                    file = NoLines /\ \E f : Covers(f) /\ admin[b].lines = Written(admin[b], f)
              /\ At(b, "set") => \E f : file = Written(admin[b], f)
              /\ At(b, "reload") => admin[b].lines = Parse(file))'
  <2>1. CASE b # a
    BY <1>1, <2>1 DEF At
  <2>2. CASE b = a
    <3>1. admin'[b] = r
      BY <1>1, <2>2
    <3>2. CASE r.pc = "read"
      BY <3>1, <3>2 DEF At, Snapshot
    <3>3. CASE r.pc = "truncate"
      BY <3>1, <3>3 DEF At, Snapshot, Written
    <3>4. CASE r.pc = "fill"
      BY <3>1, <3>4 DEF At, Snapshot, Written, Covers
    <3>5. CASE r.pc = "set"
      BY <3>1, <3>5 DEF At, Snapshot, Written
    <3>6. CASE r.pc \notin {"read", "truncate", "fill", "set"}
      BY <3>1, <3>6 DEF At
    <3>. QED  BY <3>2, <3>3, <3>4, <3>5, <3>6
  <2>. QED  BY <2>1, <2>2
<1>. QED  BY <1>2, <1>3, <1>4, <1>5 DEF Saving

LEMMA OthersIdle ==
    ASSUME Saving, NEW a \in Admins, ~At(a, "idle")
    PROVE  \A b \in Admins \ {a} : At(b, "idle")
BY DEF Saving

\* A request comes in while there is no other.
LEMMA SavingBegins ==
    ASSUME SavingInv, NEW a \in Admins, SettingsBegin(a), ~harmed'
    PROVE  Saving'
<1>1. ASSUME NEW r, Begin(a, r),
             r.pc \notin {"truncate", "fill", "set"},
             r.pc = "read" => r.lines = Snapshot(r.change).lines,
             r.pc = "reload" => r.lines = Parse(file)
      PROVE  Saving'
  <2>1. ~harmed /\ Alone(a) /\ At(a, "idle")
    BY <1>1 DEF Begin
  <2>2. Saving /\ ConcurrencyInv
    BY <2>1 DEF SavingInv
  <2>3. /\ admin' = [admin EXCEPT ![a] = r] /\ UNCHANGED <<runtime, file, env, given, up>>
        /\ \A b \in Admins \ {a} : At(b, "idle")
    BY <1>1, <2>1 DEF Begin, Alone
  <2>4. Agrees(file, runtime) /\ Covers(file)
    BY <2>1, <2>2, <2>3 DEF Saving, Settled, At
  <2>5. Agrees(file, runtime)' /\ Covers(file)'
    BY <2>3, <2>4 DEF Agrees, Covers
  <2>6. up' /\ DOMAIN runtime' = {"think", "concurrency", "overrides"} /\ Normal(runtime'.overrides)
    BY <2>2, <2>3 DEF Saving
  <2>. QED  BY <1>1, <2>2, <2>3, <2>5, <2>6, SavingMove
<1>2. ASSUME NEW c, Set(a, c) PROVE Saving'
  <2>1. Snapshot(c).change = c /\ Snapshot(c).pc = "read"
    BY DEF Snapshot
  <2>. QED  BY <1>1, <1>2, <2>1 DEF Set
<1>3. ASSUME NEW o, EditPrompts(a, o) PROVE Saving'
  <2>. DEFINE r == [Idle EXCEPT !.pc = "prompts", !.change = Changed("prompts", 0, o)]
  <2>1. r.pc = "prompts"
    BY DEF Idle
  <2>2. Begin(a, r)
    BY <1>3 DEF EditPrompts
  <2>. HIDE DEF r
  <2>. QED  BY <1>1, <2>1, <2>2
<1>4. CASE Reload(a)
  <2>. DEFINE r == [Idle EXCEPT !.pc = "reload", !.lines = Parse(file)]
  <2>1. r.pc = "reload" /\ r.lines = Parse(file)
    BY DEF Idle
  <2>2. Begin(a, r)
    BY <1>4 DEF Reload
  <2>. HIDE DEF r
  <2>. QED  BY <1>1, <2>1, <2>2
<1>. QED  BY <1>2, <1>3, <1>4 DEF SettingsBegin, SetPrompts, ResetPrompts

\* The only request there is goes on.
LEMMA SavingSteps ==
    ASSUME SavingInv, NEW a \in Admins, SettingsStep(a), ~harmed', ConcurrencyInv'
    PROVE  Saving'
<1>1. ~harmed /\ ~At(a, "idle")
  <2>1. CASE PersistPrompts(a) \/ ReadFile(a) \/ SetRuntime(a) \/ ApplyReload(a)
    BY <2>1 DEF PersistPrompts, ReadFile, SetRuntime, ApplyReload, At
  <2>2. CASE TruncateFile(a)
    BY <2>2 DEF TruncateFile, At
  <2>4. CASE FillFile(a)
    <3>1. harmed' = (harmed \/ ~Readable(file')) /\ At(a, "fill")
      BY <2>4 DEF FillFile
    <3>2. ~harmed
      BY <3>1
    <3>. QED  BY <3>1, <3>2 DEF At
  <2>3. CASE SaveFails(a)
    BY <2>3 DEF SaveFails, At
  <2>. QED  BY <2>1, <2>2, <2>3, <2>4 DEF SettingsStep
<1>2. /\ ConcurrencyInv /\ Saving /\ up
      /\ DOMAIN runtime = {"think", "concurrency", "overrides"} /\ Normal(runtime.overrides)
      /\ \A b \in Admins \ {a} : At(b, "idle")
  BY <1>1, OthersIdle DEF SavingInv, Saving
<1>3. ~At(a, "fill") /\ ~At(a, "set") => Agrees(file, runtime)
  BY <1>2 DEF Saving, Settled, At
<1>4. ~At(a, "fill") => Covers(file)
  BY <1>2 DEF Saving, At
<1>5. admin[a].pc \notin {"idle", "reload"} => ChangeTyped(admin[a].change)
  BY <1>2 DEF ConcurrencyInv, RequestTyped
<1>6. DOMAIN admin[a] = {"pc", "change", "lines"} /\ LinesTyped(admin[a].lines)
  BY <1>2 DEF ConcurrencyInv, RequestTyped
<1>7. UNCHANGED <<given, up>>
  BY DEF SettingsStep, PersistPrompts, ReadFile, TruncateFile, FillFile, SaveFails, SetRuntime,
         ApplyReload
<1>8. UNCHANGED <<runtime, env, file>> =>
         /\ Agrees(file, runtime) => Agrees(file, runtime)'
         /\ Covers(file) => Covers(file)'
  BY <1>7 DEF Agrees, Covers
<1>9. CASE PersistPrompts(a)
  <2>. DEFINE r == Snapshot(admin[a].change)
  <2>1. r.pc = "read" /\ r.change = admin[a].change
    BY DEF Snapshot
  <2>2. admin' = [admin EXCEPT ![a] = r] /\ UNCHANGED <<runtime, env, file>> /\ At(a, "prompts")
    BY <1>9 DEF PersistPrompts
  <2>3. Agrees(file, runtime)' /\ Covers(file)'
    BY <1>3, <1>4, <1>8, <2>2 DEF At
  <2>4. r.lines = Snapshot(r.change).lines
    BY <2>1
  <2>. HIDE DEF r
  <2>. QED  BY <1>2, <1>7, <2>1, <2>2, <2>3, <2>4, SavingMove
<1>10. CASE ReadFile(a)
  <2>. DEFINE r == [admin[a] EXCEPT !.pc = "truncate", !.lines = SavedLines(a)]
  <2>1. r.pc = "truncate" /\ r.change = admin[a].change /\ r.lines = SavedLines(a)
    BY <1>6
  <2>2. admin' = [admin EXCEPT ![a] = r] /\ UNCHANGED <<runtime, env, file>> /\ At(a, "read")
    BY <1>2, <1>10 DEF ReadFile, ConcurrencyInv
  <2>3. Agrees(file, runtime)' /\ Covers(file)'
    BY <1>3, <1>4, <1>8, <2>2 DEF At
  <2>. HIDE DEF r
  <2>4. r.lines = Written(r, file')
    BY <1>2, <2>1, <2>2 DEF SavedLines, Written, Saving
  <2>. QED  BY <1>2, <1>7, <2>1, <2>2, <2>3, <2>4, SavingMove
<1>11. CASE TruncateFile(a)
  <2>. DEFINE r == [admin[a] EXCEPT !.pc = "fill"]
  <2>1. r.pc = "fill" /\ r.change = admin[a].change /\ r.lines = admin[a].lines
    BY <1>6
  <2>2. admin' = [admin EXCEPT ![a] = r] /\ UNCHANGED <<runtime, env>> /\ At(a, "truncate")
        /\ file' = NoLines
    BY <1>2, <1>11 DEF TruncateFile, ConcurrencyInv, Goto
  <2>. HIDE DEF r
  <2>3. Covers(file) /\ r.lines = Written(r, file)
    BY <1>2, <1>4, <2>1, <2>2 DEF At, Written, Saving
  <2>. QED  BY <1>2, <1>7, <2>1, <2>2, <2>3, SavingMove
<1>12. CASE FillFile(a)
  <2>. DEFINE r == [admin[a] EXCEPT !.pc = "set"]
  <2>1. r.pc = "set" /\ r.change = admin[a].change
    BY <1>6
  <2>2. admin' = [admin EXCEPT ![a] = r] /\ UNCHANGED <<runtime, env>> /\ At(a, "fill")
    BY <1>2, <1>12 DEF FillFile, ConcurrencyInv, Goto
  <2>3. PICK f : file = NoLines /\ Covers(f) /\ admin[a].lines = Written(admin[a], f)
    BY <1>2, <2>2 DEF Saving
  <2>4. file' = admin[a].lines
    BY <1>12, <2>3 DEF FillFile
  <2>. HIDE DEF r
  <2>5. file' = Written(r, f)
    BY <2>1, <2>3, <2>4 DEF Written
  <2>r. Readable(Written(r, f))
    BY <1>12, <2>5 DEF FillFile
  <2>6. Covers(Written(r, f))
    BY <1>2, <1>5, <2>1, <2>2, <2>3, <2>r, WrittenCovers DEF At
  <2>7. Covers(file)'
    BY <1>7, <2>2, <2>5, <2>6 DEF Covers
  <2>. QED  BY <1>2, <1>7, <2>1, <2>2, <2>5, <2>7, SavingMove
<1>13. CASE SaveFails(a)
  <2>1. ~At(a, "fill") /\ ~At(a, "set") /\ UNCHANGED <<runtime, env, file>>
        /\ admin' = [admin EXCEPT ![a] = Idle]
    BY <1>13 DEF SaveFails, At
  <2>2. Agrees(file, runtime)' /\ Covers(file)'
    BY <1>3, <1>4, <1>8, <2>1
  <2>3. Idle.pc = "idle"
    BY DEF Idle
  <2>. QED  BY <1>2, <1>7, <2>1, <2>2, <2>3, SavingMove
<1>14. CASE SetRuntime(a)
  <2>1. /\ At(a, "set") /\ UNCHANGED <<env, file>> /\ admin' = [admin EXCEPT ![a] = Idle]
        /\ runtime' = Apply(admin[a].change, runtime)
    BY <1>14 DEF SetRuntime
  <2>2. PICK f : file = Written(admin[a], f)
    BY <1>2, <2>1 DEF Saving
  <2>3. ChangeTyped(admin[a].change) /\ LinesTyped(Written(admin[a], f))
    BY <1>2, <1>5, <2>1, <2>2 DEF At, ConcurrencyInv
  <2>r. Readable(Written(admin[a], f))
    BY <1>4, <2>1, <2>2 DEF At, Covers
  <2>4. Agrees(file, Apply(admin[a].change, runtime))
    BY <1>2, <2>2, <2>3, <2>r, WrittenAgrees
  <2>5. Agrees(file, runtime)'
    BY <1>7, <2>1, <2>4 DEF Agrees
  <2>6. Covers(file)'
    BY <1>4, <1>7, <2>1 DEF Covers, At
  <2>7. DOMAIN runtime' = {"think", "concurrency", "overrides"} /\ Normal(runtime'.overrides)
    BY <1>2, <2>1, <2>3, ApplyFields
  <2>8. Idle.pc = "idle"
    BY DEF Idle
  <2>. QED  BY <1>2, <1>7, <2>1, <2>5, <2>6, <2>7, <2>8, SavingMove
<1>15. CASE ApplyReload(a)
  <2>1. /\ At(a, "reload") /\ UNCHANGED file /\ admin' = [admin EXCEPT ![a] = Idle]
        /\ env' = Over(admin[a].lines, env) /\ runtime' = Load(env')
    BY <1>15 DEF ApplyReload, Reloaded
  <2>2. admin[a].lines = Parse(file) /\ Covers(file)
    BY <1>2, <1>4, <2>1 DEF Saving, At
  <2>3. /\ Agrees(file, Load(Over(Parse(file), env)))
        /\ \A l \in Lines : Over(Parse(file), env)[l] # {} => given[l] # {} \/ file[l] # {}
    BY <1>2, <2>2, ReloadAgrees DEF ConcurrencyInv
  <2>4. Agrees(file, runtime)'
    BY <1>7, <2>1, <2>2, <2>3 DEF Agrees
  <2>5. Covers(file)'
    BY <1>7, <2>1, <2>2, <2>3 DEF Covers
  <2>6. DOMAIN runtime' = {"think", "concurrency", "overrides"} /\ Normal(runtime'.overrides)
    BY <2>1, LoadFields
  <2>7. Idle.pc = "idle"
    BY DEF Idle
  <2>. QED  BY <1>2, <1>7, <2>1, <2>4, <2>5, <2>6, <2>7, SavingMove
<1>. QED  BY <1>9, <1>10, <1>11, <1>12, <1>13, <1>14, <1>15 DEF SettingsStep

LEMMA SavingStarts == SettingsInit => SavingInv
<1>. SUFFICES ASSUME SettingsInit PROVE SavingInv
  OBVIOUS
<1>1. ConcurrencyInv
  BY SettingsStart
<1>2. Over(given, file).key # {} /\ Readable(file)
  BY SettingsAssumption, OverLine, LineNames DEF SettingsInit
<1>3. /\ DOMAIN runtime = {"think", "concurrency", "overrides"} /\ Normal(runtime.overrides)
      /\ Agrees(file, runtime) /\ Covers(file)
  BY <1>1, <1>2, StartAgrees DEF ConcurrencyInv, SettingsInit
<1>4. up /\ \A a \in Admins : admin[a].pc = "idle"
  BY DEF SettingsInit, Idle
<1>. QED  BY <1>1, <1>3, <1>4 DEF SavingInv, Saving, At

LEMMA SavingRestarts ==
    ASSUME SavingInv, RestartSettings, ConcurrencyInv', ~harmed'
    PROVE  Saving'
<1>1. Saving /\ \A a \in Admins : ~At(a, "fill")
  BY DEF RestartSettings, SavingInv
<1>2. Over(given, file).key # {} /\ LinesTyped(file) /\ LinesTyped(given) /\ Readable(file)
  BY <1>1 DEF Saving, Covers, SavingInv, ConcurrencyInv
<1>3. env' = Over(given, Parse(file)) /\ runtime' = Load(env') /\ up' = (env'.key # {})
      /\ UNCHANGED <<file, given>> /\ \A a \in Admins : admin'[a].pc = "idle"
  BY DEF RestartSettings, Boot, Idle
<1>4. \A l \in Lines : env'[l] # {} => given[l] # {} \/ file[l] # {}
  BY <1>2, <1>3, ParseLine, OverLine
<1>5. env'.key # {}
  BY <1>2, <1>3, ParseLine, OverLine, LineNames
<1>6. Covers(file)'
  BY <1>2, <1>3, <1>4 DEF Covers
<1>7. Agrees(file, runtime)'
  BY <1>3 DEF Agrees
<1>8. DOMAIN runtime' = {"think", "concurrency", "overrides"} /\ Normal(runtime'.overrides)
  BY <1>3, LoadFields
<1>. QED  BY <1>3, <1>5, <1>6, <1>7, <1>8 DEF Saving, At

LEMMA SavingStutters ==
    ASSUME SavingInv, UNCHANGED settingsVars
    PROVE  SavingInv'
<1>. USE DEF settingsVars
<1>1. ConcurrencyInv'
  BY DEF SavingInv, ConcurrencyInv
<1>2. Settled' = Settled /\ \A a \in Admins : \A pc : At(a, pc)' = At(a, pc)
  BY DEF Settled, At
<1>3. Agrees(file, runtime)' = Agrees(file, runtime)
  BY DEF Agrees
<1>4. \A f : Covers(f)' = Covers(f)
  BY DEF Covers
<1>5. Covers(file)' = Covers(file)
  BY DEF Covers
<1>6. \A a \in Admins : \A f : Written(admin[a], f)' = Written(admin[a], f)
  BY DEF Written, Snapshot
<1>7. \A a \in Admins : /\ Snapshot(admin[a].change)' = Snapshot(admin[a].change)
                        /\ Written(admin[a], file)' = Written(admin[a], file)
  BY DEF Written, Snapshot
<1>8. Saving => Saving'
  BY <1>2, <1>3, <1>4, <1>5, <1>6, <1>7 DEF Saving
<1>. QED  BY <1>1, <1>8 DEF SavingInv

LEMMA SavedInEffect == SavingInv => SavedIsInEffect
BY DEF SavingInv, Saving, Settled, SavedIsInEffect, Agrees, Covers, At

\* A reload takes what the file has.
LEMMA ReloadLoads ==
    ASSUME SavingInv, NEW a \in Admins, ApplyReload(a), ~harmed
    PROVE  LET now == Load(Parse(file)) IN
           /\ file.think # {} => runtime'.think = now.think
           /\ file.concurrency # {} => runtime'.concurrency = now.concurrency
           /\ file.prompt # {} /\ file.overrides # {} => runtime'.overrides = now.overrides
<1>. DEFINE lines == Parse(file)
            next == Over(lines, env)
<1>1. admin[a].lines = lines /\ LinesTyped(file)
  BY DEF SavingInv, Saving, ApplyReload, ConcurrencyInv
<1>r. Readable(file)
  <2>1. \A b \in Admins : ~At(b, "fill")
    BY OthersIdle DEF SavingInv, ApplyReload, At
  <2>. QED  BY <2>1 DEF SavingInv, Saving, Covers
<1>2. runtime' = Load(next)
  BY <1>1 DEF ApplyReload, Reloaded
<1>3. \A l \in Lines : file[l] # {} => next[l] = lines[l]
  BY <1>1, <1>r, ParseLine, OverLine
<1>. HIDE DEF lines, next
<1>4. /\ file.think # {} => next.think = lines.think
      /\ file.concurrency # {} => next.concurrency = lines.concurrency
      /\ file.prompt # {} /\ file.overrides # {} =>
            next.prompt = lines.prompt /\ next.overrides = lines.overrides
  BY <1>3, LineNames
<1>5. file.prompt # {} /\ file.overrides # {} => Load(next).overrides = Load(lines).overrides
  BY <1>4 DEF Load
<1>. QED  BY <1>2, <1>4, <1>5, LoadFields DEF lines

-----------------------------------------------------------------------------
(* The keys.                                                                *)

\* API_KEY has no key twice and none that begins with "Bearer ".
Proper == IsInjective(configured) /\ \A i \in DOMAIN configured : ~configured[i][1]

\* The keys that are to be accepted.
Forced == {key \in Keys : InForce(key)}

KeysInv ==
    /\ configured \in ApiKeys
    /\ Proper =>
        /\ apiKeys \in Seq(BOOLEAN \X Keys) \ {<<>>}
        /\ \A i, j \in DOMAIN apiKeys : apiKeys[i] = apiKeys[j] => i = j
        /\ apiKeys[1] = configured[1]
        /\ Forced = {key \in Keys : \E i \in DOMAIN apiKeys : apiKeys[i] = Bare(key)}

LEMMA KeysStart ==
    ASSUME KeysInit
    PROVE  KeysInv
BY ApiKeysAssumption DEF KeysInit, KeysInv, Forced, InForce, Proper, IsInjective, ToSet

LEMMA NewKeyringKeeps ==
    ASSUME KeysInv, NewKeyring, configured' = configured
    PROVE  KeysInv'
BY ApiKeysAssumption DEF NewKeyring, KeysInv, Forced, InForce, Proper, IsInjective, ToSet

LEMMA AddKeeps ==
    ASSUME KeysInv, NEW key \in Keys, AddRegularKey(key)
    PROVE  KeysInv'
<1>1. SUFFICES ASSUME Proper
      PROVE  /\ apiKeys' \in Seq(BOOLEAN \X Keys) \ {<<>>}
             /\ \A i, j \in DOMAIN apiKeys' : apiKeys'[i] = apiKeys'[j] => i = j
             /\ apiKeys'[1] = configured[1]
             /\ Forced' = {k \in Keys : \E i \in DOMAIN apiKeys' : apiKeys'[i] = Bare(k)}
  BY DEF KeysInv, Proper, AddRegularKey
<1>. DEFINE n == Len(apiKeys)
<1>2. /\ apiKeys \in Seq(BOOLEAN \X Keys) /\ n \in Nat /\ n >= 1 /\ DOMAIN apiKeys = 1 .. n
      /\ apiKeys' = Append(apiKeys, Bare(key))
      /\ Bare(key) \in BOOLEAN \X Keys /\ \A i \in 1 .. n : apiKeys[i] # Bare(key)
  <2>1. apiKeys \in Seq(BOOLEAN \X Keys) /\ apiKeys # <<>>
    BY <1>1 DEF KeysInv
  <2>2. n \in Nat /\ n >= 1 /\ DOMAIN apiKeys = 1 .. n
    BY <2>1, EmptySeq, LenProperties
  <2>3. Bare(key) \in BOOLEAN \X Keys
    BY DEF Bare
  <2>4. apiKeys' = Append(apiKeys, Bare(key)) /\ \A i \in DOMAIN apiKeys : apiKeys[i] # Bare(key)
    BY DEF AddRegularKey, ToSet
  <2>. QED  BY <2>1, <2>2, <2>3, <2>4
<1>3. /\ apiKeys' \in Seq(BOOLEAN \X Keys) /\ DOMAIN apiKeys' = 1 .. n + 1
      /\ apiKeys'[n + 1] = Bare(key)
      /\ \A i \in 1 .. n : apiKeys'[i] = apiKeys[i]
  BY <1>2
<1>4. \A i, j \in DOMAIN apiKeys' : apiKeys'[i] = apiKeys'[j] => i = j
  BY <1>1, <1>2, <1>3 DEF KeysInv
<1>5. Forced' = {k \in Keys : \E i \in DOMAIN apiKeys' : apiKeys'[i] = Bare(k)}
  <2>1. ASSUME NEW k \in Keys
        PROVE  k \in Forced \cup {key} <=> \E i \in DOMAIN apiKeys' : apiKeys'[i] = Bare(k)
    <3>1. Bare(k) = Bare(key) <=> k = key
      BY DEF Bare
    <3>2. (\E i \in 1 .. n + 1 : apiKeys'[i] = Bare(k))
            <=> (\E i \in 1 .. n : apiKeys[i] = Bare(k)) \/ Bare(key) = Bare(k)
      BY <1>2, <1>3
    <3>. QED  BY <1>1, <1>2, <1>3, <3>1, <3>2 DEF KeysInv
  <2>2. Forced' = Forced \cup {key} /\ Forced \subseteq Keys
    BY DEF Forced, InForce, AddRegularKey
  <2>. QED  BY <2>1, <2>2
<1>6. apiKeys'[1] = configured[1] /\ apiKeys' # <<>>
  BY <1>1, <1>2, <1>3 DEF KeysInv
<1>. QED  BY <1>3, <1>4, <1>5, <1>6

LEMMA DeleteKeeps ==
    ASSUME KeysInv, NEW key \in Keys, DeleteRegularKey(key)
    PROVE  KeysInv'
<1>1. SUFFICES ASSUME Proper
      PROVE  /\ apiKeys' \in Seq(BOOLEAN \X Keys) \ {<<>>}
             /\ \A i, j \in DOMAIN apiKeys' : apiKeys'[i] = apiKeys'[j] => i = j
             /\ apiKeys'[1] = configured[1]
             /\ Forced' = {k \in Keys : \E i \in DOMAIN apiKeys' : apiKeys'[i] = Bare(k)}
  BY DEF KeysInv, Proper, DeleteRegularKey
<1>. DEFINE n == Len(apiKeys)
<1>2. /\ apiKeys \in Seq(BOOLEAN \X Keys) /\ n \in Nat /\ n >= 1 /\ DOMAIN apiKeys = 1 .. n
      /\ apiKeys[1] = configured[1]
      /\ \A i, j \in 1 .. n : apiKeys[i] = apiKeys[j] => i = j
  BY <1>1 DEF KeysInv
<1>3. PICK d \in 1 .. n : apiKeys[d] = Bare(key) /\ apiKeys' = RemoveAt(apiKeys, d)
  BY <1>2 DEF DeleteRegularKey
<1>4. d # 1
  BY <1>2, <1>3 DEF DeleteRegularKey, AdminKey
<1>5. /\ apiKeys' \in Seq(BOOLEAN \X Keys) /\ DOMAIN apiKeys' = 1 .. n - 1
      /\ \A i \in 1 .. n - 1 : apiKeys'[i] = IF i < d THEN apiKeys[i] ELSE apiKeys[i + 1]
  <2>. DEFINE s == SubSeq(apiKeys, 1, d - 1)
              t == SubSeq(apiKeys, d + 1, n)
  <2>1. /\ s \in Seq(BOOLEAN \X Keys) /\ Len(s) = d - 1
        /\ \A i \in 1 .. d - 1 : s[i] = apiKeys[i]
    BY <1>2, <1>3
  <2>2. /\ t \in Seq(BOOLEAN \X Keys) /\ Len(t) = n - d
        /\ \A i \in 1 .. n - d : t[i] = apiKeys[d + i]
    <3>1. d + 1 \in Int /\ n \in Int /\ n \in Nat /\ d \in Nat /\ d <= n
      BY <1>2, <1>3
    <3>2. ASSUME NEW i \in d + 1 .. n PROVE apiKeys[i] \in BOOLEAN \X Keys
      <4>1. i \in DOMAIN apiKeys
        BY <1>2, <3>1
      <4>. QED  BY <1>2, <4>1
    <3>3. /\ t \in Seq(BOOLEAN \X Keys)
          /\ Len(t) = IF d + 1 <= n THEN n - (d + 1) + 1 ELSE 0
          /\ \A i \in 1 .. n - (d + 1) + 1 : t[i] = apiKeys[(d + 1) + i - 1]
      BY ONLY <3>1, <3>2, SubSeqProperties
    <3>. HIDE DEF t, n
    <3>4. n - (d + 1) + 1 = n - d /\ (~ d + 1 <= n => n - d = 0)
      BY ONLY <3>1
    <3>5. \A i \in 1 .. n - d : (d + 1) + i - 1 = d + i
      BY ONLY <3>1
    <3>. QED  BY ONLY <3>3, <3>4, <3>5
  <2>3. apiKeys' = s \o t
    BY <1>3 DEF RemoveAt
  <2>. HIDE DEF s, t
  <2>4. /\ apiKeys' \in Seq(BOOLEAN \X Keys) /\ DOMAIN apiKeys' = 1 .. n - 1
        /\ \A i \in 1 .. n - 1 : apiKeys'[i] = IF i <= d - 1 THEN s[i] ELSE t[i - (d - 1)]
    <3>1. /\ s \o t \in Seq(BOOLEAN \X Keys) /\ Len(s \o t) = Len(s) + Len(t)
          /\ \A i \in 1 .. Len(s) + Len(t) : (s \o t)[i] = IF i <= Len(s) THEN s[i] ELSE t[i - Len(s)]
      BY <2>1, <2>2, ConcatProperties
    <3>2. Len(s) + Len(t) = n - 1
      BY <1>2, <1>3, <2>1, <2>2
    <3>3. DOMAIN (s \o t) = 1 .. n - 1
      BY <3>1, <3>2
    <3>. QED  BY <2>1, <2>3, <3>1, <3>2, <3>3
  <2>5. ASSUME NEW i \in 1 .. n - 1
        PROVE  apiKeys'[i] = IF i < d THEN apiKeys[i] ELSE apiKeys[i + 1]
    <3>1. CASE i < d
      <4>1. i <= d - 1 /\ i \in 1 .. d - 1
        BY <1>2, <1>3, <3>1
      <4>. QED  BY <2>1, <2>4, <3>1, <4>1
    <3>2. CASE ~(i < d)
      <4>1. ~(i <= d - 1) /\ i - (d - 1) \in 1 .. n - d /\ d + (i - (d - 1)) = i + 1
        BY <1>2, <1>3, <3>2
      <4>. QED  BY <1>2, <1>3, <2>2, <2>4, <3>2, <4>1
    <3>. QED  BY <3>1, <3>2
  <2>. QED  BY <2>4, <2>5
<1>6. \A i, j \in DOMAIN apiKeys' : apiKeys'[i] = apiKeys'[j] => i = j
  <2>. DEFINE from(i) == IF i < d THEN i ELSE i + 1
  <2>1. \A i \in 1 .. n - 1 : from(i) \in 1 .. n /\ apiKeys'[i] = apiKeys[from(i)]
    BY <1>2, <1>3, <1>5
  <2>2. \A i, j \in 1 .. n - 1 : from(i) = from(j) => i = j
    BY <1>2, <1>3
  <2>. HIDE DEF from
  <2>. QED  BY <1>2, <1>5, <2>1, <2>2
<1>7. Forced' = {k \in Keys : \E i \in DOMAIN apiKeys' : apiKeys'[i] = Bare(k)}
  <2>1. ASSUME NEW k \in Keys, k # key, NEW i \in 1 .. n, apiKeys[i] = Bare(k)
        PROVE  \E j \in 1 .. n - 1 : apiKeys'[j] = Bare(k)
    <3>1. i # d
      BY <1>3, <2>1 DEF Bare
    <3>2. CASE i < d
      <4>1. i \in 1 .. n - 1
        BY <1>2, <1>3, <3>2
      <4>2. apiKeys'[i] = Bare(k)
        BY <1>5, <2>1, <3>2, <4>1
      <4>. QED  BY <4>1, <4>2
    <3>3. CASE i > d
      <4>1. i - 1 \in 1 .. n - 1 /\ ~(i - 1 < d) /\ (i - 1) + 1 = i
        BY <1>2, <1>3, <3>3
      <4>. QED  BY <1>5, <2>1, <4>1
    <3>. QED  BY <1>2, <1>3, <3>1, <3>2, <3>3
  <2>2. ASSUME NEW k \in Keys, NEW j \in 1 .. n - 1, apiKeys'[j] = Bare(k)
        PROVE  k # key /\ \E i \in 1 .. n : apiKeys[i] = Bare(k)
    <3>1. CASE j < d
      BY <1>2, <1>3, <1>5, <2>2, <3>1
    <3>2. CASE ~(j < d)
      <4>1. j + 1 \in 1 .. n /\ j + 1 # d /\ apiKeys[j + 1] = Bare(k)
        BY <1>2, <1>3, <1>5, <2>2, <3>2
      <4>. QED  BY <1>2, <1>3, <4>1
    <3>. QED  BY <3>1, <3>2
  <2>3. Forced' = Forced \ {key}
    BY DEF Forced, InForce, DeleteRegularKey
  <2>4. Forced = {k \in Keys : \E i \in 1 .. n : apiKeys[i] = Bare(k)}
    BY <1>1, <1>2 DEF KeysInv
  <2>. QED  BY <1>5, <2>1, <2>2, <2>3, <2>4
<1>8. apiKeys'[1] = configured[1] /\ apiKeys' # <<>>
  <2>1. 1 \in 1 .. n - 1 /\ 1 < d
    BY <1>2, <1>3, <1>4
  <2>. QED  BY <1>2, <1>5, <2>1
<1>. QED  BY <1>5, <1>6, <1>7, <1>8

LEMMA KeysAsWanted ==
    ASSUME KeysInv
    PROVE  KeysInForce
<1>1. SUFFICES ASSUME Proper, NEW key \in Keys
      PROVE  /\ Validate(key).isValid <=> InForce(key)
             /\ Validate(key).isAdmin <=> Bare(key) = configured[1]
  BY DEF KeysInForce, Proper
<1>2. Validate(key).isValid <=> Bare(key) \in ToSet(apiKeys)
  BY DEF Validate
<1>3. Validate(key).isAdmin <=> Bare(key) \in ToSet(apiKeys) /\ Bare(key) = configured[1]
  BY DEF Validate, AdminKey
<1>4. Bare(key) \in ToSet(apiKeys) <=> InForce(key)
  BY <1>1 DEF KeysInv, Forced, ToSet
<1>5. configured[1] \in ToSet(apiKeys)
  BY <1>1 DEF KeysInv, ToSet
<1>. QED  BY <1>2, <1>3, <1>4, <1>5

-----------------------------------------------------------------------------
(* The console.                                                             *)

ConsoleInv == SavingInv /\ KeysInv /\ BatchInv

LEMMA ConsoleStarts == Init => ConsoleInv
BY SavingStarts, KeysStart, BatchStarts DEF Init, ConsoleInv

\* A part of the invariant that a step leaves alone.
LEMMA KeysStutter ==
    ASSUME KeysInv, UNCHANGED keyVars
    PROVE  KeysInv'
BY DEF KeysInv, Forced, InForce, Proper, keyVars

LEMMA ConsoleSteps ==
    ASSUME ConsoleInv, [Next]_vars
    PROVE  ConsoleInv'
<1>. USE DEF ConsoleInv
<1>1. ASSUME NEW key \in Keys, ChangeKeys(key) PROVE ConsoleInv'
  BY <1>1, AddKeeps, DeleteKeeps, SavingStutters, BatchStutters DEF ChangeKeys
<1>2. ASSUME NEW a \in Admins, ChangeSettings(a) PROVE ConsoleInv'
  <2>1. SettingsBegin(a)
    BY <1>2 DEF ChangeSettings
  <2>2. SavingInv'
    BY <2>1, SettingsBeginKeeps, SavingBegins DEF SavingInv
  <2>. QED  BY <1>2, <2>2, KeysStutter, BatchStutters DEF ChangeSettings
<1>3. ASSUME NEW a \in Admins, ContinueSettings(a) PROVE ConsoleInv'
  <2>1. SettingsStep(a)
    BY <1>3 DEF ContinueSettings
  <2>2. SavingInv'
    BY <2>1, SettingsStepKeeps, SavingSteps DEF SavingInv
  <2>. QED  BY <1>3, <2>2, KeysStutter, BatchStutters DEF ContinueSettings
<1>4. ASSUME NEW t \in Tasks, NEW list \in Lists, ImportAccounts(t, list) PROVE ConsoleInv'
  <2>1. runtime.concurrency \in Nat
    BY DEF SavingInv, ConcurrencyInv, SettingsTyped
  <2>. QED  BY <1>4, <2>1, ImportStep, SavingStutters, KeysStutter DEF ImportAccounts
<1>5. ASSUME NEW t \in Tasks, ContinueImport(t) PROVE ConsoleInv'
  BY <1>5, TaskStepKeeps, SavingStutters, KeysStutter DEF ContinueImport
<1>6. CASE Restart
  <2>1. RestartSettings
    BY <1>6 DEF Restart
  <2>2. SavingInv'
    BY <2>1, RestartKeeps, SavingRestarts DEF SavingInv
  <2>. QED  BY <1>6, <2>2, NewKeyringKeeps, ForgetStep DEF Restart
<1>7. CASE UNCHANGED vars
  BY <1>7, SavingStutters, KeysStutter, BatchStutters DEF vars
<1>. QED  BY <1>1, <1>2, <1>3, <1>4, <1>5, <1>6, <1>7 DEF Next

LEMMA ConsoleAlways == Spec => []ConsoleInv
BY ConsoleStarts, ConsoleSteps, PTL DEF Spec

\* HandleSetAccounts: what a task reports always adds up, whatever fails and in whatever order
\* its goroutines report.
THEOREM ImportsAddUp == Spec => []ImportAddsUp
BY ConsoleAlways, BatchAddsUp, PTL DEF ConsoleInv

\* HandleSetAccounts, AddAccountWithToken: an account is added by one import, and no import
\* logs in more accounts at a time than it may, whatever the settings become.
THEOREM ImportsShare == Spec => []ImportsShareTheWork
BY ConsoleAlways, BatchShares, PTL DEF ConsoleInv

\* Keyring: while the process runs, added keys are accepted and deleted ones refused, all
\* others are accepted as configured, and the administrator's stays.
THEOREM KeysAreInForce == Spec => []KeysInForce
BY ConsoleAlways, KeysAsWanted, PTL DEF ConsoleInv

\* persistRuntimeSettings, the setters and Load: what is saved is in effect and is what the
\* next start loads, whatever request came when, unless two overlapped, a write broke off or
\* left a line that is too long to be read again.
THEOREM SettingsLast == Spec => []SavedIsInEffect
BY ConsoleAlways, SavedInEffect, PTL DEF ConsoleInv

\* ReloadDotEnv: what .env has wins over the process's environment.
THEOREM ReloadTakesTheFile == Spec => ReloadWins
<1>1. ASSUME ConsoleInv, [Next]_vars
      PROVE  [\A a \in Admins : ApplyReload(a) /\ ~harmed =>
                LET now == Load(Parse(file)) IN
                /\ file.think # {} => runtime'.think = now.think
                /\ file.concurrency # {} => runtime'.concurrency = now.concurrency
                /\ file.prompt # {} /\ file.overrides # {} => runtime'.overrides = now.overrides
             ]_settingsVars
  BY <1>1, ReloadLoads DEF ConsoleInv
<1>. QED  BY <1>1, ConsoleAlways, PTL DEF Spec, ReloadWins
=============================================================================
