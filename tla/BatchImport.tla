----------------------------- MODULE BatchImport -----------------------------
(***************************************************************************)
(* The batch import of accounts (HandleSetAccounts in internal/admin): a   *)
(* task that logs accounts in, as many at a time as the settings allow,    *)
(* with a goroutine per account that reports to the task under its lock.   *)
(* A line of the list is an account or, if it has no email or no password, *)
(* Malformed.  Emails stand for their letters in whatever case.            *)
(***************************************************************************)
EXTENDS Integers, Sequences, FiniteSets

CONSTANTS
    Emails,
    Malformed,      \* a line without an email or a password
    Pools,          \* sets of accounts there may be at first
    Lists,          \* sequences of lines that may be imported
    Tasks,          \* the tasks there may be
    NoTask,
    ReadOnly        \* the accounts are those of ACCOUNTS: the store refuses to save any

\* batchTask
Task == [status : {"pending", "running", "completed"}, total : Nat, invalid : Nat, skipped : Int,
         completed : Int, processed : Nat, success : Nat, failed : Nat, concurrency : Nat,
         active : SUBSET Emails, new : Seq(Emails), next : Nat]

ASSUME BatchAssumption ==
    /\ IsFiniteSet(Emails) /\ Malformed \notin Emails
    /\ Lists \subseteq Seq(Emails \cup {Malformed})
    /\ NoTask \notin Task

VARIABLES
    pool,           \* the emails of the accounts there are (Service.accounts)
    task,           \* batchManager.tasks
    worker,         \* what the goroutine of an account of a task is at
    added           \* ghost: pairs of a task and an account it has added

batchVars == <<pool, task, worker, added>>

Smallest(m, n) == IF m < n THEN m ELSE n
Largest(m, n) == IF m < n THEN n ELSE m

BatchInit ==
    /\ pool \in Pools
    /\ task = [t \in Tasks |-> NoTask]
    /\ worker = [t \in Tasks |-> [e \in Emails |-> "none"]]
    /\ added = {}

IsA(t, status) == task[t] # NoTask /\ task[t].status = status

\* The accounts of a list that are new, once each.
New(list) ==
    LET firsts == {i \in DOMAIN list :
                     /\ list[i] \notin pool \cup {Malformed}
                     /\ \A j \in 1 .. i - 1 : list[j] # list[i]}
    IN  [n \in 1 .. Cardinality(firsts) |->
            list[CHOOSE i \in firsts : Cardinality({j \in firsts : j <= i}) = n]]

Invalid(list) == Cardinality({i \in DOMAIN list : list[i] = Malformed})

\* The task is created: lines that are malformed, there already or there twice are completed.
Import(t, list, concurrency) ==
    LET left == Len(New(list)) IN
    /\ task[t] = NoTask
    /\ \E i \in DOMAIN list : list[i] # Malformed
    /\ task' = [task EXCEPT ![t] =
          [status |-> "pending", total |-> Len(list), invalid |-> Invalid(list),
           skipped |-> Len(list) - Invalid(list) - left, completed |-> Len(list) - left,
           processed |-> 0, success |-> 0, failed |-> 0,
           concurrency |-> concurrency, active |-> {}, new |-> New(list), next |-> 1]]
    /\ UNCHANGED <<pool, worker, added>>

\* From here on the task runs on its own.
Run(t) ==
    /\ IsA(t, "pending")
    /\ task' = [task EXCEPT ![t].status = "running"]
    /\ UNCHANGED <<pool, worker, added>>

\* wg.Wait
AllDone(t) == \A e \in Emails : worker[t][e] \in {"none", "done"}

\* The goroutines of the next accounts.
Spawn(t) ==
    LET from == task[t].next
        to == Smallest(from + Largest(1, task[t].concurrency), Len(task[t].new) + 1)
        emails == {task[t].new[i] : i \in from .. to - 1}
    IN
    /\ IsA(t, "running") /\ AllDone(t)
    /\ from <= Len(task[t].new)
    /\ worker' = [worker EXCEPT ![t] = [e \in Emails |-> IF e \in emails THEN "spawned" ELSE @[e]]]
    /\ task' = [task EXCEPT ![t].next = to]
    /\ UNCHANGED <<pool, added>>

Goes(t, e, from, to) ==
    /\ worker[t][e] = from
    /\ worker' = [worker EXCEPT ![t][e] = to]

\* The goroutine of an account begins and says so, ...
Enter(t, e) ==
    /\ Goes(t, e, "spawned", "active")
    /\ task' = [task EXCEPT ![t].active = @ \cup {e}]
    /\ UNCHANGED <<pool, added>>

\* ... AddAccount looks whether the account is there and, if not, logs it in, ...
Login(t, e) ==
    /\ \/ e \notin pool /\ Goes(t, e, "active", "loggedIn")
       \/ Goes(t, e, "active", "failed")
    /\ UNCHANGED <<pool, task, added>>

\* Mutant: it is not looked for again.
AddAccountWithTokenUnchecked(t, e) ==
    /\ Goes(t, e, "loggedIn", "succeeded")
    /\ pool' = pool \cup {e} /\ added' = added \cup {<<t, e>>}
    /\ UNCHANGED task

\* ... and adds it, if nobody has meanwhile and the store does not fail (a read-only one's
\* refusal is no failure), ...
AddAccountWithToken(t, e) ==
    /\ \/ /\ e \notin pool /\ Goes(t, e, "loggedIn", "succeeded")
          /\ pool' = pool \cup {e} /\ added' = added \cup {<<t, e>>}
       \/ Goes(t, e, "loggedIn", "failed") /\ UNCHANGED <<pool, added>>
    /\ UNCHANGED task

\* Mutant: an account that fails is not completed.
CountedSuccess(r, e, ok) ==
    [r EXCEPT !.active = @ \ {e}, !.processed = @ + 1, !.completed = IF ok THEN @ + 1 ELSE @,
              !.success = IF ok THEN @ + 1 ELSE @, !.failed = IF ok THEN @ ELSE @ + 1]

\* removeString, and the counters
Counted(r, e, ok) ==
    [r EXCEPT !.active = @ \ {e}, !.processed = @ + 1, !.completed = @ + 1,
              !.success = IF ok THEN @ + 1 ELSE @, !.failed = IF ok THEN @ ELSE @ + 1]

\* Mutant: the goroutine of an account that fails does not tell the task.
ReportUnlessFailed(t, e, ok) ==
    /\ ok /\ Goes(t, e, "succeeded", "done")
    /\ task' = [task EXCEPT ![t] = Counted(@, e, ok)]
    /\ UNCHANGED <<pool, added>>

\* ... and the outcome is counted.
Report(t, e, ok) ==
    /\ Goes(t, e, IF ok THEN "succeeded" ELSE "failed", "done")
    /\ task' = [task EXCEPT ![t] = Counted(@, e, ok)]
    /\ UNCHANGED <<pool, added>>

Complete(t) ==
    /\ IsA(t, "running") /\ AllDone(t)
    /\ task[t].next > Len(task[t].new)
    /\ task' = [task EXCEPT ![t].status = "completed"]
    /\ UNCHANGED <<pool, worker, added>>

\* A restart forgets the tasks, whatever is left of them.  The accounts are kept by the store,
\* unless it is read-only, whose refusal counts as success and adds them until the process ends.
ForgetTasks ==
    /\ task' = [t \in Tasks |-> NoTask]
    /\ worker' = [t \in Tasks |-> [e \in Emails |-> "none"]]
    /\ added' = {}
    /\ pool' = IF ReadOnly THEN {e \in pool : \A t \in Tasks : <<t, e>> \notin added} ELSE pool

WorkerStep(t, e) ==
    \/ Enter(t, e) \/ Login(t, e) \/ AddAccountWithToken(t, e)
    \/ \E ok \in BOOLEAN : Report(t, e, ok)

TaskStep(t) ==
    \/ Run(t) \/ Spawn(t) \/ Complete(t)
    \/ \E e \in Emails : WorkerStep(t, e)

-----------------------------------------------------------------------------
\* What a client that asks for the task is told always adds up, and in the end every line of
\* the list is accounted for and nobody is said to be at work.
ImportAddsUp ==
    \A t \in Tasks : task[t] # NoTask =>
        LET r == task[t]
            open == {i \in DOMAIN r.new : worker[t][r.new[i]] # "done"}
        IN  /\ r.completed = r.skipped + r.invalid + r.success + r.failed
            /\ r.processed = r.success + r.failed
            /\ r.completed + Cardinality(open) = r.total
            /\ r.success = Cardinality({e \in Emails : <<t, e>> \in added /\ worker[t][e] = "done"})
            /\ r.status = "completed" => r.completed = r.total /\ r.active = {}

\* Of imports that run at the same time one adds an account, and each logs in as many at a
\* time as the settings allowed when it was created.
ImportsShareTheWork ==
    /\ \A s, t \in Tasks, e \in Emails : <<s, e>> \in added /\ <<t, e>> \in added => s = t
    /\ \A t \in Tasks : task[t] # NoTask =>
          Cardinality({e \in Emails : worker[t][e] \notin {"none", "done"}})
              <= Largest(1, task[t].concurrency)
=============================================================================
