-------------------------- MODULE RuntimeSettings --------------------------
(***************************************************************************)
(* The settings the console changes while the program runs                 *)
(* (internal/config): in memory, in the file .env, and in the process's    *)
(* environment, which is read at the start and when .env is reloaded.      *)
(*                                                                         *)
(* Of the nine lines that are saved four are told apart: OUTPUT_THINK      *)
(* ("think", for the switches), BATCH_LOGIN_CONCURRENCY (for the numbers), *)
(* and the control prompt, which has a line of its own                     *)
(* (QWEN_WEB2_CONTROL_PROMPT) besides its place among the prompts          *)
(* (PROMPT_OVERRIDES_JSON).  API_KEY stands for the lines that are not     *)
(* saved.  A line's value is a set: {} if there is no such line.           *)
(***************************************************************************)
EXTENDS Naturals

CONSTANTS
    Admins,     \* requests to the console that may overlap
    Prompts,    \* prompts but the control prompt, whose default is not empty
    Files,      \* what .env may hold at first
    Texts,      \* of prompts that requests set
    Given,      \* what the environment may hold before .env is loaded
    None

VARIABLES
    runtime,    \* config.Runtime
    file,       \* .env
    env,        \* the process's environment
    given,      \* what of it the process was started with
    up,         \* the program runs: it exits when there is no API_KEY
    admin,      \* what each request is at
    harmed      \* ghost: requests overlapped, or a write of .env did not end or left it
                \* with a line that is too long to be read again

settingsVars == <<runtime, file, env, given, up, admin, harmed>>

Control == "control"
Ids == Prompts \cup {Control}

\* Texts of prompts: "", "default", "plain", that in quotes, which a line's value loses when it
\* is read, and "long", with which a line is longer than the 64 KB that bufio.Scanner reads.
Unquoted(text) == IF text = "quoted" THEN "plain" ELSE text

DefaultValue(id) == IF id = Control THEN "" ELSE "default"
Resolve(overrides, id) == IF id \in DOMAIN overrides THEN overrides[id] ELSE DefaultValue(id)

Prompt(id, text) == [i \in {id} |-> text]

\* Some overrides put over others.
Overridden(new, old) ==
    [id \in DOMAIN new \cup DOMAIN old |-> IF id \in DOMAIN new THEN new[id] ELSE old[id]]

\* prompts.NormalizeOverrides: what has its default value is no override.
NormalizeOverrides(overrides) ==
    [id \in {i \in DOMAIN overrides \cap Ids : overrides[i] # DefaultValue(i)} |-> overrides[id]]

NoOverrides == [id \in {} |-> ""]

NoLines == [key |-> {}, think |-> {}, concurrency |-> {}, prompt |-> {}, overrides |-> {}]
Lines == DOMAIN NoLines

\* The scanner reads every line.
Readable(lines) ==
    /\ "long" \notin lines.prompt
    /\ \A overrides \in lines.overrides : \A id \in DOMAIN overrides : overrides[id] # "long"

ASSUME SettingsAssumption ==
    /\ \A f \in Files : Readable(f)
    /\ \A f \in Files \cup Given : DOMAIN f = Lines /\ f.concurrency \subseteq Nat
    /\ \A f \in Files, g \in Given : f.key # {} \/ g.key # {}

\* Some lines put over others (applyEnvMap, SaveDotEnvValues)
Over(new, old) == [l \in Lines |-> IF new[l] # {} THEN new[l] ELSE old[l]]

Value(line, default) == IF line = {} THEN default ELSE CHOOSE v \in line : TRUE

\* ParseDotEnv, of a file that it cannot read to the end nothing: LoadDotEnv goes on without.
Parse(lines) ==
    IF Readable(lines) THEN [lines EXCEPT !.prompt = {Unquoted(text) : text \in @}] ELSE NoLines

\* Load and RuntimeSnapshotFromConfig: the control prompt's own line counts if the prompts do
\* not have it.
Load(lines) ==
    LET overrides == Value(lines.overrides, NoOverrides)
        legacy == Value(lines.prompt, "")
    IN  [think |-> Value(lines.think, FALSE),
         concurrency |-> Value(lines.concurrency, 5),
         overrides |-> NormalizeOverrides(
             Overridden(overrides, IF legacy = "" THEN NoOverrides ELSE Prompt(Control, legacy)))]

\* Mutant: the prompts are left to the control prompt's line.
RuntimeSnapshotToEnvLegacy(snapshot) ==
    [NoLines EXCEPT !.think = {snapshot.think}, !.concurrency = {snapshot.concurrency},
                    !.prompt = {Resolve(snapshot.overrides, Control)}]

RuntimeSnapshotToEnv(snapshot) ==
    [NoLines EXCEPT !.think = {snapshot.think}, !.concurrency = {snapshot.concurrency},
                    !.prompt = {Resolve(snapshot.overrides, Control)},
                    !.overrides = {NormalizeOverrides(snapshot.overrides)}]

\* maxInt(1, ...) of a concurrency, also in persistRuntimeSettings
AtLeastOne(n) == IF n = 0 THEN 1 ELSE n

Changed(kind, value, overrides) == [kind |-> kind, value |-> value, overrides |-> overrides]
NoChange == Changed("none", 0, NoOverrides)

\* What a handler changes in a snapshot, and in the runtime when it is saved: the setters.
Apply(change, settings) ==
    CASE change.kind = "think" -> [settings EXCEPT !.think = (change.value = 1)]
      [] change.kind = "concurrency" -> [settings EXCEPT !.concurrency = change.value]
      [] change.kind = "control" ->
            [settings EXCEPT !.overrides = NormalizeOverrides(Overridden(change.overrides, @))]
      [] change.kind = "prompts" ->
            [settings EXCEPT !.overrides = NormalizeOverrides(change.overrides)]

Idle == [pc |-> "idle", change |-> NoChange, lines |-> NoLines]

Boot(lines) ==
    /\ env' = Over(given, Parse(lines))
    /\ runtime' = Load(env')
    /\ up' = (env'.key # {})

SettingsInit ==
    /\ file \in Files /\ given \in Given
    /\ env = Over(given, Parse(file))
    /\ runtime = Load(env)
    /\ up = TRUE
    /\ admin = [a \in Admins |-> Idle]
    /\ harmed = FALSE

At(a, pc) == admin[a].pc = pc
Goto(a, pc) == admin' = [admin EXCEPT ![a].pc = pc]
Alone(a) == \A b \in Admins \ {a} : At(b, "idle")

\* A request comes in.
Begin(a, r) ==
    /\ At(a, "idle") /\ up
    /\ admin' = [admin EXCEPT ![a] = r]
    /\ harmed' = (harmed \/ ~Alone(a))
    /\ UNCHANGED <<runtime, file, env, given, up>>

-----------------------------------------------------------------------------
\* persistRuntimeSettings takes the snapshot and changes it.
Snapshot(change) ==
    LET snapshot == Apply(change, runtime) IN
    [pc |-> "read", change |-> change,
     lines |-> RuntimeSnapshotToEnv(
                   [snapshot EXCEPT !.concurrency = AtLeastOne(snapshot.concurrency)])]

\* HandleSetOutThink and the other switches, HandleSetBatchLoginConcurrency and the other
\* numbers, HandleSetQwenWeb2ControlPrompt
Set(a, change) == Begin(a, Snapshot(change))

\* HandleSetPrompts, HandleResetPrompts: the overrides are of an earlier snapshot.
EditPrompts(a, overrides) ==
    Begin(a, [Idle EXCEPT !.pc = "prompts", !.change = Changed("prompts", 0, overrides)])

SetPrompts(a, id, text) ==
    EditPrompts(a, NormalizeOverrides(Overridden(Prompt(id, text), runtime.overrides)))

\* All of them, or one.
ResetPrompts(a, ids) ==
    EditPrompts(a, [id \in DOMAIN runtime.overrides \ ids |-> runtime.overrides[id]])

PersistPrompts(a) ==
    /\ At(a, "prompts")
    /\ admin' = [admin EXCEPT ![a] = Snapshot(@.change)]
    /\ UNCHANGED <<runtime, file, env, given, up, harmed>>

SavedLines(a) == Over(admin[a].lines, file)

\* SaveDotEnvValues: the whole file is read, ...
ReadFile(a) ==
    /\ At(a, "read")
    /\ admin' = [admin EXCEPT ![a].pc = "truncate", ![a].lines = SavedLines(a)]
    /\ UNCHANGED <<runtime, file, env, given, up, harmed>>

\* ... truncated ...
TruncateFile(a) ==
    /\ At(a, "truncate")
    /\ file' = NoLines
    /\ Goto(a, "fill")
    /\ UNCHANGED <<runtime, env, given, up, harmed>>

\* ... and written.  If another request has written in between, the longer text's end stays:
\* of each line one of both may be read.
FillFile(a) ==
    /\ At(a, "fill")
    /\ IF file = NoLines THEN file' = admin[a].lines
       ELSE \E l \in Lines : file' \in {admin[a].lines, [admin[a].lines EXCEPT ![l] = file[l]]}
    /\ Goto(a, "set")
    /\ harmed' = (harmed \/ ~Readable(file'))
    /\ UNCHANGED <<runtime, env, given, up>>

\* The file cannot be read or written (the request is told so), or a write breaks off.
SaveFails(a) ==
    /\ admin[a].pc \in {"read", "truncate", "fill"}
    /\ harmed' = (harmed \/ At(a, "fill"))
    /\ admin' = [admin EXCEPT ![a] = Idle]
    /\ UNCHANGED <<runtime, file, env, given, up>>

\* The setting takes effect, and the request is told so.
SetRuntime(a) ==
    /\ At(a, "set")
    /\ runtime' = Apply(admin[a].change, runtime)
    /\ admin' = [admin EXCEPT ![a] = Idle]
    /\ UNCHANGED <<file, env, given, up, harmed>>

\* HandleReloadRuntimeConfig: ReloadDotEnv reads .env, or the request is refused ...
Reload(a) == Readable(file) /\ Begin(a, [Idle EXCEPT !.pc = "reload", !.lines = Parse(file)])

\* Mutant: variables that the process was started with stay, as they do at the start.
ReloadedAsAtStart(lines) == Over(given, Over(lines, env))

Reloaded(lines) == Over(lines, env)

\* ... over the environment, which is loaded and applied (ApplySnapshot).
ApplyReload(a) ==
    /\ At(a, "reload")
    /\ env' = Reloaded(admin[a].lines)
    /\ runtime' = Load(env')
    /\ admin' = [admin EXCEPT ![a] = Idle]
    /\ UNCHANGED <<file, given, up, harmed>>

\* The process ends, at any time, and starts again: a variable that it is given is not
\* overridden by .env (LoadDotEnv).
RestartSettings ==
    /\ up
    /\ Boot(file)
    /\ admin' = [a \in Admins |-> Idle]
    /\ harmed' = (harmed \/ \E a \in Admins : At(a, "fill"))
    /\ UNCHANGED <<file, given>>

SettingsBegin(a) ==
    \/ \E v \in 0 .. 1 : Set(a, Changed("think", v, NoOverrides))
    \/ \E n \in 1 .. 2 : Set(a, Changed("concurrency", n, NoOverrides))
    \/ \E text \in Texts : Set(a, Changed("control", 0, Prompt(Control, text)))
    \/ \E id \in Ids, text \in Texts : SetPrompts(a, id, text)
    \/ \E ids \in {Ids} \cup {{id} : id \in Ids} : ResetPrompts(a, ids)
    \/ Reload(a)

SettingsStep(a) ==
    \/ PersistPrompts(a) \/ ReadFile(a) \/ TruncateFile(a) \/ FillFile(a) \/ SaveFails(a)
    \/ SetRuntime(a) \/ ApplyReload(a)

-----------------------------------------------------------------------------
\* Nobody is between a change of the file and that of the runtime.
Settled == \A a \in Admins : admin[a].pc \notin {"fill", "set"}

\* A setting that is saved is in effect and is what the next start loads, the effect of no
\* other setting and no other line of .env is lost, and a setting that is not saved is not in
\* effect: unless requests overlapped, a write broke off or wrote a line that is too long to be
\* read, and but for variables that the environment gives.
SavedIsInEffect ==
    ~harmed /\ Settled =>
        LET next == Load(Over(given, Parse(file))) IN
        /\ up
        /\ given.think = {} => next.think = runtime.think
        /\ given.concurrency = {} => AtLeastOne(next.concurrency) = AtLeastOne(runtime.concurrency)
        /\ given.prompt = {} /\ given.overrides = {} => next.overrides = runtime.overrides
        /\ Over(given, file).key # {}

\* CONFIGURATION.md: reloading .env overrides the process's variables of the same names.
ReloadWins ==
    [][\A a \in Admins : ApplyReload(a) /\ ~harmed =>
          LET now == Load(Parse(file)) IN
          /\ file.think # {} => runtime'.think = now.think
          /\ file.concurrency # {} => runtime'.concurrency = now.concurrency
          /\ file.prompt # {} /\ file.overrides # {} => runtime'.overrides = now.overrides
      ]_settingsVars
=============================================================================
