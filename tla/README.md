# Qwen2API_Go in TLA+

Qwen2API_Go is a proxy: it offers the OpenAI and Anthropic APIs and answers from a pool
of upstream Qwen accounts. This directory holds TLA+ models of its stateful core, the TLC
configurations that check them, and TLAPS proofs. `PROJECT.json` maps every definition to
the lines it models.

    tlc -workers 2 -config MCChatCleanup.cfg MCChatCleanup
    tlapm FileStore_proofs.tla

## 1. The system

| Component | State | Operations | Talks to |
|---|---|---|---|
| file store `storage/accounts.go`, `conversations.go` | `data/data.json`; one mutex per store object | load, save, delete of accounts, browser sessions, conversation sessions | registry, session service |
| environment, Redis, memory stores | environment; Redis keys; a map | the same interfaces | the same |
| account registry `account/service.go` | `accounts`, `initialized` under `s.mu` | `Initialize` (goroutine), add, delete, refresh, refresh all | store, upstream login, admin API |
| account rotation `account/service.go` | `failures`, `lastUsed`, `currentIndex` under `s.mu` | `GetAccountSession[Excluding\|ByEmail]`, `RecordFailureAndRefresh`, `ResetFailure` | chat execution, cleanup |
| chat execution `openai/chat_execution.go` | local variables of a request | mapped attempt, failover, guest refresh, save, record | rotation, sessions, upstream, tracker |
| session service `openai/conversation_sessions.go` | sessions by context hash | get, save, delete, `cleanupExpired` | conversation store |
| chat tracker and cleanup `storage/chat_tracker.go`, `cleanup/service.go` | records of used chats | hourly: mode 1 by records, mode 2 by upstream lists | chat execution, rotation, upstream |
| stream inspection `qwen/upstream.go` | buffered events of one answer | hold back, refuse, replay | chat execution, handlers |
| OpenAI and Anthropic handlers `openai/handler.go`, `anthropic.go` | state of a stream: open block, index, `toolCallsSent` | streams, whole answers | inspection, sieve |
| tool-call sieve `toolcall/toolcall.go` | `StreamState`: pending text, capture | chunk in, text and calls out | handlers |
| guest and browser sessions `qwen/guest.go`, `browser_auth.go`, `client.go` | `guestAuth` under `guestMu`; sessions under `browserSessions.mu` | cookies of a request, refresh, capture, restore, merge of an answer's cookies | every upstream call |
| runtime settings `config/`, `prompts/` | `Runtime`, `.env`, the environment | set, reload, load at the start | admin API |
| key ring `auth/apikey.go` | accepted keys | validate, add, delete | every request, admin API |
| batch import `admin/handler.go` | `batchTask` under its lock | import, one goroutine per account | registry, settings |
| ssxmod manager, model cache, metrics, logging | caches and counters, each behind one mutex | | client, handlers |
| assets, uploads, estimates | local variables | images, videos, files | chat execution |
| `server`, `main.go` | none | wiring, routes | all |

What is hard here: requests, administrators, the background `Initialize`, the refresh and
cleanup tickers all run at the same time and call upstream or the store between the steps
they hold a lock for; the store is two objects over one file; a request fails over through
several accounts and chats and must leave the right mapping behind; upstream calls fail at
any point, with the effect or without; an answer arrives cut anywhere, and four kinds of
client must be told the same; the guest's cookies are shared by all requests that have no
account, under two locks; a setting lives in memory, in a file and in the environment.
`PROJECT.json` lists the hazards line by line.

## 2. Modules

| Module | Models |
|---|---|
| `StoreData` | contents of `data.json`; what each store request does to them and answers |
| `AtomicStore` | abstract specification: a request takes effect at one instant or fails without effect, a restart keeps the data, until something happens that the store is not made for |
| `FileStore` | the file store by system calls; refines `AtomicStore` (`ImplementsAtomicStore`) |
| `AccountRegistry` | pool and store under `Initialize`, administrators, failures, restarts |
| `AccountRotation` | choice of an account, cooldown |
| `ChatExecution` | requests, conversation sessions, upstream chats |
| `ChatCleanup` | tracker and the two cleanup modes against the chats' users |
| `ToolMarkup` | the markup of tool calls: which text is a call, what is left without it |
| `ToolSieve` | the sieve (`ProcessStreamChunk`, `FinalizeStream`), over `ToolMarkup` |
| `ResponseStream` | an answer from upstream's events to the client's, over `ToolSieve`: inspection, two streams, two whole answers |
| `GuestSession` | the guest's cookies and browser sessions, with their two locks |
| `RuntimeSettings` | settings in memory, in `.env` and in the environment |
| `KeyRing` | API keys |
| `BatchImport` | batch imports and the goroutines they start |
| `AdminConsole` | composition of the last three: one process that may end at any time |
| `MC*` | constants for TLC; `*_proofs`: theorems |

Correspondence of state and code:

- **FileStore.** `disk` is the file: data, `Absent`, `Empty` (truncated) or `Garbled`
  (does not parse). `pc` places a goroutine between the system calls of `ensure`, `read`,
  `write`. `promised` and `harm` are history: what the acknowledged writes amount to, and
  which kinds of event that can destroy data have happened (`overlap` of the two stores, an
  `io` error, a `crash` at a write). Both `read` and `write` begin with `ensure`, so a write
  stats the file a second time, and creates it if that fails, before it writes the data in
  hand. Of two overlapping writes the shorter one, if it comes last, leaves the tail of the
  longer: the file does not parse then (`Within`, `Written`).
- **AccountRegistry.** `pool` is `s.accounts` without the guest, `guest` whether the guest
  is in it, `stored` the store's accounts. Tokens are numbers in the order of issue.
  `Initialize` is five steps (load, assign, merge, save) as the code holds no lock across
  them; `InitMerge` reads an array that has become the pool's, so it may see an element
  before or after an administrator's change or miss it. Everything under `s.mu` is one
  step. The store is one atomic step here which may fail (`StoreFails`) or refuse
  (`ReadOnly`): what the file store does inside is `FileStore`'s subject. `RefreshAll` also
  refreshes the guest, when the guest is all there is.
- **AccountRotation.** `failures` and `lastUsed` are the maps, with 0 for a missing entry.
  `given` and `turns` are history. Failures above `Limit` count as `Limit`: the code
  compares them with the limit only. Accounts always have a token (the guest needs none),
  so `roundRobinLocked` takes the first one it looks at. A name may come in several spellings
  (`Fold`): the pool is searched without regard to them, while the maps' entries are those of
  the name as it was passed, in `Delete` and `RefreshAccount` too.
- **ChatExecution.** `call[r]` holds the local variables of `executeChatRequest`; a chat
  upstream is the sequence of messages sent into it. With `Resumed` an earlier process has
  left a session. A conversation is a prefix and a
  turn; the context hash is the prefix itself (no collisions). The session service lists,
  cleans up, loads and deletes an expired session in separate calls of its store, and so in
  separate steps. A mapped attempt sends the
  turn alone (the code adds the tool results directly before it). Failures are outcomes:
  `CreateFails`, `SendFails` may happen at every call, with the messages taken or not,
  and lead wherever the error's class may lead. Which accounts are cooling down is left
  open (`Pick` takes any account of the pool, `GiveUp` is always possible), which
  `AccountRotation` makes precise.
- **ChatCleanup.** `alive`, `owner`, `born`, `used` are the upstream's chats; `usages` is
  the tracker. Times are `new` or `old` (more than 24 hours ago). Chats are created by
  requests, with an answer or without, or by somebody else in the same account. Upstream's
  list is external: newest chat first, page n cut out of the chats there are when it is
  asked for.
- **ToolMarkup, ToolSieve.** A text is a sequence of symbols. A tag is a bracket (`<` or
  `</`) and a name; `calls` stands for the containers' names, `call` for the calls' names
  and their synonyms; a call is the name of a tool, white space is `" "`, anything else is
  text. A cut of the text may fall inside a tag, between bracket and name.
- **ResponseStream.** `api` says who is answered. `answer` is what upstream will say, `sent`
  how much of it has come; each event is a piece of it (`Chunk`), or a thought, an event
  without text, an error. `deltas` says what upstream's deltas have: all, no role (OpenAI's
  stream passes over them), or an event now and then without content, which both streams
  turn into the text `<nil>` (`NoContent`). `buffered` and `state` are the inspection's; `body` what a whole
  answer has collected; `sieve`, `block`, `next`, `callsSent` the stream handlers' variables;
  `out` what the client was sent.
- **GuestSession.** `guest` and `sessions` are the two guarded variables, `guestMu` and
  `sessionsMu` say who holds the locks for writing; a read under `RLock` is one step that
  waits while somebody writes. `proc[p]` is a request on its way through
  `newRequestWithOptions`, `do`, `doOnce` and `rememberAnonymousResponse`, or an operation of
  the console. Sessions are those of accounts, the guest's (`None`) and `Auth`, captured with
  cookies pasted into the console, which an account without one falls back to. While Initialize
  runs, only the console's sign-ins go upstream: requests wait for the accounts. Cookies are
  functions from names to values: `cna`, the number of the visit it
  comes from, and `token`. One tick of `clock` outlasts both times to live.
- **RuntimeSettings.** `runtime`, `file`, `env`, `given` are the four places a setting is
  kept; `admin[a]` is a handler between its snapshot, the three system calls of
  `SaveDotEnvValues` and the setter. `harmed` is history: requests have overlapped, a
  write broke off, or one left a line longer than a scanner takes (64 KB), which makes the whole
  file unreadable to the next `LoadDotEnv` (`Readable`). Nobody edits the file by hand while
  the process runs.
- **KeyRing.** `apiKeys` is the slice; `wanted` (configured or added, and not deleted since)
  and `changed` (since the start of the process) are history. A restart takes the slice from
  `API_KEY` again, and leaves `wanted` as it was. A key keeps or loses its `Bearer ` as
  `normalizeKey` has it.
- **BatchImport.** `task[t]` has the counters of `batchTask`; `worker[t][e]` is the goroutine
  for an account; `added` is history. `pool` is the account service's, an addition there two
  steps around the login. Accounts are not deleted here (they are in `AccountRegistry`). With
  a store that does not write (`ReadOnly`) a restart forgets the accounts that were added.

## 3. Runs

Expected to pass:

| Run | Question | Distinct states |
|---|---|---|
| `store` | all operations of both stores, I/O errors, crashes: does the file store implement the atomic one until something harms the data; mutual exclusion; a broken file is left as it is | 1.1M |
| `registry` | two administrators, `Initialize`, failing store, restarts: pool and store agree unless harmed; guest fallback; tokens only get newer; an addition never replaces | 857k |
| `rotation` | a cooldown is respected; when all cool down they take turns; least recently used first; with an account that is named in two spellings | 528k |
| `chat_accounts` | two concurrent requests: a chat is used and recorded with its owner; a session names a chat that began with its conversation; the saved chat is the one that answered | 4.8M |
| `chat_work` | a request that may resume an earlier conversation: bounded work, and an end | 1.1M |
| `cleanup` | scope of the deletions; no living chat falls off the record; old records go (mode 1), old chats go (mode 2) | 15k |
| `stream` | does every client hear the same text and calls, in well formed events and with the right finish reason, however the answer is cut, held back, replayed, refused or broken off | 9.3M |
| `guest` | one fetch per expiry, each account's token in its own requests and an old one in nobody's; once `Initialize` has restored the sessions nobody waits for ever, and it does restore them unless the case of `guest_restore` is met | 286k |
| `admin` | a saved setting is in effect and survives; a reload wins; deleted keys are refused and added ones accepted while the process runs; overlapping imports share the accounts, add up and end | 455k |

Disagreements between the code and what is said of it (each a run expected to violate its
one property; `PROJECT.json` quotes the line):

| Run | What happens |
|---|---|
| `store_lost_write` | starting without accounts: a session save that read the file before an account save writes it back, whole and well formed, without the account |
| `cleanup_in_use` | mode 1 deletes a chat that has just been used, having decided on a copy |
| `guest_restore` | a saved guest session is never restored: `RestoreBrowserSessions` (`browser_auth.go:161-180`, `guestMu` within `browserSessions.mu`) and a sign-in's guest refresh (`guest.go:48-75`, the other way round) wait for each other, and everybody who goes upstream with them |

Other behaviour that the models have and a reader should know of, because a premise of a
property or the choice of a constant sets it apart:

- A crash after the truncation of `data.json` leaves an empty file, which every later request
  fails on: a `harm` in `NothingLostUnharmed`; `BrokenFileStays` says that nothing mends it.
  The same holds of `.env`: `harmed` in `SavedIsInEffect`.
- An account added while `Initialize` validates what it loaded is overwritten in the store by
  Initialize's `SaveAllAccounts` (`harm` in `AccountRegistry`).
- Before all accounts have been used, the selection moves on from an unused account in any
  case, so one account is given again and again while others wait: hence the premise of
  `LeastRecentlyUsedFirst`.
- After a guest refresh within a mapped attempt the old chat is saved for the conversation
  (the premise of `SavedChatAnsweredUnlessRefreshed`), and a turn may be sent into a chat that
  already holds another turn after the same prefix (`SessionsNameTheirConversation` speaks of
  how the chat began).
- Mode 2 passes over chats that move to an earlier page while it deletes; `OldChatsGo` says
  that a later hour meets them.
- White space at the cuts is lost in whole answers and in OpenAI's stream, and beside a call
  in all of them: `StreamTellsTheAnswer` asks for it in Anthropic's stream of an answer without
  markup only. Of markup that is not one complete block a client that streams may be sent
  pieces: of a block without a call, one where other text follows the opening tag, a second
  block, or markup that is there only once a block has been taken out (`OneBlock`). An answer with the
  words of a verification page in its first events is refused.
- OpenAI's stream passes over a delta without a role (`handler.go:1077-1080`), and both streams
  send the text `<nil>` for one without content (`handler.go:349-351`, `anthropic.go:593-598`).
  `StreamTellsTheAnswer` speaks of answers that have none a handler trips over (`Legible`).
- With `OUTPUT_THINK` off, an Anthropic client that streams is sent the thinking phase as text
  of the answer (`anthropic.go:590-601` never looks at the phase), although
  `CONFIGURATION.md:250` promises that it is filtered. No property is about it.
- An account that is deleted or refreshed by another spelling of its name keeps its failures
  (`service.go:420-421`, `446`, `462` clear the entry of the name passed): added again, it may
  cool down without having failed. `AccountRotation` does so too, and no property denies it.
- `EverythingEnds` leaves out what `guest_restore` shows: `MayBlock` names the configuration
  (a saved guest session, browser capture on, as it is by default), and requests of others
  than the console presuppose that Initialize has finished.
- Cookies of an answer are merged into a header that was read earlier: a refresh in between is
  undone, and a repeated request may carry the cookies it was to replace.
- Two settings saved at the same time: one is lost in `.env` (`harmed`). So is the whole file,
  for the next start, once a prompt of more than 64 KB has been saved on one line.
- Keys that the console adds or deletes are not saved: after a restart a deleted key is accepted
  again and an added one refused. `KeysInForce` says so (`InForce`). A key that `API_KEY` has
  twice survives its deletion (the premise of `KeysInForce`).
- A read-only store counts as written, so that accounts added over it are gone after a restart.

Bounds, and why they are enough: two callers, administrators or requests are what it takes
for every race found here, as each race is between the two halves of one operation and one
other operation. Two emails tell "this account" from "another"; `rotation` has one of them in two spellings. `MaxToken = 3`: one re-login and two later tokens. `MaxChats` is 3 for two
requests, each with a chat and one of them with a second, and 5 in `chat_work`: the chat of the
resumed conversation and the three new ones of a single account's retries, and one more that a
request must not reach. In `chat_accounts` both requests are of the same conversation
(`OneContext`), so that they meet in its session; `chat_work` has two conversations, one the
continuation of the other (`TwoContexts`). `MaxTime = 3` with `Cooldown = 2` lets a cooldown begin, last and end;
`Limit` is 2 so that one failure is not enough. `PageSize = 1` makes every deletion move the
pages. `store` and `store_lost_write` have one value and one key per table, as the stores never
look into values; "present" and "absent" are then told apart in each of the three tables. `MCAnswers` are texts of
up to ten symbols: text, a call with and without a container, two calls, the same call twice, a bracket that
begins no tag, blocks that lack a part, white space between words, verification words; each is cut
in every way. In `guest`, one process begins as a guest or a sign-in and the other as an account,
a refresh or a capture, one expiry in between (`MaxClock = 1`). In `admin`, two requests and one
restart: two changes to one setting, a change and a reload, or two imports of the same list, which
has a malformed line, an account twice and one that may be there already. Symmetry is used over
callers, administrators, requests and emails in the runs without liveness.

Fairness:

- `ChatExecution`: weak on a request's steps, because every upstream call has a timeout.
- `ChatCleanup`: weak on the cleanup (an hourly ticker) and on a request's recording of its
  chat, strong on the deletion of a chat and on the listing of a page: a call repeated every
  hour does not fail for ever. That is an assumption about upstream, and `OldUsagesGo` and
  `OldChatsGo` mean nothing without it. They also presuppose that the mode in question runs
  again and again, as the mode is a setting; `OldChatsGo` moreover that restarts come to an
  end, as each breaks off a listing.
- `GuestSession`: weak on each request's steps and on the restoring of sessions. A lock is
  not assumed to be fair: that a waiting request gets it in the end follows, as there are
  finitely many requests and each ends.
- `AdminConsole`: weak on the goroutines of an import. Logins have timeouts. Nothing is
  assumed of administrators.

The premises in the passing properties are the other side of what the code does not do: `harm`
says which events can lose data and that nothing else does. Registry runs have a store that
writes (`ReadOnly = FALSE`); for the read-only store `GuestStandsIn` is a theorem, and the
other properties do not speak of it.

## 4. Proofs

All for arbitrary constants within the modules' ASSUMEs.

- `FileStore_proofs`: `TypeCorrect`; `MutualExclusion` (`LockedByTheOneInside`);
  `NoLossUnharmed` (`NothingLostUnharmed`); `Refinement` (`ImplementsAtomicStore`);
  `BrokenFileKept` (`BrokenFileStays`), a case distinction over the steps. The inductive invariant adds to mutual exclusion what the file is at each place of the one
  caller inside while no harm has happened: truncated exactly between the two halves of a
  write, and otherwise what the acknowledged writes amount to, which is also what the caller
  has read. For the refinement an idle caller has no request in hand (`Rested`). The data of
  the abstract store are then the promised ones (`StoredIsPromised`), and each step is an
  abstract call, a request taking effect, its failure, a restart, or a stutter (`AtomicStep`).
- `AccountRegistry_proofs`: `TypeCorrect`; `GuestFallback` (`GuestStandsIn`), inductive with
  the types alone; `StoreAgreement` (`StoreHoldsOwed`) and `PoolAgreement` (`PoolMatchesStore`).
  Their invariant follows Initialize's window: as long as nothing harmed it, what was loaded is
  what the store has, and the merge of what validated has exactly the same accounts.
  `NewerTokens` (`TokensNeverGoBack`) adds that every token at hand was issued (`Bounded`) and that what
  Initialize carries is at least as new as what the store has (`Newer`).
  `AdditionsKeepOthers` (`AddNeverReplaces`) needs the types only.
- `ChatExecution_proofs`: `TypeCorrect`, `RecordedWithItsOwner` (`UsagesNameTheOwner`) and
  `SentAsTheOwner` (`SentWithItsAccount`), from one invariant: whatever names a chat beside an
  account (a session, a record, a request's mapped or current chat) names a chat of that
  account (`Owned`), which chats only added and never given away preserve (`Growing`). The
  types rest on it, as a chat that is sent into has to exist. `SavesWhatAnswered`
  (`SavedChatAnsweredUnlessRefreshed`) follows each request (`Followed`): the chat in hand is
  the one asked last, and the mapped one unless a refresh has replaced it. `BoundedWork`
  (`WorkIsBounded`) keeps a budget (`Budgeted`): what a request has sent, and what its attempt
  may still send (`Owed`), is covered by one for each account it has tried, one for the guest
  and the mapped attempt; a failover adds an account to those tried, which are never more than
  the request's limit. `SessionsFollowTheirConversation` (`SessionsNameTheirConversation`): a
  chat in which an answer comes begins with the prefix of the request (`Conversing`), as it
  was found in a session or is new; a new chat is empty, and neither a session nor another
  request knows of it until it is saved (`Fresh`).
- `AccountRotation_proofs`: `CoolingEarned` (`CoolingIsEarned`): an account's entry in
  `failures` never exceeds its streak. `CoolingAccountsRest` (`CoolingRests`) and
  `LeastRecentlyUsed` (`LeastRecentlyUsedFirst`) are about the selection loop, the recursive
  function `best` of `Selected`. As no theorem can be applied to a property of numbers, the
  induction is over a set of numbers (`SetInduction`, from the well-foundedness of `<`): the
  numbers up to which the recursion has a solution (`LoopEnds`), and those after which the
  selected account is the least recently used of the candidates met so far (`Selection`).
  `TypeCorrect` (`TypeOK`) includes that no account is in the pool twice (`Removal`,
  `Addition`).
- `ChatCleanup_proofs`: `TrackerKeepsLivingChats` (`TrackedWhileAlive`), where the step
  between deletion and forgetting needs that the chat in hand is dead or the guest's; and
  `CleanupScope` (`OnlyOwnChats`), which needs that whatever mode 1 still has to look at was
  recorded, and that mode 2 never lists the guest; `TypeCorrect` (`TypeOK`), where the page
  number stays in its range because each page before the last asked for is full (`PagesEnd`).
- `AdminConsole_proofs`: `ImportsAddUp` (`ImportAddsUp`) and
  `ImportsShare` (`ImportsShareTheWork`), of the composed console. The inductive `BatchInv`
  says which accounts of a task have a goroutine (those before `next`, and no other), that the
  goroutines at work are within the group that was started last, what each has added, and
  that whoever was added is in the pool, which is why no other task adds it again. The
  accounts that are new (`New`) are different and as many as the counters leave. The
  concurrency a task is created with is a number only if that holds everywhere a setting
  passes through, from `.env` to the runtime (`ConcurrencyInv`). `KeysAreInForce`
  (`KeysInForce`): without a key twice, the slice stays without one (`KeysInv`), so that
  a deletion leaves nothing of a key. `SettingsLast` (`SavedIsInEffect`) and
  `ReloadTakesTheFile` (`ReloadWins`) follow the one request that there is as long as nothing
  has been harmed (`Saving`): between the truncation of `.env` and the setter, what it has in
  hand is the change over the old file (`Written`), and what it writes is what `Load` would
  make of it (`WrittenAgrees`; for the prompts, `PromptsLoaded`). A reload needs that what the
  environment has and was not given is in the file (`Covers`, `ReloadAgrees`).
- `GuestSession_proofs`: `FetchedOnce` (`OneFetchPerExpiry`), by an account of fetches
  (`Paid`): each is paid for by a request that asked for it and counts once (`Spent`), by the
  restored session, or by a tick of the clock; while cookies are fresh or about to be stored,
  the present tick is spent (`Credit`), so nobody else fetches. `OwnTokens`
  (`TokensAreTheAccounts`): the guest's header, the guest's session and the cookies of every
  request but an account's are free of captured tokens (`TokenInv`), through merges, fetches,
  captures and restores.
- `ResponseStream_proofs`: `EventsAlwaysInOrder` (`EventsInOrder`) and `ReasonAlwaysTellsCalls`
  (`ReasonTellsCalls`), for answers of any length. What a recursive definition makes of a
  sequence is proved by induction over a set of numbers (`SetInduction`): `FlattenSeq` of a concatenation (`FlattenConcat`), picking
  positions (`KeepConcat`), the blocks that `Blocks` finds (`BlocksMove`), so that the calls of
  a text are those of the part that has its tags (`ParseCallsMove`). The order of the events
  follows from an invariant of the handler (`OrderInv`): in the events sent so far, whatever
  begins or belongs to a block is where it should be, and `block` and `next` say which block is
  open and how many there have been. The reason follows from what the handler knows of what it
  has sent (`ReasonInv`). Both rest on the types (`StreamTypes`).
  `StreamAlwaysTellsTheAnswer` (`StreamTellsTheAnswer`) follows an answer on its way
  (`OnTheWay`, in `TellInv`): what the events sent so far say (`Says`), what the sieve holds
  back, what is held back of the events (`InBuffer`) and what has yet to come (`ToCome`) make
  up the answer. The sieve is in one of three situations (`Streaming`): the rest of the answer
  has no markup (`Free`), the block has yet to begin (`Ahead`), or the sieve has captured the
  beginning of it (`Captured`); `Sieves` shows that a chunk, cut anywhere, leads from one to
  another, `Finals` that nothing is left behind at the end. A client that is answered whole
  loses white space where the answer is cut, which changes neither of the first two
  (`Left`, `LeftTrims`). What the proof rests on is that taking out a block leaves what is
  around it (`RemoveAround`), that the calls are those of the block (`ParseCallsMove`), and
  that white space does not hide or make markup (`CleanUntaggedSolid`). The attempt to prove it
  is what has made `OneBlock` as narrow as it is: a block after which, or in which, other
  markup appears is told in pieces.

Only model-checked: all liveness (TLAPS does not do fairness or ENABLED): `RequestsEnd`,
`OldUsagesGo`, `OldChatsGo`, `EverythingEnds` and `ImportsEnd`.

## 5. Not modelled

- The Redis and environment stores and the Redis tracker: `SaveAllAccounts` in Redis is a
  sequence of commands, whose failures are Redis' to define. What a read-only store does to
  the registry is in `AccountRegistry`.
- The saving of browser sessions, the driving of the browser, the capture of an account's
  session, and the background refresh of tokens beyond `RefreshAll`.
- Requests before they reach `executeChatRequest`: parsing, models, uploads, tool prompts; the
  repair of a call's arguments; usage numbers and estimates.
- Images, videos and their polling, which one goroutine does on its own.
- Caches, counters and logs behind a single mutex (ssxmod, model cache, metrics).
- HTTP, routing, formatting, the web console.

What would come next: a composition of `AccountRotation` and `ChatExecution` with the cooldown
that `Pick` leaves open.
