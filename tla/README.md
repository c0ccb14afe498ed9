# TLA+ models of tg-arc

`tg-arc` archives the unread texts of a Telegram account into SQLite, marks
what it has saved as read, and exports the archive offline.  This directory
models the parts of it where order, failure and concurrency decide whether a
message is lost, and checks them with TLC and TLAPS.  Everything is translated
from the Go code; `PROJECT.json` maps each definition to its lines.

Run a model with `tlc -config <Run>.cfg <Module>.tla` and check proofs with
`tlapm <Module>Proofs.tla`.

## 1. Inventory

### Parts and their state

| Part (source) | State | Operations | Modelled by |
|---|---|---|---|
| command line (`cmd/tg-arc/main.go`) | none | dispatch of `sync`, `history`, `export`, list commands and the TUI; options, dates, chat ids | `ArchiveRun` (dispatch), `FetchRows` (offline commands, days) |
| configuration (`internal/config`) | none | `Load`, `intEnv`: defaults and clamps | `FloodPacer` (pacing settings) |
| login (`internal/telegram/login.go`) | connection goroutine, result channel, prompt flag, wake channel, timer, `timeoutPaused` | connect, prompt, pause and reset the timeout, give up | `LoginPrompt` |
| pacing (`history_pacer.go`, `flood_wait_middleware.go`) | backoff level, successes, under a mutex | draw a pause, sleep, record success and flood, retry after FLOOD_WAIT | `FloodPacer` |
| history walks (`history.go`) | offset, collected messages, truncated, stopped | forward walk over unread messages; backward walk by dates | `HistoryFetch` |
| listings (`dialogs.go`, `topics.go`) | offset, `seen`, parsed entries | page through dialogs and topics | `Listings` of `DialogPages` and `TopicPages`, over `ServerList` |
| mark as read (`mark_read.go`) | the cursor on the server | `readHistory`, `readDiscussion` | `ArchiveRun` |
| peers (`peers.go`) | peer and channel caches, maps without a lock | fill from every answer, look up | `DialogPages` (contents), `TuiSession` (who uses them at once), `FetchRows` (the chats of an answer) |
| proxy (`proxy.go`) | none | parse an address | not modelled |
| store: schema, accounts (`store.go`, `schema.go`, `accounts.go`) | tables, `user_version`, account rows, `accountID` | open, create, migrate, find/adopt/insert account | `StoreOpen` |
| store: rows (`save.go`, `runs.go`, `read.go`) | `users`, `chats`, `topics`, `messages`, `sync_runs`, `sync_run_items` | four save transactions, run rows and items, queries | `FetchRows`, `ArchiveRun` |
| sync and history (`internal/app`) | run status, totals, error | list, choose, fetch, save, mark, record | `Archive`, `ArchiveRun` |
| interactive program (`tui_app.go`, `progress.go`) | screen, selection, options, fetch handle | messages and keys, stop, cancel | `TuiSession` |
| picker (`internal/tui/model.go`) | list, filter, mode, date inputs, selection | keys | `ChatPicker` |
| screens (`internal/tui`) | spinners, counters | drawing | which key they answer: `TuiSession` |
| export and list of chats (`internal/exporter`) | none | find the account and the chat, read messages, list chats and topics, write | queries and their results: `FetchRows` |

### How they interact

A command logs in (`login.go`), opens the store and takes its account, lists
dialogs, and for each chosen chat or topic walks the history, saves users,
chats, topics and messages in four transactions, marks the result as read and
adds an item to the row of the run.  All requests go through one client, so
its flood-wait middleware feeds the one pacer.  The TUI does the same per
selection: commands of the Bubble Tea loop call the client concurrently and
send messages back, and one goroutine runs the walk with a stop channel, a
cancellable context and a progress channel.  Several processes may share the
database file and the Telegram account, and Telegram itself changes all the
time: messages arrive, are deleted, are read on other devices.

### What makes each part correct

* **Pipeline**: no text falls below the read cursor unsaved; everything is
  archived in the end; run rows and items tell what was committed.
* **Walks**: the result has no hole, whatever changes between two pages and
  wherever it stops: by cursor nothing from its start to its last message, by
  date nothing above its first; a limit is exact; the walk ends.
* **Listings**: nothing is listed twice, nothing that stays in its place is
  missed, what is listed can be asked for, the loop ends.
* **Store**: no open loses rows or mixes accounts; a store in use has its full
  schema; an interrupted open can be repeated.
* **Rows**: messages have their chat and topic; an export has what was saved in
  the days it was asked for; the list of chats adds up.
* **Pacer**: the level is what floods and successes make it, in any order.
* **Login**: the time of the user does not count, a hanging network does.
* **TUI**: a result is saved under what it was fetched for; a running fetch
  can be stopped; every wait has an answer on its way; only enter starts a
  fetch; no two commands use the unlocked caches at once.

The hard behaviours are listed one by one, at their lines, under `hazards` in
`PROJECT.json`, with the properties that cover them or the reason why none does.

## 2. Modules

`Archive` is the abstract promise, `ArchiveRun` its implementation.  The other
modules look into a step that `ArchiveRun` takes as one: `HistoryFetch` into
`Fetch`, `Listings` into `LoadDialogs` and `LoadTopics`, `FetchRows` into the
save transactions, `StoreOpen` into what comes before a command, `FloodPacer`
into its requests.  `Listings` composes instances of `DialogPages` and
`TopicPages`, which both extend `ServerList`; `TuiSession` extends `ChatPicker`.

**Archive.**  For each chat or topic: the newest message, the read cursor, how
far the user has read elsewhere, the saved texts.  `Save` adds a text,
`MarkRead` moves the cursor and requires that every text it passes is saved or
was read elsewhere.  That guard is docs/architecture.md:22: "mark messages as read
only after the DB write succeeds".  `ArchiveRun` has an instance of it in which
the cursors, messages and saved texts are those of the implementation
(`INSTANCE Archive WITH ...`), and its property `ImplementsArchive` is the
specification of that instance.

**ArchiveRun.**  One record per process with a program counter:
`Launch` (`App.Run`), `LoadDialogs`, `StartRun`, `NextChat`, `LoadTopics`,
`NextTopic`, `Fetch`, `SaveEntities`, `SaveMessages`, `MarkRead`/`SkipMark`,
`AddItem`, `AddFailedItem`, `FinishRun`.  `TargetFails` is the error path of
any of them, `Cancel` the signal handler, `Crash` the end of the process at any
step.  The cursors a process works with (`snap`) are those of its listing, not
the present ones: that is the stale state of the code.  Failures, interrupts
and crashes together are bounded by `MaxFaults`.

**HistoryFetch.**  Both walks of `history.go`, told apart by `ask`:
`fetchMessagesForward` from the read cursor to newer messages, and
`fetchMessages` from the end of a range of dates to older ones, each with its
closures for chats and topics.  The two loops of the code have the same shape
and differ in their data, and so do the operators of the model: `Ahead` and
`Behind`, `Lowest` and `Highest`, `Largest` and `Smallest`, and `TooOld`, which
ends a walk by date.  A walk by cursor starts at any of `Cursors`; `LastRead` is
its cursor, 0 for a chat that was never read.  That 0 goes out as the offset, with
a negative `AddOffset` (`history.go:397`, `417`), and the code cannot know which end
of the history the server takes it for: `ZeroIsNewest` is the parameter,
`FromNewest` the request, and `first` a history variable, the oldest message of a
page that was answered so.  `present` and `top` are the server's messages, which arrive
and vanish at any time; `Resolve` finds the peer, `CheckStop`,
`PaceDone`/`PaceAborted` (the select of the pacer's timer against the stop),
`Reply` and `Process` are the turns of the loop.  Message kinds: texts, media,
outgoing, service messages, and threads that the General topic must skip.
Whether the server includes the offset or the second of the offset date, and
whether it may return short pages, are parameters.

**StoreOpen.**  Statements outside a transaction are steps (each CREATE TABLE
of `createSchemaV2`, the select, update and insert of `SetAccount`), a
transaction is one step (`migrateV1ToV2`).  `Abort` ends an open at any of them
and leaves what was done.  `raced` is a history variable: the users whose
adoption of the legacy account came second.

**ServerList, DialogPages, TopicPages, Listings.**  The server's list is an
order by last message that arrivals and deletions change between pages.  One
step of `FetchPage` is one turn of the loop: request, parse, `seen`, the peer
cache, end conditions in the order of the code, next offset.  `cache` is the map
of `peers.go` under bare numbers: every answer writes the chats it names and
then its users, who may be senders without a dialog on the page.  `Listings`
chooses one of the two calls at the start, and states their common promises.

**FetchRows.**  The four save transactions of `saveFetchResult` and the listing
of `sync`, against a `chats` or `export` command that finds its account
(`Resolves`) and reads in several queries.  A row is its key.  Local days are the
hours of their midnights (`Midnight`), so that a day may have 23 or 25 hours; a
message has the hour it was sent; `Until` is the end of a day as `main.go`
computes it, `InDays` what the user asked for.

**FloodPacer.**  `nextDelay`, `RecordSuccess`, `RecordFloodWaitDuration` and the
retry loop.  Callers are the paced command and the unpaced requests of the
library.  `earned` is a history variable: the level of the last flood and the
successes since.

**LoginPrompt.**  The select loop of `startClient` with the flag and the
one-token channel of the prompts.  Ticks of time pass only while no goroutine
can go on.  `network` counts the ticks of waiting for Telegram.

**ChatPicker, TuiSession.**  A picker is a record, a key turns it into one of
`Pressed(picker, key)`.  The session keeps the screen, the selection, the
options, the fetch handle, the goroutine and the set of messages that commands
have yet to deliver (`inbox`); messages and keys are handled in any order, and a
message may still be handled between ctrl+c and the end.

`MCHistoryFetch` and `MCFetchRows` only supply functions, ranges and a symmetry set.

## 3. Runs

| Run | Instance | Shows |
|---|---|---|
| `FetchWalk` | 6 ids (texts, a service message, a thread) in 4 seconds, pages of 2 that may be short, limit 3, cursors 0, 1 and 2 with 0 read as the newest end, General topic, three ranges of dates | no unread text is skipped but below the first page of a chat never read, a walk by date has the newest part of its range, a complete result misses only what a short last page kept back, the limit is exact, at most one request after a stop, batches are kept, nothing counts twice, the walk ends |
| `ArchiveTwo` | 2 processes (sync, TUI) on one topic, 2 ids, limit 2, dates, 1 fault | no text is read unsaved; every step is one of `Archive` |
| `SyncConverges` | 1 process, sync of one chat at a time and history, a chat and a forum of 2 topics, 1 fault | status and items are true, rows are closed, commands end, every text is archived at last |
| `StoreShared` | 2 processes, 2 users, an empty, a version 1 or a newer file, 2 aborts | no row is lost or moved, a store in use is complete, only a user who lost the race for the legacy account has rows in another's |
| `StoreHalfMade` | 1 process, an empty file, 1 abort | *violated*, finding 1 |
| `AccountsShared` | 2 processes, 2 users, a version 1 file | *violated*, finding 2 |
| `ListingPages` | 4 dialogs or topics, pages of 2, 2 changes; dialogs: one without a usable peer, one whose last message the answer does not have, a user and a channel with one number, with and without an archive folder; topics: one deleted, one without a date, both orders | nothing is listed twice, nothing is missed but for the named reasons, the cache has the peers of what is listed, the loops end |
| `PacerShared` | 2 callers, waits 0, 30, 60, 901, nine pairs of settings | the level is earned, pauses are as configured |
| `FetchSaves` | 2 processes, chat, forum, topic, 1 abort, a second account, local days of 23 and 25 hours, 4 ranges (one open at its end), one offline command at a time | messages have their rows, an export has nothing from before its first day and is exact at its last but for the odd hour, the list of chats adds up |
| `LoginTimeout` | 3 prompts, 3 ticks | the time of the user is not counted, a hanging login is given up |
| `TuiKeys` | a chat, a forum of 2 topics, all keys but the filter's | results match requests, fetches are reachable, waits have answers, date mode has its dates, only enter starts a fetch, the caches have one user at a time, q and ctrl+c work |
| `PickerFilter` | the same with filters | *violated*, finding 3 |

### Why the bounds are enough

* The walks and listings compare neighbours: an offset, the end of a page, the
  next page.  With three pages there is a first, a middle and a last one, and
  the changes between them can move an item over a boundary in either
  direction.  The program's 100 entries a page only make these cases rarer.
  Limit 3 over four wanted messages in pages of two is passed inside a page,
  met at its end, and not reached when a message is missing.  A chat that was never
  read has up to three pages, so its first one, the newest, leaves two below it; the
  cursors 1 and 2 are the ordinary case, where nothing is excepted.  The ranges are
  everything, one that ends in the second of a text (which an exclusive offset
  date keeps back), and an empty one; two messages share a second at both ends.
* A pipeline process touches one target at a time.  Two ids distinguish "saved
  before" and "arrived meanwhile", and limit 2 is met by two of them and not by
  one.  Two processes are the least that can interleave, and what each knows of
  the other is the database and the cursor.  In `SyncConverges` three targets
  of two chats put the failed one first, between and last.  One fault is
  every single failure, interrupt and crash at every step.  The proofs of
  section 5 have none of these bounds.
* Two opens and two users reach every race in `StoreOpen`, where each statement
  either finds another process's row or does not.  There are two aborts so that
  a repeated open can be disturbed too.
* Offline commands look at one message at a time: id, chat, topic and hour.  The
  hours of `FetchSaves` are the last of the short day, which is before `--since`
  when the range starts with the long day; the first of the long day and its 25th,
  the two that `--until` gets wrong.  The ranges are none, up to the short day, the
  long day, and from the long day on.  An abort is needed once, between any two transactions.
* The waits of `PacerShared` are zero (read as one second), below, at and above
  the threshold of a long wait, the last over the maximum.  Level 5 is reached
  by five floods or a long one, and the history variable saturates where the
  level is 0 again.
* Three prompts are enough for two of them to merge a token and a third to come
  after it; three ticks put each before, at and after the timeout.
* The TUI works with one chat and one topic at a time; a chat without topics
  and a forum with two give both kinds of fetch and a change of the selection.

### Fairness

* `HistoryFetch`: weak fairness of the walk, which is one goroutine without any
  wait but the pacer (a timer) and a request (answered or failed).
* `ArchiveRun`: weak fairness of each process's own step; none of `Post`,
  `ReadElsewhere`, `Launch` or of faults.  `EveryTextArchived` assumes more,
  strong fairness of launching a full sync: a user who keeps running it.
* `Listings`: weak fairness of the turn of the loop, for each of the two.
* `LoginPrompt`: the goroutines are scheduled and time passes; neither the user
  nor the network ever has to answer.
* `TuiSession`: the runtime delivers the messages of the commands and a fetch
  returns (`HistoryFetch` shows that).  No key is ever fair.

Each module states its type invariant, `TypeOK`.  Runs check it in the modules whose
proofs rest on it; elsewhere it documents the variables.

`CHECK_DEADLOCK FALSE` stands where the program may really stop: a walk, a
listing or a login that has ended, a program that was quit, and a pipeline whose
history is exhausted by the bound on ids.

## 4. Findings

Three runs show a violation of what the repository says:

1. **A half-made database never opens again** (`schema.go:59`).  Creation is not
   a transaction, and a file with `users` and version 0 is taken for version 1.
   docs/data.md:5: "SQLite is migrated automatically".  `StoreHalfMade`.
2. **Two users may share one account** (`accounts.go:96`).  Both select the
   legacy account, the guarded update of the second changes no row, which is not
   looked at, and its messages go to the account of the first.  docs/data.md:22:
   "keeping data separate".  `AccountsShared`; `OnlyRacesMixUsers` says that this
   race is the only way.
3. **ctrl+r under a filter overwrites another chat** (`model.go:339`): the index
   counts visible items and is used on all of them.  `model.go:338`: "Update
   item in list to show 0 unread".  `PickerFilter`.

Further places where code and documents differ.  The models do what the code
does; the properties are stated so that they hold with it:

* `--chat-limit` does not bound topics (`sync.go:192`; docs/usage.md:138: "Maximum
  unread chats/topics to sync").
* `export --until` ends 24 hours after the local midnight (`main.go:214`): a day
  of 25 hours loses its last hour, one of 23 takes the first of the next day;
  docs/data.md:51: "Date filters in `export` use local dates".  `ExportIsExact`
  names this hour, between the next midnight and 24 hours after the last one, and
  allows no other difference: nothing from before `--since`, nothing later.
* A chat that was never read is asked for with `OffsetID` 0 (`history.go:397`,
  `417`).  A server for which that is the newest end answers the first request with
  the newest page, the walk goes on from there, finds nothing and ends as complete:
  the older unread texts are not fetched, and a caller that marks the newest as
  read loses them.  docs/usage.md:89: "Sync every unread chat/topic."; usage.md:54:
  "marks only a safe parsed prefix as read".  `client_test.go:552` starts at 100.
  Nothing in the repository says which end it is, so this is no finding:
  `NoUnreadSkipped`, `CompleteHasAll` and `StoppedKeepsBatch` hold for both readings,
  and `BelowFirstPage` names these texts as the only ones that are passed over.
* A page that is not full is taken for the last one (`history.go:476`).  If the
  server kept something back, a walk by cursor leaves it unread for the next run,
  and a walk by date does not find it (`KeptBack` in `CompleteHasAll`).
* A page of dialogs that holds the archive folder looks short and ends the
  listing (`dialogs.go:87`), and of chats of different kinds with the same
  number only the first is listed (`dialogs.go:80`); docs/usage.md:89: "Sync every
  unread chat/topic."  These are the last two reasons of `OnlyCutsLoseDialogs`
  (module `DialogPages`).  Such a number also has one peer in the cache
  (`peers.go:13`), so that `PeersAreTheirs` excepts it.
* A flood wait over the maximum ends one chat, and the next is requested
  (`sync.go:44`; docs/architecture.md:38: "Longer waits stop the run").
* Saving a fetch overwrites unread cursors with zeros (`app.go:284`;
  docs/data.md:11: "dialog metadata and unread cursors").
* A cancelled end date keeps the new start date, so a start after the end may
  be in use (`model.go:265`, against the check at `model.go:302`).
* After leaving the topic list the next key or resize loads the topics again
  (`tui_app.go:147`; docs/usage.md:52: "go back from topic list").
* A result that had arrived is saved and marked after ctrl+c (`tui_app.go:237`,
  while the progress screen says "ctrl+c: cancel").
* After ctrl+c `FinishRun` runs under the cancelled context, fails, and the row
  stays "running".  No document promises otherwise; `RunIsClosed` says that
  only this, a failed `FinishRun` or a crash leaves a row open.

## 5. Proofs

| Theorem | For every ... | Inductive invariant |
|---|---|---|
| `HistoryFetchProofs`: `TypeCorrect`, `NothingSkipped`, `StoppedPrefixSafe`, `NewestPart`, `CompleteWalk`, `StopIsPrompt`, `LimitIsExact`, `CountedOnce`, `BoundedWalk` | history, kinds, dates, page size, limit, cursors, ranges, servers with short pages, inclusive offsets and either reading of offset 0 (`CountedOnce`: exclusive offsets) | `IInv` is `CursorInv` or `DateInv`.  By cursor: an answer has no hole above the offset (`PageHasNoHole`), the walk stands at the end of what it processed (`PageBehind`, `FetchedBehind`), all wanted up to the offset is fetched (`Covered`), and whatever arrives later is above all of it (`BelowTop`).  An answer from the newest end has no hole above its own first message, and no later one goes below it (`NewestAnswerKeepsCursor`, `OldestAnswerKeepsCursor`).  By date: the same downwards (`DatePageHasNoHole`, `DateCovered`), and nothing is fetched before the first answer settles what is due (`NothingBefore`).  `CompleteInv` adds what a short page stands for, `LateInv` is for the stop; `LimitInv` counts while the walk goes on; `CountInv` keeps what is collected on one side of an offset that the server excludes.  `VariantInv`: a page lies beyond the offset, so one with two messages has a message that moves it, and `StepsLeft` falls |
| `ArchiveRunProofs`, first part: `TypeCorrect`, `ReadTextsAreSaved`, `Implementation` | processes, chats, topics, ids, texts, limits, commands, faults | `IInv`: a process's cursors are not ahead of Telegram's (`SnapOld`), its batch has no hole above them (`Fetched`), and it marks only what is committed (`Committed`); `Located` says which target each point of the program has |
| the same module, second part: `StatusTellsTheTruth`, `ItemsTellTheTruth`, `RunsAreClosed` | the same | `Runs` relates a process to its row, which no other process writes: what is to come has no texts and no items (`Untouched`), what is selected and not recorded is still to be done (`NothingForgotten`), the total is zero while nothing is committed (`TotalTells`) |
| the same module, third part: `BoundedCommands` | the same, for finite lists of chats and topics | `TypeOK` is enough: `StepsLeft` weighs the chats still to do, the topics still to do and the point of the program (`Rank`) |
| `ListingsProofs`: `TypeCorrect`, `NothingListedTwice`, `CompleteButForCuts`, `ListedCanBeAsked`, `BoundedListing` | dialogs, senders, topics, page sizes, changes | `ListingInv` is `DialogInv` or `TopicInv`: what is listed lies above the next page (`ListedAbove`), what is not listed is excused or still to come (`DialogsToCome`, `TopicsToCome`), and the cache has the peers of both (`Reaches`).  Each request starts strictly below the one before (`RequestsRunOut`) |
| `StoreOpenProofs`: `NoRowIsLost`, `UsersApart`, `StoreIsComplete` | processes, users, first contents, aborts | `IInv`: account 1 is the first that exists (`FirstAccountFirst`), whoever saves has an account (`HasAccount`), rows with an account exist only after account 1.  So the insertion of account 1 in a second migration fails and undoes it.  `Apart`: an open store has its user's account or that user came second in a race.  `Phases`: what the version says of tables and rows (`VersionTells`), and how far an open may be (`PhaseOf`) |
| `FetchRowsProofs`: `RowsFirst`, `ExportExact`, `ListAddsUp` | processes, chats, topics, ids, aborts, local days, hours, ranges | `IInv`: what a process has saved of its fetch so far is there (`SavedSoFar`).  `OfflineInv`: what an export is asked for stays what its query selects (`AskedIsThere`), what a list has counted stays in the database (`CountedIsThere`) |
| `FloodPacerProofs`: `TypeCorrect`, `LevelEarned`, `PausesFollowSettings` | callers, waits, settings | `IInv` adds to the level what the count of successes stands for (`CountIsEarned`); `PauseInv` says that every pause is the one some level gives |
| `LoginPromptProofs`: `TypeCorrect`, `UserTimeIsFree`, `BoundedHang` | prompts, timeouts | `IInv`: the timer has not run for longer than the network was waited for (`TimerIsNetwork`), and nothing moves while a user takes time (`TypingIsPaused`), which rests on the tokens (`PromptIsTold`).  `ResumeInv`: the timer is stopped only for a prompt (`StoppedIsPaused`), of whose end the loop has still to hear (`EndIsTold`), so `HangLeft` falls |
| `TuiSessionProofs`: `ResultsMatch`, `FetchReachable`, `WaitsAreAnswered`, `CachesHaveOneUser`, `RangesAreKnown`, `EnterStartsFetches` | chats, forums, topics, days | `IInv`: at most one command is under way that lists or waits for a fetch (`OneAtATime`), the screen that waits for it is shown (`ScreenWaits`, `FetchIsAwaited`) and keeps what it was asked with (`RequestKept`), and a list that was left for a chat is not shown again (`LeftForForum`) |

None of these properties is inductive by itself: that no text is skipped says
nothing of the page in hand; that read texts are saved says nothing of a process
about to mark; that rows are kept depends on who may have saved before a
migration; that messages have their rows depends on what their process has
saved before; the level after a success depends on the count.  Each `IInv` is
proved to hold initially and to be kept, one lemma or step for each action, and
the theorems follow by PTL.  `Implementation` maps the commit to `Archive!Save`,
the marking to `Archive!MarkRead` and every other step of a process to a
stutter.

The assumptions are those named `...Assumption` in the modules, which TLC
evaluates in every run.  `FetchAssumption` excludes an inclusive offset with
pages of one, where the server would return the same message for ever.

Loops and folds.  The parsing loops of the listings are recursive functions over
the position in a page, and so is the server's list.  The induction theorems of
the library take an operator, which the provers cannot instantiate; the lemmas
of `ListingsProofs` use instead that a nonempty set of naturals has a least
element (`LeastNat`), applied to the set of positions where the claim fails.
`Collects` states once what any loop over a page has gathered when it ends,
`DialogsAdded`, `TopicsAdded` and `SortReorders` apply it.

Every invariant and every action property that a run checks, but for the three
that the code violates, is stated by a theorem.  Model-checked only is liveness:
`WalkEnds`, `CommandEnds`, `EveryTextArchived`, `ListingEnds`, `HangingLoginEnds`,
`StopIsAnswered`, `CtrlCExits`.  It needs fairness and ENABLED, both out of the
prover's reach.  For four of them the other half is proved: `BoundedWalk`,
`BoundedCommands`, `BoundedListing` and `BoundedHang` give a natural number that
each step of the walk, the command or the listing, and of a login whose
connection hangs, makes smaller and nothing else makes larger, so all that is
left to fairness is that a step that can be taken is taken.  For `StopIsAnswered` it is `WaitsAreAnswered`: the message
that ends the wait is on its way.  `OpenSucceeds`, `AccountsSeparate` and
`ListKeepsChats` are not true of the code, see section 4.

## 6. Not modelled

* The network protocol, encryption, sessions and the SQLite engine: external.
  SQLite statements and transactions are atomic and isolated, and may fail.
* The proxy, logging, layout, colours and the forms of JSON and Markdown: no
  property is about them.
* The syntax of options, dates and chat ids (`parseRunOptions`, `normalizeChatID`)
  and the reading of settings: pure, read once, and within reach of unit tests.
  What they decide is a constant or a choice at the start of the models.
* The counters of the progress screen: they may be too high when a message of an
  earlier fetch comes late and too low when the channel is full, and nothing that
  is saved, marked or ended depends on them.
* Senders: `SaveUsers` may fail like every save, its rows are not represented.
* Access hashes: a peer is known or not, and is that of one chat or of another.
  The peer storage of the client library is external.
* Bots and groups that are upgraded to other ids.

## 7. Plan

Done, in this order: the walk by cursor, the abstract archive and the pipeline
with its refinement, the store, the listings, the pacer, the rows, the login, the
TUI; the walk by date, the peer cache, the offline commands and local days, the
races of two users and of the caches; proofs of the walks, the pipeline and its
run rows, the store, the pacer, the rows, the login and the TUI; proofs of the
listings and of the variants behind four of the liveness properties.

Next:

1. A proof that what `HistoryFetch` returns is what `ArchiveRun` takes a fetch to
   return (`Results`), for cursors other than 0 and histories from which nothing is
   deleted.
2. The progress counters, if a document comes to promise them.
