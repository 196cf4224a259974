# A TLA+ model of the compactor

The repository is a chat server for one user: OpenWebUI in front, a language
model behind, and between them `compactor/`, a proxy that gives a conversation
a memory longer than the model's window. Beside the proxy run a daemon that
keeps OpenWebUI's database on a network volume and one that backs both up. This
project models them. The proxy is one asyncio process over plain files and
SQLite; what makes it hard is that the memory of a conversation is changed by
background tasks that take minutes, by commands typed in the chat, by admin
endpoints in worker threads, and by a process that may die between two file
replacements. What makes the daemons hard is a volume that may fail to answer,
a pod that may be recreated at any step, and a copy that must never become
worse than the one it replaces.

## 1. The system

### Components, their state and their operations

| component | state it keeps | operations that change it | modelled in |
|---|---|---|---|
| facts layer (`facts.py`, tails in `main.py`) | `<conv>.json` (active facts), `<conv>.archive.json` (evicted and stale ones) | tail: touch, extract, deduplicate, prune, save; `/remember`, `/pin`, `/unpin`, `/forget <substring>`; archive-stale, restore, clear | `Facts`, `FactStore` |
| deduplication (`dedup.py`) | a memo of refused clusters | clusters by embedding, asks the model to merge, merges metadata | `Facts`, `FactStore` (partly) |
| background pool (`bgwork.py`) | the set of tasks, a semaphore, counters | submit, shed, drain with timeout | `BgPool` |
| memory tail (`main.py`, `tailhealth.py`, `degrade.py`) | the ledger of outcomes, a cached measurement of the disk | decide what a reply is worth, count it, correct the count, submit, stop | `MemoryTail` |
| forgetting (`commands.py`) | nothing of its own | bare `/forget`: drain, wipe five layers, drain, read back, wipe again, answer | `Forget` |
| lazy backfill (`backfill.py`) | `<conv>.backfill.json`, `_in_progress_local` | claim, extract one exchange after another, merge, roll up | `Backfill` |
| hierarchical summaries (`summarizer.py`) | `<conv>.summary.json`: chunks of three tiers, watermark, position and anchor, covered-turn record; `<conv>.summary_archive.json`: the chapters a retelling consumed | observe a window, roll up a chunk, fold a chapter, retell the story, compact from the episodic index, reset | `Hierarchy` (partly) |
| prompt budget (`main.py`, `summarizer._coverage_plan`) | nothing between requests | compact, inject, shed by value, verify by the model's count | `Prompt` (partly) |
| episodic index (`retrieval.py`) | a ChromaDB collection | index an exchange, search, delete | in `Forget`, `Hierarchy`, `Portability` |
| personas (`persona.py`) | a persona file per conversation | capture, set, clear | in `Forget` (partly) |
| import, export, fork, merge, cleanup (`portability.py`) | the layers of two conversations, quarantine snapshots | in the loop or in a thread pool, testing the locks of the loop | `Portability` (partly) |
| OpenWebUI database sync (`webuidb.py`, `entrypoint.sh`) | a snapshot of the chat database on the volume, temporary files, a lock, a marker of an empty start | restore on boot, set aside, publish, refuse losses | `Webui` |
| backup (`backup.py`) | archives with manifests and high-water marks | census, snapshot, verify, refuse a collapse, publish, compare, rotate | `Backup` |
| restore of a backup (`backup.py`, `entrypoint.sh`) | quarantined files, a marker | swap a database and a store, roll back, refuse the next boot | `Restore` |

How they interact. A chat request (`chat_completions`) reads the layers without
a lock, builds its prompt (`Prompt`) and, once the reply is complete, decides
whether it is worth storing and submits a *memory tail* (`_run_memory_tail` ->
`_async_tail`) to the pool (`MemoryTail`). The tail indexes, extracts facts and
rolls up summaries, each part under `memory.conv_lock`, an `asyncio.Lock` per
conversation that the facts part holds *across* the calls to the model
(`FactStore`, `Hierarchy`). Commands run inside the request, under the same
lock. Backfills run in the same pool. `/forget` drains the pool. Admin endpoints
run in the loop or in a thread pool (`Portability`). The sync daemon and the
backup daemon are processes of their own: they share files with OpenWebUI and
the compactor and take no lock of theirs. Nothing but files survives a crash.

### What is hard

* A request's snapshot of the facts is used minutes later by its tail.
* Two files change in one operation (evict, restore), and either may be
  unreadable, or resist a write, and the process may die in between.
* A reply is counted as stored before its tail has run; the tail may be shed,
  cancelled, or parked while the disk fills.
* A drain that times out cancels what it waits for; a task that handed a write
  to a worker thread is cancelled but the write is not.
* `/forget` must hold against tails in every state.
* A backfill decides at one moment and writes minutes later.
* A client sends a window of the conversation, after edits and deletions that
  it does not report; the summariser infers from it how far the conversation
  has come, and remembers which of its turns some summary has read.
* What stands in for old turns in a prompt must say them, and what is shed to
  fit the window is estimated by a tokenizer that is not the model's.
* A merge runs in a thread beside the loop, tests its locks once and writes
  later.
* What is deleted is deleted on the strength of a snapshot that was read by
  readers which return nothing when they fail.
* A publication of the chat database can be killed at every step, on a volume
  whose cache dies with the pod; a skipped one must have had nothing to do.
* A boot must tell "there is no history" from "the history can't be read", a
  sync "nothing was lost" from "what it replaces can't be read".
* A backup that succeeds may hold less than the last; rotation must not throw
  away the archives from before a loss.
* A daemon that restarts again and again must not fill the window of its
  rotation with copies of one state.
* A restore swaps two stores that must agree, its rollback may fail itself, and
  the marker that tells of it may go unread.

`PROJECT.json` lists each such hazard at its line under `hazards`, with the
property that watches it, or the reason why none does.

### What makes each component correct

* facts: nothing stored vanishes unless it was forgotten; nothing forgotten
  returns by itself; no operation makes a fact look older than it is.
* pool: its two bounds, honest counters, drains that return, tasks that end.
* tails: what `/health/full` knows of a reply is what became of it.
* forgetting: what a settled answer does not name stays gone.
* backfill: one at a time, only adds, "complete" means written.
* summaries: a turn that the record says was read is in some summary; what was
  once said is said on, and a chapter that leaves the state is in the archive;
  the position never runs ahead of what was said.
* prompts: every turn reaches the model, itself or in a summary, but those shed
  to fit; what is certified fits; what is shed is shed by value.
* portability: nothing leaves a conversation unasked, a merge arrives, what is
  removed is kept.
* sync: the copy on the volume is always one whole image, its rows only go
  forward, OpenWebUI never starts empty over a history that can be read, the
  copy catches up.
* backup: a loss is told and stops the rotation, each promised week has an
  archive, restarts make no archives of their own, the daemon publishes in the
  end.
* restore: an unmarked volume holds files of one generation; nothing is
  destroyed.

Some of these hold only with exceptions that the code leaves open. A property
names its exceptions, and section 6 says what the code does in each of them.

## 2. The modules

| module | models | kind |
|---|---|---|
| `Facts` | facts as records, `_lru_split`, `_merge_touched`, `archive_facts`, `_merge_metadata` ... | operators |
| `FactMemory` | what the two fact files promise together | abstract specification |
| `FactStore` | both files of a conversation, tails, commands, admin endpoints, crashes, damage | state machine, EXTENDS `Facts`, implements `FactMemory` |
| `BgPool` | `BackgroundPool` | state machine |
| `MemoryTail` | decision, ledger, disk guard and jobs of a tail, composed with the pool | state machine, EXTENDS `BgPool` |
| `Forget` | bare `/forget` against tails, composed with the pool | state machine, EXTENDS `BgPool` |
| `Backfill` | `backfill.py` beside tails of the conversation | state machine |
| `Hierarchy` | `maybe_rollup` of one conversation beside the user, the history-cap filter and the administrator's compact | state machine |
| `Prompt` | what one request sends to the model | state machine |
| `Portability` | import, fork, merge, cleanup and quarantine beside tails | state machine |
| `DurableCopy` | what the sync promises of the copy on the volume | abstract specification |
| `Webui` | boot, sync daemon, operator's sync, OpenWebUI, crashes | state machine, implements `DurableCopy` |
| `Backup` | the daemon's cycle and its archives | state machine |
| `Restore` | `restore_backup` step by step, kills, boots | state machine |
| `*Proofs` | lemmas and theorems of the module they name (`FactStoreProofs` those of `Facts` too, `PoolProofs` those of `BgPool`, `Forget` and `MemoryTail`, `RequestProofs` those of `Prompt` and `Backfill`, which a request goes through) | proofs |
| `MC*` | small instances for TLC (symmetry sets, inputs) | |

`PROJECT.json` maps each definition to the lines it translates. The rules of
correspondence:

**One loop.** A coroutine gives way at an `await` only, so what lies between
two awaits is one action. Steps are finer where something can come between:
two replacements of one operation (the process may die), a thread beside the
loop, or processes beside each other.

**FactStore.** A fact is `[text, last, pin]`. A text is the set of *claims* it
states: an extracted fact states one; a fact the model merged out of several
states all of theirs. That a merged sentence does carry what its sources say is
an assumption about the language model (the code can only ask for it).
`added_turn` and the order of a list matter for ties and for layout only; a
tie is nondeterministic. A tail is at `parked` (waiting for pool or lock),
`extracting`, `merging` (the deduplicator's call), `saving`. An operation that
replaces two files does the second replacement in a step of its own
(`FinishWrite`), no coroutine runs in between (`LoopFree`), but the process may
die (`Crash`), and the write may fail (`WriteFails`). `held` and `gone`
are history variables: what was stored and not forgotten, what was forgotten
and not restated. The model of the language model is: any subset of claims, any
merge or refusal.

**BgPool.** A task is unborn, queued (exists, parked on the semaphore),
running, ended (its done callback has not run), gone, or shed. `dying` is the
cancellation on its way; a dying waiter is passed over by the semaphore, as
asyncio's does. A drain gathers the tasks that exist; its timeout cancels them,
because `asyncio.wait_for` cancels the gather it wraps.

**MemoryTail.** A reply is described by what `decide_memory_tail` looks at:
whether its text is prose, a scrap, unending, a loop or nothing, whether the
stream finished, had holes, answers a user's text, is OpenWebUI's own traffic.
`ledger`, `lossyAt` and `empties` are `tailhealth`'s; `cache` is `degrade`'s
last measurement with its expiry. `Reply` decides, counts and submits in one
step, as the code does between two awaits; the three guards of the tail
(`Begins` with the cached reading, the later jobs with a fresh one) are steps of
their own. `decided`, `order`, `indexed`, `pressed`, `roomAt` are history.

**Forget.** A layer's content is the set of exchanges it stems from. A tail
goes through index, facts, extraction, rollup; `save_state` of the rollup runs
in a worker thread (`thread`), which a cancellation of the tail does not stop.
The lock sections of `/forget` have no await inside and are one step each. The
code's read-back after the second wipe follows it without an await; here it is
a step of its own, which only adds interleavings. `health` says whether a layer
can be read: `unreadable` raises `StoreUnreadable`, `malformed` raises
something else (a value of the wrong type in a parseable file), which ends the
command when it is the facts file and is logged and passed over when it is the
archive. `Left` is what an answer does not claim to be gone: what it names, what
is malformed, and the archive while facts that stay may be evicted into it.

**Backfill.** One conversation, several requests. Reading, merging and saving
under the lock is one step, in a backfill as in a tail. The rollup at the end
is one step.

**Hierarchy.** A turn is an integer standing for its role and text, negative
when the text is degenerate (the rollup reads a placeholder in its place, the
record keeps the turn as the client has it). A summary is the set of the turns
that its text was made from: what a model call leaves out is beyond the model.
`disk` is the summary file, `pass.state` the copy in the hands of the pass that
holds the lock. A pass is one step for the load, the repair and the observation
(`PassStarts`), one per tier step (`ReadsL1`, `SkipsL1`, `FoldsL2`,
`RefreshesL3`, `TierFails`), and one for the save (`PassEnds`). Between
two steps the user may write, and the process may die. `PassEnds` may come at
any time, because a chunk that the model answers with nothing, an exception and
a budget overdrawn by a long input all end the pass. The episodic rows are kept
as slot, user turn and reply, because the compact rebuilds a transcript out of
them; a tail writes its row (`Indexes`) some time before its pass. `story` is
the conversation as the client holds it, and `Window` what the history-cap
filter lets through.

**Prompt.** A message has an owner (a turn, a system message of the client, the
stand-in that replaces older turns, a memory layer), the set of turns it says,
and two sizes: the tokens the compactor counts and those the model charges.
`recorded` is any set of older turns that the covered-turn record may pair with
them; `CoveragePlan` is what the code makes of it. The guard
(`_enforce_hard_budget`) is a step per measurement and per message it trims or
drops, in the order of the code: owed exchanges, memory trimmed, memory
dropped, older turns, the repair of the first role, what was added, a
verification, another round or the last resort. `Measures` gives the model's
count or, when it does not answer, the local one.

**Portability.** A layer of a conversation is a set (facts with their pins,
exchanges, chapters). Import and fork are one step, because they do not yield;
the import after a quarantine is cut after any layer (`done`). A merge is
`MergeExport`, `MergePreview`, `MergeTest`, `MergeReload`, `MergeSave`,
`MergeIndex`, each at the mercy of the loop. `Reads` and `Export` are best-effort
readers: a layer that can't be read yields nothing; it can't be read for good
(`torn`) or this once (`Flickers`, any of the three layers). `Snapshots` is the
quarantine's export with its check of counts: a layer it could not count is in
`unverified`, one that is not counted and came out empty in `unread`.
`crossed` says which conversations somebody took, or imported over, between a
merge's test of the locks and its save, until both are done. It, `removal`,
`late` and `promised` are history.

**Webui.** An image is a set of rows, each with the time of its last change and
whether it is long (can lose more than the row-loss limit). A file has a kind:
a copy in progress, complete in the cache of the host, torn by the death of the
host, whole, hot (with a journal to roll back), rotten. A look at the volume may
stall, which is an error and not an absence (`Answers`); a count of the chats or
a scan of the rows of a snapshot may fail although it passes `quick_check`
(`Reads`). After a count that failed and a check that passed the boot keeps a
local database without chats; after a scan that failed a sync judges by the
number of chats alone. `misread` and `unscanned` are the history of that. The
boot and a sync, of the daemon or of an operator, are a step per call that
changes a file or looks at the volume. A kill leaves files as they are,
a recreated pod loses the local disk and what was only `cached`. SQLite's page
copy is taken to give one consistent image, as its documentation says. A database
that a person puts in place (`ByHand`) has the time of the copying. With `mv`,
`shutil.move` or `copy2` it keeps an older one, which the test at
`webuidb.py:1701` takes for unchanged: `SkipIsSound` and `CatchesUp` say nothing
of that.

**Backup.** An archive is measured as its manifest measures it: the text of each
conversation's memory, the layers that only grow, the chats, the marks, and the
bytes of the files, of which those of the database count free pages too, so that
chats deleted in place leave them as they were. The test for a collapse compares
bytes; where the newest manifest can't be read it compares compressed sizes, or
nothing, and goes either way in the model (`Collapses`). `cut` marks an archive
that had lost something and whose cycle was killed before the alarm. The
cycle is a step per function of `run_once`; `Boot`, `Wakes`, `Ends`, `Fails` are
the loop around it. The clock counts fractions of the daemon's interval. A
legible manifest and a listed archive are flags of its entry in `log`, so that
what was pruned can still be spoken about.

**Restore.** The content of a file is the generation it comes from. Every move
is a step, with its failure (where `MayFail`) and the branch of the rollback it
leads to; `Kill` comes between any two. `Boot` is what `entrypoint.sh` looks at.
It and the refusal to restore over a restore (`Begin`) go through the same
reader, which answers "none" where the quarantine or a marker can't be read
(`Sees`), "a detection gap, not data loss in progress" (`webuidb.py:598`).
`missed` records whether a start or a restore went on that way; what OpenWebUI
and the operator do after it is not followed. `Repair` is what the documentation
asks of the operator.

## 3. What is checked

| run | instance | shows |
|---|---|---|
| `facts` | 2 claims, 2 tails, the dedup endpoint, budget of 1 claim, 2 facts, any file may be damaged | `NoSilentLoss`, `NoResurrection` |
| `facts_live` | 1 claim, 2 tails, clock to 1, extraction on or off | `TailsSettle`, `ActsAsMemory`, `PinsStick` |
| `tail` | 3 replies of 5 kinds, 1 slot, 2 outstanding, 1 drain, clock to 2, 1 trouble with the disk | `LossIsSeen`, `StoredIsStored`, `DrainsReturn`, `RoomIsRecent` |
| `forget` | 2 tails, 1 `/forget`, five layers, unreadable or malformed facts and archive, stuck files, full disk | `ForgottenStaysForgotten`, `ForgetFinishes`, `NobodyWaitsForAll` |
| `backfill` | 3 requests, 2 exchanges, every failure | `CompleteIsTrue`, `OnlyAdds` |
| `hierarchy` | chunks of 2 turns, chapters of 2 chunks, a story of 1 chapter or more, anchor of 2, 2 calls a pass, window of 5, 2 to 8 turns | `RecordIsTrue`, `NeverOverCounts`, `SaidStays`, `ChaptersKept`, `NothingSkipped` |
| `prompt` | 7 turns, 2 system messages, every record of covered turns, 5 windows, 12 sizings | `NothingUnsaid`, `CertifiedFits`, `FailsEmptyHanded`, `UsersOwnStays`, `ShedsByValue` |
| `webui` | 2 chats, clock to 3, daemon and operator, stalls, counts and scans that fail, 2 faults | `SkipIsSound`, `DurableSnapshot`, `NoRowGoesBack`, `NeverEmptyOverHistory`, `CatchesUp` |
| `restore` | 3 restores, each killed or failing anywhere, markers that go unread | `UnmarkedIsAgreed`, `NoForeignJournal`, `NothingDestroyed` |
| `backup` | 1 conversation of size up to 4, weeks of 3, interval 2, clock to 5, 3 faults | `LossIsTold`, `NoRestartStorm`, `WeeklyRestorePoint`, `PublishesInTheEnd` |
| `portability` | 2 conversations (one a test's), each empty or filled at first, 2 facts, 1 exchange, 1 chapter, 1 tail, 2 operations, any read may fail | `MergedIsThere`, `RemovedIsKept`, `NothingVanishes` |
| `restore_fresh` | 2 restores over a pod without a database | a violation of `UnmarkedIsAgreed`, section 6 |

The type invariants are not runs' properties: they are proved (section 5), as part
of the inductive invariant where there is no theorem of its own.

**Two refinements.** `ActsAsMemory` says that `FactStore` implements
`FactMemory`: `here` and `away` map to the contents of the two files,
`forgotten` to `gone`. An operation of several steps, over two files and across
the calls of the model, is one step of the memory. A save that evicts takes
place when it replaces the active file; the archive, which it writes first, only
gains. A restore takes place when it replaces the active file, which it does
first. A crash, a failed write, a tail that waits or is skipped lose nothing and
forget nothing. So whoever argues about the rest of the compactor may take the
two files for one store with atomic operations that keep what was stated, forget
what they are asked to, and let no fact look older. TLC checks it, and it is proved.

`DurableSnapshot` says that `Webui` implements `DurableCopy`:
`held` and `sealed` map to the images the local database has held and the marker
of an empty start, `durable` and `legible` to the snapshot, whose damage is told
apart from its image. Every step of a boot or a sync is, on the volume, an
exchange of one whole image for another the local database has held, or
nothing. TLC checks it as a property, and it is proved.

**Why the bounds suffice.** *Facts:* at a budget of one claim two facts never
fit, so every save evicts, and a merged fact of two claims fits never; with two
tails one holds the lock and one is parked with a stale snapshot, which is all
a third could be. `MaxFacts` bounds the facts that can be active at once, or be
about to be; the guards that use it are `Remember`, `Restore` and the merging
branch of `Extracted`. `MaxClock` bounds the clock: two instants order
"before" and "after" of a touch. *Tail:* three replies meet one running, one
queued, one shed; the clock reaches the expiry of a measurement (`Ttl` = 2)
and passes the window of a loss (`Window` = 1); two consecutive empty replies
(`EmptyRun`) may be interrupted by a third of another kind. *Forget:* one tail
that runs, one parked, either of which may instead be submitted after the wipe.
*Backfill:* three requests, of which one claims, one meets the claim, one comes
after it. *Hierarchy:* `Cap` is smaller than the longest conversation, so that
the window slides, chunks are read in part or skipped, and the position is
inferred; `Writes` (3 turns, and echoes of an earlier turn that count as none)
makes three exchanges, enough for four chunks, two chapters and a story retold
from an earlier one. `MaxWaiting` = 2 is a backfill and a tail, or two tails,
waiting for the lock. `MaxTroubles` = 2 lets any two disturbances meet: an edit
and a crash, a compact and a regeneration. *Prompt:* seven turns leave four
older ones, so that the record may have a gap before, between and after what it
covers; the windows run from one that nothing fits to one that everything fits;
the sizings make the model charge up to twice, and for one newest turn 22 times,
the local count, so that the arithmetic of the guard misleads it and the
verification finds out. `Rounds` and `MaxTrims` (6 and 32 in the code) are 2 and
3, so that both limits are hit. *Webui:* two chats, because a loss in one must
not be hidden by the other; the clock orders a snapshot, a write before and a
write after an image is taken; two faults are a kill in a sync and another kill,
a new pod or damage before the sync that repairs it. *Restore:* the third
restore meets what two interrupted ones have left. *Backup:* with weeks of three
units and an age of one, an archive outlives the age tier, is the week's, and
passes out of every tier, all below clock 5; size 4 can halve twice. Three
faults are a loss, an unreadable archive and a kill. *Portability:* two
operations are any two of an overwrite, a fork, a merge and a cleanup that
meet. A conversation starts empty or with the facts in `Known` and every
exchange, so that both kinds of import and a merge into something are among the
first. `Flickers` is all three layers; a measurement fails for once only where
the export does (otherwise only the record of the snapshot would differ).

Every property of a passing run is broken by a mutant of the code
(`PROJECT.json`, `mutants`): `_merge_touched` writing the snapshot back, an
eviction that does not wait for the archive, a correction that counts twice, a
journal that stays beside the new database, a boot that takes a snapshot it
can't examine for none, a daemon that runs a cycle whenever it starts, and so on. They
stand in the modules beside the definition they change.

### Further configurations

Not runs of the list above, because they ask nothing new of the code or show one
of section 6's observations; TLC's verdict on each is in brackets: `BgPool.cfg`
(the pool alone, four tasks, two drains: bounds, `DrainsReturn`, `AcceptedEnds`
[pass]), `Forget_live.cfg` (`ForgetAnswers`, `NothingGoesRound`,
`GuardsAreExact` [pass]), `Forget_still.cfg`, `Forget_malformed.cfg`,
`Backfill_shed.cfg`, `Backfill_crash.cfg`, `Backfill_tombstone.cfg`,
`Webui_misread.cfg`, `Webui_nolock.cfg`, `Restore_overlap.cfg`,
`Backup_untold.cfg`, `Portability_race.cfg`, `Portability_snapshot.cfg` [each a
violation of the one property it names]. `Prompt.cfg` with `Late = TRUE`
violates `UsersOwnStays`.

## 4. Fairness

* `FactStore`: weak fairness of the answers (`Extracted`, `Merged`: every call
  to the model has a timeout, `extract_facts_from_exchange` answers with
  nothing when it fires) and of a synchronous write; strong fairness of taking
  the lock, since `asyncio.Lock` serves its waiters in order and commands that
  come later cannot overtake for ever. Nothing is assumed of requests,
  commands, crashes or damage.
* `BgPool`, and with it `MemoryTail`: `LoopFairness` is what the event loop
  owes: ready tasks are resumed, callbacks called, timers fire. `DrainsReturn`
  holds under this alone, although no task need ever end. `AcceptedEnds` states
  its one further hypothesis (`TasksEnd`) itself. Of replies, the disk, the time
  and the readers of `/health/full` nothing is assumed.
* `Forget`: the run states safety. That whoever waits in `/forget` can go on is
  `NobodyWaitsForAll`, so that a cycle of waiters would be found without any
  fairness. It names what each of them waits for (`TailCanGoOn`, `ForgetCanGoOn`)
  because `ENABLED` is beyond the prover; `GuardsAreExact` checks that these are
  the guards of the actions. `ForgetAnswers` (`Forget_live.cfg`) adds weak
  fairness per tail, per `/forget` and of the worker thread. The drain's
  timeout is a timer. Nobody need type `/forget`.
* `Backfill`: the pool runs what it accepted, the redactor returns.
* `Webui`: weak fairness of the boot, of OpenWebUI's own steps and of a sync
  that has begun (each step is a call with a timeout, or a local one); strong
  fairness of the daemon's beginning a cycle, which it tries after every
  interval and which only an operator's sync, itself finite, can delay.
  `CatchesUp` is stated with its exception, a last cycle in error: with a volume
  that stalls for ever nothing can be published. Writes, operators, faults are
  not fair.
* `Backup`: weak fairness of the daemon's boot, of its waking, and of the steps
  of its cycle, because `supervisord` restarts it and `time.sleep` returns.
  `PublishesInTheEnd` has the hypothesis that the sources stay there and that the
  test for a collapse does not go on refusing what they hold.
* `Hierarchy`, `Prompt`, `Portability` and `Restore` state safety only. That a
  pass of the hierarchy ends needs no fairness beyond the calls' timeouts:
  `PassesAdvance` gives a measure that every step lowers, and so do `GuardEnds`
  for the budget guard of `Prompt` and `NothingGoesRound` for `Forget`.

## 5. What is proved

TLAPS checks, for every value of the constants:

* `FactStoreProofs`: `TypeCorrect`, `NothingLostSilently`, `NothingComesBack`,
  `OneHolder`, `RecencyIsKept`, `PinsAreKept`, `FilesAreOneMemory`,
  `KeptFitsBudget`. `NoSilentLoss` and `NoResurrection`
  are not inductive: a pending replacement may already be bound to lose something,
  and a list carried across the deduplicator's await may be out of date. `IInv` therefore adds
  `PendingOwned` and `LockHeldAcrossAwaits` (who is about to write holds the
  lock), `WorkCurrent` (a list in a job's hand still carries what the active
  file carries, because nobody else could write) and `PendingSafe` (a
  replacement, once done, keeps what is held and brings back nothing that is
  gone). The lemmas at its head say what each operator of `Facts` does to the
  claims it is given. For recency and pins `ListsKeep` says the same of a list
  in a job's hand and of a replacement: it says what each active fact says, as
  recently, and pins what is pinned; a replacement with the help of the sidecar,
  and for pins where they fit. `PinnedAreKept` is about the split of
  `_lru_split`: only pinned facts come before a pinned one, so that it is kept
  when they fit together, whatever order the sort gives to equals.
  `KeptFitsBudget` needs the fact of the least rank among those kept: all others
  come before it, so that its own test is about the sum of all.
  `FilesAreOneMemory` maps every step of `FactStore` to one of `FactMemory`.
  `OwnInv` adds what only the abstraction asks for: a list in a job's hand says
  nothing besides what the active file says and what the job has learnt
  (`WorkOwn`), and a replacement that is about to happen states what its
  operation states, or forgets what it forgets, and does not do both (`PendingOwn`).
* `PoolProofs`, about the pool and about what is composed with it:
  `PoolWithinBounds`, `EverySubmissionCounted`, `ForgetKeepsPool` (every step of
  the composition is a step of the pool or leaves it alone, so that what is
  proved of the pool holds under tails and `/forget`), `SecondPassSuffices`,
  `ForgottenForGood`, `QueueHoldsTheWaiting`,
  `NobodyIsStuck`, `EveryStepCounts`. The pool's invariant joins the
  counters with the two bounds, because the one (`Accounted`) moves with the
  cardinality of the set the other bounds. For `/forget` the argument is that a
  settled second drain verifies that every tail submitted before it is over for
  good (`EarlierAreOver`), so that a layer read back empty afterwards can only
  be written by a later tail, with that tail's own exchange; `AnsweredAsFound`
  carries what was read into the answer, `SecondPassHolds` that what is
  retried was cleared under the lock. A malformed file needs no hypothesis: a
  layer that is malformed is in `Left`, only the facts and the archive can be
  (`ReadersAreStrict`), and a layer that is not malformed never becomes so. The summaries take a part of their own
  (`SummariesStill`): while there are no orphans, what a rollup has in its hands
  is what is stored with its own exchange, and its thread saves only while its
  tail has the lock (`RollupsInHand`); so the orphans of section 6 are the only
  way back.
  That nobody waits for everybody (`NobodyIsStuck`) rests on who can have what
  in his hands (`Hands`): a lock that is taken is a running tail's, at a step
  that does not wait for it. With the lock free, whoever runs can go on; with
  nobody running, the first of the queue is admitted, which is where
  `QueueHoldsTheWaiting` is needed; with the pool empty, every drain returns.
  `EveryStepCounts` (`NothingGoesRound`) gives each tail a rank up to 13 and each
  `/forget` one up to 14; every step lowers one and raises none. Together: what
  has begun ends after finitely many steps, and until then there is a next one.
* In the same module, of the memory tails: `LossesAreSeen`, `LedgerTells`,
  `StoredAreStored`, `RoomIsSeenInTime`, `TailsKeepPool`, for any number of
  replies, drains and disk troubles. `/health/full` keeps a time and a counter
  and is right about a history, so `TailInv` ties them to it: `LatestLoss` (the
  time kept is that of a reply lost, and of none lost later), `EmptiesCounted`
  (the counter is, up to its limit, the length of the run of empty replies at
  the end of the order in which they were noted, a correction included).
  `StoredWhere` says where the tail of a reply counted as stored can be and what
  is in the index by then. What a kept reading of the disk is worth has two
  sides: one that refuses is younger than any storing since (`RefusalIsKnown`),
  one that allows is at most `Ttl` younger than the room it saw (`RoomKnown`).
* `RequestProofs`, of `Prompt`: `PromptIsTyped`, `EveryTurnIsSaid`,
  `WhatIsCertifiedFits`, `WhatFailsIsSpent`, `CallersAreKept`,
  `LeastValueGoesFirst`, `EveryGuardStepCounts`, for any number of turns, sizes, windows, rounds and
  answers of the tokenizer. A step of the guard sheds messages, cuts one in
  half or leaves the payload alone (`Sheds`, `Cuts`, `Stays`), and what all
  three keep is proved once of the kind and not of the fifteen actions; only
  what the guard may shed differs. `PromptInv` adds to the properties where the
  newest turn stands (`NewestStays`: last of the turns, hence never the first
  of several, which is what is dropped), that the client's messages are exactly
  the first ones (`CallersLead`), which measurement of which payload `running`
  is (`Certified`), that the last resort is reached with one turn left or with
  every round used (`Resort`), and what the earlier loops of a round have left
  to the later ones (`ByValue`: no memory when turns are dropped beside a
  stand-in, one turn when what was added is trimmed). The lemmas at its head say
  what `Kept`, `RemoveAt`, `InsertAt` and the replacement of one message do to
  the turns, the owners and the sums of sizes of a payload.
  `EveryGuardStepCounts` says that the guard ends (`GuardEnds`): another round
  counts down the rounds, a trim the trims, a drop the messages, and every other
  step is at a later place of its round, the last resort included.
  (TLC agrees on the instance of `Prompt.cfg`.)
* `RequestProofs` also has, of `Backfill`: `OneBackfill`, `CompleteMeansWritten`, `BackfillAdds`.
  `BackfillInv` adds that whoever is busy has made the claim (`Claimed`), that at most
  one is (`OneBusy`), that nothing is claimed for a backfill that does not
  exist yet (`NoneBefore`), and that a rollup comes after the write.
* `HierarchyProofs`: `LabelsStayOrdered`, `PositionNeverGoesBack`,
  `NothingSaidIsLost`, `ChaptersAreKept`, `PassesAdvance`, `TheRecordIsTrue`,
  `NothingIsSkipped`, `PositionIsALowerBound`. `IInv` says that a
  state, stored or in the hands of a pass, is `Sound` (labels in order, the
  watermark at or past them, the position at or past the watermark), and that
  the pass's state goes on from the stored one (`PassInv`: no smaller mark or
  position, nothing unsaid, chapters in the archive or still there), which holds
  because nobody else writes while it has the lock. One lemma for each step of
  a pass shows that it keeps `Sound` and lowers `ToDo`; they rest on
  `MergeKeepsOrder` and `MergeKeepsSaid`: a chunk may take the place of the run
  of chunks that it was merged from. The rest of `IInv` (`ClientInv`,
  `CompactInv`) is there so that a window is a sequence, and the position
  computed from it a number: a request is of odd length, the slots of the
  episodic rows only grow. On top of it `RecordsSaid` says of the stored state and of
  the pass's that every turn of the covered-turn record, those read again
  included, is said: only reading a chunk adds to it, and the chunk says what it
  read; `PatchTells` says what the pass's list of turns to read again is, a part
  of the window in order, and where the first chunk of a pass finds those that
  it does not take. With both, `NothingSkipped` is a fact about one step: a turn
  before the end of that chunk is read by it, or paired with an entry of the
  record, or on the list. `PositionIsALowerBound` needs to know where in the
  story a window is. `PlaceInv` says that the windows in the queue are segments
  of the story that end later and later; that the anchor is the end of the last
  window read; and that the position is at most that end, or one ahead of it
  where a window that slid was read without its reply (a step of
  `_ASSUMED_NEW_TURNS`, of which a request brings one turn and then the reply
  that makes it right). Reading the next window is then the matter of
  `ObservingCounts`: the true advance is among the candidates of the alignment,
  and the position takes the smallest of them.
* `RestoreProofs`: `TypeCorrect`, `UnmarkedAgrees`, `JournalBelongs`,
  `NothingLost`, `BootIsWhole`. What is true of an unmarked volume says nothing
  of a restore half done; `IInv` says, for each step, what the restore has moved
  in terms of what was agreed on before it (`DbAt`, `StoreAt`), that one restore
  is at work and the marker is its own (`OneAtWork`), and what is known of one
  that was cut off (`Accounted`). That holds until something goes on over a
  marker it could not read (`missed = {}`). What must hold of a restore that
  began over an unread marker too, that it destroys nothing and leaves no foreign
  journal, has an invariant of its own (`SInv`): what a step is about to
  overwrite is no longer there, or is also set aside (`SafeAt`).
* `WebuiProofs`: `TypeCorrect`, `SnapshotIsDurable` (the refinement),
  `RowsGoForward`, `NoEmptyStart`, `SkippingIsSound`. The argument is about
  files: what lies under the temporary name on the volume has been flushed,
  compared and judged against the snapshot it will replace by the one sync that
  holds the lock, and nobody else changes either (`Compared`: either no row of
  it is older, or the sync is the operator's with its overrides, or it is in
  `unscanned` and half of the chats are there). For a boot it is
  enough that a snapshot has chats and that what has landed is what it holds
  (`Filled`).
* `BackupProofs`: `TypeCorrect`, `LossesAreTold`, `LossKeepsArchives`,
  `WeeksAreKept`, `RestartsAreQuiet`. Two facts carry it:
  the newest archive and the one it was compared with stay listed until the
  prune (`Kept`), and a high-water mark that was handed from manifest to
  manifest without an alarm is not far below any text on its way (`Chained`).
  With the first, rotation cannot eat the baseline of a comparison; with the
  second, a loss spread over many cycles is still a loss from a mark. A
  publication whose loss was `cut` off from its alarm breaks the chain, as one
  that was told of does. `RestartsAreQuiet` (`NoRestartStorm`) says, at each step
  of the daemon, that an archive made now would be half an interval after the
  newest (`Spaced`).
* `PortabilityProofs`: `TypeCorrect`, `NothingGoes`, `MergedStays`,
  `RemovedStays`. What a tail, a merge or a cleanup has read is still there: for
  a tail because it has the lock (`Held`), for a merge because whoever came
  between is in `crossed` (`Crossing`, `Based`), and what a merge put there stays
  (`Merged`) until somebody who crossed it writes. What was removed was in the
  snapshot or came later (`Covered`), in each layer that the snapshot counted or
  read (`Proven`).

Assumptions: those the modules name (`HolderAssumption`: the holders of a lock
are distinct values; `FactsAssumption`: finitely many claims, since a
fact costs tokens; `PoolAssumption`: finitely many tasks; `HierarchyAssumption`:
sizes are positive, a history is even; and the like: types), and these, which
are hypotheses of the theorems that need them:

| hypothesis | says | needed by | without it |
|---|---|---|---|
| `FreshMixes = FALSE`, `MayOverlap = FALSE`, `MarkerFails = FALSE` (`Careful`) | an archive of both kinds never meets a pod without a database; restores run one at a time; the marker can be written | all of `RestoreProofs` | the finding; `Restore_overlap.cfg` |
| `LockDegrades = FALSE` | the lock file of the sync opens | all of `WebuiProofs` | `Webui_nolock.cfg` |
| `Late = FALSE` | the client sends its system messages before its first turn | `CallersAreKept` | `Prompt.cfg` with `Late = TRUE` |

The passing runs have the same values, so that a run and a theorem say the same
thing. Nothing else is assumed away: a kill at any step, a value of the wrong type
in a file, a read that fails for once and a tail beside a merge are all in the
model, and where the code does not withstand one of them, the property has an
exception that names the case by a variable (`misread`, `unscanned`, `cut`,
`crossed`, `unread`, `missed`) or an operator (`Left`, `Orphans`).

Only model-checked, not proved: the liveness properties (`TailsSettle`,
`DrainsReturn`, `CatchesUp`, `PublishesInTheEnd`, `AcceptedEnds`,
`ForgetAnswers`), which need fairness, hence `ENABLED`, and `GuardsAreExact`,
which is about `ENABLED` itself: both are beyond the prover. Every invariant and
action property of a passing run is proved. Induction over data is out of reach
as well, because the library's induction theorems take an operator as a
parameter; where a proof needs a least or a greatest element (`KeptFitsBudget`,
`MaxOfBounded`, `Least`), well-foundedness of the naturals gives it.

Two properties were stated too strongly, and the attempt to prove them showed
it. `PinsStick` asked only that the pinned facts fit the budget before a step:
but a merge pins the union of its sources (`dedup.py:620`), so that a pinned
fact may grow and push another pinned one into the archive, which takes three
claims and a budget of two to see. It now asks that they fit as the step leaves
them, the evicted ones included. `NothingSkipped` was about every chunk of a
pass: but only the first one is handed the turns to read again, so that it is
about the step that goes on from the stored mark (`Mem.mark = disk.mark`).

## 6. Where the code and its words differ

The run `restore_fresh` shows one: when there was no database before a restore,
`db_aside` stays `None`. A store swap that then fails rolls the store back, and
the `if db_aside is not None` passes over the database, which stays the restored
one; no rollback error is recorded, so the marker is cleared and the next boot
serves a database of one generation beside a store of another. The comment at
`backup.py:2302` says that a fully successful rollback "puts the live paths back
to exactly their pre-restore state".

The further configurations show these, each by the violation of a property that
states what the repository says of itself. In the first six the code goes
against a property of a passing run as well, which therefore names the case as
its exception (in brackets):

| configuration | the code | what is said |
|---|---|---|
| `Forget_still` (`ForgottenStaysForgotten`: `Orphans`) | a rollup cancelled by the drain's timeout releases the lock while its `save_state` goes on in a thread and replaces the summary file after the wipe and the answer | "a settled one rather than a moving one" (`commands.py:606`) |
| `Forget_malformed` (`ForgottenStaysForgotten`: `Left`) | a bad `archived_at` raises `ValueError` out of the archive's reader; wipe and read-back log it, and the answer names the archive neither as cleared nor as unreadable | "a swallowed read error rendered as "clean" is the failure, not the fallback" (`commands.py:389`) |
| `Webui_misread` (`NeverEmptyOverHistory`: `misread`) | a count that fails on a snapshot that passes `quick_check` afterwards leaves an empty local database in place (`webuidb.py:1129`), and OpenWebUI starts on it | the branch "THE SIBLING OF THE SHRINK GUARD" at `webuidb.py:1078` exists to refuse that |
| `Backup_untold` (`LossIsTold`: `cut`) | a kill between `os.replace` (`backup.py:1722`) and the alarm leaves the smaller archive as the next baseline: the loss is never told | "someone is told" (`backup.py:1730`) |
| `Portability_race` (`NothingVanishes`, `MergedIsThere`: `crossed`) | `merge_conversation` runs in a thread and tests `locked()` once; a tail that takes the lock after the test is overwritten by what the merge had read, or overwrites the merge | "refuse to write underneath a holder" (`portability.py:1655`) |
| `Portability_snapshot` (`RemovedIsKept`: `unread`) | the quarantine compares counts of facts and of exchanges with the store, not of summaries: where the export's best-effort read of them fails once and the strict one at `portability.py:416` succeeds, the snapshot lacks them, says nothing, and the overwrite goes on | it raises "if the snapshot cannot be proven to hold at least what the store held a moment ago" (`portability.py:289`) |
| `Backfill_shed` | a shed backfill keeps its conversation in `_in_progress_local` | "currently being backfilled in this process" (`backfill.py:110`) |
| `Backfill_crash` | a crashed backfill is not retried once a tail has written the facts file | "gets retried on next encounter" (`backfill.py:18`) |
| `Backfill_tombstone` | a backfill whose request sat in the redactor during `/forget` writes the forgotten history over the empty file | "still a store this module has no business reconstructing" (`backfill.py:219`) |
| `Webui_nolock` | the lock file fails to open, the sync goes on without a lock, and two syncs share the one temporary name: what one has judged is not what it publishes | "not a new failure mode", because names were keyed by pid (`webuidb.py:1348`), but they no longer are |
| `Restore_overlap` | the marker of another restore is looked for once (`backup.py:1896`) and written much later (`backup.py:2002`), so that two restores pass the test and mix | "Stacking a second restore on top of live paths that might already be missing or at a mixed generation" is what the test is there to refuse (`backup.py:1890`) |
| `Prompt` with `Late = TRUE` | the blocks are inserted after the leading run of system messages, the guard protects the first `protect_system` system messages: a client's system message after its first turn is counted among the first but stands behind the blocks, so that a block is protected and the client's message is shed | "how many system messages the CALLER sent" (`main.py:4478`) |

And four more observations stand without a configuration.
(a) A tail that is cancelled or finds the disk full after its reply was counted
as stored stays counted as stored; `StoredIsStored` names both exceptions.
(b) Of `Hierarchy`: `NeverOverCounts` has the hypothesis `troubles = 0` because
of two things. When a backfill and the tail of a request without a reply read
the same window, and the conversation repeats itself, the second reading counts
the repetition as new turns (`summarizer.py:1866`: the window is shorter than
the position, so it is taken for a suffix). So does a pass that reads an older
window after a newer one, since submission order is not lock order once a tail
waits for anything else first. In both cases labels drift beyond the
conversation, the summaries stay true (`RecordIsTrue`). And `admin_compact`
compares its transcript with the recorded position before it takes the lock
(`main.py:9521`); a tail that ends before the first compact pass moves the
position on, so that the transcript is read at an offset although the comment at
`main.py:9620` expects none. The chunks are then labelled by that offset, in
order and true to what they read. No property speaks of the label itself, nor of
the slots the retrieval index gives its rows (`retrieval.py:400`).
(c) Of `Webui`: a sync whose scan of the snapshot fails warns and goes on with
the number of chats alone (`webuidb.py:1946`), so that a row may go back to an
older version; the code says so, and `NoRowGoesBack` names it (`unscanned`).
(d) Of `Restore`: a start over a marker that could not be read is a start on two
generations; the code says so (`webuidb.py:598`), and the properties name it
(`missed`).

## 7. Not modelled

* Rendering and relevance ranking of injected blocks, token counting, prompts,
  HTTP, logging, the wording of `/health`: data the properties do not tell apart.
* The language model, the embedder, ChromaDB, SQLite and asyncio are external,
  and are modelled by what the code relies on.
* Deduplication: the clustering by embeddings and the memo of refusals.
  Hierarchy: turns with images or without text, state files from before the
  covered-turn record. Prompt: images, the merging of adjacent messages after
  the guard, the calibration of the safety margin. Portability: the archive
  format and its versions. Retrieval: ranking and the cut-off of recent turns.
  Personas: the precedence of admin and inherited ones. These are what "partly"
  stands for in `PROJECT.json`.
* `/tidy` and `/retire`: a dialogue over the quarantine and the import of
  `Portability`.
* The other checks of health and self-test: they report and change nothing.
* Configuration, text cleaning and logging: parsing and formatting. The repair
  of the pool's settings is in `BgPool`.
* The speech services have no state that the compactor shares; the operator's
  scripts run alone, or drive the endpoints that are modelled;
  `recover-webui-db.py` is a step of `Webui`.

## 8. What is left

In order of importance: the composition of `Prompt` with `Hierarchy`, so that the covered-turn
record is the one that the passes have left; `Dedup`'s clustering against a
reference; the cut-off of recent turns in `Retrieval`; the adoption of old state
files in `Hierarchy`.
