# Verification of the grokpipe / sfboard job lifecycle

`sfboard` is a local board on which a user plans film shots. Each shot, prop
or location needs pictures (made by ChatGPT) and videos (made by Grok). Both
providers are driven through Chrome windows in which real accounts are logged
in, so a job costs minutes and, for a video, credit. `grokpipe` is the older
command line pipeline for the same work. This directory models the part of the
two programs that decides *what is run, where, how often, what becomes of the
files, and what the user is told about it*, model-checks it with TLC and proves
part of it with TLAPS.

## 1. Inventory

| Component (source below `src/`) | State it keeps | Operations | Modelled in |
|---|---|---|---|
| Lifecycle runtime (`sfboard/jobs/runtime.py`, `models.py`, `manager.py`) | jobs, leases, preferred and avoided account of an execution | `submit`, `lease_next`, `attempt_phase`, `attempt_succeeded`, `attempt_partially_succeeded`, `attempt_failed`, `cancel`, `resolve_needs_attention`, `recover` | `JobRuntime` |
| Scheduler (`scheduler.py`, its rows in `sqlite_store.py`, the transactions of `runtime.py`) | rows on disk, the open transaction, the tables in memory | `schedule`, `lease_next`, `release`, `finish`, cancel, recover, rollback, load | `Schedule`; as one table in `JobRuntime` |
| Retry policy (`retry.py`, `errors.py`) | none | `decide`, `decide_partial` | `RetryPolicy` |
| Account allocator (`accounts.py`) | accounts, health, forced accounts, seats | `register`, `forget`, `set_enabled`, `force`, `cooldown`, `report_error`, `allocate`, `release` | `AccountAllocator` |
| Producer and intent store (`producer.py`, `sqlite_store.py`, `store.py`) | intent records, key aliases, newest intent of a scope | `create`, `retire_scope` | `Intents` |
| Clean-up of failed jobs (`_runtime_don_loi` in `sfboard/sfboard.py`) | what it read at its start | one pass | `Intents` |
| Automatic scanner and stop-all (`_auto_*`, `/api/auto`, `/api/auto-video`, `/api/dung-het`) | the switch of a scene, cool-downs, what a round has read | a round; switch, stop, cancel by label | `AutoScanner` on `Intents` |
| Live workers and executor adapter (`executor_adapter.py`, `live_executor.py`, `sfboard.py`) | what each thread drives | `run_once` | `JobRuntime` (`Click` ... `Report`) |
| ChatGPT executor (`grokpipe/grokpipe/executors/image_chatgpt.py`, `dom_chatgpt.py`, `run_image_attempt`) | browser tab, page, tray of the turn | `generate_lo`: set up, send, wait, collect; download; save | `ImageMessage` |
| Grok executor (`video_grok.py`, `run_video_attempt`, `live_budget.py`) | tabs, marks on the page, ledger of posts (memory and file), counter of submits (file) | compose, mark, reserve, press, wait, take, download, save | `VideoMessage` |
| Results (`results.py`, `_live_apply_outcome`) and the pictures of a card (`Board` and its handlers) | version files, current file, marks in the board's JSON | save, commit, apply; upload, pick, copy, delete; the page's save | `BoardFiles` |
| Sorting tray and undo (`_pl_*`, `_ht_*`, `gan-anh`, `gan-lui`, `sf-doi`, `sf-chuyen`) | pictures of a turn and the cards they were given to, the undo list | attach, undo, swap, copy; list and trim at the end of an attempt | `SortingTray` |
| Bug journal and Beads bridge (`runtime_service.py`, `runtime_classifier.py`, `runtime_journal.py`, `beads_bridge.py`, `bugtool.py`) | counts of repeats, journal with segments, checkpoint | raise, write, rotate; a pass of the bridge (mode auto-create or journal-only) | `BugReports` |
| Command line pipeline (`grokpipe/grokpipe/runner.py`, `state.py`, `cli.py`, manual executor) | `state.json`, assets, tries, inbox | run, render, judge, promote, reset | `Pipeline` |
| Accounts file and its copy into the allocator (`_sync_runtime_accounts`) | accounts file | synchronise | `ChangeAccount` in `JobRuntime`: switch, number of tabs, removal and adding, each in one step |
| Legacy queue, monitor, web page, project files and prompts, scripts | - | - | not modelled, section 8 |

How they interact. HTTP handlers and the scanner thread ask the producer for
jobs; the producer writes intent, jobs and execution in one SQLite transaction
under the runtime's lock. Worker threads, one pool per kind, loop: copy the
accounts file into the allocator, lease the first ready execution, drive a
browser tab, report one fact. The runtime turns a fact into new job states, a
closed attempt and a requeued or finished execution, in one transaction, and
then drops lease and seat in memory. The worker then applies the outcome to the
card. A user's cancel, pick or undo arrives on yet another thread. SQLite, the
pictures, the tray, the ledger of posts and the journals survive a crash;
leases, seats, forced accounts, the undo list and threads do not, and
`recover()` has to make sense of what is left.

What is hard here: a cancel between any two steps of a worker; a crash between
the click that spends the credit and the row that records it; budgets counted
over restarts; a transaction that is rolled back after memory was changed, or
before memory is cleaned; web pages that are all the executors have to go by,
with pictures that come as previews and tabs that stray to other posts;
look-then-create races of HTTP threads and of the scanner; retried requests
whose first answer was an alias; keys derived from history that comes back;
files that several threads name, list and trim; a bridge that may be
interrupted between the tracker and its checkpoint. `PROJECT.json` lists each
as a hazard with its line and the properties that would catch it.

What makes each component correct:

* runtime: memory and ledger agree; no job is stranded; every job settles when the
  errors do; a
  submitted video is never run again; one thread per execution;
* scheduler: the cache is the ledger; it serves as one table in order;
* retry policy: no execution exceeds its submit budget;
* allocator: one owner per tab; a forced execution stays on its account;
* intents: the same key leads to the same lot; one undecided lot per scope; the
  scanner leaves failures to people;
* scanner: a stop-all sweeps what it was told to; a scene that needs nothing from
  other scenes is switched off in the end;
* one message, one video: what goes out is complete; pictures go to their
  prompts and clips to their attempts; what was paid for is kept; the runtime is
  told the truth; every attempt ends;
* results, tray: what the user put on a card is never covered by an attempt
  begun before; a cancelled attempt shows nothing; no picture is lost unasked;
  an undo shows what was there;
* bug reports: what counts as told was told, once unless something went wrong;
* pipeline: what is DONE is there and was accepted; no paid file is lost.

## 2. Modules

* `JobStates` - job states and the legal transitions of the job manager.
* `RetryPolicy` - the decision table, as operators on an attempt history.
* `AccountAllocator` - the allocator's variables, the choice of an account and
  a slot, taking and releasing a seat. No actions of its own.
* `JobRuntime` - EXTENDS the three above. One action per runtime method plus
  the steps of a worker thread (`Click`, `EmitSubmitted`, the reports,
  `StopStale`), the environment (`Due`, `CooldownOver`, `ChangeAccount`), and
  `Crash` / `Recover`. Executions are the constant set `Works`, each with its
  `Members`; `Submit(e)` makes one exist.
* `JobContract` - the abstract specification: what one job may do, whether or
  not credit is spent. `JobRuntime` implements it (`ImplementsContract`): the
  mapping takes a job's state for its state and calls it spent while its
  execution's newest attempt is on record as submitted.
* `Schedule` - what `JobRuntime` takes for granted of its `exec`, `seq` and
  `due`: rows, open transaction, the Scheduler's tables, rollback, crash, load.
* `ScheduleContract` - the abstract specification of that: one table, never half
  changed, served in order. `Schedule` implements it (`ImplementsSchedule`).
* `Intents` - lots of jobs, keys, aliases, scopes, requests in flight and the
  clean-up. A lot's jobs end nondeterministically: `JobRuntime` says how.
* `AutoScanner` - EXTENDS `Intents`: the scanner opens its lots through the same
  `Answer`, stop-all and cancels end their jobs.
* `BoardFiles` - the version files, the current file and the mark of each
  card, written by the workers' attempts, the users' requests and the page.
* `SortingTray` - the tray, the undo list and the cards they work on.
* `ImageMessage` - one message to ChatGPT for N pictures: the executor's steps
  from the blank chat to the saved versions, and the page as its environment.
* `VideoMessage` - attempts at videos in the tabs of one Chrome profile.
* `AttemptContract` - the abstract specification of an attempt: phases in their
  order, nothing spent when it ends as not sent, outputs only after the last
  phase. With `Late = TRUE` the provider may take a message after that verdict. `ImageMessage` implements it (`ImplementsAttempt`), and so does every
  attempt of `VideoMessage` (`ImplementsAttempts`).
* `BugReports` - from a signal of the board to an issue of the tracker.
* `Pipeline` - the `grokpipe` runner with its state file, tries and assets.
* `MC...` - instances for TLC; `ImageMessage` needs none, its constants are
  numbers.
* `JobRuntimeProofs`, `ScheduleProofs`, `IntentProofs` (EXTENDS `AutoScanner`, and
  so `Intents`), `BoardProofs` (EXTENDS `BoardFiles` and `SortingTray`), `MessageProofs`, `VideoProofs`, `BugProofs` and
  `PipelineProofs` - theorems.

State correspondence of `JobRuntime`: `job` is `lifecycle_jobs`; `exec`, `seq`,
`due` the scheduled executions (`due` holds those whose `not_before` has
passed); `attempts` the ledger, an attempt being [clicked, submitted,
outcome] where `clicked` is what the provider saw and `submitted` is
`submitted_at`; `lease` the number of the attempt whose `RuntimeLease` is in
memory; `seats`, `pinned` (= `_forced`), `enabled`, `maxSlots`, `broken`, `cooling` the
allocator (an account that is not registered has no slots); `worker` the thread-local lease of each worker. A runtime method is
one step because it runs under the runtime's lock with its writes in one
transaction; a rolled-back method is an action of its own (`FailRollsBack`).
`ChangeAccount` is an edit of the accounts file with `_sync_runtime_accounts` at
once after it: the account is switched, gets another number of tabs, is deleted
(and forgotten, with seats still taken on it) or comes back.

State correspondence of `Schedule`: `rows` are the committed
`lifecycle_executions`, `tx` what the connection sees while `open` names the
kind of transaction; `mem`, `byScope`, `byLease`, `next` are `_by_id`,
`_by_scope`, `_by_lease`, `_seq`. A version check is `tx[e] = mem[e]`
(`Persist`). `Load` is `_restore`, `Reset` is `_reset_scheduler_after_rollback`.
Only `submit` schedules several executions in one transaction. A commit that
fails is a `Rollback`; leases do not expire because nothing calls
`expire_leases`.

State correspondence of `Intents`: `records`, `aliases` and `latest` are the
three dedupe tables; `lots` stands for the jobs with their batch; `handed` is
what clients remember, `inFlight` the requests between the guard of the
handler and the transaction; `cleaner` the local variables of the clean-up.

State correspondence of `AutoScanner`: `auto` is the scene's entry in `AUTO`, by
the press it stems from (the code compares the dicts' identities); `scan` the
local variables of `_auto_quet_mot_vong` between two locks; `rest` is
`AUTO_COOLDOWN` in rounds; `stop` a stop-all, which clears the switches under
`AUTO_LOCK` (`StopAll`), reads the labels after that without it (`ReadLabels`) and
then cancels them one by one;
`present` the files on the board, `finished` what is completed in the ledger and
not yet applied. The stop generation is left out: who raises it clears the
switches in the same critical section. A round reads the scene's files and jobs
in one step (`ReadImages`), and hands over one lot a step.

State correspondence of `BoardFiles`: `files` is a card's versions directory,
`current` the file the board shows together with who put it there, `marks` the
`picked` names in the board's JSON and `page` the copy of them a browser tab
holds; `stage` and `path` are an attempt's progress and its reserved name;
`overtaken` stands for the comparison of the user's timestamp with the
attempt's, `revoked` for a lease that is no longer current; `request` is the
handler thread's position and local variables; `holder` is set while a worker
holds `BOARD_LOCK` over two file operations. Steps that the code takes without
a lock are separate actions. A video card has the same shape and is left out.

State correspondence of `SortingTray`: a picture is a number; `tray` is
`index.json` of each turn with the picture and the card it is marked with;
`versions`, `shown`, `picked`, `approved` are the card's; `history` is `HOAN_TAC`,
an entry holding the card, the version kept of the old picture, what it was and
the marks; `call` is a request of several steps, of which there is one at a
time, while the quick ones (upload, pick, delete a version) come at any time;
`attempt` is the runtime's attempt with the copy it holds of its turn's list.
Reserving a name and copying into it are one step; a mark made under
`BOARD_LOCK` is one step, one made without it two. Sizes and formats of
files are left out.

State correspondence of `ImageMessage`: `pc` is the place in `generate_lo`,
`run_image_attempt` and the saver; `chat` ... `draft` what has been set up on the
page; `sent`, `reply`, `drawn`, `words` the provider's side, which the code sees
only through a stop button (`Drawing`), readings of the pictures (`Readings`,
`Scans`) and words. `bucket` is the newest turn of `theo_turn`, `idle` and
`left` are `doi_tu` and `het` counted in polls, `calm` the seconds of the wait for
quiet, `stood` a copy of the reply at the last scan, kept for the properties.
Another round of uploads loads the page anew (`Reload`), which may put it back into
an old chat and mode that nothing checks again. When the composer is seen empty
the chat has its message and is a blank one no longer (`Gone`).
`tray` holds the pictures `_pl_tai_ve` could download, `outputs` the saved
versions. Between `Look` and `Harvest` the provider may act between any two
steps. A blank chat has one new turn, so that turns are left out. What the page
does comes from what the code and its comments say of it: a picture may be shown as a preview
under another id, the stop button may go away and come back, one picture more
than asked may be drawn, and the order is right when the reply has settled,
which 25 seconds of quiet are taken to show (`QuietGrows`).

State correspondence of `VideoMessage`: `seat` is a worker with its place in
`generate` and its local variables (`before`, `url`, `seen`, `now`); `tab` is the
page: the post it stands on, its video elements and those that carry the mark;
`ledger` is `_POST_DA_LAY` with `read` for whether the journal has been read,
`journal` its file, `reserved` the counter of `live_budget.py`. Grok may pull a tab
to any post of the profile (`Stray`), reload it, and render in the post the tab
stands on. A worker whose tab has not left the page it pressed on takes a clip in place, without
looking the post up in the ledger or writing it down; one that came to another post
does both (`Record`). `knew` and `strayed` are history, for the properties.

State correspondence of `BugReports`: `AutoCreate` holds the bridges that run in that
mode; in journal-only, the default, a pass returns before it tells anything, so
that only the journal moves. An event is its place in the journal;
`disk` is the checkpoint file and `pass[b].copy` what a pass has in memory of it;
`pass[b].todo` is the set of events the pass has left, the lowest of which is next;
`repeats` counts the signals of a place that are not worth a line yet; `issues`
and `told` are the tracker's. `mishaps` counts what may make the bridge repeat
itself: a death, a file that cannot be read or written, a lost answer, two
passes or a rotation in each other's way.

State correspondence of `Pipeline`: `status` is `state.json`, `asset` the file
under an output's name (`Torn` while it is being copied), `tries` the numbered
files of a task, `inbox` the set of dropped files, of which the one with the
higher number is the newer, `run` the runner's place and local variables. `accepted` and `deleted` are history. Every statement that writes a
file is a step of its own, so that `Die` may come between any two.

## 3. Runs

| Run | Instance | Shows |
|---|---|---|
| `RuntimeSafety` | a batch of two images forced to one account, a video, two workers, two accounts, partial deliveries, any number of errors before a submit, 1 crash | `TypeOK`, `LeaseMatchesLedger`, `NoStrandedJob`, `VideoNeverResubmits`, `SubmitBudgetKept`, `ForcedKept`, `ImplementsContract` |
| `RuntimeLive` | the same with all-or-nothing executors | `SeatReleasedOnEveryOutcome`, and `EveryJobSettles` under fairness |
| `RuntimeImages` | a batch and a single image, two image workers, an account with two tabs that the user switches, resizes, deletes and adds again | `SeatExclusive`, `OneThreadPerExecution` |
| `Schedule` | three scopes of two kinds and priorities, 3 executions, 2 leases, 2 failed operations, 1 crash | `CacheIsLedger`, `ImplementsSchedule` |
| `Intents` | scanner's lot of two assets, two clicks on one of them (two payloads), two client keys, 3 lots, 2 requests in flight | `KeyKeepsItsLot`, `LiveLotHoldsItsScope`, `ScannerLeavesFailures` |
| `AutoScanner` | a scene of two cards (one the other's reference) and a shot, a click, 3 lots, 2 presses, a cool-down of 2 rounds | `StopSweeps`, and `SceneSettles` under fairness |
| `BoardFiles` | two attempts on one card, a second card to copy from, two request threads, 2 requests, 3 version numbers | `BoardTypeOK`, `UserChoiceWins`, `RevokedStaysOff` |
| `SortingTray` | two cards, an attempt at both, 2 pictures, 3 versions a card, 4 requests, 1 restart, an undo list of 2 | `NothingLostUnasked`, `UndoRestores` |
| `ImageMessage` | two pictures, two references, two rounds of uploads, three presses of Send, a deadline of three polls, one unasked picture, one pause | `MessageTypeOK`, `PicturesMatchPrompts`, `PaidPicturesKept`, `SentOnlyComplete`, `ImplementsAttempt`, and `AttemptEnds` under fairness |
| `VideoMessage` | two tabs of one board, two attempts, one stray tab, one crash, one failure of the disk | `OneArrivalPerPost`, `OwnClip`, `PressesReserved`, `ImplementsAttempts`, `AttemptsEnd` |
| `BugReports` | a rotation told the third time, the board's bridge and a second pass, 3 events in batches of 2, 3 segments of which 2 are kept, 1 mishap | `CheckpointIsTrue`, `OncePerMishap`, and `EveryBugTold` under fairness |
| `Pipeline` | a picture, a video of it and a frame of the video, three ways to run (one with extracts judged), three scopes, 2 runs, 4 files, 1 drop, 1 crash, 1 reset or deletion | `DoneIsAccepted`, `FilesKept`, and `UnattendedRunEnds` under fairness |

Bounds. Errors before a submit have no bound: the runtime retries them for ever and
the ledger grows. `MCJobRuntime` instead takes an attempt that ended in such an error
out of the ledger once more of them precede the last one than the budget of whole
reruns (`Collect`; nothing else goes on before that). What the code asks of the
ledger is whether there is an earlier attempt, how many were submitted and whether
the errors reach the budget, and these answers stay. The theorems are about the
specification without it. `MaxCrashes` limits the crashes, `MaxTabs` what the user
may set a number of tabs to (2: it shrinks under two taken tabs and grows again),
`Changeable` says whose account is edited, `MaxLots` limits the lots (3: a first
one, a successor, and the one that must not or must exist; for the scanner, what
its scene needs to be whole),
`MaxInFlight` the concurrent requests (2 suffice for a race). The
submit budget is 2 instead of 8 and 5, so that runs reach it. Deadlock is not
checked: with every job settled and the bounds used up the instances stop.
In `Intents` only the scanner's request is `Guarded`: clicks are checked
against live jobs by some handlers and not by others, and leaving the check out
of every click allows more behaviours, never fewer. `BoardFiles` has two
requests because one user change and one more are what a race needs, and 3
version numbers because two attempts and an upload are. In `ImageMessage` two prompts
are the fewest that can be mixed up, a refusal counts after one idle poll and a
rescan comes after two, so that both fall before the deadline of three; the
proofs of section 5 cover all other values. `Schedule` has two kinds and two
priorities so that order and kinds are told apart, and two leases so that one
is taken again after the first was given back; its proofs cover all other sizes.
`VideoMessage` has two attempts because a clip must be another's to be
mistaken, and one stray of a tab: it takes one for a tab to arrive at a post
another attempt arrived at by submitting there, or at an old one, and again after
the crash. Two strays take more than five minutes; the theorem
`ArrivalsTakeOnce` covers any number of them. `SortingTray` keeps no attached turn
(`Kept` 0), so that trimming happens, and has four requests, as a swap, an
attachment and the two undos of them need, and three versions of a card, without
which a mark cannot be stale beside what is shown (section 6). `BugReports` needs one mishap to ask
whether it costs more than one repetition, three events so that a batch of two ends
before the journal does, and three segments so that the rotation of the journal
removes one with an event in it. It has one site; with `Sites <- MCSites` the
invariants alone take three minutes, and the theorems cover any sites.
`Pipeline` needs a second run for what the first one
left, and a file more than its tasks for a retry. Client keys are symmetric in
`Intents`, request threads and attempts in `BoardFiles`, workers in
`VideoMessage`; the runs with liveness under fairness use no symmetry.

## 4. Fairness

`RuntimeLive` assumes weak fairness of: each worker's `LeaseNext` and its steps
(a worker is a loop that sleeps at most seconds, and every wait in the
executors has a timeout after which the adapter reports); `Due` and
`CooldownOver` (deadlines pass); `Recover` (someone restarts the program). No
user action and no crash is fair. `EveryJobSettles` is claimed for behaviours in which
errors before a submit are put back into the schedule finitely often (`ErrorsStop`):
the retry policy limits submits, and as long as a provider fails before every submit
nothing ends (section 6). How many such errors come before does not matter. It would
also be false if the account an execution is forced to stayed off or deleted for
ever, so that run's accounts are not changed (`Changeable` is empty); that is a limit
of the promise, not of the model.

`ImageMessage` assumes weak fairness of the executor's next step, a thread that
nothing blocks, and of the provider's, as the wait for quiet has no deadline:
`AttemptEnds` says that the attempt ends when the provider's reply does. The
other waits end without the provider. `VideoMessage` needs no fairness:
`AttemptsEnd` is an action property, a bound on the steps left (`StepsLeft`) that
every step of the worker lowers.

`AutoScanner` assumes weak fairness of the rounds (a thread that catches every
error) and of the runtime (section 3, `RuntimeLive`); nobody has to press
anything. `SceneSettles` is claimed while auto-video stays on, for a scene whose cards
refer to its own cards only, and unless the bound on lots keeps a round waiting for
ever to open one (`OutOfLots`); without the first the scanner waits for shots nobody makes, without the second for
a card of another scene that may be stuck (section 6).

`BugReports` assumes weak fairness of every pass's next step, and strong fairness
of the board's bridge starting a pass and of the tracker's answer: a `bd` that is
asked again and again answers in the end. `EveryBugTold` is claimed for a board in mode
auto-create. `Pipeline` assumes weak fairness of the runner while no person attends
it. Such a run does call `input()`, but has no standard input, so that the call ends
at once and ends the run (image_chatgpt.py:1768, common.py:133-139).

## 5. Proofs

Eight modules, proved for all values of the constants that meet the named
assumptions.

`JobRuntimeProofs` begins with the allocator: a usable account has a free slot (by
counting: slots are a set of `maxSlots` numbers, fewer than that are taken),
`LowestFreeSlot` returns one, taking a seat preserves `SeatExclusive`, releasing
does, and whatever `Choices` returns is usable. Then:

* `TypeCorrect`: `Spec => [](TypeOK /\ SeatOfLease)`. `TypeOK` alone is not
  inductive: `Fail` copies the account of the execution's seat into the sets of
  accounts, which is an account only because an execution with a lease has a
  seat. `SeatOfLease` says so, and needs only what each step does to `lease`
  and `seats` (`SeatSteps`).
* `TabsHaveOneOwner`: `Spec => []SeatExclusive`. A step either takes a seat
  (`LeaseNext`, by `LeaseTaken` on a usable account, so `TakeSeatSafe` applies),
  drops one, drops all (`Crash`) or touches none. Nothing ties the seats to the number
  of tabs, which may have shrunk below them, or to zero: the proof asks of an account
  only that fewer seats are taken than it has tabs when one more is.

The others come from one inductive invariant, `Ledger`, which is the types,
`SeatOfLease`, `LeaseMatchesLedger` and `DownHoldsNothing` (a process that is
down holds no lease and drives nothing):

* `MemoryMatchesLedger`: `Spec => []LeaseMatchesLedger`. Every report and the
  cancel of a leased execution end the open attempt, drop the lease and move
  the execution in one step (`Closes`); `LeaseNext` opens an attempt together
  with its lease; a crash empties the memory and leaves the rows, and recovery
  closes the open ones before anybody may lease again.
* `JobsAreNotStranded`: `Spec => []NoStrandedJob`, from `Ledger` and what each
  step does to the members of the one execution it touches.
* `OneThreadEach`: `Spec => []OneThreadPerExecution`. Needs `DrivenIsStarted`: a
  cancelled execution whose thread has not noticed is finished, never ready, so
  no second worker can lease it.
* `VideosAreSubmittedOnce`: `Spec => []VideoNeverResubmits`. Needs `PhaseKnown`
  (a worker with a lease knows whether its submit is on record: this is what
  its reports tell the retry policy) and `FreshIsEmpty`.
* `ForcedAccountsAreKept`: `Spec => []ForcedKept`. Needs `PinsRestored`: the
  constraints of unfinished executions are in memory whenever the process is
  up, which recovery restores before the first lease.
* `ContractIsKept`: `Spec => ImplementsContract`, the refinement. With the
  invariants above and `JobsInStep` (a job exists as long as its execution does,
  and a job in front of the user has a finished execution) each action is for
  every job a step of `JobContract` or a stutter; recovery, which moves many jobs
  at once, is taken apart per execution (`RecoverMoves`).
* `BudgetIsKept`: `Spec => []SubmitBudgetKept`. The policy is asked only after an
  attempt, so that the property alone is not inductive; `BudgetLeft` says that an
  execution that may be tried again, and an open attempt that is not on record as
  submitted, has budget for one submit more. Each branch of the decision table
  that goes on leaves that (budgets are at least one). Submitted attempts are
  counted as a cardinality, which a report changes by at most one.
* `SeatsAreReleased`: `Spec /\ AllOrNothing => []SeatReleasedOnEveryOutcome`. The
  hypothesis is that executors deliver all of a batch or nothing; with partial
  deliveries the property is false (section 6). Then the members of a batch move
  together (`BatchesWhole`), no report is rolled back, and every lease has a
  worker that holds it (`Attended`).
* `FirstComeFirstServed`: `Spec => OldestIsTaken`, an action property no run has: of
  the executions of a kind that are due, the one submitted first is taken. The
  guard of `LeaseNext` asks for a least number; that it is the only one with that
  number (the runtime leaves every priority at 0), after any retries, cancels and recoveries, is `Numbered`: what was ever
  submitted has a number of its own, below the count. `JobRuntime` keeps the
  numbers over a restart; that the code, which numbers anew, serves in the same
  order is `ScheduleIsKept`.

`ScheduleProofs`, from one inductive invariant in three parts. `Sound`: in either
table a lease is held by one live execution, a scope has one, and the numbers of
live executions grow with their identities. `InStep`: what memory says of a live
execution is what the open transaction says, not what is committed. `Pending`:
the open transaction is one step of the contract.

* `MemoryIsLedger`: `Spec => []CacheIsLedger`. Between operations the transaction
  is the ledger, so that `InStep` is the claim; after a rollback or a start it
  holds because the tables are built anew (`LoadIsInStep`), for which the
  greatest number among the live executions has to exist (`NumbersGoOn`).
* `ScheduleIsKept`: `Spec => ImplementsSchedule`. Only `Commit` changes the rows,
  and by `Pending` it is one step (`CommitIsStep`). That service by numbers is
  service in the order of scheduling, also after a start that gave numbers anew,
  is `OrderedByNumber`.

`IntentProofs`, from `OneLotEach` (a key leads to one lot, a lot has one key),
`SelfNamed`, `PointsHome`, `LiveIsLatest` (an undecided lot on record is the
newest of its scope), `ToldIsAlias` (what a client was told is an alias) and
`ParentsDecided`:

* `OneUndecidedLot`, `KeysAreKept`, `FailuresAreAPersons`: the three properties of
  the run `Intents`. The clean-up acts on what it read long ago and may retire a
  lot that is live by now: it takes record, aliases and pointer away in one
  transaction, so that what is left on record still fits together. A lot off the
  record blocks nothing, and none of the properties speaks of it (section 6).
* `ScannerKeepsTheTables`: the same three and the types under `ScanSpec`, in which
  the scanner's rounds, presses and stop-all act on the tables too.
* `StopsSweep`: `ScanSpec => StopSweeps`. While a stop-all goes on and nobody presses
  again, the scanner is off, and every card that is at work in the newest lot
  the scanner opened for it is still to be read or cancelled (`StopCovers`). The stop
  reads the cards after the critical section that clears the switch
  (`ReadLabelsCovers`); since that section no round opens a lot, and no job comes
  back to life (`NothingRevived`). That a card that has lots has a newest one is
  `NewestThere`.

`BoardProofs`: `BoardTypes` (with `PathKnown`: an attempt past its reservation has
the name of a version), `CancelledStaysOff` (with `ShownWasAccepted`: what a card
shows of an attempt is of an accepted one, which no cancel can revoke any more)
and `TheUserWins`: a user's change stays on its way, or the card shows what the
user put there (`StaysOnItsWay`), and only the note of a change makes attempts
late (`NoteIsOnItsWay`).

`MessageProofs`, with the types (`MessageTypes`; `Typed` adds that the counters have
room where they grow):

* `OnlyCompleteGoesOut`, from `Composed`: what has been set up at each step before
  Send, and that a text in the composer was read back. It holds for `Flaky` pages
  too, on which Send acts after the executor has looked away. Chat and mode are known
  only as long as the page was not loaded anew between two rounds of uploads
  (`Reload`): the code checks neither again (section 6).
* `AttemptContractKept`, the refinement, from `InPhase`: the phase the runtime was told
  goes with the executor's step, and the provider has the message once the executor
  believes so. On a `Flaky` page a message that goes out late is reported as unsent;
  the contract is then the one with `Late`, which keeps everything but "not sent means
  nothing was spent".
* `PaidPicturesAreKept`, from `Collected`: the downloads keep every picture they
  have come to.
* `PicturesGoToTheirPrompts`, from `Settled` (a wait that ended in quiet found a
  reply that is done, so the scan shows it in order and without previews) and
  `Mapped` (the tray is what was downloaded, in that order). The count then leaves
  room for nothing but the N finished pictures (`RightPictures`), and N pictures in
  the order of the prompts are in place (`OrderedFinals`, by the smallest prompt
  that is not).

`VideoProofs`, from `VideoInv` (`VideoInvariant`): the types; `Owned`, an attempt
without a verdict has one worker of the board that began it; `InPhase`, the phase
told and the number of presses go with the worker's step; `Covered`, the attempts
of a board that have pressed or are about to are no more than it has reserved.

* `NoPressUnreserved`: `Spec => []PressesReserved`, over crashes: what is reserved is
  on file before the press, and only another reservation is lost with the worker.
* `AttemptsKeepContract`: `Spec => ImplementsAttempts`, the refinement of
  `AttemptContract` for every attempt at once.
* `AttemptsComeToEnd`: `Spec => AttemptsEnd`. The bound on the steps left is a number,
  and each step of the worker lowers it; that a worker before its first page
  has all its tries (`FirstTry`) keeps the bound from starting too low.
* `SavesOwnClip`: `Spec => OwnClip`, from `Recognised`: while a tab has not been pulled
  away, what it shows beyond its marks is of the attempt's own press, or was
  rendered away from its post.
* `ArrivalsTakeOnce`: `Spec /\ OneBoard => OneArrivalPerPost`, from `Remembered`: what the
  board has in memory, or on file while it has not read it, has every post at which
  a clip was taken on arrival. Clips taken in place are not written down and not
  counted. With two boards it is false (section 6).

`BugProofs`:

* `CheckpointsAreTrue`: `Spec => []CheckpointIsTrue`. A pass writes what it has in
  memory, so the copies have to be true as well, and what a pass is about to add
  was told to the tracker (`HasTold`).
* `RepetitionsArePaid`: `Spec => []OncePerMishap`, by counting. The times an event was
  told and the passes that may still tell it are together no more than the mishaps
  and one (`EventPaid`): a pass joins those that may tell it only by a mishap. When
  neither the checkpoint nor a pass about to write one knows the event
  (`Forgotten`), the one is left over for the pass that starts next. The issues of
  a fingerprint are counted the same way (`IssuePaid`).

`PipelineProofs`, from `PipelineInv`: the task in hand is RUNNING (so what happens
to its files concerns nothing that is DONE), from the gate on what is promoted is
what was accepted, and a file that was copied is among the tries.

* `DoneIsTheAcceptedTry`: `Spec => []DoneIsAccepted`.
* `FilesAreKept`: `Spec => FilesKept`.

`BoardProofs` again, the tray, from `TrayInv` (`TrayInvAlways`). `NothingLostUnasked` is not
inductive: trimming drops a turn because of its marks, a turn is overwritten from
one of two copies, and showing another picture drops the one shown. Call a picture
`Secured` when it is in a version of some card or was removed on request. A step
removes a version only by putting its picture into `removed` (`Keeps`), so that a
secured picture stays secured (`SecuredStays`). `TrayInv` then says:

* `TrayTypes`: a picture marked with a card is secured, in the tray and in the copies
  that the attempt and the request hold (`Slots`); what can be undone holds an own
  copy only of a picture that was removed, and "no version was kept" only when the
  card was empty (`Undoable`). An undo removes that copy without asking: what it
  takes besides the copy counts as removed on request.
* `CopiesAgree`: each copy has the pictures of its turn, place by place, or, the
  request's, a turn that has been trimmed; a turn that has not begun is empty.
* `ShownIsSecured`: what a card shows is secured, so showing something else loses
  nothing.
* `PicturesHeld`: every picture is secured or in the tray. Most steps leave each turn
  its pictures (`SameTray`, `StepKeeps`); a download adds a turn, an upload a version,
  and the end of an attempt trims only turns whose pictures are all marked.

From it:

* `TrayIsTyped`: `TraySpec => []TrayTypes`.
* `NothingIsLost`: `TraySpec => []NothingLostUnasked`.
* `UndosRestore`: `TraySpec => UndoRestores`. Only `Restore` ends the undoing of an entry,
  besides a restart, which the property excepts (`OnlyRestoreEnds`; that restarts
  are counted in numbers is `CrashesCount`), and the entry is `Undoable`. That the
  version kept has the picture is what the property supposes: section 6 has what
  happens otherwise.

Assumptions on the constants: `AccountAssumption` (the set of executions is
finite, which the counting needs, and "no account" is none), `RuntimeAssumption`,
`BudgetAssumption` (a kind's budget is at least one submit), `ScheduleAssumption`
(there is a scope, priorities and bounds are numbers), `IntentAssumption` (each
request has a scope, no scope is empty, "no key" is none), `ScannerAssumption` (pictures
and videos differ), `BoardAssumption` (attempts, request
threads and "nothing" are different), `TrayAssumption` ("no card" is none, an attempt
is asked for at least one card, the history holds an entry), `MessageAssumption` (the bounds are numbers),
`VideoAssumption` (there is a board, each worker belongs to one), `BugAssumption`
(the passes are finitely many, the board's is one of them, any of them may run in mode
auto-create, the sites are those of the code),
`PipelineAssumption` (a task takes its inputs from tasks before it). TLC evaluates
them in the runs. `AllOrNothing` and `OneBoard` are hypotheses of their theorems.

Model-checked only:

* Liveness under fairness, which the prover does not do: `EveryJobSettles`,
  `AttemptEnds`, `SceneSettles`, `EveryBugTold`, `UnattendedRunEnds`.
* What a recursive definition computes for every input, an induction over data. The
  modules with theorems use functions and the folds of the libraries instead, and
  their theorems are about what each step leaves true.

## 6. What the code does not keep

Sentences of the repository's documents and comments that the models refute.
The formulas are in the modules, below their properties; no run of
`PROJECT.json` checks them. To see a counterexample, put the formula in place of
the INVARIANT and PROPERTY lines of the named `.cfg`, without its SYMMETRY
line, with the changes given.

| Formula | In | What happens | The sentence |
|---|---|---|---|
| `SeatReleasedOnEveryOutcome` | `RuntimeSafety.cfg` | a final error on the rerun of a partly delivered batch asks for `completed -> failed`; the transaction is rolled back and lease and seat stay taken | `docs/JOB-STATE-MACHINE.md`: the seat is released on every outcome |
| `TabExclusive` | `RuntimeImages.cfg` | cancelling a running image frees its tab while its thread is still driving it | `image_chatgpt.py`: one worker one tab |
| `VideoClickedOnce` | `RuntimeSafety.cfg`, `PartialDelivery = FALSE` | a crash between click and record submits a video twice | README: no video is sent blindly a second time |
| `ScannerMayOpen` | `Intents.cfg`, `Requests = {scan}`, `Scopes = {auto}` | after a clean-up the scanner may be answered with a dead lot for ever | the comment of `retire_scope` |
| `MismatchNeverMapped` | `ImageMessage.cfg`, `Spec`, `Deadline`, `RefusalAfter`, `RescanAfter = 9` | the pictures that could be downloaded are counted, not those of the reply: one too many and one lost download, and the rest is given to the wrong prompts | "tuyet doi khong doan mapping" |
| `VersionsKept` (PROPERTY) | `BoardFiles.cfg`, `Attempts = {a1}`, `MaxVersions = 2` | an upload names its version without reserving it, and looks only for `.png` files: two uploads of `.jpg` pictures write the same file | `next_version_path` |
| `UndoShowsWhatWas` (PROPERTY) | `SortingTray.cfg`, `MaxCrashes = 0` | a mark that is stale is believed, and the undo keeps and restores the marked version instead of the one shown | `_ht_lui` (sfboard.py:5279-5282) against `_ban_dang_dung` (5199-5201) |
| `UndoTakesItsOwn` (PROPERTY) | `SortingTray.cfg`, `Kept = 0`, `History = 1`, `Lots = {}`, `MaxTurns = 0`, `MaxPictures = 4`, `MaxNumbers = 2`, `MaxCalls = 8` | an undo removes the version the program had copied by its name; when the user has deleted that copy and uploaded another picture, which takes the free name, the upload goes | sfboard.py:5308: the version is one the board copied for safe keeping, not one the user made |
| `EveryJobSettles` without `ErrorsStop =>` (PROPERTY) | `RuntimeLive.cfg` | an error before the submit is retried without a limit: the budgets are counted over submits, and none is made | `docs/JOB-LIFECYCLE-DECISIONS.md`, D09: retries of pictures are limited by the submit budget and the budget of whole executions |
| `SentInBlankChat` (PROPERTY) | `ImageMessage.cfg`, `SPECIFICATION Spec` | the reload between two rounds of uploads puts the tab back into an old chat, which nothing looks at any more | image_chatgpt.py:871-875: who asks for a blank chat must get one |
| `UnsentIsUnspent` | `ImageMessage.cfg`, `SPECIFICATION Spec`, `Flaky = TRUE` | Send acts after the composer was read for the last time: a message that went out is reported as not sent | sfboard.py:5544: `da_gui=False` says that the board could not press Send, the draft is still there |
| `PostGivesOnce` | `VideoMessage.cfg`, `MaxStrays = 2` | both tabs are pulled to one post before they press; a clip taken in place there is not written down, and the other attempt takes it too | video_grok.py:57-58: a post that has given its clip gives no more |
| `SceneSettles` without `OwnReferences =>` (PROPERTY) | `AutoScanner.cfg`, `InScene = {frame}` | a stuck reference of another scene is waited for; the switch never goes off | sfboard.py:4132-4136, against 4144-4146 |
| `OneArrivalPerPost` (PROPERTY) | `VideoMessage.cfg`, `Boards = {b1, b2}`, `BoardOf <- MCTwoBoards`, `Tries = 1`, no crashes and mishaps | a board reads the journal of posts once, so that two boards take one clip twice | video_grok.py:60-62: shared by the projects |
| `NeverTheFinished` (PROPERTY) | `AutoScanner.cfg` | an outcome is in the ledger before its file is on the board; a round that reads in between hands the asset over again | sfboard.py:4110-4112 |
| `OffWhenNothingRuns` (PROPERTY) | `AutoScanner.cfg` | a card without a prompt switches the scene off while its other cards are being made | sfboard.py:4189 |
| `CrashIsJournaled` | `BugReports.cfg`, `Sites <- Crashes`, `MaxMishaps = 0` | `LIVE_WORKER_CRASH` is neither a reportable reason nor its category an unhandled exception: the death of a live worker leaves no line | the comment of `_worker_entry` |
| `OneIssuePerFingerprint` | `BugReports.cfg` | an answer of `bd` that is lost, or two passes at a time, make a second issue | the module comment of `beads_bridge.py` |

Met while modelling, without a formula:

* Runtime: errors before any submit count as whole reruns (`runtime.py`,
  `whole_execution_retries`); `/api/master` queues cards that are queued already.
* Scanner: with auto-video off and videos
  missing the switch stays on; scene scans queue reference cards though 6962-6965
  says not; a card is queued though its own reference is missing (4015-4018,
  against 4009-4010); a cancel by label reaches the newest lot of the label only
  (2373-2389), so that a stop-all leaves an older lot's job running and does not
  report it (6231-6240).
* Clean-up: `_runtime_don_loi` retires whatever lot a scope points to by then. If
  another lot has come up since it read the jobs, that live lot loses its record,
  and the next request opens a second one beside it.
* Tray: undoing the attachment of a picture whose turn has been trimmed loses it,
  though 5281-5282 says otherwise; a version name that is used again after a
  deletion makes an undo show or remove another picture.
* Pipeline: "bị bỏ qua → FAILED (phụ thuộc sẽ dừng)" is not so after a reset: the
  tasks that depend on it find its old asset; `--from` and `--only` accept an
  asset torn by a crash in the middle of a copy, as they ask for the file only;
  `find_dropped` may take a file named for another task; a video that fails under
  `--auto` falls back to manual work, whose question meets the end of the input
  and ends the run; attempts count from one in every run; one `tool` flag stands
  for both browsers.

## 7. Plan

Done: the runtime with its parts and contract, the schedule under it, intents
and the scanner above it, the two executors under their contract, the files of a
card and the tray, bug reports, the command line pipeline; the proofs of
section 5, which state every safety property of the runs. What would come next, in
this order:

1. That `JobRuntime`'s `exec`, `seq`, `due` refine `ScheduleContract` as a whole. The
   order of service is proved (`FirstComeFirstServed`); for the rest, `Due`, which
   fires for each execution on its own, has to be tied to one clock by a history
   variable first.
2. The copy of the accounts file by several threads; the older path of the image
   executor for one picture; several scenes under one scanner.

## 8. Not modelled

* The legacy queue, its job files and the projection of the new states into
  them: the lifecycle has replaced them, and nothing in authoritative mode reads
  them to decide.
* The monitor and the facts it derives: they read and show. Its budget is
  `Reserve` in `VideoMessage`.
* The web page, HTTP routing, project files, prompts, export, one-off scripts: no
  protocol. Of the page's, client keys (`Intents`) and the copy of the marks it
  saves (`BoardFiles`) are modelled.
* In the executors: selectors, dialogs, starting Chrome and logging in, building
  texts; in the bug reports: redaction, schema, Sentry; in the pipeline:
  `--dry-run`, `--status`, the parser of the prompt file.
* Failing SQLite writes inside a runtime method roll back as a whole: `Schedule`
  has them for the schedule, `JobRuntime` where a method's own check aborts it.
