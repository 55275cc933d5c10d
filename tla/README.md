# AgentShowdown: a TLA+ model of the server

AgentShowdown runs coding agents in sandboxes, several at a time, and shows their progress on a board.
These modules model the part of it that is concurrent and must survive failures: who may drive a
sandbox, what happens to a job from its launch to its published branch, how the board learns of it, and
what the services around the jobs (database, usage, workspaces, questions, model lists, telemetry) keep.

Paths below are under `src/`; `runner.py` is `backend/api/runner.py`, and so on.

## Running it

    tlc -workers 2 -config RunnerClaims.cfg MCRunner     # any run: its .cfg and its MC module
    tlapm RunnerProofs.tla                               # the proofs; there are eight *Proofs modules

## Inventory

| Component | State | Operations | Module |
|---|---|---|---|
| Run dispatcher (`api/runner.py`, `main.py`, `run_all` of `job/lifecycle.py`) | claim table, slot semaphore, dispatcher queue, sampler users; run rows | start, answer, follow-up, respawn, delete; restart reconciliation | `Runner` |
| Job (`job/lifecycle.py`, `job/finish.py`) | the driver thread's place in the code; the job row | run, resume, respawn, re-attach, poll, verify, push, tear down | `Job` |
| Sandbox calls (`api/sandboxes.py`) | none of its own | stop, remove, kill all | `Job`, `Runner` |
| Sandbox commands (`orchestrator/sbx.py`) | container, status file, agent process | create, launch, restart, stop, rm, ls, read status | `Job` |
| Git commands (`orchestrator/vcs.py`) | the fetched ref, origin | fetch, verify in a worktree, push, open a PR | `Job` |
| State store (`orchestrator/state.py`) | SQLite: runs, jobs, samples, events, specs, launches | upsert, add_run, delete_run, inserts | `Store`; rows in `Runner` and `Job` |
| Job expansion (`job/expand.py`) | none; reads features.yaml and config.yaml | labels, names, duplicates, queued rows, the spec of a relaunch | `Expansion`; rows in `Runner` |
| Event bus and stream (`orchestrator/events.py`, `api/stream.py`, `useJobStream.ts`) | ring of the last 1000 events, a queue of 500 per client; in the browser the last seen id, fetches under way, the board | publish, subscribe, replay, resync, renew; connect, reconcile, refresh | `EventStream` |
| Workspace registry (`api/workspace.py`) | a JSON file, and the .tmp it is saved through | select, clear, forget, load, save | `Workspace` |
| Clone (`api/clone.py`) | clones in memory, one worker, directories | start, clone, register | `Workspace` |
| Ask (`api/ask.py`) | the last 50 asks in memory, a pool of 8 | start, answer | `Ask` |
| Model catalog (`model_catalog.py`) | models.json, the last updates | start, discover, collect, save and report | `Catalog` |
| Telemetry sampler (`orchestrator/telemetry.py`) | last CPU reading per sandbox | a pass: list, probe, rate | `Telemetry`; its users in `Runner` |
| OTel receiver and usage (`routes_otlp.py`, `otlp.py`, `agent_otel.py`, `metrics.py`) | agent_events, agent_launches | receive, file, read back, prefer to the log | `Usage` |
| Configuration (`config.py`, `routes_setup.py`, ...) | YAML files, requests | resolve a model, replace features or config | as `Expansion` and `Workspace` meet it |
| Routes, validators, prompts, integrations, command line, web interface | requests, text | parsing and formatting | not modelled |

How they interact. A request is validated in the HTTP thread, claims the names of the sandboxes it is
about to drive (a dictionary under a lock) and submits a work item to a pool of 16 dispatcher threads.
A run's work item opens a pool of its own, in which each job waits for a permit of a process-wide
semaphore. A job's thread launches an agent in a sandbox by `sbx exec` and then polls: `sbx ls`, and a
status file which the agent writes and a wrapper script completes if the agent dies without one. On
"done" it fetches the branch, runs the tests and the linter, pushes, and may open a pull request. Every
step is a row in SQLite and an event on a bus. Beside it a person may stop or remove any sandbox at any
time, and the server may die; at startup the rows that say queued or running are taken up again if their
sandbox is still listed, and written off as lost otherwise.

What is hard here: several threads that read a row, a listing or a file and act on it later; a sandbox
that lives through crashes of the server while all claims, permits and queues do not; commands that fail
in ways that read as facts (a failed listing reads as "no sandboxes"); and git refs and status files
shared by consecutive or concurrent attempts. The board is kept by events which may be dropped, overtaken or cut
off, with fetches to make up for them. Around the jobs it is files and registries that are loaded, changed and saved without a lock, a
database whose reads are outside the transaction of the write, an exporter that repeats what was not answered, deadlines, and
counters that restart. `PROJECT.json` lists each of these hazards at its line.

## Modules

**`Runner`** — all work items at once. A *work item* is a run, a request in the background, or the
re-attachment of a name. `claims` is `_claims` (the holder is the work item, where the code keeps a
label), `phase` the place of a work item (`claimed` and `recorded` inside `start_run`, `queued` in the
dispatcher, `executing`, and for a run `released` between the `finally` block and `finish_run`), `stage` the
place of each job in it, `slots` the semaphore, `sampled`/`sampler` the use count. `call` is the foreground
half of a request, so that validation, claim and submission are separate steps. What a job does while it is
driven is one step here (`EndJob`): any outcome, sandbox kept or removed. The `Job` module and `DriveEnds` say why
that is right. Each write to the store is a transaction of its own and may raise (`StoreCanFail`): `record_queued` writes one row after the other
(`QueueJob`) and stops where it fails (`QueueFails`), the handler that would record an error may fail like the work before it (`LosesOutcome`), and so may
the writes of a request or of a finished run. `unwritten` remembers the rows this has left in flight.

**`Job`** — one sandbox. At most one thread drives it (`OneDriver` of `Runner`), so `driver` is one record: its
program counter, what it has read and not yet acted on (`got`, `seen`, `misses`), and the outcome. Each read of the
listing or the status file is a step apart from the write that follows from it. `proc` is the agent process and its
wrapper per launch, since an earlier one may still be going; `file` says which launch wrote it. Commits are numbers:
`head` is the branch in the sandbox, `ref` the host's copy, `origin` what has been published, and `passed`
the commits on which each command has passed; `Commands` says which of the two commands are configured (none is by default), and one that is not is skipped. Commands (create, launch, restart, fetch, push, open PR) may fail wherever the code lets them
raise; the exception ends the drive and is written to the row as "error" by `run_job_safe`, `_execute_claimed` or `_reattach_one`. `sbx rm` and `sbx stop` are called without a check and may fail
unnoticed (`RmCanFail`).

**`JobContract`** — the abstract specification: how `jobs.status` moves for somebody who sees only the row and how far the driver is.
`Job` is checked to implement it (`KeepsContract`, with `Stage` as the refinement mapping).

**`EventStream`** — one browser's board, from the row to the screen. `truth` is the version of the job rows; `pub` says where each worker
thread is between its commit, the numbering of its event under the lock (`Publish`) and the callbacks outside the lock (`Notify`).
`loop` is the hop to the event loop, `stream` the generator `event_stream` with its queue, the replay it has still to
send (`missed`) and the highest id it has sent; `wire` the frames sent and not received. In the browser `fetches` are the
requests for `/api/jobs` under way, each with the version it will answer, and `board` the version on the screen: events carry no
data, they only ask for a fetch. What surrounds the browser (`env`: threads, sizes, whether fetches
overtake one another, how often things fail) is chosen at the start, so one run covers several.

**`Store`** — the job database under several connections. Python's `sqlite3` opens a transaction with the first statement that writes, so what
`upsert`, `delete_run` and the OTel receiver have read is read outside it: each is two steps here, the write in between being kept in `client`.
A row is the five kinds of columns the properties tell apart; `tables` says about which job row (counted by `life`) each row
of the other tables was written, which is how a later job of the same name could inherit another one's history. `box` says whether `sbx ls` lists a sandbox of the name: the sampler
inserts for whatever is listed, and a sample without a row is marked `Stray`. `racing`, chosen at the start, says
whether writes overlap.

**`Usage`** — how tokens are counted: agents make events, their exporter posts batches and posts them again, the receiver files them, and the
driver reads them back once the exit file appears, field by field, with what the log says where the events say nothing. Times are compared only with launches, so `received_at` is a turn.

**`Workspace`** — the registry file and the clones. A save is three steps (open, write, rename); since all saves use one `.tmp`, a handle may be on
a file another save has renamed, and `saver[s].on` follows it. `file` holds what is read: a registry, nothing, or something
damaged, and may for a moment not be readable at all, which reads as an empty registry too: `saver[s].blind` remembers a save that goes on from such a reading. Each step of a save may
raise, and so may each step of a clone before its registration; `raised` says that the worker of a clone has ended that way. `overlap`, chosen at the start, says whether saves overlap.

**`Ask`**, **`Catalog`** — a bounded registry with a pool, and a background update with a deadline. What a contender or a provider can come to is an
operator over what its CLI or API (external) does (`answer_one`, `discover`). Before it saves, an update of the catalog reads the file again; one it cannot read then loses the models of the
providers it did not ask (`unread`).

**`Telemetry`** — one sandbox: the clock, the container's counter, and a pass of the sampler in two steps (the time is taken before the probe). `sample` is the rate that was recorded, as growth and elapsed time, with
what a reader cannot see: whether probes were missed since the last reading, and whether it was read late.

**`Expansion`** — labels, names, collisions and the spec a relaunch finds (`spec_for_job`), while features and configuration are edited and runs deleted.

**`MCRunner`, `MCJob`, `MCStream`, `MCServices`** — instances for TLC; the `.cfg` files give every constant. `MCServices` holds the seven small components.
They share no variable, so nothing can be learned from interleaving them: one of them, chosen at the start, moves, and the state space is the sum
of theirs instead of the product.

**`RunnerProofs`, `JobProofs`, `StreamProofs`, `StoreProofs`, `UsageProofs`, `WorkspaceProofs`, `ExpansionProofs`** — the theorems about the module each is named for; **`ServiceProofs`** holds those about `Ask`, `Catalog` and `Telemetry`.

Definitions whose comment begins "Mutant of" are deliberately wrong variants of the definition they name. No
specification uses them; replacing the action by its mutant violates the property `PROJECT.json` pairs
it with, which shows that the property depends on the code being as it is.

## Runs

| Run | Bounds | Shows |
|---|---|---|
| `RunnerClaims` | 2 names, 1 run, 2 concurrent calls, 1 question, any number of crashes; any write to the store and the listing may fail | claims are exact, no sandbox has two drivers, permits balance, a row in flight has an owner unless the write that would have closed it raised |
| `RunnerSerial` | 2 names, 2 runs, 2 calls one at a time, no crash, listing works | one sampler for overlapping runs; deletion leaves no driven job and no sandbox without a row |
| `RunnerProgress` | 2 names, 1 run, 1 dispatcher thread, 1 slot, fairness | each run is closed, each claim returned |
| `Job` | 2 launches, 1 commit after the base, 3 misses, 1 crash, stop / forced remove / kill-all, both commands configured, fairness | nothing unverified is published, success means published, a file from an earlier launch is not acted on, a waiting question keeps its sandbox, a drive ends, work reported done is judged, the contract |
| `JobSettings` | the settings `Job` leaves out: sandbox-side checks, no lint command, no PR, teardown on success, unforced remove, failing `sbx ls`, `rm` and `stop`; 2 misses, no crash | the contract, success means published, a drive ends |
| `StreamBoard` | the settings `Plain` (3 changes, everything in order, a lost connection), `Busy` (2 threads, a failing fetch), `Short` (ring and queue of 1), `Rough` (ring and queue of 1, other events between, overtaking fetches, a restart); 2 fetches; fairness | an event reaches the board at most once and in order; with one publisher and room enough none is skipped; a quiet board is fresh; the board converges |
| `Services` | store: 1 name, 1 run, 2 connections, 2 rows in turn; usage: 2 turns, 2 events, 1 fault, reads of 1 event; workspace: 1 person, 2 clones, 2 directories, a registry of 1; ask: 2 asks of up to 2 contenders, registry of 1, 2 workers; catalog: 2 providers, 2 updates, history of 1; telemetry: 2 cores, 3 ticks; expansion: 1 agent, 2 models, 4 feature files; crashes; fairness | categories follow statuses, no update and no workspace is lost while nothing overlaps, no history of a deleted job, usage is whole, the active workspace is listed, the newest asks are kept and all settle, clones settle unless their worker raises, catalog reports are true and updates end, recorded CPU rates are possible unless a probe failed or read late, a relaunch finds its spec |
| `RunnerStaleAnswer` | violation | an answer is delivered to a later question (validated before the claim) |
| `RunnerCrashedRun` | violation | a run's row stays "running" after a crash, and cannot be deleted |
| `JobUnverifiedPush` | violation | an unforced removal's fetch moves the ref between verification and push |
| `JobTwoAgents` | violation | a follow-up on a timed-out job starts a second agent beside the first |
| `StreamRestarted` | violation; `Plain` with one restart | after a restart new events are dropped as already delivered |

Why the bounds are enough. The properties of `Runner` are about pairs: two names (a batch with a conflict on
its second entry), two work items for one name, two runs over one sampler; a crash puts every phase
through the reconciliation. One slot and one question make waiting and parking happen. `Job` needs two launches for
a stale file and an older wrapper, one commit after the fetch for a moved ref, and three misses because the code counts
to three; one crash can hit every program counter. `EventStream` shrinks the ring (1000) and the queue (500) to one,
so that two or three changes overflow them; three changes are one before, one during and one after a connection, two threads are what it takes
to hand events to the loop out of order, and two fetches to overtake. In `Services` every limit of the code is shrunk until it is reached (50 asks, 256 workspaces, the read limit of events, the history
of updates); the races need two parties (two connections, a person and the clone worker, two clones for one directory, two turns) and the same name twice (`MaxLives`). Names, runs and calls are interchangeable, so the invariant runs of `Runner` use symmetry;
the liveness runs do not. Deadlock is not checked: with the bounds used up and nothing in flight the server waits
for a request, and that is where it may stop. In the violation runs every setting that is not needed is at its quietest.

Fairness. `Runner`: weak fairness of each background item, of each run's own steps and of the rest of a call
that has begun. A submitted item is never dropped by a pool, a waiting thread gets a permit because
drivers end, and no person is assumed to act. Requests, agents, people, failures and crashes are not fair. `Job`: weak
fairness of the driver, that is, every command returns (the code does not bound most of them: see the hazards), and strong fairness of `Deadline`: the
deadline is an absolute time checked on each turn of the polling loop, so a loop that comes round for ever passes it. The agent
need not do anything. `EventStream`: weak fairness of the generator, of its end after `MAX_STREAM_SECONDS` (a clock), of the browser's reconnection
(`EventSource` does it by itself), of receiving and of noticing the end, and of each fetch being read and the
first one being answered, unless it fails (failures are bounded). Publishing, the event loop's callbacks and the refresh button are not fair:
the board converges without them, because every reconnection fetches. `Workspace`: strong fairness of the clone worker and weak fairness of a save that has begun; strong only because the model holds
the worker back while somebody else saves (`Calm`), where the code waits for nothing; git is taken to end. `Ask`: weak fairness of a handler that submits and of the pool, whose workers
have timeouts. `Catalog`: weak fairness of the clock and of the update's thread, and none of the discoveries. `Store`, `Usage`, `Telemetry` and `Expansion` have safety properties only.

## Proofs

`RunnerProofs` proves, for any finite sets of names, runs and calls and any bounds, from the named assumptions of `Runner`
(identities are disjoint, sets finite, sizes positive):

* `TypeCorrect` — `TypeOK`;
* `ClaimsAreExact` — `ClaimsExact`;
* `NeverTwoDrivers` — `OneDriver`;
* `PermitsAreExact` — `SlotsExact`;
* `NothingLeftBehind` — `InFlightIsOwned`, assuming `Forgotten = {}`, for a store whose writes may raise or not;
* `SamplerIsExact` — `SamplerExact`;
* `DeletesAreSafe` — `DrivenHasRow`, for behaviours in which no call claims a job of a run between the check and the commit of that run's deletion
  (`[][ClaimsAvoidDeletes]_vars`); any number of other calls, new runs and deletions may overlap it;
* `DeletesSpareSandboxes` — `SandboxHasRow`, assuming besides that the listing works (`~ListCanFail`): a failed listing reads as "no sandboxes";
* `AnswersMeetTheirQuestion` — `AnswerMeetsItsQuestion`, the property `RunnerStaleAnswer` refutes, for behaviours in which every claim of an answer
  finds the question it was planned for still open (`[][AnswerClaimsCurrent]_vars`).

`DeletesAreSafe` and `AnswersMeetTheirQuestion` say which step the code would have to guard: their hypotheses restrict `ClaimOne` alone, and the code has behaviours with and without them.

They rest on one inductive invariant, `IInv == Types /\ Ownership /\ RecordedFirst /\ SlotsExact /\ Watched`. `ClaimsExact` alone is not
inductive: a claim is dropped by name, so one has to know that whoever releases a name holds it. `Ownership` adds that
a job is under way only in an executing item that owns its name (`StagesOwned`), that a call which has planned
has no work of its own yet (`PlannedCall`), and that a run being recorded belongs to one call (`RecordingOwnsRuns`).
`OneDriver` then follows, since a claim has one holder. `SlotsExact` needs the cardinality of the set of permit holders to change
by one with each step (`SlotTaken`, `SlotReturned`). `Watched` adds that a finished job has left a row that is not
in flight or is known to be `unwritten`, without which releasing a claim could orphan it unseen. `RecordedFirst` says that a run starts no job before the last has its row, so a failure there interrupts nobody who holds a permit. `SamplerIsExact` adds `Sampling` (the users are executing runs, and the thread is on exactly if there is one);
`DeletesAreSafe` adds `Deletion`: while a deletion is between its checks and its writes its run is over, the jobs that still carry the run's id are claimed by nobody or by a new run that has yet to write its row (`Deletable`; with that write it takes the row over),
and after the listing no sandbox of theirs is alive. `AnswersMeetTheirQuestion` adds `Current`: an answer under way that has not begun is for the open question, since only the holder of a name asks in it. There is one lemma per part and one step per action.

`JobProofs` proves, for every bound, every setting and every subset of what people may do (`JobAssumption`):

* `TypeCorrect` — `TypeOK`;
* `SuccessMeansPublished` — `SucceededIsPublished`;
* `ImplementsContract` — `KeepsContract`, that is, `Job` implements `JobContract`;
* `NoOrphan` — `InFlightIsDriven`;
* `OnlyVerifiedIsPushed` — `PushedWasVerified`, for whatever commands are configured, assuming that the commands run on the host and that nobody calls remove
  without force. The second assumption is the one `JobUnverifiedPush` breaks; the first is what makes "passed" a
  statement about the fetched commit;
* `QuestionsSurvive` — `QuestionSurvives`;
* `OwnTurnOnly` — `ActsOnOwnTurn`.

Types are inductive together with `Room` (a drive that may still launch has a launch left, because a request needs one) and `Published`
(a commit is fetched before it is verified and pushed before it is announced: without it `passed` could hold a commit that does not exist).
The step lemmas follow the code's own division: starting, polling, finalizing, and what happens beside the driver. `StartingMoves`, `PollingMoves`
and `RestartMoves` say that nothing is finalized before an outcome has been found; `BesidesMove` says what everybody else
can disturb. Each theorem then adds the one invariant it needs: `Verified` (at each check the earlier ones have passed
on the ref), `Parked` (past the point where a drive parks, there is no question left) and `OwnTurn` (no
process of a later launch exists, and none of an earlier one is active unless it was at the launch). The refinement needs one
lemma per group of actions that each step is a step of the contract or a stutter; `NoOrphan` is then proved from the contract's actions alone.

`StreamProofs` proves, for every set of `Settings` (any ring, queue, number of changes, crashes, lost connections and failing fetches) and any finite set of threads (`StreamAssumption`; finite, so
that what is under way can be counted):

* `TypeCorrect` — `TypeOK`, with it the limits of the ring and the queue;
* `EventsComeOnce` — `EachEventOnce`;
* `QuietBoardsAreFresh` — `QuietIsFresh`;
* `NoneIsSkipped` — `NoGap`.

One invariant, `IInv == TypeOK /\ Labels /\ Ring /\ Sent /\ Below /\ Counted /\ Covered /\ Line`, carries all four. `Ring` says that the ring holds the newest events, numbered one
after the other; it gives what `replay_since` returns (`MissedNumbers`). `Sent` orders the frames of one connection from `lastId` over `highest` to what is still to be replayed, and
is all `EachEventOnce` needs, also across restarts. `Below` bounds the ids by `last` until the first restart; this is the part that fails after one, which is the finding of `StreamRestarted`.
`Counted` counts what is on its way to a stream (in the callbacks, the loop, the queue), so that a queue of the size of `env.changes` never overflows. `Covered` is `QuietIsFresh` made inductive: a board that is not going to be fresh by the fetches
under way has a frame, a replay, an event or a connection coming that makes it fetch. `Line`, for one thread, says that wire, replay and what is on its way are consecutive numbers, so the next frame is `lastId + 1`.

`UsageProofs` proves `UsageIsCounted` — `UsageIsWhole`, for any number of turns, events, batches and any read limit. `Driving` and `Watched` say what the exit file means: the last agent has exited,
if it was alone; they hold through every fault. `Exact` holds until the first fault: a request under way is the one its exporter waits for (`UnderWay`); each row is one event of its agent and the only one about it, and rows of other turns are older than the launch of a
turn that is alone (`Rows`); each event up to the last answered batch has its row, and an agent that has exited has sent all (`Complete`). `ReadIsWhole` puts them together: the rows read are one for each event that is not noise, so the limit
cuts none off (`AllAreNewest`, an injection of rows into events) and their places are the turn's tokens.

The other proof modules hold for every value of the constants:

* `StoreProofs`: `RowsAreSound` — `CategoryInStep`; `HistoriesAreOwn` — `HistoryIsOwn`; `NoneOverwritten` — `NoLostUpdate`. A category is in step in the row and in every merged row that
  is about to be written (`PendingInStep`); while nothing overlaps, at most one write is under way and the row it has merged with is still the one in the database (`Alone`).
* `WorkspaceProofs`: `ActiveListed` — `ActiveIsListed`; `NoneLost` — `NoWorkspaceLost`. Every registry anywhere (in a file, in memory) lists what it selects (`AllListed`);
  a save that is alone has kept what it loaded and owns the `.tmp` (`Serial`).
* `ServiceProofs`: `AsksAreKept` — `RecentIsKept`. The tracked asks are an interval of numbers, which gives how many there are, and with it what `put` drops.
  `ReportsAreTrue` — `ReportIsTrue`. The running update is the newest one (`OneRuns`), nothing in the file is of it or later (`FileIsOlder`), and what it has collected is what it reports (`CollectedIsSaved`).
  `RatesAreReal` — `RateIsReal`. Since it was last read, at `ReadAt`, the counter has not grown by more than the cores allow, unless a probe was missed (`Growth`).
* `ExpansionProofs`: `SpecsAreFound` — `FindsItsSpec`. The spec in the store is the one launched with, unless nothing was launched (`Recorded`); an unedited job still has
  its entry (`Entered`), and the search for its name ends at that entry (`FindsEntry`).

Only model-checked: the liveness properties (`RunFinishes`, `ClaimReleased`, `DriveEnds`, `DoneIsJudged`, `Converges`, `CloneSettles`, `AskSettles`, `RefreshFinishes`), which need fairness and with it `ENABLED`, out of the prover's reach. Every invariant and every
action property of the passing runs is proved, each under the assumptions given with it. The parts of the inductive invariants were checked by TLC, on instances of the size of the runs, before they were proved.

## What the violation runs say about the code

1. `start_answer` validates before it claims (`runner.py:374-376`). Two tabs submit an answer to one question; the first resumes the
   job, which asks something else; the second, validated earlier, is then claimed and delivered to the new question. Claiming
   first and validating under the claim would close it (`AnswersMeetTheirQuestion` proves that nothing else is needed); `start_followup` and `start_respawn` have the same order.
2. Nothing calls `finish_run` for a run that was going when the server died, and `delete_run` tells the user to wait for it.
3. `_finalize_success` pushes `sandbox-<name>/<branch>` by name. `remove` without force fetches into it (`vcs.py:101`). A commit made
   between the two fetches is published unverified. Resolving the ref once to a commit would close it.
4. `timed_out` is not in flight, so `plan_followup` accepts it, but the agent was never stopped.
5. Event ids start at 1 in each server process (`events.py:58`), and the browser reconnects with the last id of the previous one. `replay_since`
   finds nothing newer and no gap, and `event_stream` drops each new event up to that id. The board stands still
   between reconnections (each of which fetches), up to five minutes. An id that names its process would close it.

`QuietIsFresh` is about a calm server on purpose. It does not hold if an event that asks for no fetch pushes one that does out of the ring or
the queue, if a later fetch is answered before an earlier one (the earlier answer then overwrites the board), or across a restart: there only `Converges`
holds, which the next reconnection brings about. The hazards list these cases.

A claim on an old plan is also what `delete_run` is exposed to: an answer planned before the check and claimed before the commit is driven without its row. `RunnerSerial`, with one call at a time, leaves this case out, though the server does serve requests in several threads;
`DeletesAreSafe` shows that it is the only way; a run submitted meanwhile under the same names does no harm.

What else the `Runner` and the `Job` show of the code: a store whose writes raise leaves a row in flight without an owner until the next drive or restart (`unwritten`), and a batch whose
`add_run` raises keeps its claims; with neither a test nor a lint command configured, the default, `PushedWasVerified` asks nothing and the branch is published as it is.

## What the services allow when calls overlap

The properties of `Store` and `Workspace` that begin with "as long as no two ... overlap" do not hold otherwise; TLC shows the first and the last of these cases as soon as `racing` or `overlap` is taken out of `NoLostUpdate` or `NoWorkspaceLost`
(the tables beside the rows are not followed while writes overlap, so the second is read off the code):

* two upserts of one row: the second writes back the columns it read before the first (the comment at `state.py:361` says that the transaction prevents this; the
  `SELECT` is before it begins). `BEGIN IMMEDIATE` would. An upsert may even bring back a row that was deleted meanwhile;
* the receiver or the sampler, between finding a job and inserting: its rows survive the deletion and belong to the next job of that name;
* two saves of the registry: the later one writes what it loaded before the earlier one; and with one `.tmp` for all of them, a save may fail or leave a damaged file, which reads as an empty registry.

Without any overlap: a batch that is posted again is counted twice; a launch beside an agent that is still running counts that one's events; a 257th workspace makes the saved registry unreadable, and a registry (or models.json) that cannot be read for the moment is saved over as if it had been empty; the worker of a clone catches nothing,
so that a failing mkdir, a missing git or a failing save leaves the clone running for good; the sampler files samples of a sandbox that outlived its row, and the next job of the name inherits them; the CPU rate after a
failed probe divides the growth of two intervals by the length of one (the comments at `telemetry.py:136` and `163` say otherwise); and an entry without a label answers to the name of a command entry after it. The properties name each of these as an exception, with the code as it is.

## Not modelled, and why

Formatting, parsing and I/O without concurrency of its own (validation and writing of configuration files, prompts, transcripts, the attributes of OTel events and the formats of agent logs, the interface), the command line
(a second process with neither claims nor slots), and uncommitted changes in a sandbox. A launch whose `sbx exec` reports an error after having started
the agent is left out (it would be one more way to have two agents); a write to the store happens as a whole or raises (in `Runner`; in `Job` it does not raise), and an `sbx rm` that fails unnoticed is part of `Job` only. In `EventStream` the contents
of events and rows are left out, and so are other browsers: a subscriber shares only the ring with them, which it does not change. Sandbox names of more than 60 characters are cut
off by the code and may then collide; `Expansion` keeps names apart by their parts. `Store` is not composed with `Runner` and `Job`: these take a write to a row as one step, which is right
for writes that do not overlap. `Workspace` has one worker for clones, as the code has, and a directory is absent, being filled, or a repository.

## What could come next

1. *Composition* — `Job` over `Store`, with the driver's and the person's upserts in two steps, to say which lost updates the board can show.
2. *Algorithms* — the feature reducer of the web interface, against a reference definition.
