# Rojo in TLA+

Rojo runs coding jobs: a job is submitted over HTTP, queued, taken by a worker,
given a git worktree of its own, implemented by a model, verified by
deterministic checks, reviewed, perhaps revised once, and ended with a patch.
This directory holds TLA+ models of that system, the TLC instances that check
them and TLAPS proofs about them. Every definition is a reading of the Go code;
`PROJECT.json` maps each one to its file and lines.

    tlc -workers 2 -config MCServiceFaults.cfg MCService    # one run
    for m in ServiceProofs ProcessorProofs EventsProofs GateProofs FileStoreProofs \
             BenchmarkProofs RunCommandProofs AgentsProofs; do tlapm $m.tla; done   # the proofs

## The system

| Part | State | Operations | Interacts through |
|---|---|---|---|
| `internal/jobs` | status of a job | `Transition` along `legalTransitions` | every other part calls it |
| `internal/storage/filestore` | `job.json`, `events.jsonl`, `patch.diff` per job, an index in memory, a directory lock | Create, Get, Update, List, Append, History, Write/ReadArtifact | API handlers, processor, recovery |
| `internal/queue` | one bounded channel | Enqueue (never blocks), Dequeue, Close | handlers and recovery send, workers receive |
| `internal/worker` | N goroutines, one context | Start, process, Wait | queue, processor |
| `internal/orchestration` Processor | one run: job in memory, candidates, report, feedback | Process and its stages | repository, git, models, verifier, bus |
| Canceller | job id -> cancel function | Track, Release, Cancel | handler cancels, run tracks |
| Recoverer | a listing | Recover, once, before the listener opens | repository, queue, workspaces |
| `internal/api` | rate-limit buckets; otherwise stateless | submit, cancel, list, history, stream, diff | all of the above |
| `internal/events` | subscriber channels | Publish, Subscribe, Unsubscribe | persisting bus over the store |
| `internal/workspace` | worktrees and branches on disk | Create, Cleanup, Diff, ListOrphans | processor, recovery |
| `internal/verification`, `internal/execution` | none | detect a preset, run its checks under limits | processor, MCP gate |
| `internal/agents` | none | Plan, Propose, Apply, Review: one prompt each, and what is made of the answer | model clients, the checkout |
| `internal/agents/model` | none | Generate for Anthropic and OpenAI: which replies are answers | the providers, metrics |
| `internal/repocontext` | none | score, rank and cut the files a prompt shows | git's index |
| `internal/config` | the configuration, once | environment, file, default; validate; choose a provider | `cmd/api` |
| `internal/metrics` | process-wide counters | count runs by outcome, model calls, errors, tokens | read over HTTP, by the benchmark |
| `cmd/api` | phase of the process | start, recover, serve, drain, stop | owns everything |
| `cmd/rojo`, `cmd/rojo-mcp`, `cmd/rojo-bench` | clients | submit and watch; verify; measure | HTTP, stdio |

What is hard about it, and what must hold:

* **No lease.** Workers start *before* recovery lists the jobs; nothing but the
  order of calls in `main.go` keeps a job from being run twice (`OneClaim`).
* **Two copies of a status.** The worker moves the job in memory and then writes
  the record, and handlers and recovery write records too. What a client reads
  must be what the worker does (`RecordIsCurrent`), and what is stored must walk
  the state machine whichever writes are refused (`ImplementsRun`,
  `ImplementsLifecycle`).
* **Deferred work on every exit.** Panics, cancellations, deadlines and refused
  writes all leave through three deferred calls whose order matters
  (`WorktreesRemoved`, `EndIsStoredAndTold`).
* **A second round over the first round's state.** The revision reuses
  candidates, reports, feedback and the artifact (`CompletedIsVerified`,
  `PatchIsWinners`, `DeadAttemptsStayDead`).
* **Keyed callbacks.** The canceller is keyed by job id, not by run
  (`CancelHitsItsJob`).
* **Crashes and shutdowns** at any point, with recovery reading what is left
  (`NoJobForgotten`, `InterruptedAreReclaimed`, `NoSendOnClosedQueue`,
  `ShutdownEnds`).
* **A log and a live stream of the same events**, under two locks, with two
  publishers, slow readers, readers that leave and a process that dies in
  between (`StreamAndHistoryAgree`, `NoSendOnClosedChannel`,
  `HistoryAgreesWithRecord`, `ImplementsFeed`, `NobodyWaits`).
* **One repository, many checkouts.** Calls of the gate share git's registrations
  and are given up while their checks run; a verdict must be about checks that
  ran, and a cleanup must take its own checkout and no other
  (`PassedMeansChecked`, `LeftoversAreReported`, `ImplementsContract`, `CallsReturn`).
* **Records on a disk that may forget.** A record is replaced in five steps, any
  of which may be refused or be the last of its process, next to a second server
  waiting for the directory (`RecordsAreWhole`, `IndexIsOnDisk`,
  `AcknowledgedIsOnDisk`).
* **Measuring from outside.** The benchmark charges a case with counters of the
  whole server, and judges patches that may rewrite the tests
  (`TaskSuccessIsTrue`, `AttributionIsExact`, `RunEnds`).
* **Forgetting clients.** The rate limiter drops idle buckets on the way of
  somebody's request (`OneTokenAtMost`, `IdleAreForgotten`).
* **A client that sees its job in glimpses.** `rojo run` reads events, status and
  patch in separate requests, against a bucket of the same server, while the job
  is cancelled, revised or recovered by others, and its user presses Ctrl-C
  (`ExitCodeIsTrue`, `LastPatchIsHandedOver`, `LoneClientIsServed`,
  `ClientReturns`).
* **Answers that are half an answer.** A reply may be cut off, refused or empty, an
  operation of it may be refused after others were carried out, and a revision is
  asked to correct what it is shown (`TreeIsAnswered`, `RevisionSeesWhatFits`,
  `CostIsKnown`).

`PROJECT.json` lists every component and every hazard with the properties that
would catch it.

## The modules

**`JobStatus`** holds the statuses and `legalTransitions` of `internal/jobs`.

**`JobLifecycle`** is the abstract specification: each job has a stored status
and a holder. Only a holder moves a status forward, a job is claimed only when
it is queued and free, and a job without a holder can only be refused at the
door or, after a restart, be failed because it was interrupted.

**`JobRun`** is the abstract specification of one run of a job, from the worker
that takes it to the worker that lets it go: its place (`at`), its context, its
revisions, the job's record and its checkout. A run begins with a queued job that
has no checkout, makes one while it prepares its workspace, moves the record along
`legalTransitions`, and is let go of with its checkout removed and its end recorded,
unless git or the store refused. `Service` has such runs side by side and
`Processor` has one in detail; both implement it (`ImplementsRun`), so what the
pool takes a run to be is what `Process` does. `Processor` maps by `placeOf`,
`contextOf`, `revisionsOf` and `mayFailOf`: a stage is one place, an end is one
step with its write, and a context that dies between a checkpoint and the write
behind it is noticed at the next checkpoint.

**`Processor`** is one run of `Processor.Process`. An action is one call the run
makes to something that can fail (store, git, model, verifier) and the code up
to the next such call; `pc` names the place. `cands` is `made` and the functions
over attempts (`tree`, `implErr`, `verifyErr`, `report`), the verifier
goroutines of a round are `pending` and finish in any order, `k` is the loop
index, `unwound` and `panicking` are the deferred calls. A tree is abstracted to
the number of the round that last wrote it, a patch to the attempt and the tree
it was taken from. `lost` and `judged` are history: the writes the store
refused, and the tree a report is about. A call under the job's context succeeds
only while the context lives; a call that ends just after the context died
commutes with the death, because the run looks at the context only between
steps. A member of `Setups` is a set of optional collaborators `main.go` may set
(`Wired`) and the failures that an instance then admits (`Faults`). `counted` is what
the run was counted as in the metrics, in the first of its deferred calls and so the
last to be made (`EndMetrics`).

**`Service`** is the API process: handlers, queue, worker pool, canceller, runs,
records, checkouts, recovery, and the phases of `main.go`. A handler is split
where another goroutine can come between: `Create`, `Enqueue` and `RejectFull`
are the three effects of `JobsHandler.Create`. A run is reduced to its status
moves (`Advance`), its checkout and its ends; what happens inside a stage is
`StageFails`, `Panic`, or nothing; `Processor` has the detail, and `JobRun` is what
the two agree on. `Recover` is
one action per listed job and per effect, because the workers it feeds are
already running. `Crash` and `Exit` forget everything but the records and the
checkouts (`Forget`); `Restart` lists the records.

**`Events`** follows the events of one job: from the handler and the run, each
with at most one `Publish` under way (`msg`, `at`), into the log (`AppendToLog`)
and then, under the bus's mutex (`lock`, `todo`), into the channels of the
subscribers (`Send`), one at a time, because clients read and the process may
die in between. The log is what `History` can read of the file, and `tail` what the
file ends in: a newline, half a line, or a whole event that only lacks its newline
and is readable. `Grow` is what a write leaves, of which all, part or nothing got
there, because it failed (`AppendToLog`) or because the process was killed in the
middle of it (`TearLine`): after a line without a newline the next event is joined
to it (`glued`), and a readable one is destroyed by that. `Accept` and `Subscribe`
are the two halves of a connection, the first of which the client sees; it may read
the history (`CatchUp`) in between. `Deliver` and `Unsubscribe` are the rest of it,
and `missed` keeps what passed it by. `watch` and `printed` are the polling loop of `rojo run`,
whose `seen` is the length of `printed`. The run is reduced to its publishing
and the writes of the record that come before or after it, in that order;
recovery publishes for it after a restart.

**`EventFeed`** is what the history promises a polling client: it grows at its end
(`Tell`); its last event alone, and only while it is `unsure` because its writer was
told of an error or died, may be lost again (`Lose`); and the client shows it by
position (`Show`), so that it repeats and reorders nothing, and skips nothing but an
event that took the place of a lost one.

**`Gate`** is `Gate.Verify` of the MCP server, with the worktree manager and the
check runner it calls. Each call goes through `Create` (two git commands under
the manager's mutex `mu`), `ApplyChanges`, the detection of presets, one action
per check that starts and one per way it can end, the diff, and the deferred
cleanup: remove, prune, delete the branch. `dirs`, `registered` and `branches`
are what git has on disk. The contents of a checkout are abstracted to which
operations were applied and whether a check wrote into it. `held`, `broke` and
`reported` are history. `StageOf`, `WorkOf`, `VerdictOf` and `CheckoutOf` are what the
caller sees of it. Left out: a panic of the command runner while it holds
the mutex, which is unlocked without a defer, and the end of the whole MCP
process with calls in flight.

**`GateContract`** is the abstract specification of the gate: what a call is to its
caller, who knows nothing of a mutex, of registrations or of other calls. It is asked,
works in a whole checkout, is answered once, leaves, and has returned when the checkout
is gone or its cleanup was said to have failed; a pass is one of checks that ran, or
says that there was none. A step is the step of one call, and the others keep what
they have. `Gate` implements it (`ImplementsContract`) although calls share one
repository and prune each other's registrations.

**`FileStore`** is the record of `filestore.go`: `AcquireLock` takes the
directory's lock and `Load` builds the index; `Begin`, `CreateTemp`, `WriteTemp`,
`Sync`, `Rename` and `Index` are the steps of `writeJob` under the store's mutex; a process is
killed or the machine loses power between any two. A record is the number of the
write it came from. `settled` is what the disk would have after a loss of power,
because nothing syncs the directory after a rename; `orphans`, `acked` and
`dark` are history.

**`Benchmark`** is `RunAll` and `RunCase` call by call, and `CheckPatch`, against
a server reduced to jobs, their model calls and their patches. A patch is one of
seven kinds. Besides those that do the task, do not do it, do not apply or are empty
there is one that brings its own version of the hidden assertions, one with a
directory in their place, so that they cannot be written (`CanOverlay`), and one that
keeps `go test` from judging by them (`evades`): a `TestMain` that exits with 0, a
module of its own around them, a link at their path. `left` is history: the cases
given up with their job still on its way. Left out are a restart of the server, which
would set its counters back, and jobs that other users of the server have running.

**`RateLimiter`** is the middleware, atomic under its mutex (`Request`), and time
(`Tick`), counted in the ticks that refill a fraction of a token so that all of it
stays in the integers. `last` stands for both `last` and `lastSeen`, which the
code always sets together. `credit` is a bucket that is never forgotten. A
request names the client and what earlier hops wrote into the header; probes of
the health path pass without touching the limiter and have no action. Its initial
state, time and specification have names of their own (`NewRateLimiter`, `Elapse`,
`LimiterSpec`), so that the client's proofs can be about both.

**`RunCommand`** is one `rojo run` and the server as it sees it. `Create`,
`PollEvents`, `PollStatus` and `FetchDiff` are requests, each of which passes `Chain`:
the token is checked, then the limiter, then the handler runs within its barrier. A
request may fail on either side of the handler, so that a job may be stored whose
client was told of an error. The job itself is `waiting` while it is in the queue,
then `Claim`, `Work` along `legalTransitions`, `SavePatch` (any number of times while
it is verified) and `Release`; a submission and `Restart` may find the queue full, and
the store may refuse any write of an end (`Unwritten`), so that nobody has a job that
its record says is not over (`Forgotten`); a patch is the round it was taken in. `AskToCancel` and `StopWatching` are
the goroutine that waits for signals. The bucket is exact and shared with the
`Neighbour`s of the address; `RateLimiter` has the one that forgets. Left out:
what a poll of the events returns, which is in `Events`, and the client's other
subcommands, which send one request each.

**`Agents`** is a job of one attempt, from the configuration to the review, one action
per prompt or effect; with several, a failed call need not end the job, which `CostIsKnown`
does not cover. `Start` is `main.go` up to the model client: environment over
file over default, what parses, what is refused, whose key. `Select` ranks the files
by what the keywords hit. `Plan`, `Propose` and `Review` each send one prompt; a reply
is the set of what is wrong with it, and `OpenAIAnswers` and `AnthropicAnswers` say
which are answers. `Apply` carries operations out one by one until one is refused, in
`FailToApply` one fails on the disk and may leave its file cut short (`CutShort`), and
`ReadSources` chooses what a prompt shows. A path has its clean name (`Clean`), where
it leads (`FileAt`), and whether it is named with dots (`Dotted`): `Apply` judges the
clean name, `ReadSources` the one that was given. A file is its size, and a symbolic
link is the file it leads to. `history` keeps what
whole answers asked for and what the provider spoke of. The gate's verdict is an
input. Left out: what a keyword, a prompt and a diff say, fences and loose strings in
a reply, the retries inside the SDKs, links to directories, and links out of the
repository, which `os.Root` does not follow.

Kept out of `Processor` and `Service`: the text of tasks, plans, prompts and patches;
`job.created` and progress events (only the terminal ones are kept, in `ended`);
durations and the queue's wait; logging.

The modules named `MC...` only add the constants of the instances; those named
`...Proofs` hold the theorems.

## The runs

| Run | Question | Bounds |
|---|---|---|
| `processor` | Is a run right however `main.go` wired it and whatever fails, and is it a run as `JobRun` has it? | 2 attempts, 1 revision; without a model key every fault, with one the usual faults or the rare ones |
| `service_faults` | Do submissions, runs, cancellations, recovery and shutdown keep jobs apart, and do what is stored and held implement the lifecycle, with crashes, refused writes and a drain that runs out of time? | 2 jobs, 2 workers, queue of 1, 1 restart |
| `service_live` | Where the store takes its writes and a drain has its time: is a job ever out of sight, does it end, does a signal end the process? | 2 jobs, 1 worker, queue of 1, 1 restart, 1 revision |
| `events` | Do the log, the stream and the polling client agree on a job's events, and is no job or client left waiting? | 1 stream client or 1 polling client, buffer of 1, 1 progress event, 1 restart, 1 refused or short write |
| `gate` | Is a verdict earned, is a checkout cleaned up and left alone, and is a call alone to its caller, whatever git, the file system and the client do? | 2 calls, one in a repository of two stacks, one in a bare one |
| `filestore` | Are records whole, is the index what is on disk, and does what was acknowledged survive a crash? | 2 processes on one directory, 2 jobs, 5 writes |
| `benchmark` | Is what is reported of a case true of its job, and does a run end? | 2 cases, 2 workers, 7 kinds of patch, 2 model calls per job |
| `ratelimiter` | Does forgetting buckets keep the limit, and are the idle ones forgotten? | 2 clients behind a proxy, burst of 2, TTL of 6 ticks, 22 ticks, sweep every 2 inserts |
| `client` | Is the shell told the truth, is the last patch handed over, and does the client's polling fit its server's limit? | 1 client, burst of 5, a poll every 2 refills, 1 revision, 1 restart, with and without a good token, `-apply`, neighbours, room in the queue and refused writes |
| `agents` | Is what is judged what was answered in full, does a revision see its attempt's work, and is the cost counted? | 720 environments, 7 repositories of 3 files, 7 paths, 31 proposals of up to 3 operations, any of which may fail, 3 files per prompt, 1 revision |

`MaxRevisions = 1` is the code's constant (`retry.go`). Two attempts are the
least for which the winner, the representative, a dead attempt and a
half-finished loop over checkouts differ; a third attempt adds another of the
same kind. Two jobs and two workers are the least for which a job can be claimed
twice and a cancellation can hit the wrong run; with a queue of one, two jobs
fill it, from submissions and from recovery. One restart is enough for a crash
in every state of a first life and a full recovery in the second; the proofs
drop that bound. One stream client is enough because clients share nothing but
the order in which the bus reaches them, and one kind of reader is present at a
time because a reader changes nothing the other reads. A buffer of one is full
after one event, so drops happen; with a progress event a run publishes a start,
a step and an end, and with a restart there are two lives of them. Two calls of the gate are the least of which one can prune what the
other needs; two stacks give a gate whose first checks pass and whose later ones
do not. Five writes over two jobs leave a record replaced, a write orphaned by a
crash and a second owner writing over it. Two cases and two workers are the least
for which the job of a case that was given up runs beside the next one. The
limiter's TTL is a burst and one token, the least for which `RefilledInTime`
holds, and 22 ticks are three of its TTLs, so that a client can have its bucket
swept under it, come back and have it swept again. A burst of five is the least
with which a lone client is served (`BurstIsEnough`), and with two refills per poll it
can only just pay for its two requests, so a model that spends one more fails; the
defaults are 30 and the same two. Of three tracked files one to three are selected, so
that with three files per prompt there is room for what an attempt created or none;
the third is absent, a file, or a link to the second or to the protected path. The
other four paths are one in a new directory, the protected one, a new one with dots in
its name, and one with `..` that is another name of the first. Each kind of operation
is proposed on each path alone, so the one after it in a revision meets whatever it
left; the pairs are those whose second operation needs, undoes or follows a refusal of
the first. 720 environments are every way
in which the variables, the file and the numbers can agree or not. Symmetry over
jobs, workers, processes or clients is used in safety runs only. The bounds in guards
are `MaxRestarts` (`Crash`; `Restart` of `RunCommand`), in `Events` `MaxRefused` (`AppendToLog`), in
`FileStore` `MaxWrites` (`Begin`), in `Benchmark` `MaxCalls` (`CallModel`) and in
`RateLimiter` `MaxTime` (`Tick`); `Rest` says a process at the bound of its
restarts may stay down.

`NoJobForgotten` needs a store that takes every write and a drain that has its time,
and `NoSendOnClosedQueue` the second of these; `service_live` has both, and
`service_faults` drops them. `InterruptedAreReclaimed` needs git to remove what it is
asked to remove, and so `service_faults` has git do it. `gate` has checks that write
no files; `DiffIsWhatWasApplied`, below, is about those that do. `WorktreesRemoved`,
`PatchIsWinners` and `DeadAttemptsStayDead` name in themselves the faults they do not
hold under, and `StreamAndHistoryAgree`, `HistoryAgreesWithRecord`, `TaskSuccessIsTrue`,
`ClientReturns`, `TreeIsAnswered` and `RevisionSeesWhatFits` the cases the code does not
cover; each is described below. Deadlock is checked except in `client` and `agents`, which really stop:
the client's process ends, and an attempt is over.

**Fairness.** `FairSpec` of `Processor` asks that a run that can go on does: each
of its calls is bounded by the job's deadline or a timeout of its own. `FairSpec`
of `Service` asks it of each handler, each run, each worker's receive, each
worker's reaction to a cancelled pool, recovery, and `main`'s own steps; and that
a supervisor starts a process again. `FairSpec` of `Events` asks it of each
publisher, of the run, of the polling loop and of the supervisor, and of no client
of the stream: a subscriber may never read, and the job still ends. `FairSpec` of
`Gate` asks that a call that can go on does, each of its commands being bounded by
a timeout, and that a call that is again and again able to take the mutex takes it:
Go's mutexes hand over to a waiter that has starved for a millisecond. `FairSpec`
of `Benchmark` asks that the harness goes on and that the deadline of a case
passes, and nothing of the server. `FairSpec` of `RunCommand` asks that the client goes
on (its requests have a timeout), that time passes, that a job which is in the queue is
taken, as long as it is there, and that a job which a worker has is moved on and let go
of. `service_live` has a queue that is received from by the fairness of its workers,
and `EventuallyReturns` says that a run ends. Nothing is asked for a job that is
`queued` and in no queue: it is the one exception of `ClientReturns`. Nor is anything
asked of signals, of the cancelling goroutine or of neighbours. Nothing is assumed of users, crashes, signals,
which branch a `select` takes, or, outside `Benchmark`, of deadlines.

### Where the code and its documents disagree

These runs are expected to find a violation; `PROJECT.json` quotes both sides.

| Run | What happens |
|---|---|
| `client_giveup` | Ctrl-C twice on a job that is still queued: the request to cancel is answered 409 because no worker has the job, is not repeated, and the client exits with 2 while the job goes on to run. |
| `agents_revision` | With a selection that fills `maxSourceFiles`, a revision is not shown the file that its attempt created, because what was touched is appended to what was selected. |

More can be seen by changing an instance, for which no run is kept:

* `Processor` with `PROPERTY CancelIsHonoured`: a cancellation inside a stage ends
  the job `failed`, not `cancelled`; with `INVARIANT PatchIsCurrent`: a revision that undoes
  the change leaves the rejected patch as the artifact (both with
  `Setups <- NothingFails`); with `Setups <- StoreRefuses` and
  `INVARIANT NoJobIsAbandoned`: the write of `completed` is refused after the job
  moved in memory, `markFailed` cannot move a completed job, and the record stays
  `reviewing`.
* `Processor`, with the exceptions that its properties name taken out of them: a
  `git worktree add` killed half way (`killed_create`) leaves a checkout that is in no
  candidate, a panic while the second checkout is made (`panic_create`) loses the
  first, and a reviewer that asks for changes without notes (`empty_notes`) revives
  an attempt that failed.
* `Service` with `INVARIANT NoCheckoutOutlivesItsJob`: a crash between the terminal
  write and the deferred cleanup leaves a checkout that recovery does not look for.
* `Events` with `INVARIANT SeenIsInHistory`: after a crash or a short write that left
  half a line, the next event is joined to it; it is streamed, and the history never
  shows it. With
  `StreamIsInHistoryOrder`: the handler's `job.created` and the run's `job.started`
  are logged in one order and streamed in the other.
* `Gate` with `Faults <- OnlyCancel`, `Stacks <- PythonOnly` over one call and
  `INVARIANT NothingIsLeft`: a call is given up during `git worktree add`, `Create`
  reports an error, so no cleanup was deferred, and what git made stays without a word
  in the log (`internal/workspace/git.go:73`).
* `Gate` with `Faults <- OnlyWrites` and `INVARIANT DiffIsWhatWasApplied`: files that a
  check writes are in the diff that the tool calls the one that was applied; with
  `Faults <- OnlyCancel` and `FailedMeansRan`: a call given up during its last check
  is answered as a failed check, without an error.
* `Events`, with the exceptions of `CatchUpIsComplete` taken out of it: a client that
  reads the history between the 101 and the `Subscribe` behind it
  (`internal/api/stream.go:35-44`) goes without an event that is published in that
  gap; and an event whose write only lost its newline is in the history, but its
  `Append` returned an error, so that it is streamed to nobody. With a `Lose` that
  `EventFeed` forbids: that event is shown to a polling client, and then destroyed by
  the next one, which takes its place and is not shown to that client.
* `RunCommand` with `<>(pc = "exit")`: a queued job that finds no room at recovery
  (`internal/orchestration/recovery.go:85-90`) has nobody who would run it, `watch` has no
  deadline, and its client polls for ever; so does the client of a job whose last
  write was refused.
* `Benchmark` with `Counts` of `works` alone: a patch that evades the assertions counts
  as done. The comment at `internal/benchmark/verify.go:37-39` says that a patch which tries to
  weaken the hidden test cannot; the overlay writes the test back, but `go test`
  runs a `TestMain` of the patch, skips a module of its own, and `os.WriteFile` follows a
  link at the test's path (`internal/benchmark/case.go:185-196`).
* `Agents`, with what its properties except taken out of them: an operation on a link
  in the repository changes the protected path that the link leads to; a write that
  fails has already cut its file; an answer that Anthropic stopped as a refusal, with
  text in it, is carried out (`internal/agents/model/anthropic.go:129` looks at the token limit
  only); and a file that was touched under a name with dots is not shown to the
  revision (`internal/orchestration/sources.go:48`).
* `Benchmark` with `Faults <- OnlyDeadline` and `INVARIANT FalseSuccessIsTrue`: the
  deadline of a case kills `git apply`, the failure counts as a patch that does not
  apply, and a good patch as a false success; with `SequentialIsEnough`: a case
  that was given up leaves its job running and the next case is charged for it,
  though cases run one after the other; with `Faults <- OnlyInterrupt` and
  `StopsBetweenCases`: an interrupt cuts the case in flight short
  (`cmd/rojo-bench/main.go:70` says it stops after it).
* `Agents` with `INVARIANT EveryTokenIsCounted`: a reply that was cut off or came back
  empty is an error without a usage, so its tokens are not counted, although
  the comment at `internal/metrics/model.go:25-28` says that the usage of a failed call
  is recorded too.
* `RateLimiter` with `INVARIANT DroppingIsExact`: a client's bucket is swept on the way
  of its own request, and the token it then spends is forgotten
  (`ratelimit.go:52-53` says dropping changes nothing); with a burst that takes
  longer than the TTL to refill, `OneTokenAtMost` fails as well.
* `Service` with `Faults <- StopOnly` and `INVARIANT CancelledWasAsked`: a graceful
  shutdown ends running jobs `cancelled` though nobody asked (README.md:79 of the
  repository reserves that status for a caller asking); with
  `Faults <- CrashAndStore` and `RejectedNeverRuns`: a submission answered 503
  whose `failed` write was refused runs after a restart.

Smaller observations, from reading: a slow subscriber is never disconnected, its
events are dropped and nothing counts them, because no binary calls `OnDrop`; a
job rejected at a full queue is `failed` without a `job.failed`; `rojo run` may
return before it printed the last events, because it reads the status after the
events. A loss of power may undo writes of the store that were acknowledged, because
the directory its renames are in is never synced, and any number of lines of the event
log, which is not synced either and for which `Events` has no loss of power; the temporary files of a killed
process stay; the artifact is written in place and unsynced; and where
there is no `flock` (`lock_other.go`) a directory may have two owners. A benchmark
case whose counters could not be read afterwards is measured with no calls, and the
fixture of a case that was given up is removed under its running job. A process killed between the write of `completed` and its event leaves
a history without an end (`HistoryAgreesWithRecord` names the exception).
With a rate below five requests per second, or with another client at its address, a
`rojo run` is answered 429 in the middle of its polling, prints an error and exits with 1
while its job goes on; a patch that cannot be fetched from a completed job is an exit
code of 0 and an empty stdout. The comment of `internal/api/recover.go` says that the
streaming endpoint uses `http.ErrAbortHandler`; it does not. `maxSourceTotalByte` is
checked before a file is read and may be exceeded by one file. The tree in a prompt is
the one from before the first round. A path with `..` in it is never shown to the
implementor, even inside of a name, and one that was touched under two names is shown
twice. An append makes no directories where a write does. `Store.Close` gives the
directory's lock back without the store's mutex, so that a handler that outlives a
drain which ran out of time may write beside the next owner; `FileStore` has no such
handler.
`ROJO_RATE_LIMIT_RPS=NaN` passes validation.

## The proofs

Every theorem holds for all values of the constants that the module's own assumption
admits (`ServiceAssumption` and its like, which the modules state about their
constants and TLC evaluates in every run), every fault included; where a theorem
needs more, its statement says so and it is named here.

### The process

`ServiceProofs` proves, for any sets of jobs and workers, any queue capacity and any
number of restarts: `TypeCorrect` (`TypeOK`), `OneClaimPerJob` (`OneClaim`),
`RecordsAreCurrent` (`RecordIsCurrent`), `CancelsHitTheirJob` (`CancelHitsItsJob`),
and `Refinement`: the service implements `JobLifecycle`.

`OneClaim` is not inductive: it says nothing of what a worker that is idle holds, of
what is queued while the process is down, or of why recovery's listing may be
trusted. `IInv` adds that:

* `Claims` states the exclusion per kind of claim (a request still submitting, a
  place in the listing, a slot of the queue, a worker), and that slots and workers
  are distinct;
* `IdleIsFree`: a worker has a job exactly when it is past its receive;
  `DownIsEmpty`: a process that is down holds nothing; `AbsentIsUnclaimed`: a job
  without a record has no claim at all, so that `Create` adds the first;
* `PendingIsQueued` and `ListingIsCurrent`: the record of a job that is still being
  submitted is `queued`, and the record of a job recovery has yet to handle is what
  the listing says, so that what recovery does with a stale-looking listing is
  right;
* `RecordIsCurrent` and `CancelHitsItsJob` themselves.

Each action is one step of `StepIInv`, by the kind of conjunct it disturbs. The
refinement needs one more invariant, `RunsAreOpen` (until a run's end is written its
record is not terminal), and a mapping from `wjob` to the holder of each job; every
action is one abstract step or none, and a crash is `LetGoOfAll`.

Two facts hold while nothing beyond the process's control goes wrong, each with its
assumption on `Faults` in the theorem. `SendsMeetAnOpenQueue`
(`NoSendOnClosedQueue`, when the drain has its time) rests on `ClosedIsDrained`: a
process that is stopping has no request in flight, and the queue is closed in no
other phase. `JobsAreNotForgotten` (`NoJobForgotten`, when also the store takes
every write) needs two more on top of `IInv`: `EndIsStored` (a run past its end has
a terminal record) and `JobsAreHad` (while the process recovers or serves, a job
that is not over is queued, running, being submitted or still in recovery's
listing).

`LeftoversAreReclaimed` (`InterruptedAreReclaimed`) is for a git that removes what
it is asked to remove (`"cleanup" \notin Faults`). Its invariant is `OnDisk`: only a
job that was begun has a checkout (`CheckoutsAreOfStarted`), a run past its cleanup
has none (`CleanedUpIsGone`), and while recovery works a checkout is that of a job
it has yet to handle, of one that runs already, or of one that was over when the
process started (`CheckoutsAreKnown`).

### A run, twice

`ProcessorProofs` proves, for up to eight attempts, any number of revisions, any
collaborators and every fault, that what a run says of itself is so:
`CompletedIsVerifiedHolds`, `PatchIsWinnersHolds`, `WorktreesRemovedHolds`,
`EndIsStoredAndToldHolds`, `DeadAttemptsStayDeadHolds`, `TypeCorrect`, and
`StoredStatusIsLegalHolds` (each status written to the record is one that the last
one may become). None of them is inductive, because each is about the end and has to
be carried through all the places of `Process`. `IInv` has a part for each thing a
run carries:

* `OnItsStage`: the status is that of the stage the run is on;
* `OpenUntilItEnds`: until a run starts to end, memory and record agree and neither
  is terminal, and each deferred call knows what it is made after;
* `EndIsToldOnce`: no end is told before the job is moved to it in memory, none
  twice, and it is stored unless the store refused it;
* `AttemptsAreMade` and `CheckoutsAreKnown`: which attempts there are behind
  `preparing_workspace`, and that a checkout on disk is one of theirs or in the
  making;
* `GateIsAboutTheTree`: what the gate said of an attempt is about the tree it has
  now, and behind the gate the winner is one that passed it;
* `PatchIsOfTheWinner`: from the capture on the artifact is the winner's tree;
* `DeadAreBehind`: in the first round an attempt dies only behind its turn.

`RunsAsServiceHasIt` proves that `Processor` implements `JobRun`. It adds `RunInv`:
the next status is a legal one, what is written after a panic is `failed`, and what
was refused or kept is something that can fail here. Every action is one abstract step or
none, sorted by what it does to the place (`BeginningsImplement`,
`AdvanceImplements`, `StagesImplement`, `EndsImplement`, `DeferredImplement`).

`RunsAreRunsOfProcess` proves, in `ServiceProofs`, that the runs of the pool
implement the same `JobRun`: on top of `IInv`, `RunsInv` has `RunsAreOpen`,
`CheckoutsAreOfStarted` and `BeginsUnrevised`, and `Placed` says that a job's place
is that of its one worker, which is what `OneClaim` is for. Steps are shown job by
job (`EachRunSteps`); a crash ends all runs at once (`EndOfAllRuns`). TLC checks the
mapping too when `ImplementsRun` is added to a `PROPERTY` of `MCServiceLive.cfg`.

### Events and the gate

`EventsProofs` proves, for any clients, buffers, numbers of progress events,
restarts and refused, short and torn lines: `ChannelsAreOpen` (`NoSendOnClosedChannel`),
`StreamsAndHistoryAgree` (`StreamAndHistoryAgree`), `RecordAndHistoryAgree`
(`HistoryAgreesWithRecord`), `TypeCorrect`, and `Refinement`: log and polling client
implement `EventFeed`. Its `IInv` says

* of the bus, `BusIsHeld`: who publishes holds the lock, and `todo` has only
  channels that are registered and open;
* of the publishers, `SilentWhenIdle` and `PublishedOnce`: what one has published is
  behind it (`Past`), so no event is published, logged or streamed twice, though the
  handler, the run and after a restart recovery publish for one job;
* of the clients, `PrintedIsPrefix`, `NothingElseStreamed` (what was streamed was
  logged, or its line glued to another) and `NoGap`: for a client that caught up, whether
  it is subscribed yet or not, each event of the log was in what it read, was received,
  waits in its channel, passed it by, had an error, or is on its way (`Reaches`);
* of the file, `WholeIsUnsaid`: a last line that only lacks its newline is of an event
  that no publisher is at and that no client has, so that nothing is taken back from a
  stream when the next line destroys it;
* of the record, `EndIsNoted`: the end that the record has, or that a run is about
  to write, is the last end of the log once its event was published, and in a line that
  nothing can destroy (`Firm`), unless it was lost.

`GateProofs` proves, for any calls in flight, any stacks and every fault:
`PassesAreChecked` (`PassedMeansChecked`), `LeftoversAreAccountedFor`
(`LeftoversAreReported`), `CheckoutsStay` (`CheckoutStays`), `TypeCorrect`, and
`Refinement`: the gate implements `GateContract`. The invariant is one
of each call (`CallInv`): what its report may say at its place (`ReportIsSound`),
that it has a checkout wherever it works in one (`HasCheckout`), and that what it
leaves is what a command failed to remove (`IsAccountedFor`). A step of another call
leaves all of it `Untouched`; that a prune of another call does is what the three
sets of git are there for. For the types it takes `ChecksLeft` (what was run and what
is planned are six together at most). The refinement rests on `DiskInv`: the
directories are among the registrations and these among the branches (`Nested`),
because git makes a branch first and takes it away last, so that a registration
that somebody else's prune removes shows nowhere; and a call holds what `Create`
returned until it returns (`Opens`). With it each step of a call is one of the
contract for that call (`OwnStep`) and none for the others (`OthersAreNotSeen`).

### The disk, the benchmark, the limiter and the client

`FileStoreProofs` proves, for any processes, jobs and number of writes:
`RecordsStayWhole`, `IndexFollowsDisk` and `AcknowledgedStaysOnDisk`. Its `IInv`
adds what the three need of each other: `OneOwner` (only the holder of the lock has
left `off`), `TempIsReady` (a process that is about to rename has a temporary file
that is whole and synced) and `WritesAreFresh` (a write under way is of a job and
newer than every write that was acknowledged).

`BenchmarkProofs` proves, for any number of cases, workers and calls:
`SuccessesAreTrue` (`TaskSuccessIsTrue`, by `JudgedIsTrue`: what passes behind the
overlay is what does the task or evades it) and `ChargesAreExact`
(`AttributionIsExact`). Exact charging is not inductive without the history of the
cases: `InOrder` (later cases have left no trace, of earlier ones only those in
`left` still have a running job), `InHand` (while the case in hand runs alone, the
counter has grown by its calls) and `MeasuredIsOver` (what was measured makes no
more calls).

The last section of `RunCommandProofs` proves `SweepsForgetTheIdle`
(`IdleAreForgotten`) and `BucketsAreTyped` for all constants, and
`ClientsKeepToTheirLimit` for those with `RefilledInTime`, an assumption of the
theorem that the defaults meet and the configuration does not check. `OneTokenAtMost`
alone is not inductive: a client could be given a token at each sweep.
`CreditRecovers` says that what a client owed when it was last seen comes back with
time, so that by the time its bucket may be forgotten the exact one is full again and
the tokens given do not add up. `SweptClean` (nothing left is older than one TTL
before the last sweep) carries the other theorem.

`RunCommandProofs` proves `LoneClientsAreServed` (`LoneClientIsServed`) for any
burst of at least five (`BurstIsEnough`), any interval of at least two refills
(`RateIsEnough`), any revisions and every fault. The invariant says what the client
must be able to pay at each place of its loop (`Enough`): with the tokens it has and
the ticks it has yet to sleep, for its next round, its fetch, and the cancellation
it has not asked for (`Reserve`).

`ExitCodesAreTrue` (`ExitCodeIsTrue`) and `LastPatchesAreHandedOver`
(`LastPatchIsHandedOver`) hold for any limits, restarts and revisions. A client
reads in glimpses, so what it knows may be old: `ExitInv` says that what it heard
was so (`HeardIsSo`; an end, once heard, is never taken back, and its patch no
longer changes) and what it was told by the time it exits (`ToldOnExit`).

`TypeCorrect` needs `TrackedIsThere`, that a job which is in the queue or with a worker
is on record, so that its moves are moves between statuses.

### The agents

`AgentsProofs` proves, for any paths, environments, bounds and numbers of revisions:
`CostsAreKnown` (`CostIsKnown`), `TreesAreAnswered` (`TreeIsAnswered`),
`RevisionsSeeWhatFits` (`RevisionSeesWhatFits`) and `TypeCorrect`. The assumption it
rests on is `AgentsAssumption`; of the environments it says that a key is named after
the API it is for. The invariants are

* `CostInv`: how many calls there were by each place of the attempt (`CallsSoFar`), and
  that the tokens counted are those of the calls that were answered (`TokensSoFar`),
  because a reply is counted where it is found whole and nowhere else;
* `TreeInv`: the checkout is what the committed tree becomes when the operations of
  all answers before the one in hand are carried out on it (`Judged`); a failed attempt
  was stopped somewhere on the way, and differs from that place in one file at most
  (`Stopped`); and no protected path has changed but through a link (`Guarded`);
* `FilesInv`: what is on its way to `Apply` was asked for with what `ReadSources` could
  read at the time, so that what a revision sees is about the tree it revises;
* `LimitInv`: the client has an API and a key, and there are no more revisions than
  there may be.

`TreeIsAnswered` speaks of a second reading of the operations, `CarriedOut`, which knows
of no refusals. `ApplyCarriesOut` shows that `ApplyOne` does the same to the tree
for as long as nothing is refused: `Made` and `Followed`, the folds of the two, go on
operation by operation (`MadeMore`, `FollowMore`), what went well was `Allowed` all the
way (`OkMeans`), and an allowed operation changes a protected path only where a link of
the repository leads to it (`AllowedGuards`), because no operation makes a link, so that
a path that leads elsewhere does so by a link that was committed (`LinksAre`, `FileIs`).
`CutShortIs` is the same for an operation that fails.

The folds over a list are `MergePaths` of touched and selected files, what `ReadSources`
reads until its bounds are full, what `Apply` makes of a checkout, and what the history
does. A fold of the library is a choice of a function that satisfies a recursive
equation, so that nothing can be said of it before it is shown that there is one.
`Induct` does that: it is induction over the natural numbers for a set instead of a
formula, from the well-foundedness of `<` that the library has. `IterExists` gives the
function for lists of any length, and each fold a trace, the list of its intermediate
results (`MergeTrace`, `ReadTrace`, `ApplyTrace`, `FollowTrace`), which is what `MergeIs`
and `ReadIs` then speak of. `PlacesAreTaken` shows that ranking the files by score and
name is a bijection with the places of a list (`BetterIsAnOrder`), so that the selection
is the best ones and none twice.

### Only model-checked

* Liveness (`EventuallyReturns`, `AcceptedJobsEnd`, `ShutdownEnds`, `NobodyWaits`,
  `CallsReturn`, `RunEnds`, `ClientReturns`): fairness and `ENABLED` are out of the
  prover's reach.
* The two disagreements of `client_giveup` and `agents_revision`, which are
  counterexamples.

Every other property of a run is stated by a theorem, and so is the type invariant of
every module that has variables, except those of the abstract specifications.

## The plan

Done, in the order it was planned: the lifecycle (`JobStatus`, `JobLifecycle`), a run
(`Processor`), the process (`Service`), events (`Events`, `EventFeed`), the gate with
its workspaces and checks (`Gate`, `GateContract`), the records (`FileStore`), the
benchmark (`Benchmark`), the limiter (`RateLimiter`), the client (`RunCommand`), the
agents with what they are shown and may do (`Agents`), one run as the pool and the
processor both have it (`JobRun`), and the proofs above.

Left: `ListOrphans`, which no binary calls, and the paging of the job listing over jobs
that come and go.

Not modelled: the checks of a submission and the views of health and metrics, which
change nothing (the metrics are read one counter at a time, so that totals may be from
different moments); prompts, the extraction of keywords and the rendering of the
client, which are text; the container runner, which is wired into nothing; the
retries of the model SDKs, which are not in the repository.
