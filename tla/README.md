# SepraAI in TLA+

Specifications of the SepraAI backend (`src/sepraai-backend`), checked with TLC
on small instances and proved with TLAPS where a fact should hold for every
number of chunks, jobs, codes, words, deliveries and retries.

## The system

SepraAI turns a prompt into lecture videos. The API creates a curriculum job
with its part jobs and chunks; workers taken from queues render each chunk in a
subprocess, upload video and audio to MinIO, and record the result in Postgres;
an agent repairs chunks that failed; a reaper collects abandoned ones; a
reviewer approves a finished part. Next to that pipeline, the same API runs
quiz and chemistry-video jobs as background tasks of its own process.

| component | state it keeps | operations | interacts with |
|---|---|---|---|
| Render workers (`workers/run_worker_manim.py`, `run_worker_remotion.py`) | local variables of a task | one task: gate, RENDERING, render, upload, commit, rollup; handler: FAILED, rollup, escalation | rows of `chunks`, `video_part_jobs`, `asset_cache`, `dead_letter_queue`; bucket; delivered by ARQ |
| Concurrency helpers (`core/concurrency.py`) | none | `optimistic_update`, `atomic_chunk_commit`, `aggregate_job_rollup`, `enqueue_to_dlq`, `run_chunk_reaper` | called by workers, agent and API inside or outside their transactions |
| Shared rows (`core/models.py`, `core/database.py`) | the tables; the bucket | SQL at READ COMMITTED | everything |
| Healing agent (`agents/healing_agent.py`, `workers/run_worker_healing.py`) | `healing_attempts` | attempt, escalation, back to PENDING | chunk rows, rollup, dead letter queue |
| Curriculum API, review gate (`api/routes.py`) | status and `approved_by` of a part job | create, read, approve | job rows |
| Verification graph (`agents/graph.py`, `consensus_node.py` and the agents) | a state dictionary | nodes and routing; fallback orchestrator | in process |
| Quiz pipeline (`core/quiz_pipeline.py`, `api/quiz_routes.py`) | `quiz_jobs`, `quiz_items`; locals of a task | request; create, judge, repair, persist | background task of the API process |
| Chemistry jobs (`core/chemistry_generator.py`, `api/chemistry_routes.py`) | `chemistry_video_jobs`, the video files | request; draw, compile, retry, record | background task and a thread of the API process |
| API process (`api/main.py`) | which tasks run | start, stop | its event loop is shared by requests and background tasks |
| Splitter, time scaler (`orchestration/`) | none | pure functions | - |
| Manifest lock (`core/models.py`, `core/database.py`) | `is_locked` | ORM listener, trigger | - |
| Backpressure (`api/backpressure.py`) | queue depths in Redis | admit or 429 | Redis |
| Broker (`orchestration/arq_broker.py`) | heartbeat keys | retry, timeout | Redis |
| Sandbox runtime, renderers, GPU workers, checkpoints (`workers/`) | files | subprocesses, stubs | render workers |

### What is hard in it

* Every statement of a task can interleave with every statement of another one:
  a redelivery, a second job for the same chunk, or two chunks with the same
  code and hence the same cache key.
* `optimistic_update` refreshes the version it expects and writes again. What
  its caller concluded from the row it had read is not looked at again, so the
  lock serialises the writes and the last writer wins.
* `enqueue_to_dlq` commits. Called from `optimistic_update` in the middle of a
  transaction it commits what the caller had written so far.
* Transactions begin implicitly with the first statement on a session. The
  rollup after a success runs in such a transaction, which nobody commits; and
  `session.begin()` after a read is refused, which ends every render task before
  its first write.
* A worker may die at any statement. Its locks go, its uploads stay.
* A background task is all that knows of its job: when the response fails, a
  write fails or the process ends, the row stays as it was last written.
* A commit may be applied and its reply be lost: the task then goes on as if it
  had failed, over a job that says otherwise.
* The splitter's look-ahead promises a gap that later passes must find again.

`PROJECT.json` lists these hazards and the others, line by line, with the
properties that cover them.

### What makes the components correct

* Render workers: a cache row names an uploaded object; a chunk shows only
  cached videos; an acknowledged delivery leaves a video behind; a cache row is
  written once; RENDERED is final; each delivery ends; each failure is
  escalated; the job follows its chunks.
* Reaper and healing: no RENDERED chunk is lost to them; a chunk is healed a
  bounded number of times; none stays in HEALING.
* Review gate: what is reviewed, approved or completed has its videos.
* Quiz jobs: all items or none, each sound and at the price of its rounds, which
  are bounded; an unfinished job has a task at work or a known reason why not.
* Chemistry jobs: what says done can be played; attempts are bounded; an
  unfinished job as above. Every background task ends.
* Splitter: the chunks partition the words; none is longer than its last word
  makes it; the grace is used to end at a gap.

## The modules

| module | models |
|---|---|
| `MediaStore` | the shared rows and the bucket, their types, the helpers that compute new row values |
| `RenderWorker` | both render tasks, statement by statement, over `MediaStore`; the properties |
| `Healing` | the healing task: the verification loop and the healing cycle, over `MediaStore`; its properties |
| `Reaper` | `run_chunk_reaper`, over `MediaStore` |
| `ReviewGate` | the approval of a part job, over `MediaStore` |
| `Pipeline` | render workers, healing workers, the reaper and reviewers on the same rows; their joint properties |
| `ChunkLifecycle` | what the render pipeline promises about a chunk, with no workers, locks or versions |
| `Splitter` | `split_narration_into_chunks`, one step per word |
| `Transactions` | what the background tasks' transactions may leave |
| `QuizJob` | a quiz: request, background task, creator, judge and repair |
| `ChemistryJob` | a chemistry video: request, background task, the generator's thread |
| `ApiProcess` | the process that runs both, its event loop, its end and its restart |
| `MCRenderWorker`, `MCHealing`, `MCPipeline`, `MCSplitter`, `MCApiProcess` | the small sets TLC uses |
| `RenderWorker_proofs` | type correctness |
| `RenderSafety_proofs` | the inductive invariant and the safety theorems; without overlap, the refinement of `ChunkLifecycle`; what a worker needs of other actors |
| `Healing_proofs` | types, the inductive invariants and the safety theorems of the healing task; what it needs of other actors |
| `Pipeline_proofs` | the invariant of the composition and its theorems |
| `Splitter_proofs` | types, the inductive invariant and the theorems about chunks |
| `QuizJob_proofs`, `ChemistryJob_proofs` | the inductive invariants of the two kinds of jobs; sums of costs |
| `ApiProcess_proofs` | the process implements both; their theorems for the process |

### MediaStore

Each row is a record with the columns that the statements tell apart: for a
chunk status, version, video and audio path, for a job status and version, for
a cache row its storage path. A code stands for its SHA-256; a path for the
parts it is formatted from (`VideoKey`, `AudioKey`), so two paths are equal
exactly when their strings are. The Manim and Remotion tasks differ in the
prefix of their keys only, which is what `Pool` is for. The dead letter queue is
a set: equal entries are one, since no property counts them.

A variable holds what is *committed*. What a transaction has written and not
committed is derived from where its delivery is (`Held` in `RenderWorker`), and
the rows concerned are in `locked`, which makes the writers of the same row
wait, as row locks do under READ COMMITTED. Readers do not wait.

### RenderWorker

`worker[d]` holds the local variables of one execution of a task. A delivery is
started by `Deliver`, with any chunk and any code, as soon as the constant
`Overlap` lets it: with `Overlap = FALSE` a chunk has at most one running
delivery at a time, which is what a queue that redelivers only after a crash
gives; with `TRUE` it may have several, which is what ARQ's at-least-once
delivery and the absence of any check against a second enqueue allow.

| code (Manim task; the Remotion task has the same statements) | action |
|---|---|
| load the chunk, lines 56-67 | `Deliver` |
| cache lookup, gate, entry to `begin()`, 69-80 and 106 | `LookUpCache`, `Gate` |
| no-op re-commit, 80-94 | `Recommit` |
| RENDERING, 106-115 | `StartRender` |
| workspace, 118-139 | `WorkspaceFails`, or on to the next |
| render and upload, 141-162 | `RenderAndUpload`, `RenderFails` |
| `atomic_chunk_commit`, 165-174 | `AtomicChunkCommit`, `DuplicateHash` |
| handler's update, 197-205 | `MarkFailed` |
| a conflict in any of those updates, its retry, its last attempt | `Conflict`, `Refresh`, `Exhausted` |
| `aggregate_job_rollup`: counts, job row, update and its conflicts | `CountChunks`, `ReadParent`, `UpdateParent`, `ParentConflict`, `RefreshParent`, `ParentExhausted` |
| end of the transaction the rollup is part of, return or raise | `Close` |
| worker death, ARQ timeout | `Interrupt` |

Three points where the library decides what the code does:

* `BeginAfterRead`. In SQLAlchemy 2, which `requirements.txt` asks for,
  `session.begin()` raises `InvalidRequestError` once a statement has begun a
  transaction on the session. Both tasks read before they call it, so with
  `FALSE` no render task gets further, which is what the run `begin_after_read`
  shows. With `TRUE` the block joins the open transaction, as the code intends.
  That adds behaviours and takes none away, for an execution may end there with
  `TRUE` too (`Interrupt`); so what the passing runs of the render workers show
  with it holds of the code as it is and of the code with that repaired. No
  counterexample rests on it.
* `Returned`. When an update matched on a retry, the ORM does not synchronise
  the object loaded before with it, and may hand back that object with its old
  version. The model allows both.
* A commit inside `begin()` ends the transaction; the exception raised next
  leaves the block without undoing it (`Exhausted`, `ParentExhausted`).

Statements between which no other transaction can see a difference are one
action: the two file uploads (deterministic keys, nothing reads one without the
other), and the UPDATE with the COMMIT that follows it at once. Backoff delays
are not modelled: any step of others may come between `Conflict` and `Refresh`.

### Healing

`healer[o]` holds the locals of one execution of
`run_healing_orchestration_task`; `attempts` the rows of `healing_attempts`.
The task runs `FallbackOrchestrator` (langgraph is not in `requirements.txt`),
which verifies the chunk and calls the healing cycle until the verdict is
"passed". The agents' nodes are stubs that pass everything; the router and the
consensus node handle a rejection too, so `Feedback` says what the two
reviewers may find, `Passed` what the consensus makes of it, and the runs leave
both open. (A contradiction between them sets an override that nothing reads.)
The time budget, a wall clock, is left open as well: at each of its two checks
it may be spent (`OverBudget`, `HealFails`) or not.

| code (`agents/healing_agent.py`, `agents/graph.py`) | action |
|---|---|
| one pass of the loop, `should_continue` | `Verified`, `InBudget`, `OverBudget` (which has written its dead letter) |
| attempt number, from the count of logged attempts | `CountAttempts` |
| the chunk and its version, in a session of its own or the one that expires | `LoadChunk` |
| no attempts left: dead letter, then FAILED | `Escalate`, `WriteOutcome` |
| HEALING | `StartHealing` |
| vLLM, the second budget check | `HealFails`, `LogAttempt` |
| PENDING, rollup, and round again | `WriteOutcome`, the rollup's actions, `Close` |
| conflicts of its updates | `Conflict`, `Refresh`, `Exhausted` |
| `except Exception` | `RecordError` |
| process death, cancellation | `Interrupt` |

The update of the outcome and the rollup share a transaction, so the chunk is in
`locked` from `WriteOutcome` to `Commit`. `BeginAfterRead` is the constant of
`RenderWorker`: here it matters on the expiry path only, which reads before
`begin()`. The `healing` run has it FALSE, as in SQLAlchemy 2: the task then ends
with an exception after the dead letter, which `FailureIsEscalated` allows.

### Reaper

`Start` and `Stop` are external: nothing in the repository starts the daemon.
The model keeps no clock. The threshold is computed once, before the loop, so a
chunk is old at a later pass exactly if nothing has updated it since it was old
when the daemon started; every such update is an `optimistic_update` and bumps
the version, so `before[c]`, the version of an aged chunk at the start, decides
it. The first transaction (`FindStuck`, `Reap`) sets FAILED with a plain flush:
it compares no version and writes none, hence may overwrite what was committed
since its SELECT. The second rolls up each chunk's job; `wrote` is what it has
written and not committed, `loaded` the ORM objects of its session. The session
refers to them weakly: a second rollup of the same job is given the object of the
first as it was loaded, or, if it is gone, the row (`Selected`).

### ReviewGate

`reviewer[r]` holds the locals of one request to approve a job, `approvedBy` the
column it writes. `SendToReview` is external: no code of the repository puts a
job into REVIEW_GATE, and without it nothing could be approved. `Request` reads
the job and checks its status; `Approve` writes COMPLETED and the approver with
the version read there or, after `Conflict` and `Refresh`, with a later one. The
status is not looked at again, so an approval may complete a job that a rollup
has taken away from the gate.

### Pipeline

`Pipeline` instantiates the four modules over one set of rows; a step of one
leaves the others' locals alone. `Fairness` is weak fairness of each actor's own
steps, as below. Its properties are those that only the composition can break:
a rollup on counts that the reaper has overtaken, a late answer of a renderer
whose chunk was reaped, locks held by transactions of three kinds (an approval waits for a row and
holds none meanwhile). `AssembledHasVideos` speaks of jobs that are assembled,
under review or completed, and of those that were ever approved. It asks for a
video and not for RENDERED, since with overlapping deliveries a retried update
may take a chunk of an assembled job out of RENDERED; an ASSEMBLED job is reachable through the
committing rollups, those of the handlers and the reaper, when a chunk was reaped
and rendered by a late worker.

### Splitter

`words` is the narration, `i` the loop's index, `first` the first word of the
current chunk, `chunks` the closed ones as ranges of words. Times are whole
numbers of a unit; the runs take tenths of a second, in which the limits (30,
45 and 3 seconds, 0.5 and 0.4) are whole. `Split`, `Continue` and `Finish` are
the ways through the loop's body; `GapAhead` is the inner loop: it finds a gap
before it comes to a word beyond the grace. The third branch, BeyondGrace,
cannot be taken, because the second one takes everything from the hard cap on; it
is in `ShouldSplit` as the code has it.

### Transactions, QuizJob, ChemistryJob, ApiProcess

Both kinds of jobs have a row, committed by the request, and a background task
that starts after the response. `RequestQuiz` and `RequestVideo` leave open
whether it starts: if the refresh or the response fails after the commit, it
does not. (For a quiz the response model reads `items`, which `refresh` does not
load.) Each of the task's transactions may fail; with `LostReplies` it may have
been applied nevertheless (`WrittenOrNot`).

| code | action |
|---|---|
| `request_quiz_generation` | `RequestQuiz` |
| `run_quiz_generation_job`: generating, 40-54 | `StartQuiz`, `StartQuizFails` |
| `run_quiz_item_pipeline`: creator, judge, repair, the loop | `Create`, `Judge`, `Repair` |
| fallback, `generated_items`, `total_cost_usd` | `FinishItem` |
| items and completed in one transaction, 87-102 | `Persist`, `PersistFails` |
| handler: failed, 106-118 | `RecordFailure`, `RecordFailureFails` |
| `request_chemistry_video` | `RequestVideo` |
| `run_generation_job`: processing, directory | `StartVideo`, `MakeDirectory` and their failures |
| `generate_chemistry_video`, in its thread | `Setup`, `DrawFrames`, `GenerateAudio`, `RunFFmpeg`, `Cleanup` and their failures |
| done, 70-84; failed, 90-106 | `MarkDone`, `MarkFailed` and their failures |
| the loop's handler, 86-89 | `Retry` |
| end and start of the process | `Shutdown`, `Startup` |

An item is what the judge tells apart of it. The generators make sound ones; the
first is made faulty on purpose; the repair agent is an agent, and `Repaired`
says what it may return, which in the run is anything the judge looks for. Costs
are millionths of a dollar, whole numbers at the code's rates and token counts,
so that its rounding to six places does nothing. The file of a video is missing,
partial or complete: an ffmpeg that fails or is killed may have truncated it.

The item pipeline awaits nothing that suspends it, so a quiz task holds the event
loop from its first item to the transaction that stores them: `Blocking` keeps
requests and other tasks out meanwhile, not the threads. `Shutdown` ends all
tasks and threads; an ffmpeg that a thread has started may write on. `Startup`
takes up no job.

### ChunkLifecycle

Four actions: a chunk starts, publishes the asset of a code, reuses a published
asset, fails. Publishing happens once per code and together with RENDERED, and
nothing starts or fails from RENDERED. `RenderWorker` implements it, reading
status, video and cache from the rows, as long as deliveries of a chunk do not
overlap (`ImplementsLifecycle`); when they do it does not: a retried update takes
a RENDERED chunk back, and a conflict in the commit leaves an asset without it.

## The runs

Two chunks and two codes are the smallest sets in which a code is shared by
chunks and a chunk is rendered from different codes. Deliveries and executions
are finite, as is a narration, so their runs end in states with no successor:
deadlock checking is off there, and that nobody waits for ever is checked as
`DeliveriesEnd`, `HealingEnds`, `NobodyWaitsForever` and `SplitterEnds`. The API
process can always be stopped or started; its runs check for deadlock,
and `TasksEnd` says what matters.

| run | instance | shows |
|---|---|---|
| `render_overlap` | 2 chunks of one job, 2 codes of both pools, 3 overlapping deliveries, 2 attempts, symmetry on deliveries | `TypeOK`, `CacheBacked`, `VideoPublished`, `AckedHasVideo`, `CacheWriteOnce` |
| `render_serial` | 3 deliveries, one chunk per job, no overlap on a chunk, 1 attempt, fairness | `ImplementsLifecycle`, `NoContention`, `DeliveriesEnd` |
| `healing` | 2 chunks of one job, 2 overlapping executions, 2 healing attempts, 2 retries, fairness | `HealingTypeOK`, `AttemptsBounded`, `HealingIsOwned`, `FailureIsEscalated`, `HealingEnds` |
| `pipeline` | 2 chunks of one job, 1 code, 2 overlapping deliveries, the reaper, 2 reviewers | `ReaperTypeOK`, `ReviewTypeOK`, `AssembledHasVideos`, `AckedHasVideo` |
| `pipeline_healing` | 1 chunk, 1 delivery, 1 healing execution, the reaper, fairness | `HealingIsOwned`, `NobodyWaitsForever`, `RowsAreVersioned` |
| `background_jobs` | 1 quiz of 3 items, 1 video of 3 attempts, lost replies, fairness | `QuizTypeOK`, `StoredItemsPass`, `CostsAddUp`, `QuizIsOwned`, `ChemistryTypeOK`, `DoneIsPlayable`, `VideoIsOwned`, `TasksEnd` |
| `splitter` | narrations of up to 5 words: first words of 29, 43, 45 and 48.1 s, others of 1, 2 and 45 s, gaps of 0, 0.4 and 0.5 s | `SplitterTypeOK`, `ChunksPartition`, `ChunksBounded`, `CutsAreMeant`, `SplitterEnds` |
| `two_jobs` | 2 chunks of two jobs, 2 deliveries, the reaper, 1 attempt, fairness | `NobodyWaitsForever` |
| `begin_after_read` | 2 deliveries, no overlap, `BeginAfterRead` FALSE | `RaisedIsRecorded` violated |
| `unfinished_job` | as `background_jobs` | `AcceptedJobsEnd` violated |
| `lost_reply` | as `background_jobs` | `DownloadsAreComplete` violated |
| `dense_narration` | narrations of 100 words of 0.3, 0.5 or 0.7 s without pauses | `ChunksWithinHardCap` violated |

Three deliveries are needed in `render_overlap` for one to hold a pending insert
while a second conflicts with it and a third makes it conflict, and for a rollup
to conflict twice; that more of them change nothing is what the theorems say. Two
attempts of an update make it conflict, re-read and then succeed or give up; more
repeat the same two outcomes. `render_serial` uses one attempt so that a single
conflict would show in the dead letter queue; its liveness is about waits for the
rows and pending inserts of other chunks' deliveries with the same code, and that
of `pipeline_healing` about retries, where healer and reaper bump the versions.
(`DeliveriesEnd` also holds in `render_overlap` with two deliveries under
`FairSpec`; with three, which its other properties need, it takes too long.)

In `background_jobs` one job of each kind is enough: the tasks of different jobs
meet in the event loop and in the end of the process only, and
`ProcessImplementsJobs` says, for any number of them, that this takes nothing
from their properties. Three items give a faulty first one, one between and a
last one; three attempts are the code's. In `splitter` the first word of a chunk
takes it to just below, to or beyond a limit, and the next ones meet or miss the
next limit and the gaps by one unit; three of them are needed for a look-ahead
to pass over one word and find a gap after another.

In `healing`, two healing attempts and two executions are what it takes for the
count of attempts to be read by both before either logs, and for the bound of
`AttemptsBounded` (one extra attempt per further execution) to be met exactly.
The composition is split in two runs because all its actors with two chunks
exceed several million states. `pipeline` keeps two chunks, so that a rollup counts
one chunk while the other is being reaped or the job approved, and no healer;
`pipeline_healing` has all three actors on one chunk and its job, whose rows they
lock in turn. `two_jobs` has the reaper hold the row of one job while it waits for
that of the other, with workers that fail on either, each holding its chunk while it
waits for its job. One attempt is enough there, since a wait does not depend on how often
a conflict is retried; two of them, or a healer besides, take too long.

Fairness is weak fairness of the steps of each execution: a worker process that
has taken a task keeps executing it, and every wait (a row lock, a subprocess
with a timeout) ends when its holder goes on. Of the API process it is that the
event loop takes its tasks in turn and that threads run; it is weak, although a
quiz that holds the loop keeps the others from their turns, because each quiz is
generated once. `splitter` is fair to its loop. Neither deliveries,
requests, executions, interruptions, restarts nor the reaper's start are assumed
to happen, and no verdict is assumed to come: `HealingEnds` holds although every
one may be a rejection.

The symmetry set permutes deliveries, in runs without liveness only; no
definition names one.

### Disagreements between the code and what is said of it

* `begin_after_read`: `session.begin()` comes after the SELECTs of the same
  session and is refused, outside of the task's `try` block: the chunk stays
  PENDING, without FAILED and without a dead letter (`run_worker_manim.py` line
  106 and, in the other branch, 80; `core/models.py` line 372). The Remotion task
  (lines 61 and 86) and the approval (`api/routes.py` line 217) have the same
  order. The tests mock the session.
* `unfinished_job`: a job is committed before its response, and the task runs
  after it. A response that fails drops the task; the row stays as it is, for a
  later process looks for none (`api/quiz_routes.py` line 164, whose docstring
  says that the request schedules the job; `architecture_note.md` lines 58-68). A quiz's
  response reads `items`, which `refresh` does not load. The property is as
  strict with a restart, with the directory made outside of a `try` block
  (`api/chemistry_routes.py` line 58) and with a quiz that says failed with its
  items stored (`api/quiz_routes.py` line 106).
* `lost_reply`: done is written inside the retried block. If its reply is lost,
  the next attempt renders into the file that is offered for download, and may
  leave it truncated (`api/chemistry_routes.py` line 86; line 191 says that the
  completed file is streamed).
* `dense_narration`: words of 0.7 s without pauses are cut at 45.5 s, where
  `Plan.md` line 239 wants chunks of at most 45 s: the cap is compared after the word is
  in the chunk (`semantic_splitter.py` line 73). `ChunksBounded` says what holds
  instead.

Behind the `begin()` that is refused lie others, which can be read in the code
and are in the model with `BeginAfterRead`, but which no run shows, since the
program does not get there: a retried update writes over what was committed since its
caller's read (`core/concurrency.py` line 119); `enqueue_to_dlq` commits the
transaction it is called from (line 240); the rollup after a success is never
committed (`run_worker_manim.py` line 176); `DLQReason` is not imported there
(line 210); the reaper's threshold is that of its start (`core/concurrency.py` line 251).

Others met while modelling have no run of their own:

* An approval that retries completes a job outside of the gate ("cannot approve
  outside of Review Gate", `api/routes.py` line 213); a second one that passed
  the check with it replaces `approved_by`; a later rollup takes a completed job
  back to RENDERING, ASSEMBLED or FAILED.
* `architecture_note.md` line 29 has "a maximum of 3 repair attempts" for a quiz
  item; there are three attempts with the creation, hence two repairs.
* `test_splitter_boundaries.py` tests the grace with a narration that splits at a
  natural gap.
* The prompt of `test_chemistry_video_rendering_difference` matches the covalent
  branch, so that the test does not reach the one it is named for.
* The reaper's blind FAILED over a chunk rendered since its SELECT (`Reap`)
  contradicts nothing the repository says.

## The theorems

Proved for all sets of chunks, jobs, codes, deliveries and executions, finite or
not (executions of the healing task are finitely many), every limit of retries
and of healing attempts from 1 on, either value of `Overlap` and
`BeginAfterRead`, and any feedback; for any narration and limits; for any number
of quizzes, items, videos and attempts, with or without lost replies. They rest on
the modules' named assumptions: identifiers of different tables differ, `JobOf`
is a function, `None` is no path and no row, times are natural numbers, the
target is within the hard cap and the grace's gap within the silence gap, a
repaired item has a question. TLC evaluates them in the runs. Every safety
invariant and every action property of the runs that pass is a theorem, those of
`render_serial` under the hypothesis that its instance satisfies.

### Render workers

* `TypeCorrect`: `Spec => []TypeOK`. Inductive with `InPlace`, which says that a
  delivery at work has a chunk, a code and a transaction.
* `Invariance`: `Spec => []IInv`, and from it `CacheIsBacked`,
  `VideoIsPublished`, `AcknowledgedHasVideo` and `CacheIsWriteOnce`.

None of these four is inductive. A worker writes what it read or did several
statements ago, so `IInv` adds what is true of that in between:

* `PendingInserts`: an insert waiting for its UPDATE to be retried holds its
  hash, alone, and no row exists under it. This is why a cache row is never
  written twice (`CacheGrows`), on which everything else rests: what was
  published stays published.
* `Uploaded`: a worker in its commit has uploaded its video (`CacheBacked`).
* `ReadsPublished`: the cache entry and the row a worker remembers name
  published videos, and the no-op ack has one to write (`VideoPublished`).
* `Shown`: from its commit on, a delivery's chunk has a video, which no later
  write takes away (`AckedHasVideo`).

Each step is taken apart once by what it does to the cache (`CacheEffect`), to
chunk rows (`ChunkEffect`) and to the delivery's own locals (`StepMoves`); the
preservation lemmas use these effects only.

Four theorems have the hypothesis `Serial`: deliveries of a chunk do not overlap
and each part job has one chunk, which is how `POST /generate` creates them and
the instance of `render_serial`.

* `SerialHasNoContention`: no update conflicts, so nothing is dead-lettered for
  contention.
* `SerialImplementsLifecycle`: every step of a worker is a step of
  `ChunkLifecycle` or leaves its variables alone, and `RenderWorker` implements it.
* `SerialRenderedIsFinal`, `SerialTransactionRule`: RENDERED is final, and a cache
  row is committed with it only (`Plan.md` line 203, `core/concurrency.py` line
  138), which overlapping deliveries of a chunk could break.

They rest on `SerialInv`. A version compared at a statement was read at another,
so `UpToDate` says of each place what a delivery has read and its rows still
hold: the version its update will compare, that a render it has started is
still RENDERING, the version of the job its rollup will compare. `Exclusive`
makes the chunk's row its own to write, and with one chunk per job the job's row
too. That a start never leaves RENDERED comes from the gate, whose row is still
the current one. Deliveries of other chunks with the same code meet in the cache
only, whose unique hash keeps the second of two from publishing (`DuplicateHash`).

### Healing

* `TypeCorrect`: `Spec => []HealingTypeOK`. Besides the types it needs that the
  logged attempts stay a finite set, for their number to be one.
* `Invariance`, and from it `FailuresAreEscalated` and `HealingHasAnOwner`.

`FailureIsEscalated` speaks of executions that have ended; `Escalated` says it
of those on the way, that is of every execution going to FAILED, because the
dead letter is committed first. `HealingIsOwned` would be preserved by any step
of a live execution and so says nothing of the last one; `Owned` names the
statements at which an execution can have its chunk in HEALING (`Heals`), all
of which leave it through a dead letter, a requeue or an interruption.
`StepEffect` says of each step what it does to the dead letter queue, to its own
record and to HEALING; `EffectKeeps` derives both invariants from that alone.

* `AttemptsAreBounded`, from a second invariant, `CountInv`.

The attempts are counted in one transaction and logged in another, so the bound
on the logged rows is not inductive: an execution that has been let through will
add one. `Armed` are those executions, and `Budget` bounds the logged rows of a
chunk and its armed executions together, by the limit and, with `Overlap`, one for
each other execution. An execution is armed only on a count below the limit, by
the rows it has just counted, when at most the others are armed too; logging
turns an armed execution into a row. Without `Overlap` nobody else is armed
(`Exclusive`), and the limit is exact.

### Pipeline

`Invariance`: `Spec => []PipelineInv`, the conjunction of the components'
invariants and of what each rollup and approval under way knows. The actors
write each other's rows between any two statements, so each component's proof
module says, in its section *In company*, what it relies on:

* a render worker, that others leave the cache, the bucket, the videos and the
  locks on codes as they are and make no chunk RENDERED;
* a healing execution, that others put no chunk into HEALING and take nothing
  out of the dead letter queue.

`RenderKeeps`, `HealKeeps`, `ReapKeeps` and `ReviewNextKeeps` show that every
actor leaves the others what they rely on. What the composition adds is about
job rows: a rollup decides on counts that others overtake. The counts need not
be current. A chunk counted RENDERED has a video, and no step of anybody takes
one away, so `RollupBacked`, `ReaperBacked` and `ReviewBacked` carry "all chunks
of the job have videos" from the count, or from the approver's look at the gate, to
the write, and `JobsBacked` says it of the rows. `NeverAssembles` says of a healing
execution that its rollup follows its own write of PENDING or FAILED in the same
transaction, so it never counts all chunks RENDERED.

* `ReaperTypesHold`, `ReviewTypesHold`: their types, in the full company.
* `AssembledJobsHaveVideos`, `AcknowledgedStaysVisible`, `HealingStaysOwned`:
  `AssembledHasVideos`, `AckedHasVideo` and `HealingIsOwned` for all numbers of
  workers, healers and reviewers at once, which the two runs check apart.
* `PublishedInCompany`, `HealingInCompany`: the workers' `CacheBacked` and
  `VideoPublished`, the healers' `FailureIsEscalated` and `AttemptsBounded`,
  survive the composition.
* `PublishedIsFinal`: no step of anybody replaces a cache row or leaves a chunk
  without the video it showed.
* `VersionsAlwaysGrow`: whoever writes a row raises its version, which is what
  every comparison of versions rests on (and, in `Reaper`, the model of a chunk's
  age); only the reaper's flush of FAILED does not (`RowsAreVersioned`). The step
  that could go wrong is the reaper's commit of the job rows it has written
  before: `ReaperAhead` says that they are ahead of the committed rows and locked, so
  that no other rollup or approval overtakes them.

### Splitter

* `TypeCorrect`; `NothingIsLost`, inductive with the types.
* `Invariance`, and from it `ChunksAreBounded` and `CutsAreForGaps`.

Both speak of closed chunks and say nothing of the open one. `Promised` does: if
the open chunk has reached the hard cap before word `i`, there is a gap at `i` or
later with all words up to it within the grace. A pass that does not split
establishes it for the next word (`NextPromised`), and a pass that does closes
the chunk either at that gap, or within the grace, or at the first word that
reached the hard cap.

### Quiz and chemistry jobs

* `QuizInvariance` and `VideoInvariance`: `JobOK` and `VideoOK` for each job.
* `ProcessImplementsJobs`: `Spec` of the process implies `QuizSpec` and
  `VideoSpec`, which is how the seven theorems of `ApiProcess_proofs`
  (`QuizTypes`, `StoredItemsAlwaysPass`, `CostsAlwaysAddUp`, `QuizAlwaysOwned`,
  `ChemistryTypes`, `DoneIsAlwaysPlayable`, `VideoAlwaysOwned`) hold of the process.
* `CostInvariance`: `CostInv`, what is charged at each place of a quiz's task.

`StoredItemsPass` speaks of stored items; `JobOK` says it of the generated ones,
which takes that no repair loses the question, the one thing the fallback does
not replace. The number of attempts is a matter of type, but only because a
repair is left only after fewer than three. `DoneIsPlayable` looks one way from
the row to the file; `VideoOK` adds that a task about to write done has seen its
file complete, and that a row that says done while its task is still at work is
from an attempt before, which is the lost reply.

`CostsAddUp` compares a stored total, added up item by item, with the sum of the
stored items' prices, a fold; and a price, which depends on the attempts, with what
the agents charged one call at a time. `Charged` says at each place of the task
what has been charged for the item under way and that the total is the
price of the items generated. The fold is unfolded without an induction scheme:
it is computed from the sums over all sets of positions, which exist for a list of
any length (`SumsExist`) and are the same for a longer list as far as the shorter
goes (`SumsAgree`). Both are shown by the least length that would be an exception.
So a list with one more item costs what it did and that item
(`PriceOfOneMore`).

### Only model-checked

The liveness properties: `DeliveriesEnd`, `HealingEnds`, `NobodyWaitsForever`,
`TasksEnd` and `SplitterEnds`. They rest on weak fairness, hence on ENABLED, which
the prover does not reason about. The four violations are TLC's too.

## What is not modelled, and the plan

Left to prove: which part of the `Serial` theorems is left for jobs with several
chunks, where the rollups contend and the chunks' rows do not.

Not modelled:

* Backpressure (`api/backpressure.py`): admission by the depth of `arq:queue`. No
  code of the repository enqueues anything, so nothing relates the requests
  admitted to the depth that is compared.
* The manifest lock: a listener on `is_locked`, which nothing sets, and a trigger
  whose literals are not the labels of the enum; nothing updates a manifest.
* The time scaler: a quotient of two durations of files, without state.
* The compiled LangGraph graph: it exists only where `langgraph` is installed;
  `FallbackOrchestrator`, which runs otherwise, is modelled in `Healing`.
* What a frame of a chemistry video shows, a question says, a prompt asks, a
  generated scene does: steps that succeed or fail, or values the judge tells
  apart.
* The broker itself (deliveries and interruptions stand for it) and its
  heartbeat; the sandbox and the renderers (a subprocess and its files); the GPU
  stubs; the scene checkpoints that nothing reads; request schemas, roles and
  reads that change nothing.
