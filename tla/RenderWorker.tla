---------------------------- MODULE RenderWorker ----------------------------
(***************************************************************************)
(* The render workers: run_worker_manim.render_manim_chunk_task and its    *)
(* twin in run_worker_remotion.py, with every step they take through       *)
(* core/concurrency.py.                                                    *)
(*                                                                         *)
(* A delivery is one execution of the task by a worker process: the first  *)
(* one, a redelivery of it, or a second job for the same chunk.  Each      *)
(* statement that reaches the database is one action, since any other      *)
(* transaction may commit between two of them.                             *)
(*                                                                         *)
(* The identifiers the tasks keep in local variables are the fields of     *)
(* worker[d]:                                                              *)
(*   pc        the statement the delivery is at                            *)
(*   op        the transaction it is in: the no-op re-commit, the move to  *)
(*             RENDERING (start), atomic_chunk_commit (commit) or the      *)
(*             exception handler (fail)                                    *)
(*   chunk     chunk_id            code    the code argument               *)
(*   row       the Chunk object    hit     cache_entry.storage_path        *)
(*   expected  expected_version    tries   attempt, both optimistic_update *)
(*   seen      the statuses counted by the rollup                          *)
(*   target    target_status of the rollup                                 *)
(***************************************************************************)
EXTENDS MediaStore

CONSTANTS
  Deliveries,      \* each runs once
  Overlap,         \* may two deliveries of one chunk run at the same time?
  BeginAfterRead   \* does session.begin() succeed after a SELECT on the session?

ASSUME WorkerAssumption == Overlap \in BOOLEAN /\ BeginAfterRead \in BOOLEAN

VARIABLE worker

vars == <<chunk, job, cache, dlq, store, locked, worker>>

Running ==
  {"lookup", "update", "refresh", "render", "count", "parent", "rollup", "reread"}

Ended == {"acked", "raised", "lost"}

Ops == {"none", "recommit", "start", "commit", "fail"}

NoRow == [status |-> "PENDING", version |-> 0, video |-> None, audio |-> None]

(* The fields of a delivery that is not at work.                           *)
AtRest(pc, c, h) ==
  [pc |-> pc, op |-> "none", chunk |-> c, code |-> h, row |-> NoRow, hit |-> None,
   expected |-> 0, tries |-> 0, seen |-> {}, target |-> "PENDING"]

Live(d) == worker[d].pc \in Running

(* The rows the open transaction of a delivery has written: the pending    *)
(* insert of atomic_chunk_commit while its UPDATE is being retried, and    *)
(* the chunk the exception handler marked before rolling up.               *)
Held(d) ==
  LET w == worker[d] IN
  {h \in {w.code}  : w.op = "commit" /\ w.pc \in {"update", "refresh"} /\ w.tries > 0}
    \cup
  {c \in {w.chunk} : w.op = "fail" /\ w.pc \in {"count", "parent", "rollup", "reread"}}

Becomes(d, state) == worker' = [worker EXCEPT ![d] = state]

End(d, how) == Becomes(d, AtRest(how, worker[d].chunk, worker[d].code))

(* Entry to optimistic_update: first attempt, with this expected version.  *)
BeginUpdate(d, op) ==
  Becomes(d, [worker[d] EXCEPT !.pc = "update", !.op = op,
                 !.expected = worker[d].row.version, !.tries = 0])

-----------------------------------------------------------------------------
(* The broker hands the task to a worker, which loads the chunk row.       *)
(* Without Overlap it does so only once no other delivery of the chunk is  *)
(* running, which is how a redelivery after a crash arrives.               *)
Deliver(d, c, h) ==
  /\ worker[d].pc = "idle"
  /\ Overlap \/ \A e \in Deliveries : Live(e) => worker[e].chunk # c
  /\ Becomes(d, [AtRest("lookup", c, h) EXCEPT !.row = chunk[c]])
  /\ UNCHANGED storeVars

(* Mutant of Gate: a chunk that already ended either way is acknowledged.  *)
GateOnEnded(hit, row) ==
  IF hit # None \/ row.status \in {"RENDERED", "FAILED"} THEN "recommit" ELSE "start"

(* Mutant of Gate: only the cache is consulted, not the chunk's status.    *)
GateOnCache(hit, row) == IF hit # None THEN "recommit" ELSE "start"

(* The idempotency gate: a cached asset, or a chunk loaded as RENDERED.    *)
Gate(hit, row) == IF hit # None \/ row.status = "RENDERED" THEN "recommit" ELSE "start"

(* SELECT from asset_cache, the gate, and session.begin() for the update   *)
(* it leads to.  SQLAlchemy 2 has by then begun a transaction for the two  *)
(* SELECTs, and its begin() raises InvalidRequestError in that case.       *)
LookUpCache(d) ==
  LET w == worker[d] hit == cache[w.code] IN
  /\ w.pc = "lookup"
  /\ IF BeginAfterRead
       THEN Becomes(d, [worker[d] EXCEPT !.pc = "update", !.hit = hit,
                 !.op = Gate(hit, w.row),
                 !.expected = w.row.version, !.tries = 0])
       ELSE End(d, "raised")
  /\ UNCHANGED storeVars

(* optimistic_update matched, in the transaction op: the row is free and   *)
(* has the expected version.                                               *)
Matched(d, op) ==
  LET w == worker[d] IN
  /\ w.pc = "update" /\ w.op = op
  /\ ~Conflicts(chunk[w.chunk], w.expected)
  /\ w.chunk \notin locked

(* Mutant of Recommit: the video path is derived again from the code that  *)
(* was delivered instead of being taken from the cache or the row.         *)
RecommitDerived(d) ==
  LET w == worker[d] IN
  /\ Matched(d, "recommit")
  /\ chunk' = [chunk EXCEPT ![w.chunk] =
                 AsRendered(@, VideoKey(w.chunk, w.code), AudioKey(w.chunk, w.code))]
  /\ Becomes(d, [worker[d] EXCEPT !.pc = "count"])
  /\ UNCHANGED <<job, cache, dlq, store, locked>>

(* The no-op ack's re-commit of RENDERED, with the cached video if there   *)
(* is one and the audio path it has or makes up.                           *)
Recommit(d) ==
  LET w == worker[d]
      video == IF w.hit # None THEN w.hit ELSE w.row.video
      audio == IF w.row.audio # None THEN w.row.audio ELSE DefaultAudioKey(w.chunk)
  IN /\ Matched(d, "recommit")
     /\ chunk' = [chunk EXCEPT ![w.chunk] = AsRendered(@, video, audio)]
     /\ Becomes(d, [worker[d] EXCEPT !.pc = "count"])
     /\ UNCHANGED <<job, cache, dlq, store, locked>>

(* Mutant of StartRender: current_version is not refreshed from the row    *)
(* that optimistic_update returned.                                        *)
StartRenderStale(d) ==
  LET w == worker[d] IN
  /\ Matched(d, "start")
  /\ chunk' = [chunk EXCEPT ![w.chunk] = WithStatus(@, "RENDERING")]
  /\ Becomes(d, [worker[d] EXCEPT !.pc = "render"])
  /\ UNCHANGED <<job, cache, dlq, store, locked>>

(* The Chunk object optimistic_update returns.  When the update matched on *)
(* a retry only, the object the session loaded before is not one that the  *)
(* ORM synchronises with it, and RETURNING may hand it back as it was.     *)
Returned(d) ==
  LET w == worker[d] IN
  {WithStatus(chunk[w.chunk], "RENDERING")} \cup {row \in {w.row} : w.tries > 0}

(* The chunk moves to RENDERING and the worker keeps the object it got     *)
(* back, for its version.                                                  *)
StartRender(d) ==
  LET w == worker[d] IN
  /\ Matched(d, "start")
  /\ chunk' = [chunk EXCEPT ![w.chunk] = WithStatus(@, "RENDERING")]
  /\ \E row \in Returned(d) : Becomes(d, [worker[d] EXCEPT !.pc = "render", !.row = row])
  /\ UNCHANGED <<job, cache, dlq, store, locked>>

(* Lint, script file: an OSError here is raised outside the try block, and *)
(* nothing takes the chunk out of RENDERING.                               *)
WorkspaceFails(d) ==
  /\ worker[d].pc = "render"
  /\ End(d, "raised")
  /\ UNCHANGED storeVars

(* The sandboxed command or an upload fails.                               *)
RenderFails(d) ==
  /\ worker[d].pc = "render"
  /\ BeginUpdate(d, "fail")
  /\ UNCHANGED storeVars

(* Mutant of Uploads: the video is left on the worker's disk.              *)
UploadsAudio(c, h) == {AudioKey(c, h)}

(* The objects a successful run PUTs under its deterministic keys.         *)
Uploads(c, h) == {VideoKey(c, h), AudioKey(c, h)}

(* The command succeeds and both files are uploaded.                       *)
RenderAndUpload(d) ==
  LET w == worker[d] IN
  /\ w.pc = "render"
  /\ store' = store \cup Uploads(w.chunk, w.code)
  /\ BeginUpdate(d, "commit")
  /\ UNCHANGED <<chunk, job, cache, dlq, locked>>

-----------------------------------------------------------------------------
(* Mutant of Inserted: the insert is an upsert, and nothing serialises it. *)
Upserted(d) == worker[d].code \in Codes

(* atomic_chunk_commit flushes the INSERT into asset_cache with the first  *)
(* attempt of the UPDATE.  The insert waits while another transaction is   *)
(* inserting the same hash, and fails on a committed one.                  *)
Inserted(d) ==
  worker[d].op = "commit" =>
    \/ worker[d].tries > 0
    \/ worker[d].code \notin locked /\ cache[worker[d].code] = None

DuplicateHash(d) ==
  /\ worker[d].pc = "update" /\ worker[d].op = "commit" /\ worker[d].tries = 0
  /\ worker[d].code \notin locked
  /\ cache[worker[d].code] # None
  /\ BeginUpdate(d, "fail")
  /\ UNCHANGED storeVars

(* The cache row and the RENDERED status are committed together.           *)
AtomicChunkCommit(d) ==
  LET w == worker[d] IN
  /\ Matched(d, "commit") /\ Inserted(d)
  /\ cache' = [cache EXCEPT ![w.code] = VideoKey(w.chunk, w.code)]
  /\ chunk' = [chunk EXCEPT ![w.chunk] =
                 AsRendered(@, VideoKey(w.chunk, w.code), AudioKey(w.chunk, w.code))]
  /\ locked' = locked \ Held(d)
  /\ Becomes(d, [worker[d] EXCEPT !.pc = "count"])
  /\ UNCHANGED <<job, dlq, store>>

(* The exception handler's UPDATE to FAILED.  It stays uncommitted while   *)
(* the rollup of the same transaction runs.                                *)
MarkFailed(d) ==
  /\ Matched(d, "fail")
  /\ locked' = locked \cup {worker[d].chunk}
  /\ Becomes(d, [worker[d] EXCEPT !.pc = "count"])
  /\ UNCHANGED <<chunk, job, cache, dlq, store>>

(* optimistic_update matched no row and backs off.                         *)
Conflict(d) ==
  LET w == worker[d] IN
  /\ w.pc = "update" /\ Inserted(d)
  /\ Conflicts(chunk[w.chunk], w.expected)
  /\ w.tries + 1 < MaxRetries
  /\ Becomes(d, [w EXCEPT !.pc = "refresh", !.tries = w.tries + 1])
  /\ locked' = IF w.op = "commit" THEN locked \cup {w.code} ELSE locked
  /\ UNCHANGED <<chunk, job, cache, dlq, store>>

(* ... then reads the latest version and tries again with that.            *)
Refresh(d) ==
  /\ worker[d].pc = "refresh"
  /\ Becomes(d, [worker[d] EXCEPT !.pc = "update",
                 !.expected = chunk[worker[d].chunk].version])
  /\ UNCHANGED storeVars

(* The last attempt conflicts: enqueue_to_dlq commits the session, with    *)
(* the cache row atomic_chunk_commit had added to it, and the RuntimeError *)
(* leaves the task, or enters its exception handler.                       *)
Exhausted(d) ==
  LET w == worker[d] IN
  /\ w.pc = "update" /\ Inserted(d)
  /\ Conflicts(chunk[w.chunk], w.expected)
  /\ w.tries + 1 = MaxRetries
  /\ dlq' = WithDLQ(w.chunk, "LOCK_CONTENTION")
  /\ locked' = locked \ Held(d)
  /\ IF w.op = "commit"
       THEN /\ cache' = [cache EXCEPT ![w.code] = VideoKey(w.chunk, w.code)]
            /\ BeginUpdate(d, "fail")
       ELSE /\ End(d, "raised")
            /\ UNCHANGED cache
  /\ UNCHANGED <<chunk, job, store>>

-----------------------------------------------------------------------------
(* aggregate_job_rollup.  After the no-op ack and after the commit it runs *)
(* outside any begin(): what it writes is rolled back when the session is  *)
(* closed.  In the exception handler it is part of the transaction that    *)
(* marks the chunk.                                                        *)

(* What a delivery sees of a chunk's status: its own pending FAILED too.   *)
StatusSeen(d, x) ==
  IF worker[d].op = "fail" /\ x = worker[d].chunk THEN "FAILED" ELSE chunk[x].status

CountChunks(d) ==
  /\ worker[d].pc = "count"
  /\ Becomes(d, [worker[d] EXCEPT !.pc = "parent",
                 !.seen = {StatusSeen(d, x) : x \in Siblings(worker[d].chunk)}])
  /\ UNCHANGED storeVars

(* Mutant of Close: the handler's transaction ends without releasing the   *)
(* chunk row.                                                              *)
CloseKeepingLock(d, newJob) ==
  LET w == worker[d] IN
  IF w.op = "fail"
    THEN /\ chunk' = [chunk EXCEPT ![w.chunk] = WithStatus(@, "FAILED")]
         /\ job' = newJob
         /\ End(d, "raised")
         /\ UNCHANGED locked
    ELSE /\ End(d, "acked")
         /\ UNCHANGED <<chunk, job, locked>>

(* The end of the transaction the rollup ran in, the job row being left as *)
(* newJob.  The handler commits both rows; its enqueue_to_dlq call names   *)
(* DLQReason, which the worker modules do not import, so that it ends in a *)
(* NameError before anything is queued.                                    *)
Close(d, newJob) ==
  LET w == worker[d] IN
  IF w.op = "fail"
    THEN /\ chunk' = [chunk EXCEPT ![w.chunk] = WithStatus(@, "FAILED")]
         /\ job' = newJob
         /\ locked' = locked \ Held(d)
         /\ End(d, "raised")
    ELSE /\ End(d, "acked")
         /\ UNCHANGED <<chunk, job, locked>>

ReadParent(d) ==
  LET w == worker[d]
      j == JobOf[w.chunk]
      target == RollupTarget(w.seen, job[j].status)
  IN /\ w.pc = "parent"
     /\ IF target = job[j].status
          THEN Close(d, job)
          ELSE /\ Becomes(d, [worker[d] EXCEPT !.pc = "rollup", !.target = target,
                 !.expected = job[j].version, !.tries = 0])
               /\ UNCHANGED <<chunk, job, locked>>
     /\ UNCHANGED <<cache, dlq, store>>

UpdateParent(d) ==
  LET w == worker[d] j == JobOf[w.chunk] IN
  /\ w.pc = "rollup" /\ j \notin locked
  /\ ~Conflicts(job[j], w.expected)
  /\ Close(d, [job EXCEPT ![j] = WithStatus(@, w.target)])
  /\ UNCHANGED <<cache, dlq, store>>

ParentConflict(d) ==
  LET w == worker[d] IN
  /\ w.pc = "rollup"
  /\ Conflicts(job[JobOf[w.chunk]], w.expected)
  /\ w.tries + 1 < MaxRetries
  /\ Becomes(d, [w EXCEPT !.pc = "reread", !.tries = w.tries + 1])
  /\ UNCHANGED storeVars

RefreshParent(d) ==
  /\ worker[d].pc = "reread"
  /\ Becomes(d, [worker[d] EXCEPT !.pc = "rollup",
                 !.expected = job[JobOf[worker[d].chunk]].version])
  /\ UNCHANGED storeVars

(* The rollup gives up.  Its commit of the DLQ entry commits a chunk       *)
(* marked FAILED as well; after a successful render the RuntimeError takes *)
(* the delivery into the exception handler.                                *)
ParentExhausted(d) ==
  LET w == worker[d] IN
  /\ w.pc = "rollup"
  /\ Conflicts(job[JobOf[w.chunk]], w.expected)
  /\ w.tries + 1 = MaxRetries
  /\ dlq' = WithDLQ(JobOf[w.chunk], "LOCK_CONTENTION")
  /\ CASE w.op = "fail"     -> Close(d, job)
       [] w.op = "commit"   -> BeginUpdate(d, "fail") /\ UNCHANGED <<chunk, job, locked>>
       [] w.op = "recommit" -> End(d, "raised") /\ UNCHANGED <<chunk, job, locked>>
  /\ UNCHANGED <<cache, store>>

-----------------------------------------------------------------------------
(* The worker process dies, or ARQ cancels the task at its timeout (a      *)
(* CancelledError is not an Exception): the open transaction is rolled     *)
(* back and no handler runs.                                               *)
Interrupt(d) ==
  /\ Live(d)
  /\ locked' = locked \ Held(d)
  /\ End(d, "lost")
  /\ UNCHANGED <<chunk, job, cache, dlq, store>>

Init ==
  /\ StoreInit
  /\ worker = [d \in Deliveries |-> AtRest("idle", None, None)]

Step(d) ==
  \/ LookUpCache(d) \/ Recommit(d) \/ StartRender(d)
  \/ WorkspaceFails(d) \/ RenderFails(d) \/ RenderAndUpload(d)
  \/ DuplicateHash(d) \/ AtomicChunkCommit(d) \/ MarkFailed(d)
  \/ Conflict(d) \/ Refresh(d) \/ Exhausted(d)
  \/ CountChunks(d) \/ ReadParent(d)
  \/ UpdateParent(d) \/ ParentConflict(d) \/ RefreshParent(d) \/ ParentExhausted(d)

Next ==
  \E d \in Deliveries :
    \/ \E c \in Chunks, h \in Codes : Deliver(d, c, h)
    \/ Step(d)
    \/ Interrupt(d)

Spec == Init /\ [][Next]_vars

(* A worker that has taken a delivery keeps executing it; deliveries and   *)
(* crashes are not promised.                                               *)
Fairness == \A d \in Deliveries : WF_vars(Step(d))

FairSpec == Spec /\ Fairness
-----------------------------------------------------------------------------
(* Properties.                                                             *)

WorkerState ==
  [pc: {"idle"} \cup Running \cup Ended, op: Ops,
   chunk: Chunks \cup {None}, code: Codes \cup {None},
   row: ChunkRow, hit: VideoKeys \cup {None},
   expected: Nat, tries: 0 .. MaxRetries,
   seen: SUBSET ChunkStatus, target: JobStatus]

(* A delivery at work has a chunk and a code, and is at a statement of the *)
(* transaction it is in.                                                   *)
InPlace(w) ==
  /\ w.pc \in Running => w.chunk \in Chunks /\ w.code \in Codes
  /\ w.pc \in {"update", "refresh"} => w.op # "none"
  /\ w.pc \in {"count", "parent", "rollup", "reread"} =>
       w.op \in {"recommit", "commit", "fail"}

(* Every row and every local of a worker has a value of its type (models.py *)
(* columns; both render tasks).                                            *)
TypeOK ==
  /\ StoreTypeOK
  /\ worker \in [Deliveries -> WorkerState]
  /\ \A d \in Deliveries : InPlace(worker[d])

(* A row of asset_cache names a video of that very code which has been     *)
(* uploaded: no worker is ever sent to an object that is not there.        *)
CacheBacked ==
  \A h \in Codes : cache[h] # None =>
    /\ cache[h] \in store
    /\ \E c \in Chunks : cache[h] = VideoKey(c, h)

(* A chunk's video_path is that of a cached asset, and a RENDERED chunk    *)
(* has one: not even retries, re-commits from stale rows and transactions  *)
(* committed halfway publish a video outside the cache.                    *)
VideoPublished ==
  \A c \in Chunks :
    /\ chunk[c].status = "RENDERED" => chunk[c].video # None
    /\ chunk[c].video # None => \E h \in Codes : cache[h] = chunk[c].video

(* A worker that acknowledged a delivery left its chunk with a published   *)
(* video, whatever others did to the chunk's status meanwhile.             *)
AckedHasVideo ==
  \A d \in Deliveries : worker[d].pc = "acked" => chunk[worker[d].chunk].video # None

(* The first asset committed for a code is the one all chunks share: no    *)
(* later delivery of the code replaces or removes the cache row.           *)
CacheWriteOnce == [][\A h \in Codes : cache[h] # None => cache'[h] = cache[h]]_vars

(* Once rendered, a chunk stays rendered: a redelivered job is a no-op     *)
(* (the idempotency gate of both workers).                                 *)
RenderedIsFinal ==
  [][\A c \in Chunks : chunk[c].status = "RENDERED" => chunk'[c].status = "RENDERED"]_vars

(* A cache row is committed only together with RENDERED on the chunk whose *)
(* video it names (docstring of atomic_chunk_commit).                      *)
TransactionRule ==
  [][\A h \in Codes : cache[h] = None /\ cache'[h] # None =>
       chunk'[cache'[h].chunk].status = "RENDERED"]_vars

(* While no chunk has two deliveries at work and each job has one chunk,   *)
(* no optimistic update ever meets a conflict, so that nothing reaches the *)
(* DLQ for lock contention.                                                *)
NoContention == \A e \in dlq : e.reason # "LOCK_CONTENTION"

(* Every delivery a worker takes comes to an end: acknowledged, raised or  *)
(* interrupted.  Retries are bounded and every row lock is released.       *)
DeliveriesEnd ==
  \A d \in Deliveries : worker[d].pc = "lookup" ~> worker[d].pc \in Ended

(* A task that ends with an exception has left its chunk FAILED, or the    *)
(* dead letter queue knows of the chunk (the workers' exception handler;   *)
(* models.py on DeadLetterQueue: tasks that exhausted all retry policies). *)
RaisedIsRecorded ==
  \A d \in Deliveries : worker[d].pc = "raised" =>
    \/ chunk[worker[d].chunk].status = "FAILED"
    \/ \E e \in dlq : e.row = worker[d].chunk

(* The abstract specification, refined while deliveries of a chunk do not  *)
(* overlap.                                                                *)
Lifecycle == INSTANCE ChunkLifecycle WITH
  Videos <- VideoKeys,
  status <- [c \in Chunks |-> chunk[c].status],
  video  <- [c \in Chunks |-> chunk[c].video],
  asset  <- cache

ImplementsLifecycle == Lifecycle!Spec
=============================================================================
