----------------------------- MODULE MediaStore -----------------------------
(***************************************************************************)
(* What the workers of the render pipeline share: the Postgres rows of     *)
(* core/models.py that they read and write, and the MinIO bucket.          *)
(*                                                                         *)
(*   chunk[c]   the row of chunks: status, version, video_path, audio_path *)
(*   job[j]     the row of video_part_jobs: status, version                *)
(*   cache[h]   the row of asset_cache keyed by the content hash of code h *)
(*              (its storage_path), or None when there is no such row      *)
(*   dlq        the entries of dead_letter_queue (equal entries are one)   *)
(*   store      the keys of the objects uploaded to the bucket             *)
(*   locked     the rows written by a transaction that is still open: a    *)
(*              chunk, a job, or a code whose cache row is being inserted  *)
(*                                                                         *)
(* Every variable but locked holds what is committed.  A transaction's own *)
(* writes are applied when it commits; until then its rows are in locked,  *)
(* which is what READ COMMITTED lets the other transactions notice.        *)
(***************************************************************************)
EXTENDS Integers

CONSTANTS
  Chunks,          \* the chunk rows
  Jobs,            \* the video part jobs
  JobOf,           \* [Chunks -> Jobs]: chunk.video_part_job_id
  Codes,           \* scene sources; a code stands for its SHA-256 too
  RemotionCodes,   \* those rendered by the Remotion pool, the rest by Manim
  MaxRetries,      \* settings.OPTIMISTIC_LOCK_MAX_RETRIES
  None             \* NULL

VARIABLES chunk, job, cache, dlq, store, locked

storeVars == <<chunk, job, cache, dlq, store, locked>>

ASSUME StoreAssumption ==
  /\ Chunks \cap Jobs = {} /\ Chunks \cap Codes = {} /\ Jobs \cap Codes = {}
  /\ JobOf \in [Chunks -> Jobs]
  /\ RemotionCodes \subseteq Codes
  /\ MaxRetries \in Nat \ {0}

ChunkStatus == {"PENDING", "VERIFYING", "RENDERING", "HEALING", "RENDERED", "FAILED"}

JobStatus ==
  {"PENDING", "GROUNDING", "GROUNDED", "TTS_ALIGNING", "SPLITTING", "SPLIT",
   "RENDERING", "ASSEMBLING", "ASSEMBLED", "REVIEW_GATE", "COMPLETED", "FAILED"}

DLQReason ==
  {"HEALING_EXHAUSTED", "LOCK_CONTENTION", "SANDBOX_VIOLATION", "CRITICAL_ERROR"}

-----------------------------------------------------------------------------
(* Object keys.  Both pools derive them from the chunk and the hash, under *)
(* different prefixes; the no-op path of the workers also makes up a key   *)
(* from the chunk alone.                                                   *)

Pool(h) == IF h \in RemotionCodes THEN "remotion" ELSE "manim"

VideoKey(c, h) == [kind |-> "video", pool |-> Pool(h), chunk |-> c, code |-> h]

AudioKey(c, h) == [kind |-> "audio", pool |-> Pool(h), chunk |-> c, code |-> h]

DefaultAudioKey(c) == [kind |-> "default_audio", chunk |-> c]

VideoKeys == {VideoKey(c, h) : c \in Chunks, h \in Codes}

AudioKeys ==
  {AudioKey(c, h) : c \in Chunks, h \in Codes} \cup {DefaultAudioKey(c) : c \in Chunks}

ASSUME NoneAssumption == None \notin VideoKeys \cup AudioKeys

ChunkRow ==
  [status: ChunkStatus, version: Nat,
   video: VideoKeys \cup {None}, audio: AudioKeys \cup {None}]

JobRow == [status: JobStatus, version: Nat]

-----------------------------------------------------------------------------
(* The values optimistic_update writes when its WHERE clause matches.      *)

WithStatus(row, s) == [row EXCEPT !.status = s, !.version = @ + 1]

AsRendered(row, video, audio) ==
  [status |-> "RENDERED", version |-> row.version + 1, video |-> video, audio |-> audio]

(* optimistic_update found no row with the expected version.               *)
Conflicts(row, expected) == row.version # expected

(* enqueue_to_dlq, for a chunk or a job row.                               *)
WithDLQ(row, reason) == dlq \cup {[row |-> row, reason |-> reason]}

Siblings(c) == {x \in Chunks : JobOf[x] = JobOf[c]}

(* Mutant of RollupTarget: the chunks' RENDERED is written to the job,     *)
(* which is not a value of JobStatus.                                      *)
RollupTargetOfChunk(seen, current) ==
  IF seen = {"RENDERED"} THEN "RENDERED" ELSE current

(* Mutant of RollupTarget: one rendered chunk is enough.                   *)
RollupTargetOfAny(seen, current) ==
  IF "RENDERED" \in seen THEN "ASSEMBLED" ELSE current

(* aggregate_job_rollup: the next status of a job, given which statuses    *)
(* its chunks were counted in and the status it was read with.             *)
RollupTarget(seen, current) ==
  CASE seen = {"RENDERED"}                      -> "ASSEMBLED"
    [] "FAILED" \in seen                        -> "FAILED"
    [] /\ "FAILED" \notin seen
       /\ seen \cap {"RENDERING", "HEALING"} # {} -> "RENDERING"
    [] OTHER                                    -> current

(* As POST /generate leaves the rows.                                      *)
StoreInit ==
  /\ chunk = [c \in Chunks |->
                [status |-> "PENDING", version |-> 1, video |-> None, audio |-> None]]
  /\ job = [j \in Jobs |-> [status |-> "PENDING", version |-> 1]]
  /\ cache = [h \in Codes |-> None]
  /\ dlq = {}
  /\ store = {}
  /\ locked = {}

(* The shared rows hold values of their columns' types; a fact the render  *)
(* workers' statuses, rollup targets and DLQ reasons must respect.         *)
StoreTypeOK ==
  /\ chunk \in [Chunks -> ChunkRow]
  /\ job \in [Jobs -> JobRow]
  /\ cache \in [Codes -> VideoKeys \cup {None}]
  /\ dlq \subseteq [row: Chunks \cup Jobs, reason: DLQReason]
  /\ store \subseteq VideoKeys \cup AudioKeys
  /\ locked \subseteq Chunks \cup Jobs \cup Codes
=============================================================================
