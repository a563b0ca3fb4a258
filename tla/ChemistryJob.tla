---------------------------- MODULE ChemistryJob ----------------------------
(***************************************************************************)
(* Chemistry videos: POST /api/chemistry/videos, its background task       *)
(* run_generation_job (api/chemistry_routes.py), and the thread in which   *)
(* that runs generate_chemistry_video (core/chemistry_generator.py).       *)
(*                                                                         *)
(*   videoJob[v]    the row of chemistry_video_jobs, or None               *)
(*   artifact[v]    the file at output_video_path                          *)
(*   videoTask[v]   the task: the statement it or its thread is at, its    *)
(*                  retry_count, and whether the attempt ends with an      *)
(*                  exception                                              *)
(***************************************************************************)
EXTENDS Integers, Transactions

CONSTANTS
  Videos,        \* the jobs that may be requested
  MaxAttempts    \* max_retries

VARIABLES videoJob, artifact, videoTask

videoVars == <<videoJob, artifact, videoTask>>

ASSUME ChemistryAssumption == MaxAttempts \in Nat \ {0}

VideoStatus == {"queued", "processing", "done", "failed"}

VideoRow == [status: VideoStatus, retries: Nat, path: BOOLEAN, error: BOOLEAN]

ASSUME NoRowAssumption == None \notin VideoRow

Artifact == {"none", "partial", "complete"}

InThread == {"setup", "frames", "audio", "ffmpeg", "cleanup"}

VideoRunning == {"start", "directory", "done", "record"} \cup InThread

(* Ways to end that leave the row as it was last written.                  *)
VideoAbandoned == {"unscheduled", "unstarted", "stranded", "unrecorded", "killed"}

VideoLive(v) == videoTask[v].pc \in VideoRunning

-----------------------------------------------------------------------------
VideoTaskBecomes(v, task) == videoTask' = [videoTask EXCEPT ![v] = task]

VideoGoesTo(v, pc) == VideoTaskBecomes(v, [videoTask[v] EXCEPT !.pc = pc])

RowWrittenOrNot(v, new) ==
  \E row \in WrittenOrNot(videoJob[v], new) : videoJob' = [videoJob EXCEPT ![v] = row]

(* Mutant of Retry: retry_count stays as it is.                            *)
RetryUncounted(v) == VideoGoesTo(v, "setup")

(* Mutant of Retry: one attempt too many.                                  *)
RetryOnceMore(v) ==
  LET retries == videoTask[v].retries + 1 IN
  VideoTaskBecomes(v,
    [pc |-> IF retries <= MaxAttempts THEN "setup" ELSE "record", retries |-> retries,
     failed |-> FALSE])

(* The exception handler of the loop; the row keeps its status until the   *)
(* last attempt.                                                           *)
Retry(v) ==
  LET retries == videoTask[v].retries + 1 IN
  VideoTaskBecomes(v,
    [pc |-> IF retries < MaxAttempts THEN "setup" ELSE "record", retries |-> retries,
     failed |-> FALSE])

(* The row is committed; refreshing it for the response may fail, and then *)
(* the response and the task are dropped.                                  *)
RequestVideo(v) ==
  /\ videoJob[v] = None
  /\ videoJob' = [videoJob EXCEPT ![v] =
                    [status |-> "queued", retries |-> 0, path |-> FALSE, error |-> FALSE]]
  /\ \E pc \in {"start", "unscheduled"} : VideoGoesTo(v, pc)
  /\ UNCHANGED artifact

StartVideo(v) ==
  /\ videoTask[v].pc = "start"
  /\ videoJob' = [videoJob EXCEPT ![v].status = "processing"]
  /\ VideoGoesTo(v, "directory")
  /\ UNCHANGED artifact

StartVideoFails(v) ==
  /\ videoTask[v].pc = "start"
  /\ RowWrittenOrNot(v, [videoJob[v] EXCEPT !.status = "processing"])
  /\ VideoGoesTo(v, "unstarted")
  /\ UNCHANGED artifact

MakeDirectory(v) ==
  /\ videoTask[v].pc = "directory"
  /\ VideoGoesTo(v, "setup")
  /\ UNCHANGED <<videoJob, artifact>>

(* An OSError before the loop, which no handler is for.                    *)
DirectoryFails(v) ==
  /\ videoTask[v].pc = "directory"
  /\ VideoGoesTo(v, "stranded")
  /\ UNCHANGED <<videoJob, artifact>>

-----------------------------------------------------------------------------
(* generate_chemistry_video, in the thread.                                *)

(* Titles, bullets, duration and mode by concept; the frames' directory.   *)
Setup(v) ==
  /\ videoTask[v].pc = "setup"
  /\ VideoGoesTo(v, "frames")
  /\ UNCHANGED <<videoJob, artifact>>

(* The directory of the frames is made outside of the try block.           *)
SetupFails(v) ==
  /\ videoTask[v].pc = "setup"
  /\ Retry(v)
  /\ UNCHANGED <<videoJob, artifact>>

DrawFrames(v) ==
  /\ videoTask[v].pc = "frames"
  /\ VideoGoesTo(v, "audio")
  /\ UNCHANGED <<videoJob, artifact>>

GenerateAudio(v) ==
  /\ videoTask[v].pc = "audio"
  /\ VideoGoesTo(v, "ffmpeg")
  /\ UNCHANGED <<videoJob, artifact>>

DrawingFails(v) ==
  /\ videoTask[v].pc \in {"frames", "audio"}
  /\ VideoTaskBecomes(v, [videoTask[v] EXCEPT !.pc = "cleanup", !.failed = TRUE])
  /\ UNCHANGED <<videoJob, artifact>>

RunFFmpeg(v) ==
  /\ videoTask[v].pc = "ffmpeg"
  /\ artifact' = [artifact EXCEPT ![v] = "complete"]
  /\ VideoGoesTo(v, "cleanup")
  /\ UNCHANGED videoJob

(* Mutant of FFmpegFails: the exit code is not looked at.                  *)
FFmpegIgnored(v) ==
  /\ videoTask[v].pc = "ffmpeg"
  /\ artifact' = [artifact EXCEPT ![v] = "partial"]
  /\ VideoGoesTo(v, "cleanup")
  /\ UNCHANGED videoJob

(* It is not found, exits with an error or is killed after 60 seconds, and *)
(* may have truncated the file by then.                                    *)
FFmpegFails(v) ==
  /\ videoTask[v].pc = "ffmpeg"
  /\ \E file \in {artifact[v], "partial"} : artifact' = [artifact EXCEPT ![v] = file]
  /\ VideoTaskBecomes(v, [videoTask[v] EXCEPT !.pc = "cleanup", !.failed = TRUE])
  /\ UNCHANGED videoJob

(* The finally block.  Files that cannot be removed are left behind.       *)
Cleanup(v) ==
  /\ videoTask[v].pc = "cleanup"
  /\ IF videoTask[v].failed THEN Retry(v) ELSE VideoGoesTo(v, "done")
  /\ UNCHANGED <<videoJob, artifact>>

(* Listing the frames raises, which is not caught there.                   *)
CleanupFails(v) ==
  /\ videoTask[v].pc = "cleanup"
  /\ Retry(v)
  /\ UNCHANGED <<videoJob, artifact>>

-----------------------------------------------------------------------------
DoneRow(v) ==
  [status |-> "done", retries |-> videoTask[v].retries, path |-> TRUE, error |-> FALSE]

FailedRow(v) ==
  [videoJob[v] EXCEPT !.status = "failed", !.retries = videoTask[v].retries, !.error = TRUE]

MarkDone(v) ==
  /\ videoTask[v].pc = "done"
  /\ videoJob' = [videoJob EXCEPT ![v] = DoneRow(v)]
  /\ VideoGoesTo(v, "returned")
  /\ UNCHANGED artifact

(* The update is inside the try block: its failure costs an attempt.       *)
MarkDoneFails(v) ==
  /\ videoTask[v].pc = "done"
  /\ RowWrittenOrNot(v, DoneRow(v))
  /\ Retry(v)
  /\ UNCHANGED artifact

(* Mutant of MarkFailed: the failure is only logged.                       *)
LogFailed(v) ==
  /\ videoTask[v].pc = "record"
  /\ VideoGoesTo(v, "returned")
  /\ UNCHANGED <<videoJob, artifact>>

MarkFailed(v) ==
  /\ videoTask[v].pc = "record"
  /\ videoJob' = [videoJob EXCEPT ![v] = FailedRow(v)]
  /\ VideoGoesTo(v, "returned")
  /\ UNCHANGED artifact

MarkFailedFails(v) ==
  /\ videoTask[v].pc = "record"
  /\ RowWrittenOrNot(v, FailedRow(v))
  /\ VideoGoesTo(v, "unrecorded")
  /\ UNCHANGED artifact

(* The process ends, and its tasks and threads with it.  An ffmpeg it has  *)
(* started is not its thread: it may write on, or have failed.             *)
KillVideoTasks ==
  /\ videoTask' = [v \in Videos |->
       IF VideoLive(v) THEN [videoTask[v] EXCEPT !.pc = "killed"] ELSE videoTask[v]]
  /\ artifact' \in
       {files \in [Videos -> Artifact] :
          \A v \in Videos : videoTask[v].pc # "ffmpeg" => files[v] = artifact[v]}
  /\ UNCHANGED videoJob

VideoInit ==
  /\ videoJob = [v \in Videos |-> None]
  /\ artifact = [v \in Videos |-> "none"]
  /\ videoTask = [v \in Videos |-> [pc |-> "idle", retries |-> 0, failed |-> FALSE]]

ThreadStep(v) ==
  \/ Setup(v) \/ SetupFails(v) \/ DrawFrames(v) \/ GenerateAudio(v) \/ DrawingFails(v)
  \/ RunFFmpeg(v) \/ FFmpegFails(v) \/ Cleanup(v) \/ CleanupFails(v)

TaskStep(v) ==
  \/ StartVideo(v) \/ StartVideoFails(v) \/ MakeDirectory(v) \/ DirectoryFails(v)
  \/ MarkDone(v) \/ MarkDoneFails(v) \/ MarkFailed(v) \/ MarkFailedFails(v)

VideoNext ==
  (\E v \in Videos : RequestVideo(v) \/ TaskStep(v) \/ ThreadStep(v)) \/ KillVideoTasks

VideoSpec == VideoInit /\ [][VideoNext]_videoVars

-----------------------------------------------------------------------------
(* Properties.                                                             *)

(* Row, file and the task's locals have values of their types, among which *)
(* the number of attempts (run_generation_job).                            *)
ChemistryTypeOK ==
  /\ videoJob \in [Videos -> VideoRow \cup {None}]
  /\ artifact \in [Videos -> Artifact]
  /\ videoTask \in
       [Videos -> [pc: {"idle", "returned"} \cup VideoRunning \cup VideoAbandoned,
                   retries: 0 .. MaxAttempts, failed: BOOLEAN]]

(* A job that says done has a complete file to download, as long as its    *)
(* task has not counted a failure since; that takes a commit whose reply   *)
(* was lost, after which the task renders into the same file again         *)
(* (run_generation_job and retrieve_completed_video_file).                 *)
DoneIsPlayable ==
  \A v \in Videos :
    videoJob[v] # None /\ videoJob[v].status = "done" =>
      /\ videoJob[v].path
      /\ artifact[v] = "complete" \/ videoTask[v].retries > videoJob[v].retries

(* What a job that says done offers for download is the completed file     *)
(* (retrieve_completed_video_file, which looks at the status and for a     *)
(* file of that name, while run_generation_job writes it once more).       *)
DownloadsAreComplete ==
  \A v \in Videos :
    videoJob[v] # None /\ videoJob[v].status = "done" /\ artifact[v] # "none" =>
      artifact[v] = "complete"

(* A job that says queued or processing has a task at work on it, or one   *)
(* that ended in one of five ways: its response, its first write, the      *)
(* directory or its last write failed, or the process went away            *)
(* (run_generation_job).                                                   *)
VideoIsOwned ==
  \A v \in Videos :
    videoJob[v] # None /\ videoJob[v].status \in {"queued", "processing"} =>
      VideoLive(v) \/ videoTask[v].pc \in VideoAbandoned
=============================================================================
