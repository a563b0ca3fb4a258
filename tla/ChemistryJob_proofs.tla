------------------------ MODULE ChemistryJob_proofs ------------------------
(***************************************************************************)
(* Theorems about chemistry videos, for any number of jobs and of attempts *)
(* and whether replies are lost.  VideoOK is the inductive invariant of    *)
(* one job's task, row and file.                                           *)
(***************************************************************************)
EXTENDS ChemistryJob, TLAPS

VideoPlaces == {"idle", "returned"} \cup VideoRunning \cup VideoAbandoned

VideoTask == [pc: VideoPlaces, retries: 0 .. MaxAttempts, failed: BOOLEAN]

Done(row) == row # None /\ row.status = "done"

(* Types; a task at work has a row, and an attempt left unless it is about *)
(* to record the failure; ffmpeg's success is seen with its file; a done   *)
(* row of a task at work is from an earlier attempt; a done row has its    *)
(* file, an unfinished row its task.                                       *)
VideoOK(task, row, file) ==
  /\ task \in VideoTask /\ row \in VideoRow \cup {None} /\ file \in Artifact
  /\ task.pc \in VideoRunning =>
       row \in VideoRow /\ (Done(row) => task.retries > row.retries)
  /\ task.pc \in VideoRunning \ {"record"} => task.retries < MaxAttempts
  /\ row = None => task.retries = 0
  /\ (task.pc = "cleanup" /\ ~task.failed) \/ task.pc = "done" => file = "complete"
  /\ Done(row) => row.path /\ (file = "complete" \/ task.retries > row.retries)
  /\ row # None /\ row.status \in {"queued", "processing"} =>
       task.pc \in VideoRunning \cup VideoAbandoned

VideoInv ==
  /\ videoJob \in [Videos -> VideoRow \cup {None}]
  /\ artifact \in [Videos -> Artifact]
  /\ videoTask \in [Videos -> VideoTask]
  /\ \A v \in Videos : VideoOK(videoTask[v], videoJob[v], artifact[v])

VideoMoves(v, task, row, file) ==
  /\ videoTask' = [videoTask EXCEPT ![v] = task]
  /\ videoJob' = [videoJob EXCEPT ![v] = row]
  /\ artifact' = [artifact EXCEPT ![v] = file]

VideoMovesWell(v) ==
  \E task \in VideoTask, row \in VideoRow, file \in Artifact :
    VideoMoves(v, task, row, file) /\ VideoOK(task, row, file)

LEMMA VideoMovingKeeps ==
  ASSUME VideoInv, NEW v \in Videos, VideoMovesWell(v) PROVE VideoInv'
<1>1. PICK task \in VideoTask, row \in VideoRow, file \in Artifact :
        VideoMoves(v, task, row, file) /\ VideoOK(task, row, file)
  BY DEF VideoMovesWell
<1>2. ASSUME NEW w \in Videos
      PROVE  VideoOK(videoTask'[w], videoJob'[w], artifact'[w])
  <2>1. CASE w = v
    BY <1>1, <2>1 DEF VideoMoves, VideoInv
  <2>2. CASE w # v
    BY <1>1, <2>2 DEF VideoMoves, VideoInv
  <2> QED
    BY <2>1, <2>2
<1> QED
  BY <1>1, <1>2 DEF VideoMoves, VideoInv

LEMMA VideoLiveFacts ==
  ASSUME VideoInv, NEW v \in Videos, VideoLive(v)
  PROVE  /\ videoTask[v] \in VideoTask /\ videoJob[v] \in VideoRow /\ artifact[v] \in Artifact
         /\ VideoOK(videoTask[v], videoJob[v], artifact[v])
         /\ Done(videoJob[v]) => videoTask[v].retries > videoJob[v].retries
         /\ videoTask[v].pc # "record" => videoTask[v].retries < MaxAttempts
         /\ Done(videoJob[v]) => videoJob[v].path
  BY DEF VideoInv, VideoOK, VideoLive

(* A step of a task that stays at work, and its file.                      *)
LEMMA AtWorkMoves ==
  ASSUME VideoInv, NEW v \in Videos, VideoLive(v), NEW task \in VideoTask,
         NEW file \in Artifact, task.pc \in VideoRunning,
         task.retries >= videoTask[v].retries,
         task.pc # "record" => task.retries < MaxAttempts,
         (task.pc = "cleanup" /\ ~task.failed) \/ task.pc = "done" => file = "complete",
         VideoTaskBecomes(v, task), UNCHANGED videoJob,
         artifact' = [artifact EXCEPT ![v] = file]
  PROVE  VideoMovesWell(v)
<1>1. /\ videoJob[v] \in VideoRow
      /\ Done(videoJob[v]) => videoJob[v].path /\ task.retries > videoJob[v].retries
  BY VideoLiveFacts DEF VideoTask, VideoRow
<1>2. VideoOK(task, videoJob[v], file)
  BY <1>1, NoRowAssumption DEF VideoOK
<1>3. VideoMoves(v, task, videoJob[v], file)
  BY DEF VideoMoves, VideoTaskBecomes, VideoInv
<1> QED
  BY <1>1, <1>2, <1>3 DEF VideoMovesWell

(* The next statement is reached, the file made or not.                    *)
LEMMA OnwardMoves ==
  ASSUME VideoInv, NEW v \in Videos, VideoLive(v), videoTask[v].pc # "record",
         NEW pc \in VideoRunning \ {"record"}, NEW file \in Artifact,
         pc \in {"cleanup", "done"} => file = "complete",
         VideoGoesTo(v, pc), UNCHANGED videoJob,
         artifact' = [artifact EXCEPT ![v] = file]
  PROVE  VideoMovesWell(v)
<1> DEFINE task == [videoTask[v] EXCEPT !.pc = pc]
<1>1. pc \in VideoPlaces
  BY DEF VideoPlaces
<1>2. /\ task \in VideoTask /\ task.pc = pc /\ task.retries = videoTask[v].retries
      /\ task.retries < MaxAttempts /\ task.retries >= videoTask[v].retries
  BY <1>1, VideoLiveFacts, ChemistryAssumption DEF VideoTask
<1>3. VideoTaskBecomes(v, task)
  BY DEF VideoGoesTo
<1> HIDE DEF task
<1> QED
  BY <1>2, <1>3, AtWorkMoves

LEMMA RetryMoves ==
  ASSUME VideoInv, NEW v \in Videos, VideoLive(v), videoTask[v].pc # "record",
         Retry(v), UNCHANGED <<videoJob, artifact>>
  PROVE  VideoMovesWell(v)
<1> DEFINE retries == videoTask[v].retries + 1
           pc      == IF retries < MaxAttempts THEN "setup" ELSE "record"
           task    == [pc |-> pc, retries |-> retries, failed |-> FALSE]
<1>1. VideoTaskBecomes(v, task)
  BY DEF Retry
<1>2. retries \in 0 .. MaxAttempts /\ retries >= videoTask[v].retries
  BY VideoLiveFacts, ChemistryAssumption DEF VideoTask
<1>3. pc \in VideoPlaces /\ pc \in VideoRunning /\ pc \in {"setup", "record"}
  BY DEF VideoPlaces, VideoRunning, InThread
<1>4. pc # "record" => retries < MaxAttempts
  OBVIOUS
<1>5. task \in VideoTask /\ task.pc = pc /\ task.retries = retries
  <2> HIDE DEF retries, pc
  <2> QED
    BY <1>2, <1>3 DEF VideoTask
<1>6. artifact[v] \in Artifact /\ artifact' = [artifact EXCEPT ![v] = artifact[v]]
  BY DEF VideoInv
<1> HIDE DEF task, pc, retries
<1> QED
  BY <1>1, <1>2, <1>3, <1>4, <1>5, <1>6, AtWorkMoves

LEMMA FailingMoves ==
  ASSUME VideoInv, NEW v \in Videos, VideoLive(v), videoTask[v].pc # "record",
         NEW file \in Artifact,
         VideoTaskBecomes(v, [videoTask[v] EXCEPT !.pc = "cleanup", !.failed = TRUE]),
         UNCHANGED videoJob, artifact' = [artifact EXCEPT ![v] = file]
  PROVE  VideoMovesWell(v)
<1> DEFINE task == [videoTask[v] EXCEPT !.pc = "cleanup", !.failed = TRUE]
<1>1. "cleanup" \in VideoPlaces /\ "cleanup" \in VideoRunning
  BY DEF VideoPlaces, VideoRunning, InThread
<1>2. videoTask[v] \in VideoTask /\ videoTask[v].retries < MaxAttempts
  BY VideoLiveFacts
<1>3. /\ task \in VideoTask /\ task.pc = "cleanup" /\ task.failed
      /\ task.retries = videoTask[v].retries
  BY <1>1, <1>2 DEF VideoTask
<1>4. task.retries >= videoTask[v].retries /\ task.retries < MaxAttempts
  BY <1>2, <1>3, ChemistryAssumption DEF VideoTask
<1>5. VideoTaskBecomes(v, task)
  OBVIOUS
<1> HIDE DEF task
<1> QED
  BY <1>1, <1>3, <1>4, <1>5, AtWorkMoves

LEMMA ThreadMoves ==
  ASSUME VideoInv, NEW v \in Videos, ThreadStep(v) PROVE VideoMovesWell(v)
<1>1. videoTask[v].pc \in InThread /\ "record" \notin InThread
  BY DEF ThreadStep, Setup, SetupFails, DrawFrames, GenerateAudio, DrawingFails, RunFFmpeg,
         FFmpegFails, Cleanup, CleanupFails, InThread
<1>2. VideoLive(v) /\ videoTask[v].pc # "record"
  BY <1>1 DEF VideoLive, VideoRunning
<1>3. artifact[v] \in Artifact /\ artifact = [artifact EXCEPT ![v] = artifact[v]]
  BY DEF VideoInv
<1>4. /\ {"frames", "audio", "ffmpeg", "cleanup", "done"} \subseteq VideoRunning \ {"record"}
      /\ {"partial", "complete"} \subseteq Artifact
  BY DEF VideoRunning, InThread, Artifact
<1>5. CASE Setup(v) \/ DrawFrames(v) \/ GenerateAudio(v)
  <2>1. PICK pc \in {"frames", "audio", "ffmpeg"} : VideoGoesTo(v, pc)
    BY <1>5 DEF Setup, DrawFrames, GenerateAudio
  <2>2. UNCHANGED <<videoJob, artifact>>
    BY <1>5 DEF Setup, DrawFrames, GenerateAudio
  <2> QED
    BY <2>1, <2>2, <1>2, <1>3, <1>4, OnwardMoves
<1>6. CASE SetupFails(v) \/ CleanupFails(v)
  BY <1>2, <1>6, RetryMoves DEF SetupFails, CleanupFails
<1>7. CASE DrawingFails(v)
  BY <1>2, <1>3, <1>7, FailingMoves DEF DrawingFails
<1>8. CASE RunFFmpeg(v)
  BY <1>2, <1>4, <1>8, OnwardMoves DEF RunFFmpeg
<1>9. CASE FFmpegFails(v)
  <2>1. PICK file \in {artifact[v], "partial"} : artifact' = [artifact EXCEPT ![v] = file]
    BY <1>9 DEF FFmpegFails
  <2>2. file \in Artifact
    BY <1>3, <1>4
  <2> QED
    BY <2>1, <2>2, <1>2, <1>9, FailingMoves DEF FFmpegFails
<1>10. CASE Cleanup(v)
  <2>1. CASE videoTask[v].failed
    BY <1>2, <1>10, <2>1, RetryMoves DEF Cleanup
  <2>2. CASE ~videoTask[v].failed
    <3>1. artifact[v] = "complete"
      BY <1>2, <1>10, <2>2, VideoLiveFacts DEF Cleanup, VideoOK
    <3> QED
      BY <3>1, <1>2, <1>3, <1>4, <1>10, <2>2, OnwardMoves DEF Cleanup
  <2> QED
    BY <2>1, <2>2
<1> QED
  BY <1>5, <1>6, <1>7, <1>8, <1>9, <1>10 DEF ThreadStep

LEMMA RowIsEither ==
  ASSUME NEW v \in Videos, NEW new, RowWrittenOrNot(v, new)
  PROVE  \E row \in {videoJob[v], new} : videoJob' = [videoJob EXCEPT ![v] = row]
  BY DEF RowWrittenOrNot, WrittenOrNot

LEMMA VideoRequestMoves ==
  ASSUME VideoInv, NEW v \in Videos, RequestVideo(v) PROVE VideoMovesWell(v)
<1> DEFINE row == [status |-> "queued", retries |-> 0, path |-> FALSE, error |-> FALSE]
<1>1. PICK pc \in {"start", "unscheduled"} : VideoGoesTo(v, pc)
  BY DEF RequestVideo
<1> DEFINE task == [videoTask[v] EXCEPT !.pc = pc]
<1>2. /\ pc \in VideoPlaces /\ pc \in VideoRunning \cup VideoAbandoned
      /\ pc \notin {"cleanup", "done", "record"}
  BY DEF VideoPlaces, VideoRunning, VideoAbandoned
<1>3. row \in VideoRow /\ ~Done(row)
  BY DEF VideoRow, VideoStatus, Done
<1>4. videoTask[v] \in VideoTask /\ artifact[v] \in Artifact
  BY DEF VideoInv
<1>5. task \in VideoTask /\ task.pc = pc /\ task.retries = videoTask[v].retries
  BY <1>2, <1>4 DEF VideoTask
<1>6. VideoTaskBecomes(v, task)
  BY <1>1 DEF VideoGoesTo
<1>7. VideoMoves(v, task, row, artifact[v])
  <2> HIDE DEF task
  <2> QED
    BY <1>6 DEF RequestVideo, VideoMoves, VideoTaskBecomes, VideoInv
<1>8. VideoOK(task, row, artifact[v])
  <2>1. videoTask[v].retries = 0
    BY DEF RequestVideo, VideoInv, VideoOK
  <2>2. row # None /\ row.status = "queued"
    BY <1>3, NoRowAssumption
  <2> HIDE DEF task, row
  <2> QED
    BY <2>1, <2>2, <1>2, <1>3, <1>4, <1>5, ChemistryAssumption DEF VideoOK
<1> HIDE DEF task, row
<1> QED
  BY <1>3, <1>4, <1>5, <1>7, <1>8 DEF VideoMovesWell

(* The row and the place of the task change: it stays at work with an      *)
(* unfinished row, or leaves.                                              *)
LEMMA RowMoves ==
  ASSUME VideoInv, NEW v \in Videos, VideoLive(v), NEW row \in VideoRow, NEW pc \in VideoPlaces,
         VideoGoesTo(v, pc), videoJob' = [videoJob EXCEPT ![v] = row], UNCHANGED artifact,
         pc \notin {"cleanup", "done"},
         pc \in VideoRunning => ~Done(row) /\ videoTask[v].pc # "record",
         Done(row) => row.path /\ (artifact[v] = "complete" \/ videoTask[v].retries > row.retries),
         row.status \in {"queued", "processing"} => pc \in VideoRunning \cup VideoAbandoned
  PROVE  VideoMovesWell(v)
<1> DEFINE task == [videoTask[v] EXCEPT !.pc = pc]
<1>1. /\ videoTask[v] \in VideoTask /\ artifact[v] \in Artifact
      /\ videoTask[v].pc # "record" => videoTask[v].retries < MaxAttempts
  BY VideoLiveFacts
<1>2. task \in VideoTask /\ task.pc = pc /\ task.retries = videoTask[v].retries
  BY <1>1 DEF VideoTask
<1>3. VideoMoves(v, task, row, artifact[v])
  BY DEF VideoGoesTo, VideoTaskBecomes, VideoMoves, VideoInv
<1>4. VideoOK(task, row, artifact[v])
  <2> HIDE DEF task
  <2> QED
    BY <1>1, <1>2, NoRowAssumption DEF VideoOK
<1> HIDE DEF task
<1> QED
  BY <1>1, <1>2, <1>3, <1>4 DEF VideoMovesWell

LEMMA VideoStartMoves ==
  ASSUME VideoInv, NEW v \in Videos, StartVideo(v) \/ StartVideoFails(v) PROVE VideoMovesWell(v)
<1> DEFINE new == [videoJob[v] EXCEPT !.status = "processing"]
<1>1. VideoLive(v) /\ videoTask[v].pc = "start"
  BY DEF StartVideo, StartVideoFails, VideoLive, VideoRunning
<1>2. new \in VideoRow /\ new.status = "processing" /\ ~Done(new)
  BY <1>1, VideoLiveFacts DEF VideoRow, VideoStatus, Done
<1>3. /\ "directory" \in VideoPlaces \cap VideoRunning
      /\ "unstarted" \in VideoPlaces \cap VideoAbandoned /\ "unstarted" \notin VideoRunning
  BY DEF VideoPlaces, VideoRunning, VideoAbandoned, InThread
<1> HIDE DEF new
<1>4. CASE StartVideo(v)
  <2>1. videoJob' = [videoJob EXCEPT ![v] = new]
    BY <1>4 DEF StartVideo, new
  <2> QED
    BY <2>1, <1>1, <1>2, <1>3, <1>4, RowMoves DEF StartVideo
<1>5. CASE StartVideoFails(v)
  <2> RowWrittenOrNot(v, new)
    BY <1>5 DEF StartVideoFails, new
  <2>1. PICK row \in {videoJob[v], new} : videoJob' = [videoJob EXCEPT ![v] = row]
    BY RowIsEither
  <2>2. row \in VideoRow /\ (Done(row) => row.path /\ videoTask[v].retries > row.retries)
    BY <1>1, <1>2, VideoLiveFacts
  <2> QED
    BY <2>1, <2>2, <1>1, <1>3, <1>5, RowMoves DEF StartVideoFails
<1> QED
  BY <1>4, <1>5

LEMMA DirectoryMoves ==
  ASSUME VideoInv, NEW v \in Videos, MakeDirectory(v) \/ DirectoryFails(v)
  PROVE  VideoMovesWell(v)
<1>1. VideoLive(v) /\ videoTask[v].pc = "directory"
  BY DEF MakeDirectory, DirectoryFails, VideoLive, VideoRunning
<1>2. CASE MakeDirectory(v)
  <2>1. "setup" \in VideoRunning \ {"record"} /\ artifact[v] \in Artifact
        /\ artifact' = [artifact EXCEPT ![v] = artifact[v]]
    BY <1>2 DEF VideoRunning, InThread, VideoInv, MakeDirectory
  <2> QED
    BY <2>1, <1>1, <1>2, OnwardMoves DEF MakeDirectory
<1>3. CASE DirectoryFails(v)
  <2>1. "stranded" \in VideoPlaces \cap VideoAbandoned /\ "stranded" \notin VideoRunning
    BY DEF VideoPlaces, VideoRunning, VideoAbandoned, InThread
  <2>2. videoJob[v] \in VideoRow /\ videoJob' = [videoJob EXCEPT ![v] = videoJob[v]]
    BY <1>1, <1>3, VideoLiveFacts DEF VideoInv, DirectoryFails
  <2> QED
    BY <2>1, <2>2, <1>1, <1>3, VideoLiveFacts, RowMoves DEF DirectoryFails
<1> QED
  BY <1>2, <1>3

LEMMA MarkDoneMoves ==
  ASSUME VideoInv, NEW v \in Videos, MarkDone(v) \/ MarkDoneFails(v) PROVE VideoMovesWell(v)
<1>1. VideoLive(v) /\ videoTask[v].pc = "done"
  BY DEF MarkDone, MarkDoneFails, VideoLive, VideoRunning
<1>2. /\ videoTask[v] \in VideoTask /\ artifact[v] = "complete"
      /\ videoTask[v].retries < MaxAttempts
  BY <1>1, VideoLiveFacts DEF VideoOK
<1>3. /\ DoneRow(v) \in VideoRow /\ DoneRow(v).status = "done" /\ DoneRow(v).path
      /\ DoneRow(v).retries = videoTask[v].retries
  BY <1>2, ChemistryAssumption DEF DoneRow, VideoRow, VideoStatus, VideoTask
<1>4. CASE MarkDone(v)
  <2>1. "returned" \in VideoPlaces /\ "returned" \notin VideoRunning
    BY DEF VideoPlaces, VideoRunning, InThread
  <2> QED
    BY <2>1, <1>1, <1>2, <1>3, <1>4, RowMoves DEF MarkDone
<1>5. CASE MarkDoneFails(v)
  <2> DEFINE retries == videoTask[v].retries + 1
             pc      == IF retries < MaxAttempts THEN "setup" ELSE "record"
             task    == [pc |-> pc, retries |-> retries, failed |-> FALSE]
  <2>1. PICK row \in {videoJob[v], DoneRow(v)} : videoJob' = [videoJob EXCEPT ![v] = row]
    BY <1>5, RowIsEither DEF MarkDoneFails
  <2>2. VideoTaskBecomes(v, task)
    BY <1>5 DEF MarkDoneFails, Retry
  <2>3. retries \in 0 .. MaxAttempts
    BY <1>2, ChemistryAssumption DEF VideoTask
  <2>4. pc \in VideoPlaces /\ pc \in VideoRunning /\ pc \in {"setup", "record"}
    BY DEF VideoPlaces, VideoRunning, InThread
  <2>5. pc # "record" => retries < MaxAttempts
    OBVIOUS
  <2>6. task \in VideoTask /\ task.pc = pc /\ task.retries = retries
    <3> HIDE DEF retries, pc
    <3> QED
      BY <2>3, <2>4 DEF VideoTask
  <2>7. row \in VideoRow /\ (Done(row) => row.path /\ retries > row.retries)
    <3>1. /\ videoJob[v] \in VideoRow
          /\ Done(videoJob[v]) => videoJob[v].path /\ videoTask[v].retries > videoJob[v].retries
      BY <1>1, VideoLiveFacts
    <3>2. videoTask[v].retries \in Nat /\ videoJob[v].retries \in Nat
      BY <1>2, <3>1, ChemistryAssumption DEF VideoTask, VideoRow
    <3> QED
      BY <3>1, <3>2, <1>3, <2>1
  <2>8. VideoMoves(v, task, row, artifact[v]) /\ artifact[v] \in Artifact
    <3> HIDE DEF task
    <3> QED
      BY <2>1, <2>2, <1>5 DEF MarkDoneFails, VideoMoves, VideoTaskBecomes, VideoInv
  <2>9. VideoOK(task, row, artifact[v])
    <3> HIDE DEF task, pc, retries
    <3> QED
      BY <1>2, <2>4, <2>5, <2>6, <2>7, <2>8, NoRowAssumption DEF VideoOK
  <2> HIDE DEF task
  <2> QED
    BY <2>6, <2>7, <2>8, <2>9 DEF VideoMovesWell
<1> QED
  BY <1>4, <1>5

LEMMA MarkFailedMoves ==
  ASSUME VideoInv, NEW v \in Videos, MarkFailed(v) \/ MarkFailedFails(v)
  PROVE  VideoMovesWell(v)
<1>1. VideoLive(v)
  BY DEF MarkFailed, MarkFailedFails, VideoLive, VideoRunning
<1>2. /\ FailedRow(v) \in VideoRow /\ FailedRow(v).status = "failed"
  <2>1. videoTask[v].retries \in Nat /\ videoJob[v] \in VideoRow
    BY <1>1, VideoLiveFacts, ChemistryAssumption DEF VideoTask
  <2> QED
    BY <2>1 DEF FailedRow, VideoRow, VideoStatus
<1>3. ~Done(FailedRow(v))
  BY <1>2 DEF Done
<1>4. CASE MarkFailed(v)
  <2>1. "returned" \in VideoPlaces /\ "returned" \notin VideoRunning
    BY DEF VideoPlaces, VideoRunning, InThread
  <2> QED
    BY <2>1, <1>1, <1>2, <1>3, <1>4, RowMoves DEF MarkFailed
<1>5. CASE MarkFailedFails(v)
  <2>1. PICK row \in {videoJob[v], FailedRow(v)} : videoJob' = [videoJob EXCEPT ![v] = row]
    BY <1>5, RowIsEither DEF MarkFailedFails
  <2>2. row \in VideoRow /\ (Done(row) => row.path /\ videoTask[v].retries > row.retries)
    BY <1>1, <1>2, <1>3, VideoLiveFacts
  <2>3. "unrecorded" \in VideoPlaces \cap VideoAbandoned /\ "unrecorded" \notin VideoRunning
    BY DEF VideoPlaces, VideoRunning, VideoAbandoned, InThread
  <2> QED
    BY <2>1, <2>2, <2>3, <1>1, <1>5, RowMoves DEF MarkFailedFails
<1> QED
  BY <1>4, <1>5

LEMMA VideoKillKeeps ==
  ASSUME VideoInv, KillVideoTasks PROVE VideoInv'
<1>1. artifact' \in [Videos -> Artifact]
  BY DEF KillVideoTasks
<1>2. ASSUME NEW v \in Videos
      PROVE  videoTask'[v] \in VideoTask /\ VideoOK(videoTask'[v], videoJob'[v], artifact'[v])
  <2>1. /\ videoTask[v] \in VideoTask /\ VideoOK(videoTask[v], videoJob[v], artifact[v])
        /\ artifact'[v] \in Artifact /\ videoJob' = videoJob
    BY <1>1 DEF VideoInv, KillVideoTasks
  <2>2. CASE VideoLive(v)
    <3> DEFINE task == [videoTask[v] EXCEPT !.pc = "killed"]
    <3>1. videoTask'[v] = task
      BY <2>2 DEF KillVideoTasks
    <3>2. "killed" \in VideoPlaces \cap VideoAbandoned /\ "killed" \notin VideoRunning
      BY DEF VideoPlaces, VideoAbandoned, VideoRunning, InThread
    <3>3. task \in VideoTask /\ task.pc = "killed" /\ task.retries = videoTask[v].retries
      BY <2>1, <3>2 DEF VideoTask
    <3> HIDE DEF task
    <3> QED
      BY <2>1, <2>2, <3>1, <3>2, <3>3, VideoLiveFacts, NoRowAssumption DEF VideoOK
  <2>3. CASE ~VideoLive(v)
    <3>1. videoTask'[v] = videoTask[v]
      BY <2>3 DEF KillVideoTasks
    <3>2. artifact'[v] = artifact[v]
      BY <2>3 DEF KillVideoTasks, VideoLive, VideoRunning, InThread
    <3> QED
      BY <2>1, <3>1, <3>2
  <2> QED
    BY <2>2, <2>3
<1>3. videoTask' \in [Videos -> VideoTask]
  BY <1>2 DEF KillVideoTasks
<1> QED
  BY <1>1, <1>2, <1>3 DEF VideoInv, KillVideoTasks

LEMMA VideoInit_VideoInv ==
  ASSUME VideoInit PROVE VideoInv
<1> DEFINE task == [pc |-> "idle", retries |-> 0, failed |-> FALSE]
<1>1. "idle" \in VideoPlaces /\ "idle" \notin VideoRunning
  BY DEF VideoPlaces, VideoRunning, InThread
<1>2. task \in VideoTask /\ task.pc = "idle" /\ task.retries = 0
  BY <1>1, ChemistryAssumption DEF VideoTask
<1>3. "none" \in Artifact /\ ~Done(None)
  BY DEF Artifact, Done
<1>4. \A v \in Videos : videoTask[v] = task /\ videoJob[v] = None /\ artifact[v] = "none"
  BY DEF VideoInit
<1>5. VideoOK(task, None, "none")
  <2> HIDE DEF task
  <2> QED
    BY <1>1, <1>2, <1>3 DEF VideoOK
<1> HIDE DEF task
<1> QED
  BY <1>2, <1>3, <1>4, <1>5 DEF VideoInit, VideoInv, task

LEMMA VideoNext_VideoInv ==
  ASSUME VideoInv, [VideoNext]_videoVars PROVE VideoInv'
<1>1. ASSUME NEW v \in Videos, RequestVideo(v) \/ TaskStep(v) \/ ThreadStep(v)
      PROVE  VideoMovesWell(v)
  BY <1>1, VideoRequestMoves, VideoStartMoves, DirectoryMoves, MarkDoneMoves, MarkFailedMoves,
     ThreadMoves DEF TaskStep
<1>2. CASE UNCHANGED videoVars
  BY <1>2 DEF VideoInv, videoVars
<1> QED
  BY <1>1, <1>2, VideoMovingKeeps, VideoKillKeeps DEF VideoNext

(* In every run of the chemistry jobs, VideoInv holds: for any jobs,       *)
(* number of attempts and lost replies.                                    *)
THEOREM VideoInvariance == VideoSpec => []VideoInv
<1>1. VideoInit => VideoInv
  BY VideoInit_VideoInv
<1>2. VideoInv /\ [VideoNext]_videoVars => VideoInv'
  BY VideoNext_VideoInv
<1> QED
  BY <1>1, <1>2, PTL DEF VideoSpec

LEMMA VideoInv_Properties ==
  ASSUME VideoInv PROVE ChemistryTypeOK /\ DoneIsPlayable /\ VideoIsOwned
<1>1. ChemistryTypeOK
  BY DEF VideoInv, ChemistryTypeOK, VideoTask, VideoPlaces
<1>2. DoneIsPlayable
  BY DEF VideoInv, VideoOK, Done, DoneIsPlayable
<1>3. VideoIsOwned
  BY DEF VideoInv, VideoOK, VideoIsOwned, VideoLive
<1> QED
  BY <1>1, <1>2, <1>3
=============================================================================
