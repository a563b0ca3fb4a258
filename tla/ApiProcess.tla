----------------------------- MODULE ApiProcess -----------------------------
(***************************************************************************)
(* The API process (api/main.py) with the background tasks it runs for     *)
(* quiz and chemistry jobs.  They share its event loop and its end: what   *)
(* run_quiz_item_pipeline does between two statements that reach the       *)
(* database is never suspended, so the loop is its alone meanwhile; only   *)
(* the rendering threads go on.  The lifespan of a new process creates the *)
(* tables and looks for no job that an earlier one has left.               *)
(***************************************************************************)
EXTENDS QuizJob, ChemistryJob

VARIABLE process

vars == <<quizJob, quizItems, quizTask, videoJob, artifact, videoTask, process>>

(* A quiz task that holds the event loop.                                  *)
Blocking(q) ==
  \/ quizTask[q].pc \in {"judge", "repair", "finish"}
  \/ quizTask[q].pc = "create" /\ quizTask[q].items # <<>>

LoopFree == \A q \in QuizJobs : ~Blocking(q)

QuizRequest(q) ==
  /\ process = "up" /\ LoopFree
  /\ RequestQuiz(q)
  /\ UNCHANGED <<videoVars, process>>

QuizTurn(q) ==
  /\ process = "up" /\ (Blocking(q) \/ LoopFree)
  /\ QuizStep(q)
  /\ UNCHANGED <<videoVars, process>>

VideoRequest(v) ==
  /\ process = "up" /\ LoopFree
  /\ RequestVideo(v)
  /\ UNCHANGED <<quizVars, process>>

VideoTurn(v) ==
  /\ process = "up" /\ LoopFree
  /\ TaskStep(v)
  /\ UNCHANGED <<quizVars, process>>

ThreadTurn(v) ==
  /\ process = "up"
  /\ ThreadStep(v)
  /\ UNCHANGED <<quizVars, process>>

(* The process is stopped or dies.                                         *)
Shutdown ==
  /\ process = "up"
  /\ process' = "down"
  /\ KillQuizTasks /\ KillVideoTasks

Startup ==
  /\ process = "down"
  /\ process' = "up"
  /\ UNCHANGED <<quizVars, videoVars>>

Init == QuizInit /\ VideoInit /\ process = "down"

Next ==
  \/ \E q \in QuizJobs : QuizRequest(q) \/ QuizTurn(q)
  \/ \E v \in Videos : VideoRequest(v) \/ VideoTurn(v) \/ ThreadTurn(v)
  \/ Shutdown \/ Startup

(* The event loop is fair to its tasks, and threads get to run.            *)
Fairness ==
  /\ \A q \in QuizJobs : WF_vars(QuizTurn(q))
  /\ \A v \in Videos : WF_vars(VideoTurn(v)) /\ WF_vars(ThreadTurn(v))

Spec == Init /\ [][Next]_vars /\ Fairness

-----------------------------------------------------------------------------
(* Properties.                                                             *)

(* Every background task ends, whatever fails and however often, and       *)
(* although the quiz tasks keep the event loop from the others             *)
(* (run_quiz_generation_job, run_generation_job).                          *)
TasksEnd ==
  /\ \A q \in QuizJobs : QuizLive(q) ~> ~QuizLive(q)
  /\ \A v \in Videos : VideoLive(v) ~> ~VideoLive(v)

QuizEnded(q) ==
  /\ quizJob[q] # None
  /\ \/ quizJob[q].status = "completed" /\ quizItems[q] # <<>>
     \/ quizJob[q].status = "failed" /\ quizItems[q] = <<>>

VideoEnded(v) == videoJob[v] # None /\ videoJob[v].status \in {"done", "failed"}

(* Every job that was accepted ends: a quiz completed with its items, or   *)
(* failed without; a video done or failed (the responses of the requests,  *)
(* the handlers of both tasks, the start of a process after another one).  *)
AcceptedJobsEnd ==
  /\ \A q \in QuizJobs : quizJob[q] # None ~> QuizEnded(q)
  /\ \A v \in Videos : videoJob[v] # None ~> VideoEnded(v)
=============================================================================
