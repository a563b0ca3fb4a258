------------------------------ MODULE Pipeline ------------------------------
(***************************************************************************)
(* The actors of the render pipeline at work on the same rows: the render  *)
(* workers, the healing workers, the reaper and the reviewers.  Each is    *)
(* its own module; a step of one leaves the locals of the others alone and *)
(* they meet in the shared rows only.                                      *)
(***************************************************************************)
EXTENDS MediaStore, FiniteSets

CONSTANTS Deliveries, Healers, HealingMax, Feedback, Reviewers, Overlap,
          BeginAfterRead

(* What the render workers' and the healing workers' modules assume.       *)
ASSUME PipelineAssumption ==
  /\ HealingMax \in Nat \ {0}
  /\ Feedback \subseteq [professor: BOOLEAN, art: BOOLEAN]
  /\ Overlap \in BOOLEAN /\ BeginAfterRead \in BOOLEAN
  /\ IsFiniteSet(Healers)

VARIABLES worker, healer, attempts, reaper, reviewer, approvedBy

reviewVars == <<reviewer, approvedBy>>

vars == <<chunk, job, cache, dlq, store, locked, worker, healer, attempts, reaper,
          reviewer, approvedBy>>

Render == INSTANCE RenderWorker

Heal == INSTANCE Healing

Reap == INSTANCE Reaper

Review == INSTANCE ReviewGate

Init ==
  /\ Render!Init
  /\ Heal!HealingInit
  /\ Reap!ReaperInit
  /\ Review!ReviewInit

RenderNext == Render!Next /\ UNCHANGED <<healer, attempts, reaper, reviewVars>>

HealNext == Heal!Next /\ UNCHANGED <<worker, reaper, reviewVars>>

ReapNext == Reap!Next /\ UNCHANGED <<worker, healer, attempts, reviewVars>>

ReviewNext == Review!Next /\ UNCHANGED <<worker, healer, attempts, reaper>>

Next == RenderNext \/ HealNext \/ ReapNext \/ ReviewNext

(* Everybody keeps executing what they have begun.                         *)
Fairness ==
  /\ \A d \in Deliveries :
       WF_vars(Render!Step(d) /\ UNCHANGED <<healer, attempts, reaper, reviewVars>>)
  /\ \A o \in Healers : WF_vars(Heal!Step(o) /\ UNCHANGED <<worker, reaper, reviewVars>>)
  /\ WF_vars(Reap!Step /\ UNCHANGED <<worker, healer, attempts, reviewVars>>)

Spec == Init /\ [][Next]_vars /\ Fairness

-----------------------------------------------------------------------------
(* Properties.                                                             *)

(* A job becomes ASSEMBLED on counts taken earlier, while its chunks are   *)
(* reaped, healed and rendered again; it is reviewed then, and completed   *)
(* by an approval that may come late, after another rollup.  All of its    *)
(* chunks have a video as soon as it is assembled, and keep it             *)
(* (aggregate_job_rollup, whoever calls it, and approve_video_part).       *)
AssembledHasVideos ==
  \A c \in Chunks :
    \/ job[JobOf[c]].status \in {"ASSEMBLED", "REVIEW_GATE", "COMPLETED"}
    \/ approvedBy[JobOf[c]] # None
    => chunk[c].video # None

(* What a worker acknowledged stays visible whatever the healing workers   *)
(* and the reaper do to the chunk afterwards.                              *)
AckedHasVideo == Render!AckedHasVideo

(* No chunk is forgotten in HEALING, with renderers and the reaper writing *)
(* the same row.                                                           *)
HealingIsOwned == Heal!HealingIsOwned

(* The row locks that the transactions of workers, healers and the daemon  *)
(* hold while they wait for each other's rows never leave anybody waiting. *)
(* (An approval waits for a row too, and holds none meanwhile.)            *)
NobodyWaitsForever ==
  /\ Render!DeliveriesEnd
  /\ Heal!HealingEnds
  /\ reaper.pc \in Reap!AtWork ~> reaper.pc \notin Reap!AtWork

(* The daemon's locals have values of their types, those it computes from  *)
(* counts and rows that others change meanwhile too (aggregate_job_rollup). *)
ReaperTypeOK == Reap!ReaperTypeOK

(* The requests' locals have values of their types, retries that race with *)
(* the rollups among them (approve_video_part, optimistic_update).         *)
ReviewTypeOK == Review!ReviewTypeOK

(* Whoever writes a row raises its version, so that the update of a        *)
(* transaction that read it before conflicts; a job row that the daemon    *)
(* has written and not committed is overtaken by nobody.  The daemon's     *)
(* flush alone keeps the version, and it changes the status only           *)
(* (optimistic_update, run_chunk_reaper).                                  *)
RowsAreVersioned ==
  [][/\ \A c \in Chunks :
          \/ chunk'[c] = chunk[c]
          \/ chunk'[c].version > chunk[c].version
          \/ Reap!Reap /\ chunk'[c] = [chunk[c] EXCEPT !.status = "FAILED"]
     /\ \A j \in Jobs : job'[j] = job[j] \/ job'[j].version > job[j].version]_vars
=============================================================================
