----------------------------- MODULE ReviewGate -----------------------------
(***************************************************************************)
(* POST /approve/{job_id} (api/routes.py): an editor or admin approves a   *)
(* job at the review gate.  Each reviewer makes one request; those of      *)
(* other roles are turned away before the database is asked.               *)
(*                                                                         *)
(*   reviewer[r]    the request: the statement it is at, job_id,           *)
(*                  expected_version, and the attempt of optimistic_update *)
(*   approvedBy[j]  video_part_jobs.approved_by                            *)
(***************************************************************************)
EXTENDS MediaStore

CONSTANTS
  Reviewers,
  BeginAfterRead   \* does session.begin() succeed after a SELECT on the session?

VARIABLES reviewer, approvedBy

reviewVars == <<reviewer, approvedBy>>

vars == <<chunk, job, cache, dlq, store, locked, reviewer, approvedBy>>

InRequest == {"update", "refresh"}

Becomes(r, state) == reviewer' = [reviewer EXCEPT ![r] = state]

AtRest(pc) == [pc |-> pc, job |-> None, expected |-> 0, tries |-> 0]

(* However it ended: approved_by tells who has approved.                   *)
End(r) == Becomes(r, AtRest("ended"))

-----------------------------------------------------------------------------
(* An assembled job is put up for review.  Nothing in the repository does. *)
SendToReview(r, j) ==
  /\ reviewer[r].pc = "idle"
  /\ job[j].status = "ASSEMBLED" /\ j \notin locked
  /\ job' = [job EXCEPT ![j] = WithStatus(@, "REVIEW_GATE")]
  /\ UNCHANGED <<chunk, cache, dlq, store, locked, reviewVars>>

StartUpdate(r, j) ==
  Becomes(r, [pc |-> "update", job |-> j, expected |-> job[j].version, tries |-> 0])

(* The job is read and found at the gate; then the same session is asked   *)
(* to begin.  Of a job elsewhere the answer is 400, and nothing changes.   *)
Request(r, j) ==
  /\ reviewer[r].pc = "idle" /\ job[j].status = "REVIEW_GATE"
  /\ IF BeginAfterRead THEN StartUpdate(r, j) ELSE End(r)
  /\ UNCHANGED <<approvedBy, storeVars>>

(* The version matches: the one that was read with the status, or a later  *)
(* one; the status is not looked at again.                                 *)
Approve(r) ==
  LET j == reviewer[r].job IN
  /\ reviewer[r].pc = "update" /\ j \notin locked
  /\ ~Conflicts(job[j], reviewer[r].expected)
  /\ job' = [job EXCEPT ![j] = WithStatus(@, "COMPLETED")]
  /\ approvedBy' = [approvedBy EXCEPT ![j] = r]
  /\ End(r)
  /\ UNCHANGED <<chunk, cache, dlq, store, locked>>

(* Mutant of Conflict: one retry too many.                                 *)
ConflictOnceMore(r) ==
  /\ reviewer[r].pc = "update" /\ Conflicts(job[reviewer[r].job], reviewer[r].expected)
  /\ reviewer[r].tries + 1 <= MaxRetries
  /\ Becomes(r, [reviewer[r] EXCEPT !.pc = "refresh", !.tries = @ + 1])
  /\ UNCHANGED <<approvedBy, storeVars>>

Conflict(r) ==
  /\ reviewer[r].pc = "update" /\ Conflicts(job[reviewer[r].job], reviewer[r].expected)
  /\ reviewer[r].tries + 1 < MaxRetries
  /\ Becomes(r, [reviewer[r] EXCEPT !.pc = "refresh", !.tries = @ + 1])
  /\ UNCHANGED <<approvedBy, storeVars>>

Refresh(r) ==
  /\ reviewer[r].pc = "refresh"
  /\ Becomes(r, [reviewer[r] EXCEPT !.pc = "update",
                   !.expected = job[reviewer[r].job].version])
  /\ UNCHANGED <<approvedBy, storeVars>>

Exhausted(r) ==
  LET j == reviewer[r].job IN
  /\ reviewer[r].pc = "update" /\ Conflicts(job[j], reviewer[r].expected)
  /\ reviewer[r].tries + 1 = MaxRetries
  /\ dlq' = WithDLQ(j, "LOCK_CONTENTION")
  /\ End(r)
  /\ UNCHANGED <<approvedBy, chunk, job, cache, store, locked>>

(* The request is cancelled, or its process dies.                          *)
Interrupt(r) ==
  /\ reviewer[r].pc \in InRequest
  /\ End(r)
  /\ UNCHANGED <<approvedBy, storeVars>>

ReviewInit ==
  /\ reviewer = [r \in Reviewers |-> AtRest("idle")]
  /\ approvedBy = [j \in Jobs |-> None]

Step(r) == Approve(r) \/ Conflict(r) \/ Refresh(r) \/ Exhausted(r)

Next ==
  \E r \in Reviewers :
    (\E j \in Jobs : SendToReview(r, j) \/ Request(r, j)) \/ Step(r) \/ Interrupt(r)

-----------------------------------------------------------------------------
(* Properties.                                                             *)

(* The requests' locals and approved_by have values of their types, the    *)
(* number of retries among them (approve_video_part, optimistic_update).   *)
ReviewTypeOK ==
  /\ reviewer \in
       [Reviewers ->
          [pc: {"idle", "ended"} \cup InRequest,
           job: Jobs \cup {None}, expected: Nat, tries: 0 .. MaxRetries - 1]]
  /\ approvedBy \in [Jobs -> Reviewers \cup {None}]
=============================================================================
