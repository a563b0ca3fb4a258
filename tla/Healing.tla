------------------------------- MODULE Healing -------------------------------
(***************************************************************************)
(* The healing worker: run_healing_orchestration_task, which verifies a    *)
(* chunk with the FallbackOrchestrator of agents/graph.py (langgraph is no *)
(* dependency of the project) and, each time a verdict rejects it, runs    *)
(* execute_healing_cycle of agents/healing_agent.py.                       *)
(*                                                                         *)
(* healer[o] holds the locals of one execution of the task:                *)
(*   pc        the statement it is at                                      *)
(*   op        the update it is in or going to: HEALING (start), PENDING   *)
(*             after a healed attempt (requeue), FAILED for want of        *)
(*             attempts (exhaust) or of time (expire)                      *)
(*   chunk     chunk_id            attempt   attempt_number                *)
(*   expected  expected_version    tries     attempt of optimistic_update  *)
(*   seen      the statuses counted by the rollup                          *)
(*   target    target_status of the rollup                                 *)
(***************************************************************************)
EXTENDS MediaStore, FiniteSets

CONSTANTS
  Healers,         \* executions of the task; each runs once
  HealingMax,      \* settings.HEALING_MAX_RETRIES
  Feedback,        \* what the professor and the art director may find
  Overlap,         \* may two executions for one chunk run at the same time?
  BeginAfterRead   \* does session.begin() succeed after a SELECT on the session?

(* The professor's and the art director's nodes in graph.py are stubs that *)
(* pass every chunk; the consensus node and the router handle a rejection  *)
(* by either, and so does this module.                                     *)
ASSUME HealingAssumption ==
  /\ HealingMax \in Nat \ {0}
  /\ Feedback \subseteq [professor: BOOLEAN, art: BOOLEAN]
  /\ Overlap \in BOOLEAN /\ BeginAfterRead \in BOOLEAN
  /\ IsFiniteSet(Healers)

VARIABLES
  healer,
  attempts    \* the rows of healing_attempts

healingVars == <<healer, attempts>>

vars == <<chunk, job, cache, dlq, store, locked, healer, attempts>>

Running ==
  {"verify", "attempt", "load", "escalate", "update", "refresh", "vllm", "error",
   "count", "parent", "rollup", "reread"}

Ended == {"verified", "failed", "raised", "lost"}

AtRest(pc, c) ==
  [pc |-> pc, op |-> "none", chunk |-> c, attempt |-> 0, expected |-> 0, tries |-> 0,
   seen |-> {}, target |-> "PENDING"]

Live(o) == healer[o].pc \in Running

InRollup(o) == healer[o].pc \in {"count", "parent", "rollup", "reread"}

(* The chunk row stays locked from its update to the end of the rollup.    *)
Held(o) == {c \in {healer[o].chunk} : InRollup(o)}

AttemptsOf(c) == {a \in attempts : a.chunk = c}

Becomes(o, state) == healer' = [healer EXCEPT ![o] = state]

End(o, how) == Becomes(o, AtRest(how, healer[o].chunk))

-----------------------------------------------------------------------------
(* The consensus node.  On a rejection it also tells contradictions apart, *)
(* by the words of the errors, for an override that nothing acts on.       *)
Passed(feedback) == feedback.professor /\ feedback.art

(* A broken chunk is handed to a healing worker.                           *)
Begin(o, c) ==
  /\ healer[o].pc = "idle"
  /\ Overlap \/ \A p \in Healers : Live(p) => healer[p].chunk # c
  /\ Becomes(o, AtRest("verify", c))
  /\ UNCHANGED <<attempts, storeVars>>

(* Professor, art director, consensus; should_continue says verified.      *)
Verified(o) ==
  /\ healer[o].pc = "verify" /\ \E f \in Feedback : Passed(f)
  /\ End(o, "verified")
  /\ UNCHANGED <<attempts, storeVars>>

(* It says heal, and the cycle is within its time budget.                  *)
InBudget(o) ==
  /\ healer[o].pc = "verify" /\ \E f \in Feedback : ~Passed(f)
  /\ Becomes(o, [healer[o] EXCEPT !.pc = "attempt"])
  /\ UNCHANGED <<attempts, storeVars>>

(* It says heal, and the budget is spent.                                  *)
OverBudget(o) ==
  /\ healer[o].pc = "verify" /\ \E f \in Feedback : ~Passed(f)
  /\ dlq' = WithDLQ(healer[o].chunk, "HEALING_EXHAUSTED")
  /\ Becomes(o, [healer[o] EXCEPT !.pc = "load", !.op = "expire"])
  /\ UNCHANGED <<attempts, chunk, job, cache, store, locked>>

CountAttempts(o) ==
  /\ healer[o].pc = "attempt"
  /\ Becomes(o, [healer[o] EXCEPT !.pc = "load", !.op = "start",
                   !.attempt = Cardinality(AttemptsOf(healer[o].chunk)) + 1])
  /\ UNCHANGED <<attempts, storeVars>>

(* Mutant of LimitReached: one attempt more than the settings allow.       *)
LimitPassed(attempt) == attempt > HealingMax + 1

LimitReached(attempt) == attempt > HealingMax

(* The chunk row is read for its version.  On the way to expire the same   *)
(* session is then asked to begin; otherwise it is closed, and the number  *)
(* of attempts decides.                                                    *)
LoadChunk(o) ==
  LET h == healer[o]
      next == CASE h.op = "start" /\ LimitReached(h.attempt) -> "escalate"
                [] OTHER                                     -> "update"
  IN /\ h.pc = "load"
     /\ IF h.op = "expire" /\ ~BeginAfterRead
          THEN End(o, "raised")
          ELSE Becomes(o, [h EXCEPT !.pc = next, !.tries = 0,
                             !.expected = chunk[h.chunk].version])
     /\ UNCHANGED <<attempts, storeVars>>

(* Mutant of Escalate: the chunk is marked without being escalated.        *)
MarkOnly(o) ==
  /\ healer[o].pc = "escalate"
  /\ Becomes(o, [healer[o] EXCEPT !.pc = "update", !.op = "exhaust"])
  /\ UNCHANGED <<attempts, storeVars>>

(* No attempt is left: the dead letter queue first, then FAILED.           *)
Escalate(o) ==
  /\ healer[o].pc = "escalate"
  /\ dlq' = WithDLQ(healer[o].chunk, "HEALING_EXHAUSTED")
  /\ Becomes(o, [healer[o] EXCEPT !.pc = "update", !.op = "exhaust"])
  /\ UNCHANGED <<attempts, chunk, job, cache, store, locked>>

(* The UPDATE finds the row free and with the expected version.            *)
Matched(o) ==
  /\ healer[o].pc = "update"
  /\ ~Conflicts(chunk[healer[o].chunk], healer[o].expected)
  /\ healer[o].chunk \notin locked

StartHealing(o) ==
  LET h == healer[o] row == WithStatus(chunk[h.chunk], "HEALING") IN
  /\ Matched(o) /\ h.op = "start"
  /\ chunk' = [chunk EXCEPT ![h.chunk] = row]
  /\ Becomes(o, [h EXCEPT !.pc = "vllm", !.expected = row.version])
  /\ UNCHANGED <<attempts, job, cache, dlq, store, locked>>

(* vLLM fails, or answers after the budget is spent (the recheck).         *)
HealFails(o) ==
  /\ healer[o].pc = "vllm"
  /\ Becomes(o, [healer[o] EXCEPT !.pc = "error"])
  /\ UNCHANGED <<attempts, storeVars>>

(* A healed code, logged in a transaction of its own.                      *)
LogAttempt(o) ==
  LET h == healer[o] IN
  /\ h.pc = "vllm"
  /\ attempts' = attempts \cup {[chunk |-> h.chunk, number |-> h.attempt, by |-> o]}
  /\ Becomes(o, [h EXCEPT !.pc = "update", !.op = "requeue", !.tries = 0])
  /\ UNCHANGED storeVars

(* The chunk becomes PENDING or FAILED; the rollup follows in the same     *)
(* transaction.                                                            *)
WriteOutcome(o) ==
  /\ Matched(o) /\ healer[o].op # "start"
  /\ locked' = locked \cup {healer[o].chunk}
  /\ Becomes(o, [healer[o] EXCEPT !.pc = "count"])
  /\ UNCHANGED <<attempts, chunk, job, cache, dlq, store>>

Conflict(o) ==
  LET h == healer[o] IN
  /\ h.pc = "update" /\ Conflicts(chunk[h.chunk], h.expected)
  /\ h.tries + 1 < MaxRetries
  /\ Becomes(o, [h EXCEPT !.pc = "refresh", !.tries = h.tries + 1])
  /\ UNCHANGED <<attempts, storeVars>>

Refresh(o) ==
  /\ healer[o].pc = "refresh"
  /\ Becomes(o, [healer[o] EXCEPT !.pc = "update",
                   !.expected = chunk[healer[o].chunk].version])
  /\ UNCHANGED <<attempts, storeVars>>

(* optimistic_update gives up with a RuntimeError, which only the requeue  *)
(* is inside a try block for.                                              *)
GiveUp(o) ==
  IF healer[o].op = "requeue"
    THEN Becomes(o, [healer[o] EXCEPT !.pc = "error"])
    ELSE End(o, "raised")

Exhausted(o) ==
  LET h == healer[o] IN
  /\ h.pc = "update" /\ Conflicts(chunk[h.chunk], h.expected)
  /\ h.tries + 1 = MaxRetries
  /\ dlq' = WithDLQ(h.chunk, "LOCK_CONTENTION")
  /\ GiveUp(o)
  /\ UNCHANGED <<attempts, chunk, job, cache, store, locked>>

(* Mutant of RecordError: the error is logged and not escalated.           *)
DropError(o) ==
  /\ healer[o].pc = "error"
  /\ End(o, "failed")
  /\ UNCHANGED <<attempts, storeVars>>

(* The cycle's exception handler.  It leaves the chunk as it is.           *)
RecordError(o) ==
  /\ healer[o].pc = "error"
  /\ dlq' = WithDLQ(healer[o].chunk, "CRITICAL_ERROR")
  /\ End(o, "failed")
  /\ UNCHANGED <<attempts, chunk, job, cache, store, locked>>

-----------------------------------------------------------------------------
(* aggregate_job_rollup, inside the transaction of WriteOutcome.           *)

(* Mutant of Outcome: a status of its own for a healed chunk.              *)
OutcomeHealed(o) == IF healer[o].op = "requeue" THEN "HEALED" ELSE "FAILED"

Outcome(o) == IF healer[o].op = "requeue" THEN "PENDING" ELSE "FAILED"

StatusSeen(o, x) == IF x = healer[o].chunk THEN Outcome(o) ELSE chunk[x].status

CountChunks(o) ==
  /\ healer[o].pc = "count"
  /\ Becomes(o, [healer[o] EXCEPT !.pc = "parent",
                   !.seen = {StatusSeen(o, x) : x \in Siblings(healer[o].chunk)}])
  /\ UNCHANGED <<attempts, storeVars>>

(* Mutant of Commit: the transaction ends without releasing the chunk row. *)
CommitKeepingLock(o) ==
  LET c == healer[o].chunk IN
  /\ chunk' = [chunk EXCEPT ![c] = WithStatus(@, Outcome(o))]
  /\ UNCHANGED locked

(* The transaction writes the chunk row and is over.                       *)
Commit(o) ==
  LET c == healer[o].chunk IN
  /\ chunk' = [chunk EXCEPT ![c] = WithStatus(@, Outcome(o))]
  /\ locked' = locked \ Held(o)

(* ... with the job rows as newJob.  A requeued chunk is verified again.   *)
Close(o, newJob) ==
  /\ Commit(o)
  /\ job' = newJob
  /\ IF healer[o].op = "requeue"
       THEN Becomes(o, AtRest("verify", healer[o].chunk))
       ELSE End(o, "failed")

ReadParent(o) ==
  LET h == healer[o]
      j == JobOf[h.chunk]
      target == RollupTarget(h.seen, job[j].status)
  IN /\ h.pc = "parent"
     /\ IF target = job[j].status
          THEN Close(o, job)
          ELSE /\ Becomes(o, [h EXCEPT !.pc = "rollup", !.target = target,
                                !.expected = job[j].version, !.tries = 0])
               /\ UNCHANGED <<chunk, job, locked>>
     /\ UNCHANGED <<attempts, cache, dlq, store>>

UpdateParent(o) ==
  LET h == healer[o] j == JobOf[h.chunk] IN
  /\ h.pc = "rollup" /\ j \notin locked
  /\ ~Conflicts(job[j], h.expected)
  /\ Close(o, [job EXCEPT ![j] = WithStatus(@, h.target)])
  /\ UNCHANGED <<attempts, cache, dlq, store>>

ParentConflict(o) ==
  LET h == healer[o] IN
  /\ h.pc = "rollup" /\ Conflicts(job[JobOf[h.chunk]], h.expected)
  /\ h.tries + 1 < MaxRetries
  /\ Becomes(o, [h EXCEPT !.pc = "reread", !.tries = h.tries + 1])
  /\ UNCHANGED <<attempts, storeVars>>

RefreshParent(o) ==
  /\ healer[o].pc = "reread"
  /\ Becomes(o, [healer[o] EXCEPT !.pc = "rollup",
                   !.expected = job[JobOf[healer[o].chunk]].version])
  /\ UNCHANGED <<attempts, storeVars>>

(* The commit of the dead-letter entry commits the chunk with it.          *)
ParentExhausted(o) ==
  LET h == healer[o] j == JobOf[h.chunk] IN
  /\ h.pc = "rollup" /\ Conflicts(job[j], h.expected)
  /\ h.tries + 1 = MaxRetries
  /\ dlq' = WithDLQ(j, "LOCK_CONTENTION")
  /\ Commit(o)
  /\ GiveUp(o)
  /\ UNCHANGED <<attempts, job, cache, store>>

-----------------------------------------------------------------------------
(* The process dies or the task is cancelled at its timeout.               *)
Interrupt(o) ==
  /\ Live(o)
  /\ locked' = locked \ Held(o)
  /\ End(o, "lost")
  /\ UNCHANGED <<attempts, chunk, job, cache, dlq, store>>

HealingInit ==
  /\ healer = [o \in Healers |-> AtRest("idle", None)]
  /\ attempts = {}

Step(o) ==
  \/ Verified(o) \/ InBudget(o) \/ OverBudget(o) \/ CountAttempts(o) \/ LoadChunk(o)
  \/ Escalate(o) \/ StartHealing(o) \/ HealFails(o) \/ LogAttempt(o) \/ WriteOutcome(o)
  \/ Conflict(o) \/ Refresh(o) \/ Exhausted(o) \/ RecordError(o)
  \/ CountChunks(o) \/ ReadParent(o)
  \/ UpdateParent(o) \/ ParentConflict(o) \/ RefreshParent(o) \/ ParentExhausted(o)

Next == \E o \in Healers : (\E c \in Chunks : Begin(o, c)) \/ Step(o) \/ Interrupt(o)

Init == StoreInit /\ HealingInit

(* A worker that has begun keeps executing; no vLLM call lasts for ever.   *)
Fairness == \A o \in Healers : WF_vars(Step(o))

Spec == Init /\ [][Next]_vars /\ Fairness

-----------------------------------------------------------------------------
(* Properties.                                                             *)

HealerState ==
  [pc: {"idle"} \cup Running \cup Ended,
   op: {"none", "start", "requeue", "exhaust", "expire"},
   chunk: Chunks \cup {None}, attempt: Nat, expected: Nat, tries: 0 .. MaxRetries,
   seen: SUBSET ChunkStatus, target: JobStatus]

(* Every local of a healing worker and every row of healing_attempts has a *)
(* value of its type (healing_agent.py, models.py HealingAttempt).         *)
HealingTypeOK ==
  /\ healer \in [Healers -> HealerState]
  /\ attempts \subseteq [chunk: Chunks, number: Nat, by: Healers]

(* A chunk is healed HEALING_MAX_RETRIES times, and the check-then-act of  *)
(* the attempt count lets each further concurrent execution add one.       *)
AttemptsBounded ==
  \A c \in Chunks :
    Cardinality(AttemptsOf(c)) <=
      HealingMax + (IF Overlap THEN Cardinality(Healers) - 1 ELSE 0)

(* A chunk in HEALING is somebody's: of an execution at work on it, or     *)
(* cut short on it, or else the dead letter queue knows of it.             *)
HealingIsOwned ==
  \A c \in Chunks : chunk[c].status = "HEALING" =>
    \/ \E o \in Healers : healer[o].chunk = c /\ (Live(o) \/ healer[o].pc = "lost")
    \/ \E e \in dlq : e.row = c

(* An execution that ends without a verified chunk has put the chunk into  *)
(* the dead letter queue, on every one of the paths out of the cycle.      *)
FailureIsEscalated ==
  \A o \in Healers : healer[o].pc \in {"failed", "raised"} =>
    \E e \in dlq : e.row = healer[o].chunk

(* Every execution ends, although the orchestrator loops for as long as    *)
(* the verdict is a rejection: attempts run out.                           *)
HealingEnds ==
  \A o \in Healers : healer[o].pc = "verify" ~> healer[o].pc \in Ended
=============================================================================
