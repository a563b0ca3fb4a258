--------------------------- MODULE Healing_proofs ---------------------------
(***************************************************************************)
(* Proofs about Healing for every set of chunks, jobs and executions, any  *)
(* verdicts, every limit of attempts and of retries, and both settings of  *)
(* Overlap and BeginAfterRead.                                             *)
(***************************************************************************)
EXTENDS Healing, FiniteSetTheorems, TLAPS

(* An execution at work has a chunk, and is at a statement its update goes *)
(* through.                                                                *)
InPlace(h) ==
  /\ h.pc \in Running => h.chunk \in Chunks
  /\ h.pc \in {"load", "update", "refresh"} => h.op # "none"
  /\ h.pc \in {"vllm", "error"} => h.op \in {"start", "requeue"}
  /\ h.pc \in {"count", "parent", "rollup", "reread"} =>
       h.op \in {"requeue", "exhaust", "expire"}

TypeInv ==
  /\ StoreTypeOK
  /\ HealingTypeOK
  /\ IsFiniteSet(attempts)
  /\ \A o \in Healers : InPlace(healer[o])

LEMMA RollupTargetType ==
  ASSUME NEW seen, NEW current \in JobStatus
  PROVE  RollupTarget(seen, current) \in JobStatus
BY DEF RollupTarget, JobStatus

LEMMA RowTypes ==
  /\ \A r \in ChunkRow, s \in ChunkStatus : WithStatus(r, s) \in ChunkRow
  /\ \A r \in JobRow, s \in JobStatus : WithStatus(r, s) \in JobRow
<1>1. ASSUME NEW r \in ChunkRow, NEW s \in ChunkStatus
      PROVE  WithStatus(r, s) \in ChunkRow
  <2>1. r.version + 1 \in Nat
    BY DEF ChunkRow
  <2>2. QED
    BY <2>1 DEF ChunkRow, WithStatus
<1>2. ASSUME NEW r \in JobRow, NEW s \in JobStatus
      PROVE  WithStatus(r, s) \in JobRow
  <2>1. r.version + 1 \in Nat
    BY DEF JobRow
  <2>2. QED
    BY <2>1 DEF JobRow, WithStatus
<1>3. QED
  BY <1>1, <1>2

LEMMA AtRestType ==
  ASSUME NEW pc \in {"idle"} \cup Running \cup Ended, NEW c \in Chunks \cup {None}
  PROVE  AtRest(pc, c) \in HealerState
BY StoreAssumption DEF AtRest, HealerState, JobStatus

(* One execution's update keeps all of them well typed when its new record *)
(* is.                                                                     *)
LEMMA BecomesType ==
  ASSUME NEW o \in Healers, NEW v \in HealerState, InPlace(v), Becomes(o, v),
         healer \in [Healers -> HealerState],
         \A p \in Healers : InPlace(healer[p])
  PROVE  /\ healer' \in [Healers -> HealerState]
         /\ \A p \in Healers : InPlace(healer'[p])
BY DEF Becomes

LEMMA EndType ==
  ASSUME TypeInv, NEW o \in Healers, NEW how \in Ended, End(o, how)
  PROVE  /\ healer' \in [Healers -> HealerState]
         /\ \A p \in Healers : InPlace(healer'[p])
<1> DEFINE v == AtRest(how, healer[o].chunk)
<1>1. v \in HealerState
  BY AtRestType DEF TypeInv, HealingTypeOK, HealerState
<1>2. InPlace(v)
  BY DEF InPlace, AtRest, Ended, Running
<1>3. QED
  BY <1>1, <1>2, BecomesType DEF End, TypeInv, HealingTypeOK

LEMMA InitType == Init => TypeInv
<1> SUFFICES ASSUME Init PROVE TypeInv
  OBVIOUS
<1>1. StoreTypeOK
  BY DEF Init, StoreInit, StoreTypeOK, ChunkRow, JobRow, ChunkStatus, JobStatus
<1>2. healer \in [Healers -> HealerState] /\ attempts = {}
  BY AtRestType DEF Init, HealingInit
<1>3. IsFiniteSet({})
  BY FS_EmptySet
<1>4. QED
  BY <1>1, <1>2, <1>3 DEF Init, HealingInit, TypeInv, HealingTypeOK, InPlace, AtRest, Running

(* The attempt an execution counts is a number.                            *)
LEMMA CountType ==
  ASSUME TypeInv, NEW c
  PROVE  Cardinality(AttemptsOf(c)) + 1 \in Nat
<1>1. IsFiniteSet(AttemptsOf(c))
  BY FS_Subset DEF TypeInv, AttemptsOf
<1>2. Cardinality(AttemptsOf(c)) \in Nat
  BY <1>1, FS_CardinalityType
<1>3. QED
  BY <1>2

(* The row an execution commits, and what is left of the locks.            *)
LEMMA CommitType ==
  ASSUME TypeInv, NEW o \in Healers, healer[o].chunk \in Chunks, Commit(o)
  PROVE  /\ chunk' \in [Chunks -> ChunkRow]
         /\ locked' \subseteq Chunks \cup Jobs \cup Codes
<1>1. Outcome(o) \in ChunkStatus
  BY DEF Outcome, ChunkStatus
<1>2. WithStatus(chunk[healer[o].chunk], Outcome(o)) \in ChunkRow
  BY <1>1, RowTypes DEF TypeInv, StoreTypeOK
<1>3. QED
  BY <1>2 DEF Commit, TypeInv, StoreTypeOK

LEMMA CloseType ==
  ASSUME TypeInv, NEW o \in Healers, Live(o), NEW newJob \in [Jobs -> JobRow],
         Close(o, newJob), UNCHANGED <<attempts, cache, dlq, store>>
  PROVE  TypeInv'
<1> DEFINE v == AtRest("verify", healer[o].chunk)
<1>1. healer[o].chunk \in Chunks
  BY DEF Live, TypeInv, InPlace
<1>2. chunk' \in [Chunks -> ChunkRow] /\ locked' \subseteq Chunks \cup Jobs \cup Codes
  BY <1>1, CommitType DEF Close
<1>3. StoreTypeOK'
  BY <1>2 DEF Close, TypeInv, StoreTypeOK
<1>4. v \in HealerState /\ InPlace(v)
  BY <1>1, AtRestType DEF InPlace, AtRest, Running
<1>5. /\ healer' \in [Healers -> HealerState]
      /\ \A p \in Healers : InPlace(healer'[p])
  <2>1. CASE healer[o].op = "requeue"
    BY <2>1, <1>4, BecomesType DEF Close, TypeInv, HealingTypeOK
  <2>2. CASE healer[o].op # "requeue"
    BY <2>2, EndType DEF Close, Ended
  <2>3. QED
    BY <2>1, <2>2
<1>6. QED
  BY <1>3, <1>5 DEF TypeInv, HealingTypeOK

LEMMA GiveUpType ==
  ASSUME TypeInv, NEW o \in Healers, Live(o), GiveUp(o)
  PROVE  /\ healer' \in [Healers -> HealerState]
         /\ \A p \in Healers : InPlace(healer'[p])
<1> DEFINE v == [healer[o] EXCEPT !.pc = "error"]
<1>1. CASE healer[o].op = "requeue"
  <2>1. v \in HealerState /\ InPlace(v)
    BY <1>1 DEF TypeInv, HealingTypeOK, HealerState, InPlace, Live, Running
  <2>2. QED
    BY <1>1, <2>1, BecomesType DEF GiveUp, TypeInv, HealingTypeOK
<1>2. CASE healer[o].op # "requeue"
  BY <1>2, EndType DEF GiveUp, Ended
<1>3. QED
  BY <1>1, <1>2

LEMMA StepType ==
  ASSUME TypeInv, NEW o \in Healers, Step(o)
  PROVE  TypeInv'
<1> DEFINE h == healer[o]
           TypedHealers == /\ healer' \in [Healers -> HealerState]
                           /\ \A p \in Healers : InPlace(healer'[p])
<1> USE DEF InPlace
<1>h. /\ h \in HealerState /\ InPlace(h)
      /\ h.chunk \in Chunks =>
           chunk[h.chunk] \in ChunkRow /\ JobOf[h.chunk] \in Jobs /\ job[JobOf[h.chunk]] \in JobRow
  BY StoreAssumption DEF TypeInv, HealingTypeOK, StoreTypeOK
<1>n. 0 \in 0 .. MaxRetries /\ (h.tries + 1 < MaxRetries => h.tries + 1 \in 0 .. MaxRetries)
  BY StoreAssumption, <1>h DEF HealerState
<1>1. CASE Verified(o)
  <2>1. TypedHealers
    BY <1>1, EndType DEF Verified, Ended
  <2>2. QED
    BY <1>1, <2>1 DEF Verified, TypeInv, HealingTypeOK, StoreTypeOK, storeVars
<1>2. CASE InBudget(o)
  <2> DEFINE v == [h EXCEPT !.pc = "attempt"]
  <2>8. v \in HealerState /\ InPlace(v)
    BY <1>2, <1>h, <1>n DEF InBudget, HealerState, Running
  <2>9. QED
    BY <1>2, <2>8, BecomesType DEF InBudget, TypeInv, HealingTypeOK, StoreTypeOK, storeVars
<1>3. CASE OverBudget(o)
  <2> DEFINE v == [h EXCEPT !.pc = "load", !.op = "expire"]
  <2>1. h.chunk \in Chunks
    BY <1>3, <1>h DEF OverBudget, Running
  <2>2. v \in HealerState /\ InPlace(v)
    BY <2>1, <1>h DEF HealerState, Running
  <2>3. StoreTypeOK'
    BY <1>3, <2>1 DEF OverBudget, WithDLQ, DLQReason, TypeInv, StoreTypeOK
  <2>4. QED
    BY <1>3, <2>2, <2>3, BecomesType DEF OverBudget, TypeInv, HealingTypeOK
<1>4. CASE CountAttempts(o)
  <2> DEFINE n == Cardinality(AttemptsOf(h.chunk)) + 1
             v == [h EXCEPT !.pc = "load", !.op = "start", !.attempt = n]
  <2>1. n \in Nat
    BY CountType
  <2>2. h.chunk \in Chunks
    BY <1>4, <1>h DEF CountAttempts, Running
  <2> HIDE DEF n
  <2>3. v \in HealerState /\ InPlace(v)
    BY <2>1, <2>2, <1>h DEF HealerState, Running
  <2>4. Becomes(o, v)
    BY <1>4 DEF CountAttempts, n
  <2>5. QED
    BY <1>4, <2>3, <2>4, BecomesType DEF CountAttempts, TypeInv, HealingTypeOK, StoreTypeOK, storeVars
<1>5. CASE LoadChunk(o)
  <2>1. CASE h.op = "expire" /\ ~BeginAfterRead
    <3>1. TypedHealers
      BY <1>5, <2>1, EndType DEF LoadChunk, Ended
    <3>2. QED
      BY <1>5, <3>1 DEF LoadChunk, TypeInv, HealingTypeOK, StoreTypeOK, storeVars
  <2>2. CASE ~(h.op = "expire" /\ ~BeginAfterRead)
    <3>1. h.chunk \in Chunks /\ chunk[h.chunk].version \in Nat /\ h.op # "none"
      BY <1>5, <1>h DEF LoadChunk, Running, ChunkRow
    <3>2. PICK next \in {"escalate", "update"} :
            Becomes(o, [h EXCEPT !.pc = next, !.tries = 0, !.expected = chunk[h.chunk].version])
      BY <1>5, <2>2 DEF LoadChunk
    <3> DEFINE v == [h EXCEPT !.pc = next, !.tries = 0, !.expected = chunk[h.chunk].version]
    <3>3. v \in HealerState /\ InPlace(v)
      BY <3>1, <1>h, <1>n DEF HealerState, Running
    <3>4. QED
      BY <1>5, <3>2, <3>3, BecomesType DEF LoadChunk, TypeInv, HealingTypeOK, StoreTypeOK, storeVars
  <2>3. QED
    BY <2>1, <2>2
<1>6. CASE Escalate(o)
  <2> DEFINE v == [h EXCEPT !.pc = "update", !.op = "exhaust"]
  <2>1. h.chunk \in Chunks
    BY <1>6, <1>h DEF Escalate, Running
  <2>2. v \in HealerState /\ InPlace(v)
    BY <2>1, <1>h DEF HealerState, Running
  <2>3. StoreTypeOK'
    BY <1>6, <2>1 DEF Escalate, WithDLQ, DLQReason, TypeInv, StoreTypeOK
  <2>4. QED
    BY <1>6, <2>2, <2>3, BecomesType DEF Escalate, TypeInv, HealingTypeOK
<1>7. CASE StartHealing(o)
  <2> DEFINE row == WithStatus(chunk[h.chunk], "HEALING")
             v == [h EXCEPT !.pc = "vllm", !.expected = row.version]
  <2>1. h.chunk \in Chunks /\ h.op = "start"
    BY <1>7, <1>h DEF StartHealing, Matched, Running
  <2>2. row \in ChunkRow /\ row.version \in Nat
    BY <2>1, <1>h, RowTypes DEF ChunkRow, ChunkStatus
  <2>3. StoreTypeOK'
    BY <1>7, <2>1, <2>2 DEF StartHealing, TypeInv, StoreTypeOK
  <2>4. v \in HealerState /\ InPlace(v)
    BY <2>1, <2>2, <1>h DEF HealerState, Running
  <2>5. QED
    BY <1>7, <2>3, <2>4, BecomesType DEF StartHealing, TypeInv, HealingTypeOK
<1>8. CASE HealFails(o)
  <2> DEFINE v == [h EXCEPT !.pc = "error"]
  <2>8. v \in HealerState /\ InPlace(v)
    BY <1>8, <1>h, <1>n DEF HealFails, HealerState, Running
  <2>9. QED
    BY <1>8, <2>8, BecomesType DEF HealFails, TypeInv, HealingTypeOK, StoreTypeOK, storeVars
<1>9. CASE LogAttempt(o)
  <2> DEFINE entry == [chunk |-> h.chunk, number |-> h.attempt, by |-> o]
             v == [h EXCEPT !.pc = "update", !.op = "requeue", !.tries = 0]
  <2>1. h.chunk \in Chunks /\ h.attempt \in Nat
    BY <1>9, <1>h DEF LogAttempt, Running, HealerState
  <2>2. v \in HealerState /\ InPlace(v)
    BY <2>1, <1>h, <1>n DEF HealerState, Running
  <2>3. IsFiniteSet(attempts')
    <3>1. attempts' = attempts \cup {entry}
      BY <1>9 DEF LogAttempt
    <3>2. QED
      BY <3>1, FS_AddElement DEF TypeInv
  <2>4. attempts' \subseteq [chunk: Chunks, number: Nat, by: Healers]
    BY <1>9, <2>1 DEF LogAttempt, TypeInv, HealingTypeOK
  <2>5. TypedHealers
    BY <1>9, <2>2, BecomesType DEF LogAttempt, TypeInv, HealingTypeOK
  <2>6. QED
    BY <1>9, <2>3, <2>4, <2>5 DEF LogAttempt, TypeInv, HealingTypeOK, StoreTypeOK, storeVars
<1>10. CASE WriteOutcome(o)
  <2> DEFINE v == [h EXCEPT !.pc = "count"]
  <2>1. h.chunk \in Chunks
    BY <1>10, <1>h DEF WriteOutcome, Matched, Running
  <2>2. h.op \in {"requeue", "exhaust", "expire"}
    BY <1>10, <1>h DEF WriteOutcome, Matched, HealerState
  <2>3. v \in HealerState /\ InPlace(v)
    BY <2>1, <2>2, <1>h DEF HealerState, Running
  <2>4. StoreTypeOK'
    BY <1>10, <2>1 DEF WriteOutcome, TypeInv, StoreTypeOK
  <2>5. QED
    BY <1>10, <2>3, <2>4, BecomesType DEF WriteOutcome, TypeInv, HealingTypeOK
<1>11. CASE Conflict(o)
  <2> DEFINE v == [h EXCEPT !.pc = "refresh", !.tries = h.tries + 1]
  <2>8. v \in HealerState /\ InPlace(v)
    BY <1>11, <1>h, <1>n DEF Conflict, HealerState, Running
  <2>9. QED
    BY <1>11, <2>8, BecomesType DEF Conflict, TypeInv, HealingTypeOK, StoreTypeOK, storeVars
<1>12. CASE Refresh(o)
  <2> DEFINE v == [h EXCEPT !.pc = "update", !.expected = chunk[h.chunk].version]
  <2>1. h.chunk \in Chunks /\ chunk[h.chunk].version \in Nat
    BY <1>12, <1>h DEF Refresh, Running, ChunkRow
  <2>8. v \in HealerState /\ InPlace(v)
    BY <1>12, <2>1, <1>h, <1>n DEF Refresh, HealerState, Running
  <2>9. QED
    BY <1>12, <2>8, BecomesType DEF Refresh, TypeInv, HealingTypeOK, StoreTypeOK, storeVars
<1>13. CASE Exhausted(o)
  <2>1. h.chunk \in Chunks
    BY <1>13, <1>h DEF Exhausted, Running
  <2>2. StoreTypeOK'
    BY <1>13, <2>1 DEF Exhausted, WithDLQ, DLQReason, TypeInv, StoreTypeOK
  <2>3. TypedHealers
    BY <1>13, <2>1, GiveUpType DEF Exhausted, Live, Running
  <2>4. QED
    BY <1>13, <2>2, <2>3 DEF Exhausted, TypeInv, HealingTypeOK
<1>14. CASE RecordError(o)
  <2>1. h.chunk \in Chunks
    BY <1>14, <1>h DEF RecordError, Running
  <2>2. StoreTypeOK'
    BY <1>14, <2>1 DEF RecordError, WithDLQ, DLQReason, TypeInv, StoreTypeOK
  <2>3. TypedHealers
    BY <1>14, EndType DEF RecordError, Ended
  <2>4. QED
    BY <1>14, <2>2, <2>3 DEF RecordError, TypeInv, HealingTypeOK
<1>15. CASE CountChunks(o)
  <2> DEFINE seen == {StatusSeen(o, x) : x \in Siblings(h.chunk)}
             v == [h EXCEPT !.pc = "parent", !.seen = seen]
  <2>1. h.chunk \in Chunks /\ h.op \in {"requeue", "exhaust", "expire"}
    BY <1>15, <1>h DEF CountChunks, Running
  <2>2. \A x \in Chunks : StatusSeen(o, x) \in ChunkStatus
    BY DEF TypeInv, StoreTypeOK, ChunkRow, StatusSeen, Outcome, ChunkStatus
  <2>3. seen \subseteq ChunkStatus
    BY <2>2 DEF Siblings
  <2>4. v \in HealerState /\ InPlace(v)
    BY <2>1, <2>3, <1>h DEF HealerState, Running
  <2>5. QED
    BY <1>15, <2>4, BecomesType DEF CountChunks, TypeInv, HealingTypeOK, StoreTypeOK, storeVars
<1>16. CASE ReadParent(o)
  <2> DEFINE j == JobOf[h.chunk]
             target == RollupTarget(h.seen, job[j].status)
             v == [h EXCEPT !.pc = "rollup", !.target = target,
                     !.expected = job[j].version, !.tries = 0]
  <2>1. h.chunk \in Chunks /\ Live(o) /\ h.op \in {"requeue", "exhaust", "expire"}
    BY <1>16, <1>h DEF ReadParent, Running, Live
  <2>2. job[j].status \in JobStatus /\ job[j].version \in Nat
    BY <2>1, <1>h DEF JobRow
  <2>3. target \in JobStatus
    BY <2>2, RollupTargetType
  <2>4. CASE target = job[j].status
    BY <1>16, <2>1, <2>4, CloseType DEF ReadParent, TypeInv, StoreTypeOK
  <2>5. CASE target # job[j].status
    <3>1. v \in HealerState /\ InPlace(v)
      BY <2>1, <2>2, <2>3, <1>h, <1>n DEF HealerState, Running
    <3>2. QED
      BY <1>16, <2>5, <3>1, BecomesType DEF ReadParent, TypeInv, HealingTypeOK, StoreTypeOK
  <2>6. QED
    BY <2>4, <2>5
<1>17. CASE UpdateParent(o)
  <2> DEFINE j == JobOf[h.chunk]
             newJob == [job EXCEPT ![j] = WithStatus(job[j], h.target)]
  <2>1. h.chunk \in Chunks /\ Live(o)
    BY <1>17, <1>h DEF UpdateParent, Running, Live
  <2>2. WithStatus(job[j], h.target) \in JobRow
    BY <2>1, <1>h, RowTypes DEF HealerState
  <2>3. newJob \in [Jobs -> JobRow]
    BY <2>1, <2>2, <1>h DEF TypeInv, StoreTypeOK
  <2>4. QED
    BY <1>17, <2>1, <2>3, CloseType DEF UpdateParent
<1>18. CASE ParentConflict(o)
  <2> DEFINE v == [h EXCEPT !.pc = "reread", !.tries = h.tries + 1]
  <2>8. v \in HealerState /\ InPlace(v)
    BY <1>18, <1>h, <1>n DEF ParentConflict, HealerState, Running
  <2>9. QED
    BY <1>18, <2>8, BecomesType DEF ParentConflict, TypeInv, HealingTypeOK, StoreTypeOK, storeVars
<1>19. CASE RefreshParent(o)
  <2> DEFINE v == [h EXCEPT !.pc = "rollup", !.expected = job[JobOf[h.chunk]].version]
  <2>1. job[JobOf[h.chunk]].version \in Nat
    BY <1>19, <1>h DEF RefreshParent, Running, JobRow
  <2>8. v \in HealerState /\ InPlace(v)
    BY <1>19, <2>1, <1>h, <1>n DEF RefreshParent, HealerState, Running
  <2>9. QED
    BY <1>19, <2>8, BecomesType DEF RefreshParent, TypeInv, HealingTypeOK, StoreTypeOK, storeVars
<1>20. CASE ParentExhausted(o)
  <2>1. h.chunk \in Chunks /\ Live(o)
    BY <1>20, <1>h DEF ParentExhausted, Running, Live
  <2>2. chunk' \in [Chunks -> ChunkRow] /\ locked' \subseteq Chunks \cup Jobs \cup Codes
    BY <1>20, <2>1, CommitType DEF ParentExhausted
  <2>3. StoreTypeOK'
    BY <1>20, <2>1, <2>2, <1>h DEF ParentExhausted, WithDLQ, DLQReason, TypeInv, StoreTypeOK
  <2>4. TypedHealers
    BY <1>20, <2>1, GiveUpType DEF ParentExhausted
  <2>5. QED
    BY <1>20, <2>3, <2>4 DEF ParentExhausted, TypeInv, HealingTypeOK
<1>21. QED
  BY <1>1, <1>2, <1>3, <1>4, <1>5, <1>6, <1>7, <1>8, <1>9, <1>10, <1>11,
     <1>12, <1>13, <1>14, <1>15, <1>16, <1>17, <1>18, <1>19, <1>20 DEF Step

LEMMA NextType == TypeInv /\ [Next]_vars => TypeInv'
<1> SUFFICES ASSUME TypeInv, [Next]_vars PROVE TypeInv'
  OBVIOUS
<1>1. ASSUME NEW o \in Healers, NEW c \in Chunks, Begin(o, c)
      PROVE  TypeInv'
  <2>1. AtRest("verify", c) \in HealerState /\ InPlace(AtRest("verify", c))
    BY AtRestType DEF Running, InPlace, AtRest
  <2>2. QED
    BY <1>1, <2>1, BecomesType DEF Begin, TypeInv, HealingTypeOK, StoreTypeOK, storeVars
<1>2. ASSUME NEW o \in Healers, Interrupt(o)
      PROVE  TypeInv'
  BY <1>2, EndType DEF Interrupt, TypeInv, HealingTypeOK, StoreTypeOK, Ended
<1>3. CASE UNCHANGED vars
  BY <1>3 DEF vars, TypeInv, HealingTypeOK, StoreTypeOK
<1>4. QED
  BY <1>1, <1>2, <1>3, StepType DEF Next

(* Every local of the healing task, every row it writes and every attempt  *)
(* it logs keeps its type, whatever overlaps, conflicts or is interrupted. *)
THEOREM TypeCorrect == Spec => []HealingTypeOK
<1>1. Init => TypeInv
  BY InitType
<1>2. TypeInv /\ [Next]_vars => TypeInv'
  BY NextType
<1>3. TypeInv => HealingTypeOK
  BY DEF TypeInv
<1>4. QED
  BY <1>1, <1>2, <1>3, PTL DEF Spec

-----------------------------------------------------------------------------
(* Nothing that goes wrong is lost: the invariants.                        *)

DeadLettered(c) == \E e \in dlq : e.row = c

(* An execution that escalates does so before anything else, and keeps     *)
(* going to its end with the entry committed.                              *)
MustBeDeadLettered(h) ==
  \/ h.pc \in {"failed", "raised"}
  \/ h.pc \in Running /\ h.op \in {"exhaust", "expire"}

Escalated == \A o \in Healers : MustBeDeadLettered(healer[o]) => DeadLettered(healer[o].chunk)

(* The executions that can have put their chunk into HEALING, as long as   *)
(* they have not taken it out again.                                       *)
Heals(h) ==
  \/ h.pc = "lost"
  \/ h.pc \in {"vllm", "error"}
  \/ /\ h.pc \in {"update", "refresh", "count", "parent", "rollup", "reread"}
     /\ h.op = "requeue"

Owned ==
  \A c \in Chunks : chunk[c].status = "HEALING" =>
    \/ \E o \in Healers : healer[o].chunk = c /\ Heals(healer[o])
    \/ DeadLettered(c)

IInv == TypeInv /\ Escalated /\ Owned

(* What a step of one execution does, as far as the invariants can tell.   *)
Effect(o) ==
  /\ \A p \in Healers : p # o => healer'[p] = healer[p]
  /\ dlq \subseteq dlq'
  /\ healer'[o].chunk = healer[o].chunk
  /\ MustBeDeadLettered(healer'[o]) =>
       MustBeDeadLettered(healer[o]) \/ \E e \in dlq' : e.row = healer[o].chunk
  /\ \A c \in Chunks : chunk'[c].status = "HEALING" =>
       \/ c = healer[o].chunk /\ Heals(healer'[o])
       \/ /\ chunk[c].status = "HEALING"
          /\ c = healer[o].chunk /\ Heals(healer[o]) =>
               Heals(healer'[o]) \/ \E e \in dlq' : e.row = c

(* A dead letter stays, and the new one is found.                          *)
LEMMA InDLQ ==
  ASSUME NEW row, NEW reason, dlq' = WithDLQ(row, reason)
  PROVE  dlq \subseteq dlq' /\ \E e \in dlq' : e.row = row
<1> DEFINE entry == [row |-> row, reason |-> reason]
<1>1. entry \in dlq' /\ entry.row = row /\ dlq \subseteq dlq'
  BY DEF WithDLQ
<1>2. QED
  BY <1>1

(* The end of the update's transaction takes the chunk out of HEALING.     *)
LEMMA CloseEffect ==
  ASSUME TypeInv, NEW o \in Healers, InRollup(o), NEW newJob, Close(o, newJob),
         UNCHANGED dlq
  PROVE  Effect(o)
<1>1. /\ healer \in [Healers -> HealerState] /\ healer[o] \in HealerState
      /\ chunk \in [Chunks -> ChunkRow]
      /\ healer[o].op \in {"requeue", "exhaust", "expire"}
      /\ healer[o].pc \in Running
  BY DEF TypeInv, HealingTypeOK, StoreTypeOK, InPlace, InRollup, Running
<1>2. /\ \A c \in Chunks : c # healer[o].chunk => chunk'[c] = chunk[c]
      /\ \A c \in Chunks : c = healer[o].chunk => chunk'[c].status # "HEALING"
  BY <1>1 DEF Close, Commit, Outcome, WithStatus, ChunkRow
<1>3. CASE healer[o].op = "requeue"
  <2>1. /\ healer' = [healer EXCEPT ![o] = AtRest("verify", healer[o].chunk)]
        /\ ~MustBeDeadLettered(AtRest("verify", healer[o].chunk))
    BY <1>3 DEF Close, Becomes, MustBeDeadLettered, AtRest
  <2>2. AtRest("verify", healer[o].chunk).chunk = healer[o].chunk
    BY DEF AtRest
  <2>3. QED
    BY <1>1, <1>2, <2>1, <2>2 DEF Effect
<1>4. CASE healer[o].op # "requeue"
  <2>1. /\ healer' = [healer EXCEPT ![o] = AtRest("failed", healer[o].chunk)]
        /\ MustBeDeadLettered(healer[o])
    BY <1>1, <1>4 DEF Close, End, Becomes, MustBeDeadLettered
  <2>2. AtRest("failed", healer[o].chunk).chunk = healer[o].chunk
    BY DEF AtRest
  <2>3. QED
    BY <1>1, <1>2, <2>1, <2>2 DEF Effect
<1>5. QED
  BY <1>3, <1>4

LEMMA StepEffect ==
  ASSUME TypeInv, NEW o \in Healers, Step(o)
  PROVE  Effect(o)
<1> USE DEF Effect, MustBeDeadLettered, Heals, Becomes, Running
<1>t. /\ healer \in [Healers -> HealerState] /\ healer[o] \in HealerState
      /\ InPlace(healer[o])
      /\ chunk \in [Chunks -> ChunkRow]
      /\ healer[o].pc \in Running => healer[o].chunk \in Chunks
  BY DEF TypeInv, HealingTypeOK, StoreTypeOK, InPlace
<1>1. CASE Verified(o)
  BY <1>1, <1>t DEF Verified, HealerState, InPlace, ChunkRow, storeVars, End, AtRest
<1>2. CASE InBudget(o)
  BY <1>2, <1>t DEF InBudget, HealerState, InPlace, ChunkRow, storeVars
<1>3. CASE OverBudget(o)
  <2>0. dlq' = WithDLQ(healer[o].chunk, "HEALING_EXHAUSTED")
    BY <1>3 DEF OverBudget
  <2>1. dlq \subseteq dlq' /\ \E e \in dlq' : e.row = healer[o].chunk
    BY <2>0, InDLQ
  <2>2. QED
    BY <1>3, <2>1, <1>t DEF OverBudget, HealerState
<1>4. CASE CountAttempts(o)
  BY <1>4, <1>t DEF CountAttempts, HealerState, InPlace, ChunkRow, storeVars
<1>5. CASE LoadChunk(o)
  <2>1. CASE healer[o].op = "expire" /\ ~BeginAfterRead
    BY <1>5, <2>1, <1>t DEF LoadChunk, HealerState, storeVars, End, AtRest
  <2>2. CASE ~(healer[o].op = "expire" /\ ~BeginAfterRead)
    <3>1. PICK next \in {"escalate", "update"} :
            Becomes(o, [healer[o] EXCEPT !.pc = next, !.tries = 0,
                          !.expected = chunk[healer[o].chunk].version])
      BY <1>5, <2>2 DEF LoadChunk
    <3>2. QED
      BY <1>5, <3>1, <1>t DEF LoadChunk, HealerState, storeVars
  <2>3. QED
    BY <2>1, <2>2
<1>6. CASE Escalate(o)
  <2>0. dlq' = WithDLQ(healer[o].chunk, "HEALING_EXHAUSTED")
    BY <1>6 DEF Escalate
  <2>1. dlq \subseteq dlq' /\ \E e \in dlq' : e.row = healer[o].chunk
    BY <2>0, InDLQ
  <2>2. QED
    BY <1>6, <2>1, <1>t DEF Escalate, HealerState
<1>7. CASE StartHealing(o)
  BY <1>7, <1>t DEF StartHealing, HealerState, InPlace, ChunkRow, storeVars, Matched, WithStatus
<1>8. CASE HealFails(o)
  BY <1>8, <1>t DEF HealFails, HealerState, InPlace, ChunkRow, storeVars
<1>9. CASE LogAttempt(o)
  BY <1>9, <1>t DEF LogAttempt, HealerState, InPlace, ChunkRow, storeVars
<1>10. CASE WriteOutcome(o)
  BY <1>10, <1>t DEF WriteOutcome, HealerState, InPlace, ChunkRow, storeVars, Matched
<1>11. CASE Conflict(o)
  BY <1>11, <1>t DEF Conflict, HealerState, InPlace, ChunkRow, storeVars
<1>12. CASE Refresh(o)
  BY <1>12, <1>t DEF Refresh, HealerState, InPlace, ChunkRow, storeVars
<1>13. CASE Exhausted(o)
  <2>0. dlq' = WithDLQ(healer[o].chunk, "LOCK_CONTENTION")
    BY <1>13 DEF Exhausted
  <2>1. dlq \subseteq dlq' /\ \E e \in dlq' : e.row = healer[o].chunk
    BY <2>0, InDLQ
  <2>2. CASE healer[o].op = "requeue"
    BY <1>13, <2>1, <2>2, <1>t DEF Exhausted, HealerState, GiveUp
  <2>3. CASE healer[o].op # "requeue"
    BY <1>13, <2>1, <2>3, <1>t DEF Exhausted, HealerState, GiveUp, End, AtRest
  <2>4. QED
    BY <2>2, <2>3
<1>14. CASE RecordError(o)
  <2>0. dlq' = WithDLQ(healer[o].chunk, "CRITICAL_ERROR")
    BY <1>14 DEF RecordError
  <2>1. dlq \subseteq dlq' /\ \E e \in dlq' : e.row = healer[o].chunk
    BY <2>0, InDLQ
  <2>2. QED
    BY <1>14, <2>1, <1>t DEF RecordError, HealerState, End, AtRest
<1>15. CASE CountChunks(o)
  BY <1>15, <1>t DEF CountChunks, HealerState, InPlace, ChunkRow, storeVars
<1>16. CASE ReadParent(o)
  <2> DEFINE j == JobOf[healer[o].chunk]
             target == RollupTarget(healer[o].seen, job[j].status)
  <2>1. CASE target = job[j].status
    <3>1. Close(o, job) /\ UNCHANGED dlq /\ InRollup(o)
      BY <1>16, <2>1 DEF ReadParent, InRollup
    <3>2. QED
      BY <3>1, CloseEffect
  <2>2. CASE target # job[j].status
    <3>1. Becomes(o, [healer[o] EXCEPT !.pc = "rollup", !.target = target,
                        !.expected = job[j].version, !.tries = 0])
          /\ UNCHANGED <<chunk, dlq>> /\ healer[o].pc = "parent"
      BY <1>16, <2>2 DEF ReadParent
    <3> HIDE DEF target
    <3>2. QED
      BY <3>1, <1>t DEF HealerState
  <2>3. QED
    BY <2>1, <2>2
<1>17. CASE UpdateParent(o)
  <2>1. /\ Close(o, [job EXCEPT ![JobOf[healer[o].chunk]] = WithStatus(@, healer[o].target)])
        /\ UNCHANGED dlq /\ InRollup(o)
    BY <1>17 DEF UpdateParent, InRollup
  <2>2. QED
    BY <2>1, CloseEffect
<1>18. CASE ParentConflict(o)
  BY <1>18, <1>t DEF ParentConflict, HealerState, InPlace, ChunkRow, storeVars
<1>19. CASE RefreshParent(o)
  BY <1>19, <1>t DEF RefreshParent, HealerState, InPlace, ChunkRow, storeVars
<1>20. CASE ParentExhausted(o)
  BY <1>20, <1>t DEF ParentExhausted, HealerState, InPlace, ChunkRow, storeVars, Commit, Outcome, GiveUp, WithStatus, End, AtRest, WithDLQ
<1>21. QED
  BY <1>1, <1>2, <1>3, <1>4, <1>5, <1>6, <1>7, <1>8, <1>9, <1>10, <1>11,
     <1>12, <1>13, <1>14, <1>15, <1>16, <1>17, <1>18, <1>19, <1>20 DEF Step

(* The invariants follow from the effect.                                  *)
LEMMA EffectKeeps ==
  ASSUME TypeInv, Escalated, Owned, NEW o \in Healers, Effect(o)
  PROVE  Escalated' /\ Owned'
<1>1. \A c : (\E e \in dlq : e.row = c) => \E e \in dlq' : e.row = c
  BY DEF Effect
<1>2. Escalated'
  <2> SUFFICES ASSUME NEW p \in Healers, MustBeDeadLettered(healer'[p])
               PROVE  \E e \in dlq' : e.row = healer'[p].chunk
    BY DEF Escalated, MustBeDeadLettered, DeadLettered
  <2>1. CASE p = o
    <3>1. MustBeDeadLettered(healer[o]) => \E e \in dlq : e.row = healer[o].chunk
      BY DEF Escalated, DeadLettered
    <3>2. healer'[o].chunk = healer[o].chunk
      BY DEF Effect
    <3>3. MustBeDeadLettered(healer[o]) \/ \E e \in dlq' : e.row = healer[o].chunk
      BY <2>1 DEF Effect
    <3>4. QED
      BY <2>1, <3>1, <3>2, <3>3, <1>1
  <2>2. CASE p # o
    <3>1. healer'[p] = healer[p]
      BY <2>2 DEF Effect
    <3>2. \E e \in dlq : e.row = healer[p].chunk
      BY <3>1 DEF Escalated, DeadLettered
    <3>3. QED
      BY <3>1, <3>2, <1>1
  <2>3. QED
    BY <2>1, <2>2
<1>3. Owned'
  <2> SUFFICES ASSUME NEW c \in Chunks, chunk'[c].status = "HEALING"
               PROVE  \/ \E p \in Healers : healer'[p].chunk = c /\ Heals(healer'[p])
                      \/ \E e \in dlq' : e.row = c
    BY DEF Owned, Heals, DeadLettered
  <2>1. CASE c = healer[o].chunk /\ Heals(healer'[o])
    BY <2>1 DEF Effect
  <2>2. CASE ~(c = healer[o].chunk /\ Heals(healer'[o]))
    <3>1. chunk[c].status = "HEALING"
      BY <2>2 DEF Effect
    <3>2. CASE DeadLettered(c)
      BY <3>2, <1>1 DEF DeadLettered
    <3>3. ASSUME NEW p \in Healers, healer[p].chunk = c, Heals(healer[p])
          PROVE  \/ \E q \in Healers : healer'[q].chunk = c /\ Heals(healer'[q])
                 \/ \E e \in dlq' : e.row = c
      <4>1. CASE p = o
        BY <2>2, <3>3, <4>1 DEF Effect
      <4>2. CASE p # o
        BY <3>3, <4>2 DEF Effect
      <4>3. QED
        BY <4>1, <4>2
    <3>4. QED
      BY <3>1, <3>2, <3>3 DEF Owned
  <2>3. QED
    BY <2>1, <2>2
<1>4. QED
  BY <1>2, <1>3

LEMMA NextKeeps == IInv /\ [Next]_vars => IInv'
<1> SUFFICES ASSUME IInv, [Next]_vars PROVE IInv'
  OBVIOUS
<1>t. TypeInv' /\ healer \in [Healers -> HealerState]
  BY NextType DEF IInv, TypeInv, HealingTypeOK
<1>1. ASSUME NEW o \in Healers, NEW c \in Chunks, Begin(o, c)
      PROVE  IInv'
  <2>1. /\ healer' = [healer EXCEPT ![o] = AtRest("verify", c)]
        /\ chunk' = chunk /\ dlq' = dlq /\ healer[o].pc = "idle"
    BY <1>1 DEF Begin, Becomes, storeVars
  <2>2. ~MustBeDeadLettered(AtRest("verify", c)) /\ ~Heals(healer[o])
    BY <2>1 DEF MustBeDeadLettered, Heals, AtRest
  <2>3. Escalated'
    BY <2>1, <2>2, <1>t DEF IInv, Escalated, DeadLettered, MustBeDeadLettered
  <2>4. Owned'
    BY <2>1, <2>2, <1>t DEF IInv, Owned, DeadLettered, Heals
  <2>5. QED
    BY <1>t, <2>3, <2>4 DEF IInv
<1>2. ASSUME NEW o \in Healers, Step(o)
      PROVE  IInv'
  BY <1>2, <1>t, StepEffect, EffectKeeps DEF IInv
<1>3. ASSUME NEW o \in Healers, Interrupt(o)
      PROVE  IInv'
  <2>1. Effect(o)
    BY <1>3, <1>t DEF Interrupt, End, AtRest, Becomes, Effect, MustBeDeadLettered, Heals
  <2>2. QED
    BY <2>1, <1>t, EffectKeeps DEF IInv
<1>4. CASE UNCHANGED vars
  BY <1>4, <1>t DEF IInv, vars, Escalated, Owned, DeadLettered, MustBeDeadLettered, Heals
<1>5. QED
  BY <1>1, <1>2, <1>3, <1>4 DEF Next

LEMMA InitIInv == Init => IInv
<1> SUFFICES ASSUME Init PROVE IInv
  OBVIOUS
<1>1. Escalated
  BY DEF Init, HealingInit, Escalated, MustBeDeadLettered, AtRest, Running
<1>2. Owned
  BY DEF Init, StoreInit, Owned
<1>3. QED
  BY <1>1, <1>2, InitType DEF IInv

(* In every reachable state the rows and locals have their types, each     *)
(* execution that must have escalated has, and each chunk in HEALING is    *)
(* somebody's or in the dead letter queue (execute_healing_cycle).         *)
THEOREM Invariance == Spec => []IInv
<1>1. Init => IInv
  BY InitIInv
<1>2. IInv /\ [Next]_vars => IInv'
  BY NextKeeps
<1>3. QED
  BY <1>1, <1>2, PTL DEF Spec

(* No execution of the healing task ends without a verified chunk and      *)
(* without an entry in the dead letter queue, on none of the ways out of   *)
(* execute_healing_cycle.                                                  *)
THEOREM FailuresAreEscalated == Spec => []FailureIsEscalated
<1>1. IInv => FailureIsEscalated
  BY DEF IInv, Escalated, MustBeDeadLettered, DeadLettered, FailureIsEscalated
<1>2. QED
  BY <1>1, Invariance, PTL

(* A chunk in HEALING has an execution at work on it or cut short on it,   *)
(* or an entry in the dead letter queue.                                   *)
THEOREM HealingHasAnOwner == Spec => []HealingIsOwned
<1>1. IInv => HealingIsOwned
  BY DEF IInv, Owned, Heals, DeadLettered, HealingIsOwned, Live, Running
<1>2. QED
  BY <1>1, Invariance, PTL

-----------------------------------------------------------------------------
(* How many attempts a chunk can get: the count is read in one transaction *)
(* and the attempt logged in another, so what is bounded is the number of  *)
(* rows together with the executions that have been let past the limit.    *)

(* An execution whose count has let it through and that has not logged.    *)
Armed(h) ==
  /\ h.op = "start" /\ h.pc \in {"load", "update", "refresh", "vllm"}
  /\ h.attempt <= HealingMax

ArmedOn(c) == {o \in Healers : healer[o].chunk = c /\ Armed(healer[o])}

(* Nobody calls vLLM without having been let through.                      *)
Counted(h) ==
  /\ h.pc = "vllm" => h.op = "start"
  /\ h.op = "start" /\ h.pc \in {"update", "refresh", "vllm"} => h.attempt <= HealingMax

(* Without Overlap a chunk has one execution at a time.                    *)
Exclusive ==
  ~Overlap => \A o, p \in Healers :
    Live(o) /\ Live(p) /\ healer[o].chunk = healer[p].chunk => o = p

Slack == IF Overlap THEN Cardinality(Healers) - 1 ELSE 0

Budget ==
  \A c \in Chunks :
    Cardinality(AttemptsOf(c)) + Cardinality(ArmedOn(c)) <= HealingMax + Slack

CountInv ==
  /\ TypeInv
  /\ \A o \in Healers : Counted(healer[o])
  /\ Exclusive
  /\ Budget

(* What a step of one execution does to the count: it keeps its licence at *)
(* most, takes one out on the rows it has just counted, or spends it.      *)
CountEffect(o) ==
  /\ \A p \in Healers : p # o => healer'[p] = healer[p]
  /\ healer'[o].chunk = healer[o].chunk
  /\ healer'[o].pc \in Running => healer[o].pc \in Running
  /\ Counted(healer'[o])
  /\ \/ attempts' = attempts /\ (Armed(healer'[o]) => Armed(healer[o]))
     \/ /\ attempts' = attempts /\ healer[o].pc \in Running
        /\ healer'[o].attempt = Cardinality(AttemptsOf(healer[o].chunk)) + 1
     \/ /\ Armed(healer[o]) /\ ~Armed(healer'[o])
        /\ \E n : attempts' =
             attempts \cup {[chunk |-> healer[o].chunk, number |-> n, by |-> o]}

LEMMA EndCountEffect ==
  ASSUME TypeInv, NEW o \in Healers, NEW how \in Ended, End(o, how), UNCHANGED attempts
  PROVE  CountEffect(o)
<1>1. healer' = [healer EXCEPT ![o] = AtRest(how, healer[o].chunk)]
      /\ healer \in [Healers -> HealerState]
  BY DEF End, Becomes, TypeInv, HealingTypeOK
<1>2. /\ ~Armed(AtRest(how, healer[o].chunk)) /\ Counted(AtRest(how, healer[o].chunk))
      /\ AtRest(how, healer[o].chunk).pc \notin Running
      /\ AtRest(how, healer[o].chunk).chunk = healer[o].chunk
  BY DEF AtRest, Armed, Counted, Ended, Running
<1>3. QED
  BY <1>1, <1>2 DEF CountEffect

LEMMA CloseCountEffect ==
  ASSUME TypeInv, NEW o \in Healers, InRollup(o), NEW newJob, Close(o, newJob),
         UNCHANGED attempts
  PROVE  CountEffect(o)
<1> DEFINE v == AtRest("verify", healer[o].chunk)
<1>1. CASE healer[o].op = "requeue"
  <2>1. healer' = [healer EXCEPT ![o] = v] /\ healer \in [Healers -> HealerState]
    BY <1>1 DEF Close, Becomes, TypeInv, HealingTypeOK
  <2>2. ~Armed(v) /\ Counted(v) /\ v.chunk = healer[o].chunk /\ healer[o].pc \in Running
    BY DEF AtRest, Armed, Counted, InRollup, Running
  <2>3. QED
    BY <2>1, <2>2 DEF CountEffect
<1>2. CASE healer[o].op # "requeue"
  BY <1>2, EndCountEffect DEF Close, Ended
<1>3. QED
  BY <1>1, <1>2

LEMMA StepCountEffect ==
  ASSUME TypeInv, NEW o \in Healers, Counted(healer[o]), Step(o)
  PROVE  CountEffect(o)
<1> USE DEF CountEffect, Armed, Counted, Becomes, Running, Ended
<1>t. /\ healer \in [Healers -> HealerState] /\ healer[o] \in HealerState
      /\ InPlace(healer[o])
  BY DEF TypeInv, HealingTypeOK
<1>1. CASE Verified(o)
  BY <1>1, EndCountEffect DEF Verified
<1>2. CASE InBudget(o)
  BY <1>2, <1>t DEF InBudget, HealerState
<1>3. CASE OverBudget(o)
  BY <1>3, <1>t DEF OverBudget, HealerState
<1>4. CASE CountAttempts(o)
  <2> DEFINE n == Cardinality(AttemptsOf(healer[o].chunk)) + 1
  <2>1. /\ healer' = [healer EXCEPT ![o] = [healer[o] EXCEPT !.pc = "load", !.op = "start",
                                              !.attempt = n]]
        /\ attempts' = attempts /\ healer[o].pc = "attempt"
    BY <1>4 DEF CountAttempts
  <2> HIDE DEF n
  <2>2. healer'[o].attempt = n /\ healer'[o].pc = "load" /\ healer'[o].chunk = healer[o].chunk
    BY <2>1, <1>t DEF HealerState
  <2>3. QED
    BY <2>1, <2>2, <1>t DEF n
<1>5. CASE LoadChunk(o)
  <2>1. CASE healer[o].op = "expire" /\ ~BeginAfterRead
    BY <1>5, <2>1, EndCountEffect DEF LoadChunk
  <2>2. CASE healer[o].op = "expire" /\ BeginAfterRead
    BY <1>5, <2>2, <1>t DEF LoadChunk, HealerState
  <2>3. CASE healer[o].op = "start" /\ healer[o].attempt > HealingMax
    <3>1. Becomes(o, [healer[o] EXCEPT !.pc = "escalate", !.tries = 0,
                        !.expected = chunk[healer[o].chunk].version])
      BY <1>5, <2>3 DEF LoadChunk, LimitReached
    <3>2. QED
      BY <1>5, <3>1, <1>t DEF LoadChunk, HealerState, storeVars
  <2>4. CASE healer[o].op = "start" /\ ~(healer[o].attempt > HealingMax)
    <3>1. healer[o].attempt <= HealingMax
      BY <2>4, <1>t, HealingAssumption DEF HealerState
    <3>2. QED
      BY <1>5, <2>4, <3>1, <1>t DEF LoadChunk, LimitReached, HealerState
  <2>5. CASE healer[o].op \notin {"start", "expire"}
    <3>1. Becomes(o, [healer[o] EXCEPT !.pc = "update", !.tries = 0,
                        !.expected = chunk[healer[o].chunk].version])
      BY <1>5, <2>5 DEF LoadChunk
    <3>2. QED
      BY <1>5, <2>5, <3>1, <1>t DEF LoadChunk, HealerState, storeVars
  <2>6. QED
    BY <2>1, <2>2, <2>3, <2>4, <2>5
<1>6. CASE Escalate(o)
  BY <1>6, <1>t DEF Escalate, HealerState
<1>7. CASE StartHealing(o)
  BY <1>7, <1>t DEF StartHealing, HealerState, Matched
<1>8. CASE HealFails(o)
  BY <1>8, <1>t DEF HealFails, HealerState
<1>9. CASE LogAttempt(o)
  <2>1. /\ healer' = [healer EXCEPT ![o] = [healer[o] EXCEPT !.pc = "update",
                                              !.op = "requeue", !.tries = 0]]
        /\ attempts' = attempts \cup
             {[chunk |-> healer[o].chunk, number |-> healer[o].attempt, by |-> o]}
        /\ healer[o].pc = "vllm"
    BY <1>9 DEF LogAttempt
  <2>2. Armed(healer[o]) /\ ~Armed(healer'[o]) /\ Counted(healer'[o])
        /\ healer'[o].chunk = healer[o].chunk
    BY <2>1, <1>t DEF HealerState
  <2>3. QED
    BY <2>1, <2>2, <1>t
<1>10. CASE WriteOutcome(o)
  BY <1>10, <1>t DEF WriteOutcome, HealerState, Matched
<1>11. CASE Conflict(o)
  BY <1>11, <1>t DEF Conflict, HealerState
<1>12. CASE Refresh(o)
  BY <1>12, <1>t DEF Refresh, HealerState
<1>13. CASE Exhausted(o)
  <2>1. CASE healer[o].op = "requeue"
    BY <1>13, <2>1, <1>t DEF Exhausted, HealerState, GiveUp
  <2>2. CASE healer[o].op # "requeue"
    BY <1>13, <2>2, EndCountEffect DEF Exhausted, GiveUp
  <2>3. QED
    BY <2>1, <2>2
<1>14. CASE RecordError(o)
  BY <1>14, EndCountEffect DEF RecordError
<1>15. CASE CountChunks(o)
  BY <1>15, <1>t DEF CountChunks, HealerState, InPlace
<1>16. CASE ReadParent(o)
  <2> DEFINE j == JobOf[healer[o].chunk]
             target == RollupTarget(healer[o].seen, job[j].status)
  <2>1. CASE target = job[j].status
    BY <1>16, <2>1, CloseCountEffect DEF ReadParent, InRollup
  <2>2. CASE target # job[j].status
    <3>1. Becomes(o, [healer[o] EXCEPT !.pc = "rollup", !.target = target,
                        !.expected = job[j].version, !.tries = 0])
          /\ UNCHANGED attempts /\ healer[o].pc = "parent"
      BY <1>16, <2>2 DEF ReadParent
    <3> HIDE DEF target
    <3>2. QED
      BY <3>1, <1>t DEF HealerState
  <2>3. QED
    BY <2>1, <2>2
<1>17. CASE UpdateParent(o)
  <2>1. /\ Close(o, [job EXCEPT ![JobOf[healer[o].chunk]] = WithStatus(@, healer[o].target)])
        /\ UNCHANGED attempts /\ InRollup(o)
    BY <1>17 DEF UpdateParent, InRollup
  <2>2. QED
    BY <2>1, CloseCountEffect
<1>18. CASE ParentConflict(o)
  BY <1>18, <1>t DEF ParentConflict, HealerState
<1>19. CASE RefreshParent(o)
  BY <1>19, <1>t DEF RefreshParent, HealerState
<1>20. CASE ParentExhausted(o)
  <2>1. CASE healer[o].op = "requeue"
    BY <1>20, <2>1, <1>t DEF ParentExhausted, HealerState, GiveUp
  <2>2. CASE healer[o].op # "requeue"
    BY <1>20, <2>2, EndCountEffect DEF ParentExhausted, GiveUp
  <2>3. QED
    BY <2>1, <2>2
<1>21. QED
  BY <1>1, <1>2, <1>3, <1>4, <1>5, <1>6, <1>7, <1>8, <1>9, <1>10, <1>11,
     <1>12, <1>13, <1>14, <1>15, <1>16, <1>17, <1>18, <1>19, <1>20 DEF Step

(* The sets whose sizes the invariant adds up are finite, and no more      *)
(* executions are armed than may work on one chunk.                        *)
LEMMA Sizes ==
  ASSUME TypeInv, NEW c
  PROVE  /\ IsFiniteSet(AttemptsOf(c)) /\ Cardinality(AttemptsOf(c)) \in Nat
         /\ IsFiniteSet(ArmedOn(c)) /\ Cardinality(ArmedOn(c)) \in Nat
         /\ Cardinality(Healers) \in Nat /\ Cardinality(ArmedOn(c)) <= Cardinality(Healers)
         /\ Healers # {} => Slack \in Nat
<1>1. IsFiniteSet(AttemptsOf(c)) /\ Cardinality(AttemptsOf(c)) \in Nat
  BY FS_Subset, FS_CardinalityType DEF TypeInv, AttemptsOf
<1>2. ArmedOn(c) \in SUBSET Healers /\ IsFiniteSet(Healers)
  BY HealingAssumption DEF ArmedOn
<1>3. /\ IsFiniteSet(ArmedOn(c)) /\ Cardinality(ArmedOn(c)) <= Cardinality(Healers)
      /\ Cardinality(ArmedOn(c)) \in Nat /\ Cardinality(Healers) \in Nat
  BY <1>2, FS_Subset, FS_CardinalityType
<1>4. Healers # {} => Cardinality(Healers) # 0
  BY <1>2, FS_EmptySet
<1>5. Healers # {} => Slack \in Nat
  BY <1>3, <1>4 DEF Slack
<1>6. QED
  BY <1>1, <1>3, <1>5

LEMMA CountEffectKeeps ==
  ASSUME CountInv, TypeInv', NEW o \in Healers, CountEffect(o)
  PROVE  CountInv'
<1>1. \A p \in Healers : Counted(healer'[p])
  BY DEF CountInv, CountEffect
<1>2. \A p \in Healers : healer'[p].chunk = healer[p].chunk /\ (Live(p)' => Live(p))
  BY DEF CountEffect, Live
<1>3. Exclusive'
  BY <1>2 DEF CountInv, Exclusive
<1>4. ASSUME NEW c \in Chunks
      PROVE  Cardinality(AttemptsOf(c)') + Cardinality(ArmedOn(c)') <= HealingMax + Slack
  <2> DEFINE A == Cardinality(AttemptsOf(c))
             R == Cardinality(ArmedOn(c))
             An == Cardinality(AttemptsOf(c)')
             Rn == Cardinality(ArmedOn(c)')
  <2>1. /\ A \in Nat /\ R \in Nat /\ IsFiniteSet(AttemptsOf(c)) /\ IsFiniteSet(ArmedOn(c))
        /\ A + R <= HealingMax + Slack /\ Slack \in Nat /\ HealingMax \in Nat
    BY Sizes, HealingAssumption DEF CountInv, Budget
  <2>2. /\ An \in Nat /\ Rn \in Nat /\ IsFiniteSet(AttemptsOf(c)') /\ IsFiniteSet(ArmedOn(c)')
    <3>1. IsFiniteSet(AttemptsOf(c)')
      BY FS_Subset DEF TypeInv, AttemptsOf
    <3>2. IsFiniteSet(ArmedOn(c)')
      BY FS_Subset, HealingAssumption DEF ArmedOn
    <3>3. QED
      BY <3>1, <3>2, FS_CardinalityType
  <2>3. ASSUME attempts' = attempts
        PROVE  An = A
    <3>1. AttemptsOf(c)' = AttemptsOf(c)
      BY <2>3 DEF AttemptsOf
    <3>2. QED
      BY <3>1
  <2>4. ASSUME Armed(healer'[o]) /\ healer[o].chunk = c => Armed(healer[o])
        PROVE  ArmedOn(c)' \in SUBSET ArmedOn(c) /\ Rn <= R
    <3>1. ArmedOn(c)' = {p \in Healers : healer'[p].chunk = c /\ Armed(healer'[p])}
      BY DEF ArmedOn, Armed
    <3>2. ArmedOn(c)' \in SUBSET ArmedOn(c)
      BY <2>4, <3>1, <1>2 DEF CountEffect, ArmedOn
    <3>3. QED
      BY <3>2, <2>1, FS_Subset
  <2>5. CASE attempts' = attempts /\ (Armed(healer'[o]) => Armed(healer[o]))
    <3>1. An = A
      BY <2>3, <2>5
    <3>2. Rn <= R
      BY <2>4, <2>5
    <3> HIDE DEF A, R, An, Rn
    <3>3. An + Rn <= HealingMax + Slack
      BY <2>1, <2>2, <3>1, <3>2 DEF Slack
    <3>4. QED
      BY <3>3 DEF An, Rn
  <2>6. CASE /\ attempts' = attempts /\ healer[o].pc \in Running
             /\ healer'[o].attempt = Cardinality(AttemptsOf(healer[o].chunk)) + 1
    <3>1. An = A
      BY <2>3, <2>6
    <3>2. CASE Armed(healer'[o]) /\ healer[o].chunk = c
      <4>1. A + 1 <= HealingMax
        BY <2>6, <3>2 DEF Armed
      <4>2. Rn <= 1 + Slack
        <5>1. CASE Overlap
          <6>1. Rn <= Cardinality(Healers)
            BY FS_Subset, HealingAssumption DEF ArmedOn
          <6>2. Cardinality(Healers) \in Nat
            BY Sizes DEF CountInv
          <6> HIDE DEF Rn
          <6>3. QED
            BY <5>1, <6>1, <6>2, <2>2 DEF Slack
        <5>2. CASE ~Overlap
          <6>1. ASSUME NEW p \in ArmedOn(c)'
                PROVE  p = o
            <7>1. p \in Healers /\ healer'[p].chunk = c /\ healer'[p].pc \in Running
              BY DEF ArmedOn, Armed, Running
            <7>2. Live(p) /\ Live(o) /\ healer[p].chunk = healer[o].chunk
              BY <7>1, <1>2, <2>6, <3>2 DEF Live
            <7>3. QED
              BY <5>2, <7>1, <7>2 DEF CountInv, Exclusive
          <6>2. ArmedOn(c)' \in SUBSET {o}
            BY <6>1
          <6>3. IsFiniteSet({o}) /\ Cardinality({o}) = 1
            BY FS_Singleton
          <6>4. Rn <= 1
            BY <6>2, <6>3, FS_Subset
          <6>5. QED
            BY <5>2, <6>4 DEF Slack
        <5>3. QED
          BY <5>1, <5>2
      <4> HIDE DEF A, R, An, Rn
      <4>3. An + Rn <= HealingMax + Slack
        BY <2>1, <2>2, <3>1, <4>1, <4>2 DEF Slack
      <4>4. QED
        BY <4>3 DEF An, Rn
    <3>3. CASE ~(Armed(healer'[o]) /\ healer[o].chunk = c)
      <4>1. Rn <= R
        BY <2>4, <3>3
      <4> HIDE DEF A, R, An, Rn
      <4>2. An + Rn <= HealingMax + Slack
        BY <2>1, <2>2, <3>1, <4>1 DEF Slack
      <4>3. QED
        BY <4>2 DEF An, Rn
    <3>4. QED
      BY <3>2, <3>3
  <2>7. CASE /\ Armed(healer[o]) /\ ~Armed(healer'[o])
             /\ \E n : attempts' =
                  attempts \cup {[chunk |-> healer[o].chunk, number |-> n, by |-> o]}
    <3>1. PICK n : attempts' =
                  attempts \cup {[chunk |-> healer[o].chunk, number |-> n, by |-> o]}
      BY <2>7
    <3> DEFINE entry == [chunk |-> healer[o].chunk, number |-> n, by |-> o]
    <3>2. CASE healer[o].chunk = c
      <4>1. AttemptsOf(c)' = AttemptsOf(c) \cup {entry}
        BY <3>1, <3>2 DEF AttemptsOf
      <4>2. An = A \/ An = A + 1
        BY <4>1, <2>1, FS_AddElement
      <4>3. Rn <= R - 1
        <5>1. o \in ArmedOn(c) /\ o \notin ArmedOn(c)' /\ ArmedOn(c)' \in SUBSET ArmedOn(c)
          <6>1. o \in ArmedOn(c)
            BY <2>7, <3>2 DEF ArmedOn
          <6>2. ArmedOn(c)' = {p \in Healers : healer'[p].chunk = c /\ Armed(healer'[p])}
            BY DEF ArmedOn, Armed
          <6>3. ArmedOn(c)' \in SUBSET ArmedOn(c)
            BY <2>4, <2>7
          <6>4. QED
            BY <6>1, <6>2, <6>3, <2>7
        <5>2. ArmedOn(c)' \in SUBSET (ArmedOn(c) \ {o})
          BY <5>1
        <5>3. IsFiniteSet(ArmedOn(c) \ {o}) /\ Cardinality(ArmedOn(c) \ {o}) = R - 1
          BY <5>1, <2>1, FS_RemoveElement
        <5>4. QED
          BY <5>2, <5>3, FS_Subset
      <4> HIDE DEF A, R, An, Rn
      <4>4. An + Rn <= HealingMax + Slack
        BY <2>1, <2>2, <4>2, <4>3 DEF Slack
      <4>5. QED
        BY <4>4 DEF An, Rn
    <3>3. CASE healer[o].chunk # c
      <4>1. AttemptsOf(c)' = AttemptsOf(c)
        BY <3>1, <3>3 DEF AttemptsOf
      <4>2. An = A
        BY <4>1
      <4>3. Rn <= R
        BY <2>4, <3>3
      <4> HIDE DEF A, R, An, Rn
      <4>4. An + Rn <= HealingMax + Slack
        BY <2>1, <2>2, <4>2, <4>3 DEF Slack
      <4>5. QED
        BY <4>4 DEF An, Rn
    <3>4. QED
      BY <3>2, <3>3
  <2>8. QED
    BY <2>5, <2>6, <2>7 DEF CountEffect
<1>5. Budget'
  BY <1>4 DEF Budget, Slack
<1>6. QED
  BY <1>1, <1>3, <1>5 DEF CountInv, Counted

(* A new execution has no licence, and without Overlap no colleague.       *)
LEMMA BeginCount ==
  ASSUME CountInv, TypeInv', NEW o \in Healers, NEW c \in Chunks, Begin(o, c)
  PROVE  CountInv'
<1>1. /\ healer' = [healer EXCEPT ![o] = AtRest("verify", c)] /\ healer[o].pc = "idle"
      /\ healer \in [Healers -> HealerState] /\ attempts' = attempts
      /\ Overlap \/ \A p \in Healers : Live(p) => healer[p].chunk # c
  BY DEF Begin, Becomes, CountInv, TypeInv, HealingTypeOK
<1>2. /\ Counted(AtRest("verify", c)) /\ ~Armed(AtRest("verify", c)) /\ ~Armed(healer[o])
      /\ AtRest("verify", c).chunk = c
  BY <1>1 DEF Counted, Armed, AtRest
<1>3. \A p \in Healers : Counted(healer[p])'
  BY <1>1, <1>2 DEF CountInv, Counted
<1>4. \A p \in Healers : p # o => healer'[p] = healer[p]
  BY <1>1
<1>5. Exclusive'
  BY <1>1, <1>2, <1>4, HealingAssumption DEF CountInv, Exclusive, Live
<1>6. \A x \in Chunks : ArmedOn(x)' = ArmedOn(x) /\ AttemptsOf(x)' = AttemptsOf(x)
  <2> TAKE x \in Chunks
  <2>1. ArmedOn(x)' = {p \in Healers : healer'[p].chunk = x /\ Armed(healer'[p])}
    BY DEF ArmedOn, Armed
  <2>2. \A p \in Healers : (healer'[p].chunk = x /\ Armed(healer'[p]))
                              <=> (healer[p].chunk = x /\ Armed(healer[p]))
    BY <1>1, <1>2, <1>4
  <2>3. QED
    BY <1>1, <2>1, <2>2 DEF ArmedOn, AttemptsOf
<1>7. Budget'
  BY <1>6 DEF CountInv, Budget, Slack
<1>8. QED
  BY <1>3, <1>5, <1>7 DEF CountInv

LEMMA InitCount == Init => CountInv
<1> SUFFICES ASSUME Init PROVE CountInv
  OBVIOUS
<1>1. TypeInv
  BY InitType
<1>2. \A o \in Healers : healer[o] = AtRest("idle", None)
  BY DEF Init, HealingInit
<1>3. \A o \in Healers : Counted(healer[o]) /\ ~Live(o) /\ ~Armed(healer[o])
  BY <1>2 DEF Counted, Live, Armed, AtRest, Running
<1>4. Exclusive
  BY <1>3 DEF Exclusive
<1>5. ASSUME NEW c \in Chunks
      PROVE  Cardinality(AttemptsOf(c)) + Cardinality(ArmedOn(c)) <= HealingMax + Slack
  <2>1. AttemptsOf(c) = {} /\ ArmedOn(c) = {}
    BY <1>3 DEF Init, HealingInit, AttemptsOf, ArmedOn
  <2>2. Cardinality(Healers) \in Nat
    BY HealingAssumption, FS_CardinalityType
  <2>3. HealingMax + Slack >= 0
    BY <2>2, HealingAssumption DEF Slack
  <2>4. QED
    BY <2>1, <2>3, FS_EmptySet
<1>6. QED
  BY <1>1, <1>3, <1>4, <1>5 DEF CountInv, Budget

LEMMA NextCount == CountInv /\ [Next]_vars => CountInv'
<1> SUFFICES ASSUME CountInv, [Next]_vars PROVE CountInv'
  OBVIOUS
<1>t. TypeInv'
  BY NextType DEF CountInv
<1>1. ASSUME NEW o \in Healers, NEW c \in Chunks, Begin(o, c)
      PROVE  CountInv'
  BY <1>1, <1>t, BeginCount
<1>2. ASSUME NEW o \in Healers, Step(o)
      PROVE  CountInv'
  <2>1. CountEffect(o)
    BY <1>2, StepCountEffect DEF CountInv
  <2>2. QED
    BY <1>t, <2>1, CountEffectKeeps
<1>3. ASSUME NEW o \in Healers, Interrupt(o)
      PROVE  CountInv'
  <2>1. CountEffect(o)
    BY <1>3, EndCountEffect DEF CountInv, Interrupt, Ended
  <2>2. QED
    BY <1>t, <2>1, CountEffectKeeps
<1>4. CASE UNCHANGED vars
  <2>1. healer' = healer /\ attempts' = attempts
    BY <1>4 DEF vars
  <2>2. \A c : ArmedOn(c)' = ArmedOn(c) /\ AttemptsOf(c)' = AttemptsOf(c)
    BY <2>1 DEF ArmedOn, AttemptsOf, Armed
  <2>3. Budget'
    BY <2>2 DEF CountInv, Budget, Slack
  <2>4. Exclusive' /\ \A o \in Healers : Counted(healer[o])'
    BY <2>1 DEF CountInv, Exclusive, Live, Counted
  <2>5. QED
    BY <1>t, <2>3, <2>4 DEF CountInv
<1>5. QED
  BY <1>1, <1>2, <1>3, <1>4 DEF Next

LEMMA CountBounds ==
  ASSUME CountInv
  PROVE  AttemptsBounded
<1> SUFFICES ASSUME NEW c \in Chunks
             PROVE  Cardinality(AttemptsOf(c)) <= HealingMax + Slack
  BY DEF AttemptsBounded, Slack
<1>1. /\ Cardinality(AttemptsOf(c)) \in Nat /\ Cardinality(ArmedOn(c)) \in Nat
      /\ Cardinality(Healers) \in Nat
  BY Sizes DEF CountInv
<1>2. Cardinality(AttemptsOf(c)) + Cardinality(ArmedOn(c)) <= HealingMax + Slack
  BY DEF CountInv, Budget
<1>3. QED
  BY <1>1, <1>2, HealingAssumption DEF Slack

(* However the executions interleave, a chunk is healed no more often than *)
(* HEALING_MAX_RETRIES plus the number of the other executions, and        *)
(* exactly within HEALING_MAX_RETRIES when they do not overlap             *)
(* (execute_healing_cycle: the count, the limit and the row it adds).      *)
THEOREM AttemptsAreBounded == Spec => []AttemptsBounded
<1>1. Init => CountInv
  BY InitCount
<1>2. CountInv /\ [Next]_vars => CountInv'
  BY NextCount
<1>3. CountInv => AttemptsBounded
  BY CountBounds
<1>4. QED
  BY <1>1, <1>2, <1>3, PTL DEF Spec
-----------------------------------------------------------------------------
(* In company.  What the invariant needs of the actors that write chunk    *)
(* and job rows between two statements of an execution: they put no chunk  *)
(* into HEALING and take nothing out of the dead letter queue.             *)
LEMMA OthersKeepIInv ==
  ASSUME IInv, StoreTypeOK', UNCHANGED <<healer, attempts>>, dlq \subseteq dlq',
         \A c \in Chunks : chunk'[c].status = "HEALING" => chunk[c].status = "HEALING"
  PROVE  IInv'
<1>1. TypeInv'
  BY DEF IInv, TypeInv, HealingTypeOK
<1>2. Escalated'
  BY DEF IInv, Escalated, MustBeDeadLettered, DeadLettered
<1>3. Owned'
  BY DEF IInv, Owned, Heals, DeadLettered
<1>4. QED
  BY <1>1, <1>2, <1>3 DEF IInv

(* Nothing that others write is part of what bounds the attempts.          *)
LEMMA OthersKeepCountInv ==
  ASSUME CountInv, StoreTypeOK', UNCHANGED <<healer, attempts>>
  PROVE  CountInv'
<1>1. TypeInv'
  BY DEF CountInv, TypeInv, HealingTypeOK
<1>2. /\ \A o \in Healers : Counted(healer'[o])
      /\ Exclusive'
  BY DEF CountInv, Exclusive, Live
<1>3. Budget'
  BY DEF CountInv, Budget, AttemptsOf, ArmedOn
<1>4. QED
  BY <1>1, <1>2, <1>3 DEF CountInv

(* And what they can rely on: healing leaves the cache, the bucket, the    *)
(* videos and the locks on codes alone, and makes no chunk RENDERED.       *)
LEMMA CommitRows ==
  ASSUME TypeInv, NEW o \in Healers, healer[o].chunk \in Chunks, Commit(o)
  PROVE  /\ \A c \in Chunks :
              /\ chunk'[c].video = chunk[c].video
              /\ chunk'[c].status = "RENDERED" => chunk[c].status = "RENDERED"
         /\ \A h \in Codes : h \in locked => h \in locked'
<1>1. Outcome(o) # "RENDERED"
  BY DEF Outcome
<1>2. ASSUME NEW c \in Chunks
      PROVE  /\ chunk'[c].video = chunk[c].video
             /\ chunk'[c].status = "RENDERED" => chunk[c].status = "RENDERED"
  BY <1>1 DEF Commit, WithStatus, TypeInv, StoreTypeOK, ChunkRow
<1>3. healer[o].chunk \notin Codes
  BY StoreAssumption
<1>4. QED
  BY <1>2, <1>3 DEF Commit, Held

LEMMA NextRows ==
  ASSUME TypeInv, [Next]_vars
  PROVE  /\ UNCHANGED <<cache, store>>
         /\ \A c \in Chunks :
              /\ chunk'[c].video = chunk[c].video
              /\ chunk'[c].status = "RENDERED" => chunk[c].status = "RENDERED"
         /\ \A h \in Codes : h \in locked => h \in locked'
<1> DEFINE Rows ==
             /\ \A c \in Chunks :
                  /\ chunk'[c].video = chunk[c].video
                  /\ chunk'[c].status = "RENDERED" => chunk[c].status = "RENDERED"
             /\ \A h \in Codes : h \in locked => h \in locked'
<1>1. UNCHANGED <<cache, store>>
  BY DEF Next, Step, vars, storeVars, Begin, Verified, InBudget, OverBudget, CountAttempts,
     LoadChunk, Escalate, StartHealing, HealFails, LogAttempt, WriteOutcome, Conflict, Refresh,
     Exhausted, RecordError, CountChunks, ReadParent, UpdateParent, ParentConflict,
     RefreshParent, ParentExhausted, Interrupt
<1>2. ASSUME NEW o \in Healers, NEW c \in Chunks, Begin(o, c)
      PROVE  Rows
  BY <1>2 DEF Begin, storeVars
<1>3. ASSUME NEW o \in Healers, Interrupt(o)
      PROVE  Rows
  <2>1. healer[o].chunk \in Chunks
    BY <1>3 DEF Interrupt, Live, TypeInv, InPlace
  <2>2. healer[o].chunk \notin Codes
    BY <2>1, StoreAssumption
  <2>3. QED
    BY <1>3, <2>2 DEF Interrupt, Held
<1>4. ASSUME NEW o \in Healers, Step(o)
      PROVE  Rows
  <2>1. healer[o].pc \in Running => healer[o].chunk \in Chunks
    BY DEF TypeInv, InPlace
  <2>2. CASE Commit(o) /\ healer[o].pc \in Running
    BY <2>1, <2>2, CommitRows
  <2>3. CASE StartHealing(o)
    <3>1. WithStatus(chunk[healer[o].chunk], "HEALING").video = chunk[healer[o].chunk].video
          /\ WithStatus(chunk[healer[o].chunk], "HEALING").status = "HEALING"
      BY <2>1, <2>3 DEF StartHealing, Matched, Running, WithStatus, TypeInv, StoreTypeOK, ChunkRow
    <3>2. QED
      BY <2>3, <3>1 DEF StartHealing, TypeInv, StoreTypeOK
  <2>4. CASE UNCHANGED chunk /\ locked \subseteq locked'
    BY <2>4
  <2>5. \/ Commit(o) /\ healer[o].pc \in Running
        \/ StartHealing(o)
        \/ UNCHANGED chunk /\ locked \subseteq locked'
    BY <1>4 DEF Step, storeVars, Verified, InBudget, OverBudget, CountAttempts,
       LoadChunk, Escalate, HealFails, LogAttempt, WriteOutcome, Conflict, Refresh,
       Exhausted, RecordError, CountChunks, ReadParent, UpdateParent, ParentConflict,
       RefreshParent, ParentExhausted, Close, Running
  <2>6. QED
    BY <2>2, <2>3, <2>4, <2>5
<1>5. CASE UNCHANGED vars
  BY <1>5 DEF vars
<1>6. QED
  BY <1>1, <1>2, <1>3, <1>4, <1>5 DEF Next

(* Every write of a row raises its version by one, and a job row that      *)
(* another transaction has locked is left alone, and locked.               *)
LEMMA NextVersions ==
  ASSUME TypeInv, [Next]_vars
  PROVE  /\ \A c \in Chunks : chunk'[c] = chunk[c] \/ chunk'[c].version = chunk[c].version + 1
         /\ \A j \in Jobs : job'[j] # job[j] => j \notin locked /\ job'[j].version = job[j].version + 1
         /\ \A j \in Jobs : j \in locked => j \in locked'
<1> DEFINE ChunkRows == \A c \in Chunks : chunk'[c] = chunk[c] \/ chunk'[c].version = chunk[c].version + 1
           JobRows == \A j \in Jobs :
             job'[j] # job[j] => j \notin locked /\ job'[j].version = job[j].version + 1
<1>1. ASSUME NEW x, NEW s, chunk' = [chunk EXCEPT ![x] = WithStatus(chunk[x], s)]
      PROVE  ChunkRows
  <2>1. ASSUME NEW c \in Chunks
        PROVE  WithStatus(chunk[c], s).version = chunk[c].version + 1
    BY DEF TypeInv, StoreTypeOK, ChunkRow, WithStatus
  <2>2. QED
    BY <1>1, <2>1 DEF TypeInv, StoreTypeOK
<1>2. ASSUME NEW x, x \notin locked, NEW s, job' = [job EXCEPT ![x] = WithStatus(job[x], s)]
      PROVE  JobRows
  <2>1. ASSUME NEW j \in Jobs
        PROVE  WithStatus(job[j], s).version = job[j].version + 1
    BY DEF TypeInv, StoreTypeOK, JobRow, WithStatus
  <2>2. QED
    BY <1>2, <2>1 DEF TypeInv, StoreTypeOK
<1>3. ASSUME NEW o \in Healers, Step(o)
      PROVE  ChunkRows
  <2>1. CASE Commit(o)
    BY <1>1, <2>1 DEF Commit
  <2>2. CASE StartHealing(o)
    BY <1>1, <2>2 DEF StartHealing
  <2>3. Commit(o) \/ StartHealing(o) \/ UNCHANGED chunk
    BY <1>3 DEF Step, storeVars, Verified, InBudget, OverBudget, CountAttempts, LoadChunk,
       Escalate, HealFails, LogAttempt, WriteOutcome, Conflict, Refresh, Exhausted, RecordError,
       CountChunks, ReadParent, UpdateParent, ParentConflict, RefreshParent, ParentExhausted,
       Close
  <2>4. QED
    BY <2>1, <2>2, <2>3
<1>4. ASSUME NEW o \in Healers, Step(o)
      PROVE  JobRows
  <2>1. CASE UpdateParent(o)
    BY <1>2, <2>1 DEF UpdateParent, Close
  <2>2. UpdateParent(o) \/ UNCHANGED job
    BY <1>4 DEF Step, storeVars, Verified, InBudget, OverBudget, CountAttempts, LoadChunk,
       Escalate, StartHealing, HealFails, LogAttempt, WriteOutcome, Conflict, Refresh,
       Exhausted, RecordError, CountChunks, ReadParent, ParentConflict, RefreshParent,
       ParentExhausted, Close
  <2>3. QED
    BY <2>1, <2>2
<1>5. ASSUME NEW o \in Healers, Step(o) \/ Interrupt(o), NEW j \in Jobs, j \in locked
      PROVE  j \in locked'
  <2>1. j \notin Held(o)
    BY StoreAssumption DEF TypeInv, InPlace, Held, InRollup, Running
  <2>2. locked \subseteq locked' \/ locked' = locked \ Held(o)
    BY <1>5 DEF Step, storeVars, Verified, InBudget, OverBudget, CountAttempts, LoadChunk,
       Escalate, StartHealing, HealFails, LogAttempt, WriteOutcome, Conflict, Refresh,
       Exhausted, RecordError, CountChunks, ReadParent, UpdateParent, ParentConflict,
       RefreshParent, ParentExhausted, Close, Commit, Interrupt
  <2>3. QED
    BY <1>5, <2>1, <2>2
<1>6. QED
  BY <1>3, <1>4, <1>5 DEF Next, Begin, Interrupt, vars, storeVars

(* A healing worker's rollup counts its own chunk as PENDING or FAILED: it *)
(* never moves a job to a status that all of its chunks must be rendered   *)
(* for, whatever the other chunks are.                                     *)
Complete == {"ASSEMBLED", "REVIEW_GATE", "COMPLETED"}

NeverAssembles(h) ==
  /\ h.pc = "parent" => h.seen # {"RENDERED"}
  /\ h.pc \in {"rollup", "reread"} => h.target \notin Complete

LEMMA RollupTargetIncomplete ==
  ASSUME NEW seen, NEW current, seen # {"RENDERED"}, RollupTarget(seen, current) # current
  PROVE  RollupTarget(seen, current) \notin Complete
BY DEF RollupTarget, Complete

LEMMA HealerValue ==
  ASSUME TypeInv, NEW o \in Healers, NEW v, Becomes(o, v)
  PROVE  healer'[o] = v /\ \A p \in Healers : p # o => healer'[p] = healer[p]
BY DEF Becomes, TypeInv, HealingTypeOK

LEMMA HealerEnds ==
  ASSUME TypeInv, NEW o \in Healers, NEW how, End(o, how)
  PROVE  healer'[o].pc = how /\ \A p \in Healers : p # o => healer'[p] = healer[p]
BY HealerValue DEF End, AtRest

LEMMA CloseIncomplete ==
  ASSUME TypeInv, NEW o \in Healers, NEW newJob, Close(o, newJob)
  PROVE  healer'[o].pc \in {"verify", "failed"} /\ job' = newJob
<1>1. CASE healer[o].op = "requeue"
  BY <1>1, HealerValue DEF Close, AtRest
<1>2. CASE healer[o].op # "requeue"
  BY <1>2, HealerEnds DEF Close
<1>3. QED
  BY <1>1, <1>2

LEMMA StepIncomplete ==
  ASSUME TypeInv, NEW o \in Healers, Step(o) \/ Interrupt(o), NeverAssembles(healer[o])
  PROVE  /\ NeverAssembles(healer'[o])
         /\ \A p \in Healers : p # o => healer'[p] = healer[p]
         /\ \A j \in Jobs : job'[j].status \in Complete => job[j].status \in Complete
<1> DEFINE h == healer[o]
           v == healer'[o]
           p == JobOf[h.chunk]
           Others == \A q \in Healers : q # o => healer'[q] = healer[q]
           Rows == \A j \in Jobs : job'[j].status \in Complete => job[j].status \in Complete
           Elsewhere == v.pc \notin {"parent", "rollup", "reread"}
<1>h. h \in HealerState /\ InPlace(h) /\ (h.pc \in Running => h.chunk \in Chunks)
  BY DEF TypeInv, HealingTypeOK, InPlace
<1>1. CASE Verified(o) \/ InBudget(o) \/ OverBudget(o) \/ CountAttempts(o) \/ LoadChunk(o)
           \/ Escalate(o) \/ StartHealing(o) \/ HealFails(o) \/ LogAttempt(o)
           \/ WriteOutcome(o) \/ Conflict(o) \/ Refresh(o) \/ Exhausted(o)
           \/ RecordError(o) \/ Interrupt(o)
  <2>1. UNCHANGED job
    BY <1>1 DEF storeVars, Verified, InBudget, OverBudget, CountAttempts, LoadChunk, Escalate,
       StartHealing, HealFails, LogAttempt, WriteOutcome, Conflict, Refresh, Exhausted,
       RecordError, Interrupt
  <2>2. Others /\ Elsewhere
    <3>1. CASE Verified(o) \/ RecordError(o) \/ Interrupt(o)
      BY <3>1, HealerEnds DEF Verified, RecordError, Interrupt
    <3>2. CASE LoadChunk(o)
      <4>1. CASE h.op = "expire" /\ ~BeginAfterRead
        BY <3>2, <4>1, HealerEnds DEF LoadChunk
      <4>2. CASE ~(h.op = "expire" /\ ~BeginAfterRead)
        <5>1. PICK next \in {"escalate", "update"} :
                Becomes(o, [h EXCEPT !.pc = next, !.tries = 0,
                              !.expected = chunk[h.chunk].version])
          BY <3>2, <4>2 DEF LoadChunk
        <5>2. Others /\ v = [h EXCEPT !.pc = next, !.tries = 0,
                                 !.expected = chunk[h.chunk].version]
          BY <5>1, HealerValue
        <5>3. QED
          BY <5>2, <1>h DEF HealerState
      <4>3. QED
        BY <4>1, <4>2
    <3>3. CASE Exhausted(o)
      <4>1. CASE h.op = "requeue"
        BY <3>3, <4>1, <1>h, HealerValue DEF Exhausted, GiveUp, HealerState
      <4>2. CASE h.op # "requeue"
        BY <3>3, <4>2, HealerEnds DEF Exhausted, GiveUp
      <4>3. QED
        BY <4>1, <4>2
    <3>4. CASE CountAttempts(o)
      <4>1. PICK n : Becomes(o, [h EXCEPT !.pc = "load", !.op = "start", !.attempt = n])
        BY <3>4 DEF CountAttempts
      <4>2. Others /\ v = [h EXCEPT !.pc = "load", !.op = "start", !.attempt = n]
        BY <4>1, HealerValue
      <4>3. QED
        BY <4>2, <1>h DEF HealerState
    <3>5. CASE StartHealing(o)
      <4>1. PICK n : Becomes(o, [h EXCEPT !.pc = "vllm", !.expected = n])
        BY <3>5 DEF StartHealing
      <4>2. Others /\ v = [h EXCEPT !.pc = "vllm", !.expected = n]
        BY <4>1, HealerValue
      <4>3. QED
        BY <4>2, <1>h DEF HealerState
    <3>6. CASE InBudget(o) \/ OverBudget(o) \/ Escalate(o) \/ HealFails(o) \/ LogAttempt(o)
               \/ WriteOutcome(o) \/ Conflict(o) \/ Refresh(o)
      <4>1. \/ v = [h EXCEPT !.pc = "attempt"]
            \/ v = [h EXCEPT !.pc = "load", !.op = "expire"]
            \/ v = [h EXCEPT !.pc = "update", !.op = "exhaust"]
            \/ v = [h EXCEPT !.pc = "error"]
            \/ v = [h EXCEPT !.pc = "update", !.op = "requeue", !.tries = 0]
            \/ v = [h EXCEPT !.pc = "count"]
            \/ v = [h EXCEPT !.pc = "refresh", !.tries = h.tries + 1]
            \/ v = [h EXCEPT !.pc = "update", !.expected = chunk[h.chunk].version]
        BY <3>6, HealerValue DEF InBudget, OverBudget, Escalate, HealFails, LogAttempt, WriteOutcome,
           Conflict, Refresh
      <4>2. Others
        BY <3>6, HealerValue DEF InBudget, OverBudget, Escalate, HealFails, LogAttempt,
           WriteOutcome, Conflict, Refresh
      <4>3. QED
        BY <4>1, <4>2, <1>h DEF HealerState
    <3>7. QED
      BY <1>1, <3>1, <3>2, <3>3, <3>4, <3>5, <3>6
  <2>3. QED
    BY <2>1, <2>2 DEF NeverAssembles
<1>2. CASE CountChunks(o)
  <2> DEFINE seen == {StatusSeen(o, x) : x \in Siblings(h.chunk)}
  <2>1. v = [h EXCEPT !.pc = "parent", !.seen = seen] /\ UNCHANGED job /\ Others
    BY <1>2, HealerValue DEF CountChunks, storeVars
  <2>2. h.chunk \in Siblings(h.chunk)
    BY <1>2, <1>h DEF CountChunks, Running, Siblings
  <2>3. StatusSeen(o, h.chunk) \in seen /\ StatusSeen(o, h.chunk) # "RENDERED"
    BY <2>2 DEF StatusSeen, Outcome
  <2> HIDE DEF seen
  <2>4. v.pc = "parent" /\ v.seen = seen
    BY <2>1, <1>h DEF HealerState
  <2>5. QED
    BY <2>1, <2>3, <2>4 DEF NeverAssembles
<1>3. CASE ReadParent(o)
  <2> DEFINE target == RollupTarget(h.seen, job[p].status)
  <2>1. CASE target = job[p].status
    <3>1. Close(o, job)
      BY <1>3, <2>1 DEF ReadParent
    <3>2. Others
      BY <3>1, HealerValue, HealerEnds DEF Close
    <3>3. QED
      BY <3>1, <3>2, CloseIncomplete DEF NeverAssembles
  <2>2. CASE target # job[p].status
    <3>1. /\ v = [h EXCEPT !.pc = "rollup", !.target = target,
                     !.expected = job[p].version, !.tries = 0]
          /\ h.pc = "parent" /\ UNCHANGED job /\ Others
      BY <1>3, <2>2, HealerValue DEF ReadParent
    <3>2. target \notin Complete
      BY <2>2, <3>1, RollupTargetIncomplete DEF NeverAssembles
    <3> HIDE DEF target
    <3>3. v.pc = "rollup" /\ v.target = target
      BY <3>1, <1>h DEF HealerState
    <3>4. QED
      BY <3>1, <3>2, <3>3 DEF NeverAssembles
  <2>3. QED
    BY <2>1, <2>2
<1>4. CASE UpdateParent(o)
  <2> DEFINE newJob == [job EXCEPT ![p] = WithStatus(job[p], h.target)]
  <2>1. Close(o, newJob) /\ h.pc = "rollup"
    BY <1>4 DEF UpdateParent
  <2>2. Others
    BY <2>1, HealerValue, HealerEnds DEF Close
  <2>3. p \in Jobs /\ job[p] \in JobRow
    BY <2>1, <1>h, StoreAssumption DEF Running, TypeInv, StoreTypeOK
  <2>4. \A j \in Jobs : newJob[j] = job[j] \/ newJob[j].status = h.target
    BY <2>3 DEF TypeInv, StoreTypeOK, WithStatus, JobRow
  <2>5. QED
    BY <2>1, <2>2, <2>4, CloseIncomplete DEF NeverAssembles
<1>5. CASE ParentConflict(o) \/ RefreshParent(o)
  <2>1. UNCHANGED job /\ h.pc \in {"rollup", "reread"}
    BY <1>5 DEF ParentConflict, RefreshParent, storeVars
  <2>2. /\ Others
        /\ \/ v = [h EXCEPT !.pc = "reread", !.tries = h.tries + 1]
           \/ v = [h EXCEPT !.pc = "rollup", !.expected = job[p].version]
    BY <1>5, HealerValue DEF ParentConflict, RefreshParent
  <2>3. v.pc \in {"rollup", "reread"} /\ v.target = h.target
    BY <2>2, <1>h DEF HealerState
  <2>4. QED
    BY <2>1, <2>2, <2>3 DEF NeverAssembles
<1>6. CASE ParentExhausted(o)
  <2>1. UNCHANGED job
    BY <1>6 DEF ParentExhausted
  <2>2. CASE h.op = "requeue"
    <3>1. Becomes(o, [h EXCEPT !.pc = "error"])
      BY <1>6, <2>2 DEF ParentExhausted, GiveUp
    <3>2. QED
      BY <2>1, <3>1, <1>h, HealerValue DEF HealerState, NeverAssembles
  <2>3. CASE h.op # "requeue"
    BY <1>6, <2>1, <2>3, HealerEnds DEF ParentExhausted, GiveUp, NeverAssembles
  <2>4. QED
    BY <2>2, <2>3
<1>7. QED
  BY <1>1, <1>2, <1>3, <1>4, <1>5, <1>6 DEF Step

LEMMA NextIncomplete ==
  ASSUME TypeInv, [Next]_vars, \A o \in Healers : NeverAssembles(healer[o])
  PROVE  /\ \A o \in Healers : NeverAssembles(healer'[o])
         /\ \A j \in Jobs : job'[j].status \in Complete => job[j].status \in Complete
<1>1. ASSUME NEW o \in Healers, Step(o) \/ Interrupt(o)
      PROVE  /\ \A p \in Healers : NeverAssembles(healer'[p])
             /\ \A j \in Jobs : job'[j].status \in Complete => job[j].status \in Complete
  BY <1>1, StepIncomplete
<1>2. ASSUME NEW o \in Healers, NEW c \in Chunks, Begin(o, c)
      PROVE  (\A p \in Healers : NeverAssembles(healer'[p])) /\ UNCHANGED job
  <2>1. healer'[o].pc = "verify" /\ \A p \in Healers : p # o => healer'[p] = healer[p]
    BY <1>2, HealerValue DEF Begin, AtRest
  <2>2. QED
    BY <1>2, <2>1 DEF NeverAssembles, Begin, storeVars
<1>3. CASE UNCHANGED vars
  BY <1>3 DEF vars
<1>4. QED
  BY <1>1, <1>2, <1>3 DEF Next
=============================================================================
