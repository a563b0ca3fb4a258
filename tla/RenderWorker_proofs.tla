------------------------- MODULE RenderWorker_proofs -------------------------
(***************************************************************************)
(* Proofs about RenderWorker for every set of chunks, jobs, codes and      *)
(* deliveries, every retry limit and both settings of Overlap and          *)
(* BeginAfterRead.                                                         *)
(***************************************************************************)
EXTENDS RenderWorker, TLAPS

LEMMA KeyTypes ==
  /\ \A c \in Chunks, h \in Codes : VideoKey(c, h) \in VideoKeys /\ AudioKey(c, h) \in AudioKeys
  /\ \A c \in Chunks : DefaultAudioKey(c) \in AudioKeys
BY DEF VideoKeys, AudioKeys

LEMMA RollupTargetType ==
  ASSUME NEW seen, NEW current \in JobStatus
  PROVE  RollupTarget(seen, current) \in JobStatus
BY DEF RollupTarget, JobStatus

LEMMA RowTypes ==
  /\ \A r \in ChunkRow, s \in ChunkStatus : WithStatus(r, s) \in ChunkRow
  /\ \A r \in JobRow, s \in JobStatus : WithStatus(r, s) \in JobRow
  /\ \A r \in ChunkRow, v \in VideoKeys \cup {None}, a \in AudioKeys \cup {None} :
       AsRendered(r, v, a) \in ChunkRow
<1>1. ASSUME NEW r \in ChunkRow, NEW s \in ChunkStatus
      PROVE  WithStatus(r, s) \in ChunkRow
  <2>1. r.version + 1 \in Nat
    BY DEF ChunkRow
  <2>2. QED
    BY <2>1 DEF ChunkRow, WithStatus
<1>2. ASSUME NEW r \in JobRow, NEW s \in JobStatus
      PROVE  WithStatus(r, s) \in JobRow
  <2>1. r.version + 1 \in Nat
    BY DEF JobRow
  <2>2. QED
    BY <2>1 DEF JobRow, WithStatus
<1>3. ASSUME NEW r \in ChunkRow,
             NEW v \in VideoKeys \cup {None}, NEW a \in AudioKeys \cup {None}
      PROVE  AsRendered(r, v, a) \in ChunkRow
  BY <1>3 DEF ChunkRow, AsRendered, ChunkStatus
<1>4. QED
  BY <1>1, <1>2, <1>3

LEMMA AtRestType ==
  ASSUME NEW pc \in {"idle"} \cup Running \cup Ended,
         NEW c \in Chunks \cup {None}, NEW h \in Codes \cup {None}
  PROVE  AtRest(pc, c, h) \in WorkerState
BY StoreAssumption
   DEF AtRest, WorkerState, NoRow, ChunkRow, ChunkStatus, JobStatus, Ops

LEMMA InitTypeOK == Init => TypeOK
<1> SUFFICES ASSUME Init PROVE TypeOK
  OBVIOUS
<1>1. StoreTypeOK
  BY DEF Init, StoreInit, StoreTypeOK, ChunkRow, JobRow, ChunkStatus, JobStatus
<1>2. worker \in [Deliveries -> WorkerState]
  BY AtRestType DEF Init
<1>3. QED
  BY <1>1, <1>2 DEF Init, TypeOK, InPlace, AtRest, Running
(* A worker update by one delivery keeps the workers well typed when its   *)
(* new record is.                                                          *)
LEMMA BecomesType ==
  ASSUME NEW d \in Deliveries, NEW v \in WorkerState, InPlace(v), Becomes(d, v),
         worker \in [Deliveries -> WorkerState],
         \A e \in Deliveries : InPlace(worker[e])
  PROVE  /\ worker' \in [Deliveries -> WorkerState]
         /\ \A e \in Deliveries : InPlace(worker'[e])
BY DEF Becomes

LEMMA EndType ==
  ASSUME TypeOK, NEW d \in Deliveries, NEW how \in Ended, End(d, how)
  PROVE  /\ worker' \in [Deliveries -> WorkerState]
         /\ \A e \in Deliveries : InPlace(worker'[e])
<1> DEFINE v == AtRest(how, worker[d].chunk, worker[d].code)
<1>1. v \in WorkerState
  BY AtRestType DEF TypeOK, WorkerState
<1>2. InPlace(v)
  BY DEF InPlace, AtRest, Ended, Running
<1>3. QED
  BY <1>1, <1>2, BecomesType DEF End, TypeOK

LEMMA BeginUpdateType ==
  ASSUME TypeOK, NEW d \in Deliveries, Live(d), NEW op \in Ops \ {"none"}, BeginUpdate(d, op)
  PROVE  /\ worker' \in [Deliveries -> WorkerState]
         /\ \A e \in Deliveries : InPlace(worker'[e])
<1> DEFINE v == [worker[d] EXCEPT !.pc = "update", !.op = op,
                    !.expected = worker[d].row.version, !.tries = 0]
<1>1. 0 \in 0 .. MaxRetries /\ worker[d].row.version \in Nat
  BY StoreAssumption DEF TypeOK, WorkerState, ChunkRow
<1>2. v \in WorkerState
  BY <1>1 DEF TypeOK, WorkerState, Running
<1>3. InPlace(v)
  BY <1>2 DEF TypeOK, InPlace, Live, WorkerState, Running
<1>4. QED
  BY <1>2, <1>3, BecomesType DEF BeginUpdate, TypeOK
(* Both ends of a rollup: the handler commits two rows, the others none.   *)
LEMMA CloseType ==
  ASSUME TypeOK, NEW d \in Deliveries, Live(d), NEW newJob \in [Jobs -> JobRow],
         Close(d, newJob), UNCHANGED <<cache, store>>,
         dlq' \subseteq [row: Chunks \cup Jobs, reason: DLQReason]
  PROVE  TypeOK'
<1> DEFINE w == worker[d]
<1> USE DEF TypeOK, StoreTypeOK
<1>1. w.chunk \in Chunks /\ chunk[w.chunk] \in ChunkRow
  BY DEF Live, InPlace
<1>2. WithStatus(chunk[w.chunk], "FAILED") \in ChunkRow
  BY <1>1, RowTypes DEF ChunkStatus
<1>3. CASE w.op = "fail"
  BY <1>1, <1>2, <1>3, EndType DEF Close, Ended
<1>4. CASE w.op # "fail"
  BY <1>4, EndType DEF Close, Ended
<1>5. QED
  BY <1>3, <1>4

LEMMA StepTypeOK ==
  ASSUME TypeOK, NEW d \in Deliveries, Step(d)
  PROVE  TypeOK'
<1> DEFINE w == worker[d]
           TypedWorkers == /\ worker' \in [Deliveries -> WorkerState]
                           /\ \A e \in Deliveries : InPlace(worker'[e])
<1> USE DEF InPlace
<1>w. /\ w \in WorkerState /\ InPlace(w)
      /\ w.chunk \in Chunks => chunk[w.chunk] \in ChunkRow
      /\ w.code \in Codes => cache[w.code] \in VideoKeys \cup {None}
      /\ w.row \in ChunkRow /\ w.row.version \in Nat
      /\ w.chunk \in Chunks => JobOf[w.chunk] \in Jobs /\ job[JobOf[w.chunk]] \in JobRow
  BY StoreAssumption DEF TypeOK, StoreTypeOK, WorkerState, ChunkRow
<1>n. 0 \in 0 .. MaxRetries /\ (w.tries + 1 < MaxRetries => w.tries + 1 \in 0 .. MaxRetries)
  BY StoreAssumption, <1>w DEF WorkerState
<1>1. CASE LookUpCache(d)
  <2>1. StoreTypeOK'
    BY <1>1 DEF TypeOK, StoreTypeOK, LookUpCache, storeVars
  <2>2. CASE ~BeginAfterRead
    <3>1. TypedWorkers
      BY <1>1, <2>2, EndType DEF LookUpCache, Ended
    <3>2. QED
      BY <2>1, <3>1 DEF TypeOK
  <2>3. CASE BeginAfterRead
    <3> DEFINE v == [w EXCEPT !.pc = "update", !.hit = cache[w.code],
                       !.op = Gate(cache[w.code], w.row),
                       !.expected = w.row.version, !.tries = 0]
    <3>1. w.chunk \in Chunks /\ w.code \in Codes
      BY <1>1, <1>w DEF LookUpCache, Running
    <3>2. Gate(cache[w.code], w.row) \in Ops \ {"none"}
      BY DEF Gate, Ops
    <3>3. v \in WorkerState
      BY <3>1, <3>2, <1>w, <1>n DEF WorkerState, Running
    <3>4. InPlace(v)
      BY <3>1, <3>2, <3>3 DEF WorkerState
    <3>5. QED
      BY <1>1, <2>1, <2>3, <3>3, <3>4, BecomesType DEF LookUpCache, TypeOK
  <2>4. QED
    BY <2>2, <2>3
<1>2. CASE Recommit(d)
  <2> DEFINE video == IF w.hit # None THEN w.hit ELSE w.row.video
             audio == IF w.row.audio # None THEN w.row.audio ELSE DefaultAudioKey(w.chunk)
             v == [w EXCEPT !.pc = "count"]
  <2>1. w.chunk \in Chunks /\ w.code \in Codes /\ w.op = "recommit"
    BY <1>2, <1>w DEF Recommit, Matched, Running
  <2>2. video \in VideoKeys \cup {None} /\ audio \in AudioKeys \cup {None}
    BY <2>1, <1>w, KeyTypes DEF WorkerState, ChunkRow
  <2>3. AsRendered(chunk[w.chunk], video, audio) \in ChunkRow
    BY <2>1, <2>2, <1>w, RowTypes
  <2>4. StoreTypeOK'
    BY <1>2, <2>1, <2>3 DEF TypeOK, StoreTypeOK, Recommit
  <2>5. v \in WorkerState /\ InPlace(v)
    BY <2>1, <1>w DEF WorkerState, Running
  <2>6. QED
    BY <1>2, <2>4, <2>5, BecomesType DEF Recommit, TypeOK
<1>3. CASE StartRender(d)
  <2> DEFINE started == WithStatus(chunk[w.chunk], "RENDERING")
  <2>1. w.chunk \in Chunks /\ w.code \in Codes
    BY <1>3, <1>w DEF StartRender, Matched, Running
  <2>2. started \in ChunkRow
    BY <2>1, <1>w, RowTypes DEF ChunkStatus
  <2>3. StoreTypeOK'
    BY <1>3, <2>1, <2>2 DEF TypeOK, StoreTypeOK, StartRender
  <2>4. PICK row \in Returned(d) : Becomes(d, [w EXCEPT !.pc = "render", !.row = row])
    BY <1>3 DEF StartRender
  <2> DEFINE v == [w EXCEPT !.pc = "render", !.row = row]
  <2>5. row \in ChunkRow
    BY <2>2, <2>4, <1>w DEF Returned
  <2>6. v \in WorkerState /\ InPlace(v)
    BY <2>1, <2>5, <1>w DEF WorkerState, Running
  <2>7. QED
    BY <2>3, <2>4, <2>6, BecomesType DEF TypeOK
<1>4. CASE WorkspaceFails(d)
  <2>1. TypedWorkers
    BY <1>4, EndType DEF WorkspaceFails, Ended
  <2>2. QED
    BY <1>4, <2>1 DEF WorkspaceFails, TypeOK, StoreTypeOK, storeVars
<1>5. CASE RenderFails(d)
  <2>1. TypedWorkers
    BY <1>5, BeginUpdateType DEF RenderFails, Live, Running, Ops
  <2>2. QED
    BY <1>5, <2>1 DEF RenderFails, TypeOK, StoreTypeOK, storeVars
<1>6. CASE RenderAndUpload(d)
  <2>1. w.chunk \in Chunks /\ w.code \in Codes
    BY <1>6, <1>w DEF RenderAndUpload, Running
  <2>2. TypedWorkers
    BY <1>6, BeginUpdateType DEF RenderAndUpload, Live, Running, Ops
  <2>3. QED
    BY <1>6, <2>1, <2>2, KeyTypes DEF RenderAndUpload, Uploads, TypeOK, StoreTypeOK
<1>7. CASE DuplicateHash(d)
  <2>1. TypedWorkers
    BY <1>7, BeginUpdateType DEF DuplicateHash, Live, Running, Ops
  <2>2. QED
    BY <1>7, <2>1 DEF DuplicateHash, TypeOK, StoreTypeOK, storeVars
<1>8. CASE AtomicChunkCommit(d)
  <2> DEFINE video == VideoKey(w.chunk, w.code)
             row == AsRendered(chunk[w.chunk], video, AudioKey(w.chunk, w.code))
             v == [w EXCEPT !.pc = "count"]
  <2>1. w.chunk \in Chunks /\ w.code \in Codes /\ w.op = "commit"
    BY <1>8, <1>w DEF AtomicChunkCommit, Matched, Running
  <2>2. row \in ChunkRow /\ video \in VideoKeys
    BY <2>1, <1>w, RowTypes, KeyTypes
  <2>3. StoreTypeOK'
    BY <1>8, <2>1, <2>2 DEF TypeOK, StoreTypeOK, AtomicChunkCommit
  <2>4. v \in WorkerState /\ InPlace(v)
    BY <2>1, <1>w DEF WorkerState, Running
  <2>5. QED
    BY <1>8, <2>3, <2>4, BecomesType DEF AtomicChunkCommit, TypeOK
<1>9. CASE MarkFailed(d)
  <2> DEFINE v == [w EXCEPT !.pc = "count"]
  <2>1. w.chunk \in Chunks /\ w.code \in Codes /\ w.op = "fail"
    BY <1>9, <1>w DEF MarkFailed, Matched, Running
  <2>2. StoreTypeOK'
    BY <1>9, <2>1 DEF TypeOK, StoreTypeOK, MarkFailed
  <2>3. v \in WorkerState /\ InPlace(v)
    BY <2>1, <1>w DEF WorkerState, Running
  <2>4. QED
    BY <1>9, <2>2, <2>3, BecomesType DEF MarkFailed, TypeOK
<1>10. CASE Conflict(d)
  <2> DEFINE v == [w EXCEPT !.pc = "refresh", !.tries = w.tries + 1]
  <2>1. w.chunk \in Chunks /\ w.code \in Codes /\ w.op # "none"
    BY <1>10, <1>w DEF Conflict, Running
  <2>2. StoreTypeOK'
    BY <1>10, <2>1 DEF TypeOK, StoreTypeOK, Conflict
  <2>3. w.tries + 1 \in 0 .. MaxRetries
    BY <1>10, <1>n DEF Conflict
  <2>4. v \in WorkerState /\ InPlace(v)
    BY <2>1, <2>3, <1>w DEF WorkerState, Running
  <2>5. QED
    BY <1>10, <2>2, <2>4, BecomesType DEF Conflict, TypeOK
<1>11. CASE Refresh(d)
  <2> DEFINE v == [w EXCEPT !.pc = "update", !.expected = chunk[w.chunk].version]
  <2>1. w.chunk \in Chunks /\ w.code \in Codes /\ w.op # "none"
    BY <1>11, <1>w DEF Refresh, Running
  <2>2. chunk[w.chunk].version \in Nat
    BY <2>1, <1>w DEF ChunkRow
  <2>3. v \in WorkerState /\ InPlace(v)
    BY <2>1, <2>2, <1>w DEF WorkerState, Running
  <2>4. QED
    BY <1>11, <2>3, BecomesType DEF Refresh, TypeOK, StoreTypeOK, storeVars
<1>12. CASE Exhausted(d)
  <2>1. w.chunk \in Chunks /\ w.code \in Codes /\ Live(d)
    BY <1>12, <1>w DEF Exhausted, Running, Live
  <2>2. StoreTypeOK'
    BY <1>12, <2>1, KeyTypes DEF TypeOK, StoreTypeOK, Exhausted, WithDLQ, DLQReason
  <2>3. CASE w.op = "commit"
    BY <1>12, <2>1, <2>2, <2>3, BeginUpdateType DEF Exhausted, Ops, TypeOK
  <2>4. CASE w.op # "commit"
    BY <1>12, <2>2, <2>4, EndType DEF Exhausted, Ended, TypeOK
  <2>5. QED
    BY <2>3, <2>4
<1>13. CASE CountChunks(d)
  <2> DEFINE seen == {StatusSeen(d, x) : x \in Siblings(w.chunk)}
             v == [w EXCEPT !.pc = "parent", !.seen = seen]
  <2>1. w.chunk \in Chunks /\ w.code \in Codes /\ w.op \in {"recommit", "commit", "fail"}
    BY <1>13, <1>w DEF CountChunks, Running
  <2>2. \A x \in Chunks : StatusSeen(d, x) \in ChunkStatus
    BY DEF TypeOK, StoreTypeOK, ChunkRow, StatusSeen, ChunkStatus
  <2>3. seen \subseteq ChunkStatus
    BY <2>2 DEF Siblings
  <2>4. v \in WorkerState /\ InPlace(v)
    BY <2>1, <2>3, <1>w DEF WorkerState, Running
  <2>5. QED
    BY <1>13, <2>4, BecomesType DEF CountChunks, TypeOK, StoreTypeOK, storeVars
<1>14. CASE ReadParent(d)
  <2> DEFINE j == JobOf[w.chunk]
             target == RollupTarget(w.seen, job[j].status)
             v == [w EXCEPT !.pc = "rollup", !.target = target,
                     !.expected = job[j].version, !.tries = 0]
  <2>1. w.chunk \in Chunks /\ w.code \in Codes /\ Live(d)
        /\ w.op \in {"recommit", "commit", "fail"}
    BY <1>14, <1>w DEF ReadParent, Running, Live
  <2>2. job[j].status \in JobStatus /\ job[j].version \in Nat
    BY <2>1, <1>w DEF JobRow
  <2>3. target \in JobStatus
    BY <2>2, RollupTargetType
  <2>4. CASE target = job[j].status
    BY <1>14, <2>1, <2>4, CloseType DEF ReadParent, TypeOK, StoreTypeOK
  <2>5. CASE target # job[j].status
    <3>1. v \in WorkerState /\ InPlace(v)
      BY <2>1, <2>2, <2>3, <1>w, <1>n DEF WorkerState, Running
    <3>2. QED
      BY <1>14, <2>5, <3>1, BecomesType DEF ReadParent, TypeOK, StoreTypeOK
  <2>6. QED
    BY <2>4, <2>5
<1>15. CASE UpdateParent(d)
  <2> DEFINE j == JobOf[w.chunk]
             newJob == [job EXCEPT ![j] = WithStatus(job[j], w.target)]
  <2>1. w.chunk \in Chunks /\ Live(d)
    BY <1>15, <1>w DEF UpdateParent, Running, Live
  <2>2. WithStatus(job[j], w.target) \in JobRow
    BY <2>1, <1>w, RowTypes DEF WorkerState
  <2>3. newJob \in [Jobs -> JobRow]
    BY <2>1, <2>2, <1>w DEF TypeOK, StoreTypeOK
  <2>4. QED
    BY <1>15, <2>1, <2>3, CloseType DEF UpdateParent, TypeOK, StoreTypeOK
<1>16. CASE ParentConflict(d)
  <2> DEFINE v == [w EXCEPT !.pc = "reread", !.tries = w.tries + 1]
  <2>1. w.chunk \in Chunks /\ w.code \in Codes /\ w.op \in {"recommit", "commit", "fail"}
    BY <1>16, <1>w DEF ParentConflict, Running
  <2>2. w.tries + 1 \in 0 .. MaxRetries
    BY <1>16, <1>n DEF ParentConflict
  <2>3. v \in WorkerState /\ InPlace(v)
    BY <2>1, <2>2, <1>w DEF WorkerState, Running
  <2>4. QED
    BY <1>16, <2>3, BecomesType DEF ParentConflict, TypeOK, StoreTypeOK, storeVars
<1>17. CASE RefreshParent(d)
  <2> DEFINE v == [w EXCEPT !.pc = "rollup", !.expected = job[JobOf[w.chunk]].version]
  <2>1. w.chunk \in Chunks /\ w.code \in Codes /\ w.op \in {"recommit", "commit", "fail"}
    BY <1>17, <1>w DEF RefreshParent, Running
  <2>2. job[JobOf[w.chunk]].version \in Nat
    BY <2>1, <1>w DEF JobRow
  <2>3. v \in WorkerState /\ InPlace(v)
    BY <2>1, <2>2, <1>w DEF WorkerState, Running
  <2>4. QED
    BY <1>17, <2>3, BecomesType DEF RefreshParent, TypeOK, StoreTypeOK, storeVars
<1>18. CASE ParentExhausted(d)
  <2>1. w.chunk \in Chunks /\ Live(d) /\ w.op \in {"recommit", "commit", "fail"}
    BY <1>18, <1>w DEF ParentExhausted, Running, Live
  <2>2. dlq' \subseteq [row: Chunks \cup Jobs, reason: DLQReason]
    BY <1>18, <2>1, <1>w DEF ParentExhausted, WithDLQ, DLQReason, TypeOK, StoreTypeOK
  <2>3. CASE w.op = "fail"
    BY <1>18, <2>1, <2>2, <2>3, CloseType DEF ParentExhausted, TypeOK, StoreTypeOK
  <2>4. CASE w.op = "commit"
    BY <1>18, <2>1, <2>2, <2>4, BeginUpdateType DEF ParentExhausted, TypeOK, StoreTypeOK, Ops
  <2>5. CASE w.op = "recommit"
    BY <1>18, <2>1, <2>2, <2>5, EndType DEF ParentExhausted, TypeOK, StoreTypeOK, Ended
  <2>6. QED
    BY <2>1, <2>3, <2>4, <2>5
<1>20. QED
  BY <1>1, <1>2, <1>3, <1>4, <1>5, <1>6, <1>7, <1>8, <1>9, <1>10, <1>11, <1>12,
     <1>13, <1>14, <1>15, <1>16, <1>17, <1>18
     DEF Step

LEMMA NextTypeOK == TypeOK /\ [Next]_vars => TypeOK'
<1> SUFFICES ASSUME TypeOK, [Next]_vars PROVE TypeOK'
  OBVIOUS
<1>1. ASSUME NEW d \in Deliveries, NEW c \in Chunks, NEW h \in Codes, Deliver(d, c, h)
      PROVE  TypeOK'
  <2> DEFINE v == [AtRest("lookup", c, h) EXCEPT !.row = chunk[c]]
  <2>1. AtRest("lookup", c, h) \in WorkerState
    BY AtRestType DEF Running
  <2>2. chunk[c] \in ChunkRow
    BY DEF TypeOK, StoreTypeOK
  <2>3. v \in WorkerState
    BY <2>1, <2>2 DEF WorkerState
  <2>4. InPlace(v)
    BY DEF InPlace, AtRest, Running
  <2>5. QED
    BY <1>1, <2>3, <2>4, BecomesType DEF Deliver, TypeOK, StoreTypeOK, storeVars
<1>2. ASSUME NEW d \in Deliveries, Interrupt(d)
      PROVE  TypeOK'
  BY <1>2, EndType DEF Interrupt, TypeOK, StoreTypeOK, Ended
<1>3. CASE UNCHANGED vars
  BY <1>3 DEF vars, TypeOK, StoreTypeOK
<1>4. QED
  BY <1>1, <1>2, <1>3, StepTypeOK DEF Next

(* Whatever deliveries, interrupts and conflicts occur, every row of the   *)
(* database and every local of the render tasks keeps its type.            *)
THEOREM TypeCorrect == Spec => []TypeOK
<1>1. Init => TypeOK
  BY InitTypeOK
<1>2. TypeOK /\ [Next]_vars => TypeOK'
  BY NextTypeOK
<1>3. QED
  BY <1>1, <1>2, PTL DEF Spec
=============================================================================
