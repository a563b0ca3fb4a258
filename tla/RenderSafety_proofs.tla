------------------------- MODULE RenderSafety_proofs -------------------------
(***************************************************************************)
(* The safety invariants of RenderWorker: cached assets are uploaded, a    *)
(* chunk's video is a cached asset, an acknowledged delivery left a video, *)
(* and a cache row is written once.                                        *)
(*                                                                         *)
(* None of them is inductive.  What a worker writes comes from values it   *)
(* read earlier, so the invariant speaks of those: the row and the cache   *)
(* entry it holds, the objects it has uploaded, and the insert it has      *)
(* pending while the UPDATE of the same transaction is retried.            *)
(***************************************************************************)
EXTENDS RenderWorker_proofs

Updating(w, op) == w.op = op /\ w.pc \in {"update", "refresh"}

Succeeded(w) ==
  \/ w.pc = "acked"
  \/ w.op \in {"recommit", "commit"} /\ w.pc \in {"count", "parent", "rollup", "reread"}

Inserting(w) == w.op = "commit" /\ w.pc \in {"update", "refresh"} /\ w.tries > 0

Published(v) == \E h \in Codes : cache[h] = v

(* A pending insert holds the hash, alone, and there is no row under it.   *)
PendingInserts ==
  \A d \in Deliveries : Inserting(worker[d]) =>
    /\ worker[d].code \in locked /\ cache[worker[d].code] = None
    /\ \A e \in Deliveries :
         Inserting(worker[e]) /\ worker[e].code = worker[d].code => e = d

(* A worker about to commit has uploaded the video.                        *)
Uploaded ==
  \A d \in Deliveries : Updating(worker[d], "commit") =>
    VideoKey(worker[d].chunk, worker[d].code) \in store

(* What a worker has read of the cache and of its chunk still holds of the *)
(* cache, and the no-op ack has a video to write.                          *)
ReadsPublished ==
  \A d \in Deliveries :
    /\ worker[d].hit # None => Published(worker[d].hit)
    /\ worker[d].row.video # None => Published(worker[d].row.video)
    /\ worker[d].row.status = "RENDERED" => worker[d].row.video # None
    /\ Updating(worker[d], "recommit") =>
         worker[d].hit # None \/ worker[d].row.status = "RENDERED"

(* From its commit on, a successful delivery's chunk has a video.          *)
Shown ==
  \A d \in Deliveries : Succeeded(worker[d]) =>
    worker[d].chunk \in Chunks /\ chunk[worker[d].chunk].video # None

IInv ==
  /\ TypeOK
  /\ CacheBacked /\ VideoPublished
  /\ PendingInserts /\ Uploaded /\ ReadsPublished /\ Shown
-----------------------------------------------------------------------------
(* What a step may change.                                                 *)

LEMMA BecomesValue ==
  ASSUME TypeOK, NEW d \in Deliveries, NEW v, Becomes(d, v)
  PROVE  /\ worker'[d] = v
         /\ \A e \in Deliveries : e # d => worker'[e] = worker[e]
BY DEF Becomes, TypeOK

LEMMA EndValue ==
  ASSUME TypeOK, NEW d \in Deliveries, NEW how, End(d, how)
  PROVE  /\ worker'[d].pc = how /\ worker'[d].op = "none"
         /\ worker'[d].chunk = worker[d].chunk /\ worker'[d].code = worker[d].code
         /\ worker'[d].row = NoRow /\ worker'[d].hit = None
         /\ \A e \in Deliveries : e # d => worker'[e] = worker[e]
BY BecomesValue DEF End, AtRest

LEMMA BeginUpdateValue ==
  ASSUME TypeOK, NEW d \in Deliveries, NEW op, BeginUpdate(d, op)
  PROVE  /\ worker'[d].pc = "update" /\ worker'[d].op = op /\ worker'[d].tries = 0
         /\ worker'[d].chunk = worker[d].chunk /\ worker'[d].code = worker[d].code
         /\ worker'[d].row = worker[d].row /\ worker'[d].hit = worker[d].hit
         /\ \A e \in Deliveries : e # d => worker'[e] = worker[e]
<1>1. worker[d] \in WorkerState
  BY DEF TypeOK
<1>2. worker'[d] = [worker[d] EXCEPT !.pc = "update", !.op = op,
                      !.expected = worker[d].row.version, !.tries = 0]
  BY BecomesValue DEF BeginUpdate
<1>3. QED
  BY <1>1, <1>2, BecomesValue DEF BeginUpdate, WorkerState

(* A step of a delivery leaves the others' locals alone.                   *)
LEMMA OthersStay ==
  ASSUME TypeOK, NEW d \in Deliveries, Step(d) \/ Interrupt(d)
  PROVE  \A e \in Deliveries : e # d => worker'[e] = worker[e]
<1> USE BecomesValue, EndValue, BeginUpdateValue
<1>1. CASE LookUpCache(d)         BY <1>1 DEF LookUpCache
<1>2. CASE Recommit(d)            BY <1>2 DEF Recommit
<1>3. CASE StartRender(d)         BY <1>3 DEF StartRender
<1>4. CASE WorkspaceFails(d)      BY <1>4 DEF WorkspaceFails
<1>5. CASE RenderFails(d)         BY <1>5 DEF RenderFails
<1>6. CASE RenderAndUpload(d)     BY <1>6 DEF RenderAndUpload
<1>7. CASE DuplicateHash(d)       BY <1>7 DEF DuplicateHash
<1>8. CASE AtomicChunkCommit(d)   BY <1>8 DEF AtomicChunkCommit
<1>9. CASE MarkFailed(d)          BY <1>9 DEF MarkFailed
<1>10. CASE Conflict(d)           BY <1>10 DEF Conflict
<1>11. CASE Refresh(d)            BY <1>11 DEF Refresh
<1>12. CASE Exhausted(d)          BY <1>12 DEF Exhausted
<1>13. CASE CountChunks(d)        BY <1>13 DEF CountChunks
<1>14. CASE ReadParent(d)         BY <1>14 DEF ReadParent, Close
<1>15. CASE UpdateParent(d)       BY <1>15 DEF UpdateParent, Close
<1>16. CASE ParentConflict(d)     BY <1>16 DEF ParentConflict
<1>17. CASE RefreshParent(d)      BY <1>17 DEF RefreshParent
<1>18. CASE ParentExhausted(d)    BY <1>18 DEF ParentExhausted, Close, TypeOK, InPlace
<1>19. CASE Interrupt(d)          BY <1>19 DEF Interrupt
<1>20. QED
  BY <1>1, <1>2, <1>3, <1>4, <1>5, <1>6, <1>7, <1>8, <1>9, <1>10, <1>11, <1>12,
     <1>13, <1>14, <1>15, <1>16, <1>17, <1>18, <1>19 DEF Step
(* The delivery writes a cache row, with its commit or with the DLQ entry  *)
(* of an exhausted one.                                                    *)
Inserts(d) ==
  /\ worker[d].pc = "update" /\ worker[d].op = "commit" /\ Inserted(d)
  /\ cache' = [cache EXCEPT ![worker[d].code] = VideoKey(worker[d].chunk, worker[d].code)]

LEMMA CacheEffect ==
  ASSUME NEW d \in Deliveries, Step(d) \/ Interrupt(d)
  PROVE  UNCHANGED cache \/ Inserts(d)
<1>1. CASE AtomicChunkCommit(d)
  BY <1>1 DEF AtomicChunkCommit, Matched, Inserts
<1>2. CASE Exhausted(d)
  BY <1>2 DEF Exhausted, Inserts
<1>3. CASE ~AtomicChunkCommit(d) /\ ~Exhausted(d)
  BY <1>3 DEF Step, Interrupt, storeVars, LookUpCache, Recommit, StartRender, WorkspaceFails,
      RenderFails, RenderAndUpload, DuplicateHash, MarkFailed, Conflict, Refresh, CountChunks,
      ReadParent, UpdateParent, ParentConflict, RefreshParent, ParentExhausted
<1>4. QED
  BY <1>1, <1>2, <1>3

(* A row of asset_cache is never overwritten: the INSERT is refused when   *)
(* there is one, and a pending one keeps the others out.                   *)
LEMMA CacheGrows ==
  ASSUME TypeOK, PendingInserts, [Next]_vars
  PROVE  \A h \in Codes : cache[h] # None => cache'[h] = cache[h]
<1>1. ASSUME NEW d \in Deliveries, Inserts(d), NEW h \in Codes, cache[h] # None
      PROVE  cache'[h] = cache[h]
  <2>1. CASE worker[d].tries > 0
    BY <1>1, <2>1 DEF Inserts, PendingInserts, Inserting, TypeOK, StoreTypeOK
  <2>2. CASE ~(worker[d].tries > 0)
    BY <1>1, <2>2 DEF Inserts, Inserted, TypeOK, StoreTypeOK
  <2>3. QED
    BY <2>1, <2>2
<1>2. CASE UNCHANGED vars
  BY <1>2 DEF vars
<1>3. ASSUME NEW d \in Deliveries, NEW c \in Chunks, NEW h \in Codes, Deliver(d, c, h)
      PROVE  UNCHANGED cache
  BY <1>3 DEF Deliver, storeVars
<1>4. QED
  BY <1>1, <1>2, <1>3, CacheEffect DEF Next

(* What a step by d that ends without a pending insert does to those of    *)
(* the others.                                                             *)
LEMMA InsertsKept ==
  ASSUME TypeOK, PendingInserts, NEW d \in Deliveries,
         \A e \in Deliveries : e # d => worker'[e] = worker[e],
         ~Inserting(worker'[d]),
         UNCHANGED cache \/ Inserts(d),
         \A h \in locked \cap Codes : h \in locked' \/ (Inserting(worker[d]) /\ h = worker[d].code)
  PROVE  PendingInserts'
<1> SUFFICES ASSUME NEW e \in Deliveries, Inserting(worker[e]), e # d
             PROVE  worker[e].code \in locked' /\ cache'[worker[e].code] = None
  BY DEF PendingInserts, Inserting
<1>1. worker[e].code \in Codes /\ worker[e].code \in locked /\ cache[worker[e].code] = None
  BY DEF PendingInserts, Inserting, TypeOK, InPlace, Running
<1>2. worker[e].code \in locked'
  BY <1>1 DEF PendingInserts
<1>3. ASSUME Inserts(d) PROVE worker[d].code # worker[e].code
  <2>1. CASE worker[d].tries > 0
    BY <1>3, <2>1 DEF Inserts, PendingInserts, Inserting
  <2>2. CASE ~(worker[d].tries > 0)
    BY <1>3, <2>2, <1>1 DEF Inserts, Inserted
  <2>3. QED
    BY <2>1, <2>2
<1>4. cache'[worker[e].code] = None
  BY <1>1, <1>3 DEF Inserts, TypeOK, StoreTypeOK
<1>5. QED
  BY <1>2, <1>4

(* Leaving a transaction gives up the rows it held and no others.          *)
LEMMA HeldCodes ==
  ASSUME TypeOK, NEW d \in Deliveries, NEW h \in Held(d) \cap Codes, Live(d)
  PROVE  Inserting(worker[d]) /\ h = worker[d].code
BY StoreAssumption DEF Held, Inserting, TypeOK, InPlace, Live
LEMMA NotInserting ==
  ASSUME TypeOK, NEW d \in Deliveries
  PROVE  /\ \A how \in Ended : End(d, how) => ~Inserting(worker'[d])
         /\ \A op \in Ops : BeginUpdate(d, op) => ~Inserting(worker'[d])
<1>1. ASSUME NEW how \in Ended, End(d, how) PROVE ~Inserting(worker'[d])
  BY <1>1, EndValue DEF Inserting, Ended
<1>2. ASSUME NEW op \in Ops, BeginUpdate(d, op) PROVE ~Inserting(worker'[d])
  BY <1>2, BeginUpdateValue DEF Inserting
<1>3. QED
  BY <1>1, <1>2

LEMMA StepPendingInserts ==
  ASSUME TypeOK, PendingInserts, NEW d \in Deliveries, Step(d) \/ Interrupt(d)
  PROVE  PendingInserts'
<1> DEFINE w == worker[d]
           Kept == \A h \in locked \cap Codes : h \in locked' \/ (Inserting(w) /\ h = w.code)
<1>o. \A e \in Deliveries : e # d => worker'[e] = worker[e]
  BY OthersStay
<1>w. w \in WorkerState /\ InPlace(w)
  BY DEF TypeOK
<1>c. UNCHANGED cache \/ Inserts(d)
  BY CacheEffect
<1>h. Live(d) /\ locked' = locked \ Held(d) => Kept
  BY HeldCodes
<1>1. CASE LookUpCache(d)
  <2>1. ~Inserting(worker'[d])
    <3>1. CASE BeginAfterRead
      <4>1. worker'[d] = [w EXCEPT !.pc = "update", !.hit = cache[w.code],
                            !.op = Gate(cache[w.code], w.row),
                            !.expected = w.row.version, !.tries = 0]
        BY <1>1, <3>1, BecomesValue DEF LookUpCache
      <4>2. QED
        BY <4>1, <1>w DEF Inserting, WorkerState
    <3>2. CASE ~BeginAfterRead
      BY <1>1, <3>2, NotInserting DEF LookUpCache, Ended
    <3>3. QED
      BY <3>1, <3>2
  <2>2. QED
    BY <1>1, <1>o, <1>c, <2>1, InsertsKept DEF LookUpCache, storeVars
<1>2. CASE Recommit(d)
  <2>1. ~Inserting(worker'[d])
    BY <1>2, <1>w, BecomesValue DEF Recommit, Inserting, WorkerState
  <2>2. QED
    BY <1>2, <1>o, <1>c, <2>1, InsertsKept DEF Recommit
<1>3. CASE StartRender(d)
  <2>1. ~Inserting(worker'[d])
    <3>1. PICK row \in Returned(d) : Becomes(d, [w EXCEPT !.pc = "render", !.row = row])
      BY <1>3 DEF StartRender
    <3>2. [w EXCEPT !.pc = "render", !.row = row].pc = "render"
      BY <1>w DEF WorkerState
    <3>3. QED
      BY <3>1, <3>2, BecomesValue DEF Inserting
  <2>2. QED
    BY <1>3, <1>o, <1>c, <2>1, InsertsKept DEF StartRender
<1>4. CASE WorkspaceFails(d)
  <2>1. ~Inserting(worker'[d])
    BY <1>4, NotInserting DEF WorkspaceFails, Ended
  <2>2. QED
    BY <1>4, <1>o, <1>c, <2>1, InsertsKept DEF WorkspaceFails, storeVars
<1>5. CASE RenderFails(d) \/ RenderAndUpload(d) \/ DuplicateHash(d)
  <2>1. ~Inserting(worker'[d])
    BY <1>5, NotInserting DEF RenderFails, RenderAndUpload, DuplicateHash, Ops
  <2>2. QED
    BY <1>5, <1>o, <1>c, <2>1, InsertsKept
       DEF RenderFails, RenderAndUpload, DuplicateHash, storeVars
<1>6. CASE AtomicChunkCommit(d)
  <2>1. ~Inserting(worker'[d])
    BY <1>6, <1>w, BecomesValue DEF AtomicChunkCommit, Inserting, WorkerState
  <2>2. Kept
    BY <1>6, <1>h DEF AtomicChunkCommit, Matched, Live, Running
  <2>3. QED
    BY <1>o, <1>c, <2>1, <2>2, InsertsKept
<1>7. CASE MarkFailed(d)
  <2>1. ~Inserting(worker'[d])
    BY <1>7, <1>w, BecomesValue DEF MarkFailed, Inserting, WorkerState
  <2>2. QED
    BY <1>7, <1>o, <1>c, <2>1, InsertsKept DEF MarkFailed
<1>8. CASE Conflict(d)
  <2>1. worker'[d] = [w EXCEPT !.pc = "refresh", !.tries = w.tries + 1]
    BY <1>8, BecomesValue DEF Conflict
  <2>2. CASE w.op # "commit"
    <3>1. ~Inserting(worker'[d])
      BY <2>1, <2>2, <1>w DEF Inserting, WorkerState
    <3>2. QED
      BY <1>8, <2>2, <1>o, <1>c, <3>1, InsertsKept DEF Conflict
  <2>3. CASE w.op = "commit"
    <3>1. worker'[d].code = w.code /\ w.code \in Codes
      BY <1>8, <2>1, <1>w DEF Conflict, WorkerState, InPlace, Running
    <3>2. cache[w.code] = None
      BY <1>8, <2>3 DEF Conflict, Inserted, PendingInserts, Inserting
    <3>3. \A e \in Deliveries : Inserting(worker[e]) /\ worker[e].code = w.code => e = d
      BY <1>8, <2>3 DEF Conflict, Inserted, PendingInserts, Inserting
    <3>4. locked' = locked \cup {w.code} /\ UNCHANGED cache
      BY <1>8, <2>3 DEF Conflict
    <3>5. QED
      BY <1>o, <3>1, <3>2, <3>3, <3>4 DEF PendingInserts
  <2>4. QED
    BY <2>2, <2>3
<1>9. CASE Refresh(d)
  <2>1. worker'[d] = [w EXCEPT !.pc = "update", !.expected = chunk[w.chunk].version]
    BY <1>9, BecomesValue DEF Refresh
  <2>2. worker'[d].code = w.code /\ (Inserting(worker'[d]) <=> Inserting(w))
    BY <1>9, <2>1, <1>w DEF Refresh, Inserting, WorkerState
  <2>3. UNCHANGED <<cache, locked>>
    BY <1>9 DEF Refresh, storeVars
  <2>4. QED
    BY <1>o, <2>2, <2>3 DEF PendingInserts
<1>10. CASE Exhausted(d)
  <2>1. ~Inserting(worker'[d])
    BY <1>10, NotInserting DEF Exhausted, Ended, Ops
  <2>2. Kept
    BY <1>10, <1>h DEF Exhausted, Live, Running
  <2>3. QED
    BY <1>o, <1>c, <2>1, <2>2, InsertsKept
<1>11. CASE CountChunks(d) \/ ParentConflict(d) \/ RefreshParent(d)
  <2>1. ~Inserting(worker'[d])
    <3>1. worker'[d].pc \notin {"update", "refresh"}
      <4>1. CASE CountChunks(d)
        <5> DEFINE v == [w EXCEPT !.pc = "parent",
                           !.seen = {StatusSeen(d, x) : x \in Siblings(w.chunk)}]
        <5>1. v.pc = "parent"
          BY <1>w DEF WorkerState
        <5>2. QED
          BY <4>1, <5>1, BecomesValue DEF CountChunks
      <4>2. CASE ParentConflict(d)
        <5> DEFINE v == [w EXCEPT !.pc = "reread", !.tries = w.tries + 1]
        <5>1. v.pc = "reread"
          BY <1>w DEF WorkerState
        <5>2. QED
          BY <4>2, <5>1, BecomesValue DEF ParentConflict
      <4>3. CASE RefreshParent(d)
        <5> DEFINE v == [w EXCEPT !.pc = "rollup", !.expected = job[JobOf[w.chunk]].version]
        <5>1. v.pc = "rollup"
          BY <1>w DEF WorkerState
        <5>2. QED
          BY <4>3, <5>1, BecomesValue DEF RefreshParent
      <4>4. QED
        BY <1>11, <4>1, <4>2, <4>3
    <3>2. QED
      BY <3>1 DEF Inserting
  <2>2. QED
    BY <1>11, <1>o, <1>c, <2>1, InsertsKept
       DEF CountChunks, ParentConflict, RefreshParent, storeVars
<1>12. CASE ReadParent(d)
  <2>1. ~Inserting(worker'[d])
    <3> DEFINE j == JobOf[w.chunk]
               target == RollupTarget(w.seen, job[j].status)
               v == [w EXCEPT !.pc = "rollup", !.target = target,
                       !.expected = job[j].version, !.tries = 0]
    <3>1. CASE Becomes(d, v)
      <4>1. v.pc = "rollup"
        BY <1>w DEF WorkerState
      <4>2. QED
        BY <3>1, <4>1, BecomesValue DEF Inserting
    <3>2. CASE \E how \in Ended : End(d, how)
      BY <3>2, NotInserting
    <3>3. QED
      BY <1>12, <3>1, <3>2 DEF ReadParent, Close, Ended
  <2>2. Kept
    BY <1>12, <1>h DEF ReadParent, Close, Live, Running
  <2>3. QED
    BY <1>o, <1>c, <2>1, <2>2, InsertsKept
<1>13. CASE UpdateParent(d)
  <2>1. ~Inserting(worker'[d])
    BY <1>13, NotInserting DEF UpdateParent, Close, Ended
  <2>2. Kept
    BY <1>13, <1>h DEF UpdateParent, Close, Live, Running
  <2>3. QED
    BY <1>o, <1>c, <2>1, <2>2, InsertsKept
<1>14. CASE ParentExhausted(d)
  <2>1. w.op \in {"recommit", "commit", "fail"}
    BY <1>14, <1>w DEF ParentExhausted, InPlace
  <2>2. ~Inserting(worker'[d])
    BY <1>14, <2>1, NotInserting DEF ParentExhausted, Close, Ended, Ops
  <2>3. Kept
    BY <1>14, <2>1, <1>h DEF ParentExhausted, Close, Live, Running
  <2>4. QED
    BY <1>o, <1>c, <2>2, <2>3, InsertsKept
<1>15. CASE Interrupt(d)
  <2>1. ~Inserting(worker'[d])
    BY <1>15, NotInserting DEF Interrupt, Ended
  <2>2. Kept
    BY <1>15, <1>h DEF Interrupt
  <2>3. QED
    BY <1>o, <1>c, <2>1, <2>2, InsertsKept
<1>16. QED
  BY <1>1, <1>2, <1>3, <1>4, <1>5, <1>6, <1>7, <1>8, <1>9, <1>10, <1>11, <1>12,
     <1>13, <1>14, <1>15 DEF Step
-----------------------------------------------------------------------------
(* The store and the chunk rows.                                           *)

LEMMA StoreGrows ==
  ASSUME [Next]_vars
  PROVE  store \subseteq store'
BY DEF Next, Step, vars, storeVars, Deliver, LookUpCache, Recommit, StartRender, WorkspaceFails,
    RenderFails, RenderAndUpload, DuplicateHash, AtomicChunkCommit, MarkFailed, Conflict, Refresh,
    Exhausted, CountChunks, ReadParent, UpdateParent, ParentConflict, RefreshParent,
    ParentExhausted, Interrupt

LEMMA PublishedStays ==
  ASSUME TypeOK, PendingInserts, [Next]_vars, NEW v, v # None, Published(v)
  PROVE  Published(v)'
BY CacheGrows DEF Published

(* How a step may change a chunk row: a status with a version one higher,  *)
(* or RENDERED with a published video.                                     *)
StatusWrite(d) ==
  /\ worker[d].chunk \in Chunks
  /\ \E s \in ChunkStatus \ {"RENDERED"} :
       chunk' = [chunk EXCEPT ![worker[d].chunk] = WithStatus(chunk[worker[d].chunk], s)]

VideoWrite(d) ==
  /\ worker[d].chunk \in Chunks
  /\ \E v, a :
       /\ v # None /\ \E h \in Codes : cache'[h] = v
       /\ chunk' = [chunk EXCEPT ![worker[d].chunk] = AsRendered(chunk[worker[d].chunk], v, a)]

LEMMA ChunkEffect ==
  ASSUME TypeOK, PendingInserts, ReadsPublished,
         NEW d \in Deliveries, Step(d) \/ Interrupt(d)
  PROVE  UNCHANGED chunk \/ StatusWrite(d) \/ VideoWrite(d)
<1> DEFINE w == worker[d]
<1>w. w \in WorkerState /\ InPlace(w)
  BY DEF TypeOK
<1>1. CASE Recommit(d)
  <2> DEFINE video == IF w.hit # None THEN w.hit ELSE w.row.video
  <2>1. video # None /\ Published(video)
    BY <1>1 DEF Recommit, Matched, ReadsPublished, Updating
  <2>2. \E h \in Codes : cache'[h] = video
    BY <1>1, <2>1 DEF Published, Recommit
  <2>3. w.chunk \in Chunks
    BY <1>1, <1>w DEF Recommit, Matched, InPlace, Running
  <2>4. \E a : chunk' = [chunk EXCEPT ![w.chunk] = AsRendered(chunk[w.chunk], video, a)]
    BY <1>1 DEF Recommit
  <2>5. QED
    BY <2>1, <2>2, <2>3, <2>4 DEF VideoWrite
<1>2. CASE StartRender(d)
  BY <1>2, <1>w DEF StartRender, Matched, InPlace, Running, ChunkStatus, StatusWrite
<1>3. CASE AtomicChunkCommit(d)
  <2>1. w.chunk \in Chunks /\ w.code \in Codes
    BY <1>3, <1>w DEF AtomicChunkCommit, Matched, InPlace, Running
  <2>2. cache'[w.code] = VideoKey(w.chunk, w.code)
    BY <1>3, <2>1 DEF AtomicChunkCommit, TypeOK, StoreTypeOK
  <2>3. VideoKey(w.chunk, w.code) # None
    BY <2>1, KeyTypes, NoneAssumption
  <2>4. QED
    BY <1>3, <2>1, <2>2, <2>3 DEF AtomicChunkCommit, VideoWrite
<1>4. ASSUME NEW newJob, Live(d), Close(d, newJob)
      PROVE  UNCHANGED chunk \/ StatusWrite(d)
  BY <1>4, <1>w DEF Close, Live, InPlace, StatusWrite, ChunkStatus
<1>5. CASE ReadParent(d)
  BY <1>4, <1>5 DEF ReadParent, Live, Running
<1>6. CASE UpdateParent(d)
  BY <1>4, <1>6 DEF UpdateParent, Live, Running
<1>7. CASE ParentExhausted(d)
  <2>1. Live(d) /\ w.op \in {"recommit", "commit", "fail"}
    BY <1>7, <1>w DEF ParentExhausted, Live, Running, InPlace
  <2>2. CASE w.op = "fail"
    <3>1. Close(d, job)
      BY <1>7, <2>2 DEF ParentExhausted
    <3>2. QED
      BY <1>4, <2>1, <3>1
  <2>3. CASE w.op = "commit"
    BY <1>7, <2>3 DEF ParentExhausted
  <2>4. CASE w.op = "recommit"
    BY <1>7, <2>4 DEF ParentExhausted
  <2>5. QED
    BY <2>1, <2>2, <2>3, <2>4
<1>8. \/ Recommit(d) \/ StartRender(d) \/ AtomicChunkCommit(d)
      \/ ReadParent(d) \/ UpdateParent(d) \/ ParentExhausted(d)
      \/ UNCHANGED chunk
  BY DEF Step, Interrupt, storeVars, LookUpCache,
     WorkspaceFails, RenderFails, RenderAndUpload, DuplicateHash, MarkFailed, Conflict, Refresh,
     Exhausted, CountChunks, ParentConflict, RefreshParent
<1>9. QED
  BY <1>1, <1>2, <1>3, <1>5, <1>6, <1>7, <1>8

(* A chunk that has a video keeps having one.                              *)
LEMMA VideoStays ==
  ASSUME TypeOK, PendingInserts, ReadsPublished, [Next]_vars,
         NEW c \in Chunks, chunk[c].video # None
  PROVE  chunk'[c].video # None
<1>1. ASSUME NEW s PROVE WithStatus(chunk[c], s).video = chunk[c].video
  BY DEF WithStatus, TypeOK, StoreTypeOK, ChunkRow
<1>2. ASSUME NEW v, NEW a PROVE AsRendered(chunk[c], v, a).video = v
  BY DEF AsRendered
<1>3. CASE UNCHANGED chunk
  BY <1>3
<1>4. ASSUME NEW d \in Deliveries, Step(d) \/ Interrupt(d)
      PROVE  chunk'[c].video # None
  BY <1>1, <1>2, <1>4, ChunkEffect DEF TypeOK, StoreTypeOK, StatusWrite, VideoWrite
<1>5. QED
  BY <1>3, <1>4 DEF Next, Deliver, vars, storeVars
-----------------------------------------------------------------------------
(* Where a step may leave the locals of the delivery that takes it.        *)

(* What it remembers of the cache and of its chunk is as before, nothing,  *)
(* or what it has just read or written.                                    *)
Remembers(w, v) ==
  /\ v.hit \in {w.hit, None} \/ (w.code \in Codes /\ v.hit = cache[w.code])
  /\ \/ v.row \in {w.row, NoRow}
     \/ w.chunk \in Chunks /\ v.row = WithStatus(chunk[w.chunk], "RENDERING")
  /\ Updating(v, "recommit") =>
       \/ Updating(w, "recommit") /\ v.hit = w.hit /\ v.row = w.row
       \/ v.hit # None \/ v.row.status = "RENDERED"

Moves(w, v, d) ==
  /\ v.chunk = w.chunk /\ v.code = w.code
  /\ Updating(v, "commit") => Updating(w, "commit") \/ RenderAndUpload(d)
  /\ Succeeded(v) => Succeeded(w) \/ Recommit(d) \/ AtomicChunkCommit(d)

LEMMA EndMoves ==
  ASSUME TypeOK, NEW d \in Deliveries, NEW how \in Ended, End(d, how),
         how = "acked" => Succeeded(worker[d])
  PROVE  Moves(worker[d], worker'[d], d) /\ Remembers(worker[d], worker'[d])
BY EndValue DEF Moves, Remembers, Updating, Succeeded, Ended

LEMMA BeginUpdateMoves ==
  ASSUME TypeOK, NEW d \in Deliveries, NEW op \in {"fail", "commit"}, BeginUpdate(d, op),
         op = "commit" => RenderAndUpload(d)
  PROVE  Moves(worker[d], worker'[d], d) /\ Remembers(worker[d], worker'[d])
BY BeginUpdateValue DEF Moves, Remembers, Updating, Succeeded

(* Advancing within a transaction: only these fields change.               *)
LEMMA AdvanceMoves ==
  ASSUME TypeOK, NEW d \in Deliveries, NEW v \in WorkerState, Becomes(d, v),
         v.chunk = worker[d].chunk, v.code = worker[d].code, v.op = worker[d].op,
         v.hit = worker[d].hit, v.row = worker[d].row,
         Updating(v, v.op) => Updating(worker[d], v.op),
         Succeeded(v) => Succeeded(worker[d]) \/ Recommit(d) \/ AtomicChunkCommit(d)
  PROVE  Moves(worker[d], worker'[d], d) /\ Remembers(worker[d], worker'[d])
BY BecomesValue DEF Moves, Remembers, Updating

LEMMA StepMoves ==
  ASSUME TypeOK, NEW d \in Deliveries, Step(d) \/ Interrupt(d)
  PROVE  Moves(worker[d], worker'[d], d) /\ Remembers(worker[d], worker'[d])
<1> DEFINE w == worker[d]
           Goal == Moves(w, worker'[d], d) /\ Remembers(w, worker'[d])
<1>w. w \in WorkerState /\ InPlace(w)
  BY DEF TypeOK
<1>n. 0 \in 0 .. MaxRetries /\ (w.tries + 1 < MaxRetries => w.tries + 1 \in 0 .. MaxRetries)
  BY StoreAssumption, <1>w DEF WorkerState
<1>v. /\ \A c \in Chunks : chunk[c] \in ChunkRow /\ chunk[c].version \in Nat
      /\ \A j \in Jobs : job[j] \in JobRow /\ job[j].version \in Nat
      /\ \A c \in Chunks : JobOf[c] \in Jobs
  BY StoreAssumption DEF TypeOK, StoreTypeOK, ChunkRow, JobRow
<1>u. w.pc \in Running => w.chunk \in Chunks /\ w.code \in Codes
  BY <1>w DEF InPlace
<1>1. CASE LookUpCache(d)
  <2>1. CASE BeginAfterRead
    <3> DEFINE v == [w EXCEPT !.pc = "update", !.hit = cache[w.code],
                       !.op = Gate(cache[w.code], w.row),
                       !.expected = w.row.version, !.tries = 0]
    <3>1. /\ v.pc = "update" /\ v.hit = cache[w.code] /\ v.op = Gate(cache[w.code], w.row)
          /\ v.row = w.row /\ v.chunk = w.chunk /\ v.code = w.code
      BY <1>w DEF WorkerState
    <3>2. worker'[d] = v
      BY <1>1, <2>1, BecomesValue DEF LookUpCache
    <3>3. w.code \in Codes
      BY <1>1, <1>u DEF LookUpCache, Running
    <3>4. v.op # "commit" /\ (v.op = "recommit" => v.hit # None \/ v.row.status = "RENDERED")
      BY <3>1 DEF Gate
    <3>5. Moves(w, v, d)
      BY <3>1, <3>4 DEF Moves, Updating, Succeeded
    <3>6. Remembers(w, v)
      BY <3>1, <3>3, <3>4 DEF Remembers, Updating
    <3>7. QED
      BY <3>2, <3>5, <3>6
  <2>2. CASE ~BeginAfterRead
    BY <1>1, <2>2, EndMoves DEF LookUpCache, Ended
  <2>3. QED
    BY <2>1, <2>2
<1>2. CASE Recommit(d) \/ AtomicChunkCommit(d) \/ MarkFailed(d)
  <2> DEFINE v == [w EXCEPT !.pc = "count"]
  <2>1. /\ v \in WorkerState /\ v.pc = "count" /\ v.op = w.op
        /\ v.hit = w.hit /\ v.row = w.row /\ v.chunk = w.chunk /\ v.code = w.code
    BY <1>w DEF WorkerState, Running
  <2>2. Becomes(d, v)
    BY <1>2 DEF Recommit, AtomicChunkCommit, MarkFailed
  <2>3. w.op = "fail" \/ Recommit(d) \/ AtomicChunkCommit(d)
    BY <1>2 DEF MarkFailed, Matched
  <2>4. QED
    BY <2>1, <2>2, <2>3, AdvanceMoves DEF Updating, Succeeded
<1>3. CASE StartRender(d)
  <2>1. PICK row \in Returned(d) : Becomes(d, [w EXCEPT !.pc = "render", !.row = row])
    BY <1>3 DEF StartRender
  <2> DEFINE v == [w EXCEPT !.pc = "render", !.row = row]
  <2>2. /\ v.pc = "render" /\ v.op = w.op /\ v.row = row
        /\ v.hit = w.hit /\ v.chunk = w.chunk /\ v.code = w.code
    BY <1>w DEF WorkerState
  <2>3. w.chunk \in Chunks
    BY <1>3, <1>u DEF StartRender, Matched, Running
  <2>4. worker'[d] = v
    BY <2>1, BecomesValue
  <2>5. Moves(w, v, d)
    BY <2>2 DEF Moves, Updating, Succeeded
  <2>6. Remembers(w, v)
    BY <2>2, <2>3, <2>1 DEF Remembers, Updating, Returned
  <2>7. QED
    BY <2>4, <2>5, <2>6
<1>4. CASE WorkspaceFails(d)
  BY <1>4, EndMoves DEF WorkspaceFails, Ended
<1>5. CASE RenderFails(d) \/ RenderAndUpload(d) \/ DuplicateHash(d)
  BY <1>5, BeginUpdateMoves DEF RenderFails, RenderAndUpload, DuplicateHash
<1>6. CASE Conflict(d)
  <2> DEFINE v == [w EXCEPT !.pc = "refresh", !.tries = w.tries + 1]
  <2>1. v \in WorkerState
    BY <1>6, <1>w, <1>n DEF Conflict, WorkerState, Running
  <2>2. /\ v.pc = "refresh" /\ v.op = w.op
        /\ v.hit = w.hit /\ v.row = w.row /\ v.chunk = w.chunk /\ v.code = w.code
    BY <1>w DEF WorkerState
  <2>3. QED
    BY <1>6, <2>1, <2>2, AdvanceMoves DEF Conflict, Updating, Succeeded
<1>7. CASE Refresh(d)
  <2> DEFINE v == [w EXCEPT !.pc = "update", !.expected = chunk[w.chunk].version]
  <2>1. v \in WorkerState
    BY <1>7, <1>w, <1>u, <1>v DEF Refresh, WorkerState, Running
  <2>2. /\ v.pc = "update" /\ v.op = w.op
        /\ v.hit = w.hit /\ v.row = w.row /\ v.chunk = w.chunk /\ v.code = w.code
    BY <1>w DEF WorkerState
  <2>3. QED
    BY <1>7, <2>1, <2>2, AdvanceMoves DEF Refresh, Updating, Succeeded
<1>8. CASE Exhausted(d)
  <2>1. CASE w.op = "commit"
    BY <1>8, <2>1, BeginUpdateMoves DEF Exhausted
  <2>2. CASE w.op # "commit"
    BY <1>8, <2>2, EndMoves DEF Exhausted, Ended
  <2>3. QED
    BY <2>1, <2>2
<1>9. CASE CountChunks(d)
  <2> DEFINE v == [w EXCEPT !.pc = "parent",
                     !.seen = {StatusSeen(d, x) : x \in Siblings(w.chunk)}]
  <2>1. \A x \in Chunks : StatusSeen(d, x) \in ChunkStatus
    BY DEF TypeOK, StoreTypeOK, ChunkRow, StatusSeen, ChunkStatus
  <2>2. {StatusSeen(d, x) : x \in Siblings(w.chunk)} \subseteq ChunkStatus
    BY <2>1 DEF Siblings
  <2>3. v \in WorkerState
    BY <2>2, <1>w DEF WorkerState, Running
  <2>4. /\ v.pc = "parent" /\ v.op = w.op
        /\ v.hit = w.hit /\ v.row = w.row /\ v.chunk = w.chunk /\ v.code = w.code
    BY <1>w DEF WorkerState
  <2>5. QED
    BY <1>9, <2>3, <2>4, AdvanceMoves DEF CountChunks, Updating, Succeeded
<1>10. ASSUME NEW newJob, Close(d, newJob),
              w.pc \in {"parent", "rollup"}, w.op \in {"recommit", "commit", "fail"}
       PROVE  Goal
  BY <1>10, EndMoves DEF Close, Ended, Succeeded
<1>11. CASE ReadParent(d)
  <2> DEFINE j == JobOf[w.chunk]
             target == RollupTarget(w.seen, job[j].status)
             v == [w EXCEPT !.pc = "rollup", !.target = target,
                     !.expected = job[j].version, !.tries = 0]
  <2>1. w.pc = "parent" /\ w.op \in {"recommit", "commit", "fail"} /\ j \in Jobs
    BY <1>11, <1>w, <1>u, <1>v DEF ReadParent, InPlace, Running
  <2>2. CASE target = job[j].status
    <3>1. Close(d, job)
      BY <1>11, <2>2 DEF ReadParent
    <3>2. QED
      BY <1>10, <2>1, <3>1
  <2>3. CASE target # job[j].status
    <3>1. target \in JobStatus /\ job[j].version \in Nat
      BY <2>1, <1>v, RollupTargetType DEF JobRow
    <3>2. v \in WorkerState
      BY <1>w, <1>n, <3>1 DEF WorkerState, Running
    <3>3. /\ v.pc = "rollup" /\ v.op = w.op
          /\ v.hit = w.hit /\ v.row = w.row /\ v.chunk = w.chunk /\ v.code = w.code
      BY <1>w DEF WorkerState
    <3>4. Becomes(d, v)
      BY <1>11, <2>3 DEF ReadParent
    <3>5. QED
      BY <2>1, <3>2, <3>3, <3>4, AdvanceMoves DEF Updating, Succeeded
  <2>4. QED
    BY <2>2, <2>3
<1>12. CASE UpdateParent(d)
  <2>1. w.pc = "rollup" /\ w.op \in {"recommit", "commit", "fail"}
    BY <1>12, <1>w DEF UpdateParent, InPlace
  <2>2. QED
    BY <1>10, <1>12, <2>1 DEF UpdateParent
<1>13. CASE ParentConflict(d)
  <2> DEFINE v == [w EXCEPT !.pc = "reread", !.tries = w.tries + 1]
  <2>1. v \in WorkerState
    BY <1>13, <1>w, <1>n DEF ParentConflict, WorkerState, Running
  <2>2. /\ v.pc = "reread" /\ v.op = w.op
        /\ v.hit = w.hit /\ v.row = w.row /\ v.chunk = w.chunk /\ v.code = w.code
    BY <1>w DEF WorkerState
  <2>3. QED
    BY <1>13, <2>1, <2>2, AdvanceMoves DEF ParentConflict, Updating, Succeeded
<1>14. CASE RefreshParent(d)
  <2> DEFINE v == [w EXCEPT !.pc = "rollup", !.expected = job[JobOf[w.chunk]].version]
  <2>1. v \in WorkerState
    BY <1>14, <1>w, <1>u, <1>v DEF RefreshParent, WorkerState, Running
  <2>2. /\ v.pc = "rollup" /\ v.op = w.op
        /\ v.hit = w.hit /\ v.row = w.row /\ v.chunk = w.chunk /\ v.code = w.code
    BY <1>w DEF WorkerState
  <2>3. QED
    BY <1>14, <2>1, <2>2, AdvanceMoves DEF RefreshParent, Updating, Succeeded
<1>15. CASE ParentExhausted(d)
  <2>1. w.pc = "rollup" /\ w.op \in {"recommit", "commit", "fail"}
    BY <1>15, <1>w DEF ParentExhausted, InPlace
  <2>2. CASE w.op = "fail"
    <3>1. Close(d, job)
      BY <1>15, <2>2 DEF ParentExhausted
    <3>2. QED
      BY <1>10, <2>1, <3>1
  <2>3. CASE w.op = "commit"
    <3>1. BeginUpdate(d, "fail")
      BY <1>15, <2>3 DEF ParentExhausted
    <3>2. QED
      BY <3>1, BeginUpdateMoves
  <2>4. CASE w.op = "recommit"
    <3>1. End(d, "raised")
      BY <1>15, <2>4 DEF ParentExhausted
    <3>2. QED
      BY <3>1, EndMoves DEF Ended
  <2>5. QED
    BY <2>1, <2>2, <2>3, <2>4
<1>16. CASE Interrupt(d)
  BY <1>16, EndMoves DEF Interrupt, Ended
<1>17. QED
  BY <1>1, <1>2, <1>3, <1>4, <1>5, <1>6, <1>7, <1>8, <1>9, <1>11, <1>12,
     <1>13, <1>14, <1>15, <1>16 DEF Step
-----------------------------------------------------------------------------
(* The invariant is preserved.                                             *)

LEMMA StepUploaded ==
  ASSUME IInv, [Next]_vars, NEW d \in Deliveries, Step(d) \/ Interrupt(d)
  PROVE  Uploaded'
<1>1. Moves(worker[d], worker'[d], d) /\ store \subseteq store'
  BY StepMoves, StoreGrows DEF IInv
<1>2. ASSUME NEW e \in Deliveries, e # d, Updating(worker'[e], "commit")
      PROVE  VideoKey(worker'[e].chunk, worker'[e].code) \in store'
  BY <1>1, <1>2, OthersStay DEF IInv, Uploaded
<1>3. ASSUME Updating(worker'[d], "commit")
      PROVE  VideoKey(worker'[d].chunk, worker'[d].code) \in store'
  <2>1. CASE Updating(worker[d], "commit")
    BY <1>1, <2>1 DEF IInv, Uploaded, Moves
  <2>2. CASE RenderAndUpload(d)
    BY <1>1, <2>2 DEF RenderAndUpload, Uploads, Moves
  <2>3. QED
    BY <1>1, <1>3, <2>1, <2>2 DEF Moves
<1>4. QED
  BY <1>2, <1>3 DEF Uploaded

LEMMA StepReadsPublished ==
  ASSUME IInv, [Next]_vars, NEW d \in Deliveries, Step(d) \/ Interrupt(d)
  PROVE  ReadsPublished'
<1> DEFINE w == worker[d]
           v == worker'[d]
<1>1. Remembers(w, v)
  BY StepMoves DEF IInv
<1>2. ASSUME NEW x, x # None, Published(x) PROVE \E h \in Codes : cache'[h] = x
  BY <1>2, CacheGrows DEF IInv, Published
<1>3. ASSUME NEW c \in Chunks
      PROVE  LET row == WithStatus(chunk[c], "RENDERING")
             IN  row.video = chunk[c].video /\ row.status = "RENDERING"
  BY DEF WithStatus, IInv, TypeOK, StoreTypeOK, ChunkRow
<1>4. ASSUME v.hit # None PROVE \E h \in Codes : cache'[h] = v.hit
  <2>1. Published(v.hit)
    BY <1>1, <1>4 DEF Remembers, Published, IInv, ReadsPublished
  <2>2. QED
    BY <1>2, <1>4, <2>1
<1>5. ASSUME v.row.video # None PROVE \E h \in Codes : cache'[h] = v.row.video
  <2>1. Published(v.row.video)
    BY <1>1, <1>3, <1>5 DEF Remembers, Published, IInv, ReadsPublished, VideoPublished, NoRow
  <2>2. QED
    BY <1>2, <1>5, <2>1
<1>6. v.row.status = "RENDERED" => v.row.video # None
  BY <1>1, <1>3 DEF Remembers, IInv, ReadsPublished, NoRow
<1>7. Updating(v, "recommit") => v.hit # None \/ v.row.status = "RENDERED"
  BY <1>1 DEF Remembers, IInv, ReadsPublished
<1>8. ASSUME NEW e \in Deliveries, e # d
      PROVE  /\ worker'[e].hit # None => \E h \in Codes : cache'[h] = worker'[e].hit
             /\ worker'[e].row.video # None => \E h \in Codes : cache'[h] = worker'[e].row.video
             /\ worker'[e].row.status = "RENDERED" => worker'[e].row.video # None
             /\ Updating(worker'[e], "recommit") =>
                  worker'[e].hit # None \/ worker'[e].row.status = "RENDERED"
  <2>1. worker'[e] = worker[e]
    BY <1>8, OthersStay DEF IInv
  <2>2. QED
    BY <1>2, <2>1 DEF IInv, ReadsPublished
<1>9. QED
  BY <1>4, <1>5, <1>6, <1>7, <1>8 DEF ReadsPublished, Published

LEMMA StepShown ==
  ASSUME IInv, [Next]_vars, NEW d \in Deliveries, Step(d) \/ Interrupt(d)
  PROVE  Shown'
<1>1. Moves(worker[d], worker'[d], d)
  BY StepMoves DEF IInv
<1>2. ASSUME NEW c \in Chunks, chunk[c].video # None PROVE chunk'[c].video # None
  BY <1>2, VideoStays DEF IInv
<1>3. ASSUME NEW e \in Deliveries, Succeeded(worker[e]), worker'[e].chunk = worker[e].chunk
      PROVE  worker'[e].chunk \in Chunks /\ chunk'[worker'[e].chunk].video # None
  BY <1>2, <1>3 DEF IInv, Shown
<1>4. ASSUME Recommit(d) \/ AtomicChunkCommit(d)
      PROVE  worker[d].chunk \in Chunks /\ chunk'[worker[d].chunk].video # None
  <2>1. worker[d].chunk \in Chunks /\ worker[d].code \in Codes
    BY <1>4 DEF Recommit, AtomicChunkCommit, Matched, IInv, TypeOK, InPlace, Running
  <2>2. CASE Recommit(d)
    <3> DEFINE video == IF worker[d].hit # None THEN worker[d].hit ELSE worker[d].row.video
    <3>1. video # None
      BY <2>2 DEF Recommit, Matched, IInv, ReadsPublished, Updating
    <3>2. chunk'[worker[d].chunk].video = video
      BY <2>1, <2>2 DEF Recommit, AsRendered, IInv, TypeOK, StoreTypeOK
    <3>3. QED
      BY <2>1, <3>1, <3>2
  <2>3. CASE AtomicChunkCommit(d)
    <3>1. chunk'[worker[d].chunk].video = VideoKey(worker[d].chunk, worker[d].code)
      BY <2>1, <2>3 DEF AtomicChunkCommit, AsRendered, IInv, TypeOK, StoreTypeOK
    <3>2. QED
      BY <2>1, <3>1, KeyTypes, NoneAssumption
  <2>4. QED
    BY <1>4, <2>2, <2>3
<1>5. ASSUME Succeeded(worker'[d])
      PROVE  worker'[d].chunk \in Chunks /\ chunk'[worker'[d].chunk].video # None
  BY <1>1, <1>3, <1>4, <1>5 DEF Moves
<1>6. ASSUME NEW e \in Deliveries, e # d, Succeeded(worker'[e])
      PROVE  worker'[e].chunk \in Chunks /\ chunk'[worker'[e].chunk].video # None
  BY <1>3, <1>6, OthersStay DEF IInv
<1>7. QED
  BY <1>5, <1>6 DEF Shown

LEMMA StepVideoPublished ==
  ASSUME IInv, [Next]_vars, NEW d \in Deliveries, Step(d) \/ Interrupt(d)
  PROVE  VideoPublished'
<1> SUFFICES ASSUME NEW c \in Chunks
             PROVE  /\ chunk'[c].status = "RENDERED" => chunk'[c].video # None
                    /\ chunk'[c].video # None => \E h \in Codes : cache'[h] = chunk'[c].video
  BY DEF VideoPublished
<1>1. ASSUME NEW x, x # None, Published(x) PROVE \E h \in Codes : cache'[h] = x
  BY <1>1, CacheGrows DEF IInv, Published
<1>2. CASE chunk'[c] = chunk[c]
  <2>1. chunk[c].status = "RENDERED" => chunk[c].video # None
    BY DEF IInv, VideoPublished
  <2>2. chunk[c].video # None => Published(chunk[c].video)
    BY DEF IInv, VideoPublished, Published
  <2>3. QED
    BY <1>1, <1>2, <2>1, <2>2
<1>3. ASSUME NEW s \in ChunkStatus \ {"RENDERED"}, chunk'[c] = WithStatus(chunk[c], s)
      PROVE  chunk'[c].status # "RENDERED" /\ chunk'[c].video = chunk[c].video
  BY <1>3 DEF WithStatus, IInv, TypeOK, StoreTypeOK, ChunkRow
<1>4. CASE StatusWrite(d)
  <2>1. chunk'[c] = chunk[c] \/ \E s \in ChunkStatus \ {"RENDERED"} :
          chunk'[c] = WithStatus(chunk[c], s)
    BY <1>4 DEF StatusWrite, IInv, TypeOK, StoreTypeOK
  <2>2. chunk[c].video # None => Published(chunk[c].video)
    BY DEF IInv, VideoPublished, Published
  <2>3. QED
    BY <1>1, <1>2, <1>3, <2>1, <2>2
<1>5. CASE VideoWrite(d)
  <2>1. PICK v, a : /\ v # None /\ \E h \in Codes : cache'[h] = v
                    /\ chunk' = [chunk EXCEPT ![worker[d].chunk] =
                                   AsRendered(chunk[worker[d].chunk], v, a)]
    BY <1>5 DEF VideoWrite
  <2>2. c = worker[d].chunk => chunk'[c].video = v
    BY <2>1 DEF AsRendered, IInv, TypeOK, StoreTypeOK
  <2>3. c # worker[d].chunk => chunk'[c] = chunk[c]
    BY <2>1 DEF IInv, TypeOK, StoreTypeOK
  <2>4. QED
    BY <1>2, <2>1, <2>2, <2>3
<1>6. QED
  BY <1>2, <1>4, <1>5, ChunkEffect DEF IInv

LEMMA StepCacheBacked ==
  ASSUME IInv, [Next]_vars, NEW d \in Deliveries, Step(d) \/ Interrupt(d)
  PROVE  CacheBacked'
<1>1. store \subseteq store'
  BY StoreGrows
<1>2. CASE UNCHANGED cache
  BY <1>1, <1>2 DEF IInv, CacheBacked
<1>3. CASE Inserts(d)
  <2>1. worker[d].chunk \in Chunks /\ worker[d].code \in Codes
    BY <1>3 DEF Inserts, IInv, TypeOK, InPlace, Running
  <2>2. VideoKey(worker[d].chunk, worker[d].code) \in store
    BY <1>3 DEF Inserts, IInv, Uploaded, Updating
  <2>3. ASSUME NEW h \in Codes, cache'[h] # None
        PROVE  cache'[h] \in store' /\ \E c \in Chunks : cache'[h] = VideoKey(c, h)
    <3>1. CASE h = worker[d].code
      BY <1>1, <1>3, <2>1, <2>2, <3>1 DEF Inserts, IInv, TypeOK, StoreTypeOK
    <3>2. CASE h # worker[d].code
      BY <1>1, <1>3, <2>3, <3>2 DEF Inserts, IInv, TypeOK, StoreTypeOK, CacheBacked
    <3>3. QED
      BY <3>1, <3>2
  <2>4. QED
    BY <2>3 DEF CacheBacked
<1>4. QED
  BY <1>2, <1>3, CacheEffect

LEMMA DeliverIInv ==
  ASSUME IInv, NEW d \in Deliveries, NEW c \in Chunks, NEW h \in Codes, Deliver(d, c, h)
  PROVE  IInv'
<1> DEFINE v == [AtRest("lookup", c, h) EXCEPT !.row = chunk[c]]
<1>1. TypeOK'
  BY NextTypeOK DEF IInv, Next
<1>2. /\ v.pc = "lookup" /\ v.op = "none" /\ v.chunk = c /\ v.code = h
      /\ v.row = chunk[c] /\ v.hit = None
  BY DEF AtRest
<1>3. worker'[d] = v /\ \A e \in Deliveries : e # d => worker'[e] = worker[e]
  BY BecomesValue DEF Deliver, IInv
<1> HIDE DEF v
<1>4. UNCHANGED <<chunk, job, cache, dlq, store, locked>>
  BY DEF Deliver, storeVars
<1>5. CacheBacked' /\ VideoPublished'
  BY <1>4 DEF IInv, CacheBacked, VideoPublished
<1>6. PendingInserts'
  <2>1. ~Inserting(worker'[d])
    BY <1>2, <1>3 DEF Inserting
  <2>2. UNCHANGED <<cache, locked>>
    BY <1>4
  <2>3. QED
    BY <1>3, <2>1, <2>2 DEF IInv, PendingInserts
<1>7. Uploaded'
  BY <1>2, <1>3, <1>4 DEF IInv, Uploaded, Updating
<1>8. ReadsPublished'
  <2>1. /\ chunk[c].video # None => \E x \in Codes : cache[x] = chunk[c].video
        /\ chunk[c].status = "RENDERED" => chunk[c].video # None
    BY DEF IInv, VideoPublished
  <2>2. /\ worker'[d].row = chunk[c] /\ worker'[d].hit = None
        /\ ~Updating(worker'[d], "recommit")
    BY <1>2, <1>3 DEF Updating
  <2>3. UNCHANGED cache
    BY <1>4
  <2>4. QED
    BY <1>3, <2>1, <2>2, <2>3 DEF IInv, ReadsPublished, Published
<1>9. Shown'
  BY <1>2, <1>3, <1>4 DEF IInv, Shown, Succeeded
<1>10. QED
  BY <1>1, <1>5, <1>6, <1>7, <1>8, <1>9 DEF IInv

LEMMA InitIInv == Init => IInv
<1> SUFFICES ASSUME Init PROVE IInv
  OBVIOUS
<1>1. TypeOK
  BY InitTypeOK
<1>2. CacheBacked /\ VideoPublished
  BY DEF Init, StoreInit, CacheBacked, VideoPublished
<1>3. \A d \in Deliveries :
        /\ worker[d].pc = "idle" /\ worker[d].op = "none"
        /\ worker[d].hit = None /\ worker[d].row = NoRow
  BY DEF Init, AtRest
<1>4. PendingInserts /\ Uploaded /\ Shown
  BY <1>3 DEF PendingInserts, Inserting, Uploaded, Updating, Shown, Succeeded
<1>5. ReadsPublished
  BY <1>3 DEF ReadsPublished, NoRow, Updating
<1>6. QED
  BY <1>1, <1>2, <1>4, <1>5 DEF IInv

LEMMA NextIInv == IInv /\ [Next]_vars => IInv'
<1> SUFFICES ASSUME IInv, [Next]_vars PROVE IInv'
  OBVIOUS
<1>1. ASSUME NEW d \in Deliveries, Step(d) \/ Interrupt(d)
      PROVE  IInv'
  <2>1. TypeOK'
    BY NextTypeOK DEF IInv
  <2>2. PendingInserts'
    BY <1>1, StepPendingInserts DEF IInv
  <2>3. CacheBacked' /\ VideoPublished'
    BY <1>1, StepCacheBacked, StepVideoPublished
  <2>4. Uploaded' /\ ReadsPublished' /\ Shown'
    BY <1>1, StepUploaded, StepReadsPublished, StepShown
  <2>5. QED
    BY <2>1, <2>2, <2>3, <2>4 DEF IInv
<1>2. CASE UNCHANGED vars
  BY <1>2 DEF vars, IInv, TypeOK, StoreTypeOK, CacheBacked, VideoPublished, PendingInserts,
     Uploaded, ReadsPublished, Published, Shown
<1>3. QED
  BY <1>1, <1>2, DeliverIInv DEF Next

THEOREM Invariance == Spec => []IInv
BY InitIInv, NextIInv, PTL DEF Spec
-----------------------------------------------------------------------------
(* Whatever overlaps, is retried, interrupted or committed halfway, every  *)
(* row of asset_cache names an uploaded video of its own code.             *)
THEOREM CacheIsBacked == Spec => []CacheBacked
<1>1. IInv => CacheBacked
  BY DEF IInv
<1>2. QED
  BY <1>1, Invariance, PTL

(* A chunk never shows a video outside the asset cache, and a RENDERED     *)
(* chunk always shows one.                                                 *)
THEOREM VideoIsPublished == Spec => []VideoPublished
<1>1. IInv => VideoPublished
  BY DEF IInv
<1>2. QED
  BY <1>1, Invariance, PTL

(* An acknowledged delivery has left its chunk with a video for good.      *)
THEOREM AcknowledgedHasVideo == Spec => []AckedHasVideo
<1>1. IInv => AckedHasVideo
  BY DEF IInv, Shown, Succeeded, AckedHasVideo
<1>2. QED
  BY <1>1, Invariance, PTL

(* No step of any worker replaces or removes a row of asset_cache.         *)
THEOREM CacheIsWriteOnce == Spec => CacheWriteOnce
<1>1. IInv /\ [Next]_vars =>
        [\A h \in Codes : cache[h] # None => cache'[h] = cache[h]]_vars
  BY CacheGrows DEF IInv
<1>2. QED
  BY <1>1, Invariance, PTL DEF Spec, CacheWriteOnce
-----------------------------------------------------------------------------
(* In company.  Other actors write the chunk and job rows between any two  *)
(* statements of a worker.  What the invariant needs of them: they leave   *)
(* the cache, the bucket, the videos and the locks on codes as they are,   *)
(* and make no chunk RENDERED.                                             *)
LEMMA OthersKeepIInv ==
  ASSUME IInv, StoreTypeOK', UNCHANGED <<worker, cache, store>>,
         \A c \in Chunks : chunk'[c].video = chunk[c].video,
         \A c \in Chunks : chunk'[c].status = "RENDERED" => chunk[c].status = "RENDERED",
         \A h \in Codes : h \in locked => h \in locked'
  PROVE  IInv'
<1>1. TypeOK'
  BY DEF IInv, TypeOK
<1>2. CacheBacked'
  BY DEF IInv, CacheBacked
<1>3. VideoPublished'
  BY DEF IInv, VideoPublished
<1>4. PendingInserts'
  <2>1. \A d \in Deliveries : Inserting(worker[d]) => worker[d].code \in Codes
    BY DEF Inserting, IInv, TypeOK, InPlace, Running
  <2>2. QED
    BY <2>1 DEF IInv, PendingInserts, Inserting
<1>5. Uploaded' /\ ReadsPublished'
  BY DEF IInv, Uploaded, ReadsPublished, Updating, Published
<1>6. Shown'
  BY DEF IInv, Shown, Succeeded
<1>7. QED
  BY <1>1, <1>2, <1>3, <1>4, <1>5, <1>6 DEF IInv

(* The updates of a rollup's end, whichever it is.                         *)
LEMMA ParentCloses ==
  ASSUME TypeOK, NEW d \in Deliveries, ReadParent(d) \/ UpdateParent(d) \/ ParentExhausted(d)
  PROVE  UNCHANGED chunk \/ \E newJob : Close(d, newJob)
<1>1. CASE ReadParent(d) \/ UpdateParent(d)
  BY <1>1 DEF ReadParent, UpdateParent
<1>2. CASE ParentExhausted(d)
  <2>1. worker[d].op \in {"recommit", "commit", "fail"}
    BY <1>2 DEF ParentExhausted, TypeOK, InPlace
  <2>2. QED
    BY <1>2, <2>1 DEF ParentExhausted
<1>3. QED
  BY <1>1, <1>2

(* And what they can rely on: a worker puts no chunk into HEALING and      *)
(* takes nothing out of the dead letter queue.                             *)
LEMMA NextHealsNothing ==
  ASSUME TypeOK, [Next]_vars
  PROVE  /\ dlq \subseteq dlq'
         /\ \A c \in Chunks : chunk'[c].status = "HEALING" => chunk[c].status = "HEALING"
<1> DEFINE Rows == \A c \in Chunks : chunk'[c].status = "HEALING" => chunk[c].status = "HEALING"
<1>1. dlq \subseteq dlq'
  BY DEF Next, Step, vars, storeVars, WithDLQ, Deliver, LookUpCache, Recommit, StartRender,
     WorkspaceFails, RenderFails, RenderAndUpload, DuplicateHash, AtomicChunkCommit, MarkFailed,
     Conflict, Refresh, Exhausted, CountChunks, ReadParent, UpdateParent, ParentConflict,
     RefreshParent, ParentExhausted, Interrupt
<1>2. ASSUME NEW d \in Deliveries,
             \/ \E s \in {"RENDERING", "FAILED"} :
                  chunk' = [chunk EXCEPT ![worker[d].chunk] =
                              WithStatus(chunk[worker[d].chunk], s)]
             \/ \E v, a : chunk' = [chunk EXCEPT ![worker[d].chunk] =
                                      AsRendered(chunk[worker[d].chunk], v, a)]
      PROVE  Rows
  <2>1. ASSUME NEW c \in Chunks
        PROVE  /\ \A s : WithStatus(chunk[c], s).status = s
               /\ \A v, a : AsRendered(chunk[c], v, a).status = "RENDERED"
    BY DEF TypeOK, StoreTypeOK, ChunkRow, WithStatus, AsRendered
  <2>2. QED
    BY <1>2, <2>1 DEF TypeOK, StoreTypeOK
<1>3. ASSUME NEW d \in Deliveries, NEW newJob, Close(d, newJob)
      PROVE  Rows
  BY <1>2, <1>3 DEF Close
<1>4. ASSUME NEW d \in Deliveries, Step(d)
      PROVE  Rows
  <2>1. CASE Recommit(d) \/ StartRender(d) \/ AtomicChunkCommit(d)
    <3>1. \/ \E v, a : chunk' = [chunk EXCEPT ![worker[d].chunk] =
                                  AsRendered(chunk[worker[d].chunk], v, a)]
          \/ chunk' = [chunk EXCEPT ![worker[d].chunk] =
                         WithStatus(chunk[worker[d].chunk], "RENDERING")]
      BY <2>1 DEF Recommit, StartRender, AtomicChunkCommit
    <3>2. QED
      BY <1>2, <3>1
  <2>2. CASE ReadParent(d) \/ UpdateParent(d) \/ ParentExhausted(d)
    <3>1. UNCHANGED chunk \/ \E newJob : Close(d, newJob)
      BY <2>2, ParentCloses
    <3>2. QED
      BY <1>3, <3>1
  <2>3. \/ Recommit(d) \/ StartRender(d) \/ AtomicChunkCommit(d)
        \/ ReadParent(d) \/ UpdateParent(d) \/ ParentExhausted(d)
        \/ UNCHANGED chunk
    BY <1>4 DEF Step, storeVars, LookUpCache, WorkspaceFails, RenderFails, RenderAndUpload,
       DuplicateHash, MarkFailed, Conflict, Refresh, Exhausted, CountChunks, ParentConflict,
       RefreshParent
  <2>4. QED
    BY <2>1, <2>2, <2>3
<1>5. QED
  BY <1>1, <1>4 DEF Next, Deliver, Interrupt, vars, storeVars

(* Every write of a row raises its version by one, and a job row that      *)
(* another transaction has locked is left alone, and locked.               *)
LEMMA NextVersions ==
  ASSUME TypeOK, [Next]_vars
  PROVE  /\ \A c \in Chunks : chunk'[c] = chunk[c] \/ chunk'[c].version = chunk[c].version + 1
         /\ \A j \in Jobs : job'[j] # job[j] => j \notin locked /\ job'[j].version = job[j].version + 1
         /\ \A j \in Jobs : j \in locked => j \in locked'
<1> DEFINE ChunkRows == \A c \in Chunks : chunk'[c] = chunk[c] \/ chunk'[c].version = chunk[c].version + 1
           JobRows == \A j \in Jobs :
             job'[j] # job[j] => j \notin locked /\ job'[j].version = job[j].version + 1
<1>1. ASSUME NEW x,
             \/ \E s : chunk' = [chunk EXCEPT ![x] = WithStatus(chunk[x], s)]
             \/ \E v, a : chunk' = [chunk EXCEPT ![x] = AsRendered(chunk[x], v, a)]
      PROVE  ChunkRows
  <2>1. ASSUME NEW c \in Chunks
        PROVE  /\ \A s : WithStatus(chunk[c], s).version = chunk[c].version + 1
               /\ \A v, a : AsRendered(chunk[c], v, a).version = chunk[c].version + 1
    BY DEF TypeOK, StoreTypeOK, ChunkRow, WithStatus, AsRendered
  <2>2. QED
    BY <1>1, <2>1 DEF TypeOK, StoreTypeOK
<1>2. ASSUME NEW x, x \notin locked, NEW s, job' = [job EXCEPT ![x] = WithStatus(job[x], s)]
      PROVE  JobRows
  <2>1. ASSUME NEW j \in Jobs
        PROVE  WithStatus(job[j], s).version = job[j].version + 1
    BY DEF TypeOK, StoreTypeOK, JobRow, WithStatus
  <2>2. QED
    BY <1>2, <2>1 DEF TypeOK, StoreTypeOK
<1>3. ASSUME NEW d \in Deliveries, Step(d)
      PROVE  ChunkRows
  <2>1. CASE Recommit(d) \/ StartRender(d) \/ AtomicChunkCommit(d)
    <3>1. \/ \E v, a : chunk' = [chunk EXCEPT ![worker[d].chunk] =
                                  AsRendered(chunk[worker[d].chunk], v, a)]
          \/ \E s : chunk' = [chunk EXCEPT ![worker[d].chunk] =
                                WithStatus(chunk[worker[d].chunk], s)]
      BY <2>1 DEF Recommit, StartRender, AtomicChunkCommit
    <3>2. QED
      BY <1>1, <3>1
  <2>2. CASE ReadParent(d) \/ UpdateParent(d) \/ ParentExhausted(d)
    <3>1. UNCHANGED chunk \/ \E newJob : Close(d, newJob)
      BY <2>2, ParentCloses
    <3>2. QED
      BY <1>1, <3>1 DEF Close
  <2>3. \/ Recommit(d) \/ StartRender(d) \/ AtomicChunkCommit(d)
        \/ ReadParent(d) \/ UpdateParent(d) \/ ParentExhausted(d)
        \/ UNCHANGED chunk
    BY <1>3 DEF Step, storeVars, LookUpCache, WorkspaceFails, RenderFails, RenderAndUpload,
       DuplicateHash, MarkFailed, Conflict, Refresh, Exhausted, CountChunks, ParentConflict,
       RefreshParent
  <2>4. QED
    BY <2>1, <2>2, <2>3
<1>4. ASSUME NEW d \in Deliveries, Step(d)
      PROVE  JobRows
  <2> DEFINE x == JobOf[worker[d].chunk]
  <2>1. CASE UpdateParent(d)
    <3>1. /\ x \notin locked
          /\ \/ UNCHANGED job
             \/ job' = [job EXCEPT ![x] = WithStatus(job[x], worker[d].target)]
      BY <2>1 DEF UpdateParent, Close
    <3>2. QED
      BY <1>2, <3>1
  <2>2. CASE ParentExhausted(d)
    <3>1. worker[d].op \in {"recommit", "commit", "fail"}
      BY <2>2 DEF ParentExhausted, TypeOK, InPlace
    <3>2. UNCHANGED job
      BY <2>2, <3>1 DEF ParentExhausted, Close
    <3>3. QED
      BY <3>2
  <2>3. UpdateParent(d) \/ ParentExhausted(d) \/ UNCHANGED job
    BY <1>4 DEF Step, storeVars, LookUpCache, Recommit, StartRender, WorkspaceFails,
       RenderFails, RenderAndUpload, DuplicateHash, AtomicChunkCommit, MarkFailed, Conflict,
       Refresh, Exhausted, CountChunks, ReadParent, Close, ParentConflict, RefreshParent
  <2>4. QED
    BY <2>1, <2>2, <2>3
<1>5. ASSUME NEW d \in Deliveries, Step(d) \/ Interrupt(d), NEW j \in Jobs, j \in locked
      PROVE  j \in locked'
  <2>1. j \notin Held(d)
    <3>1. worker[d].pc \in Running => worker[d].chunk \in Chunks /\ worker[d].code \in Codes
      BY DEF TypeOK, InPlace
    <3>2. QED
      BY <3>1, StoreAssumption DEF Held, Running
  <2>2. locked \subseteq locked' \/ locked' = locked \ Held(d)
    <3>1. CASE ReadParent(d) \/ UpdateParent(d) \/ ParentExhausted(d)
      <4>1. ASSUME NEW newJob, Close(d, newJob)
            PROVE  locked' = locked \/ locked' = locked \ Held(d)
        BY <4>1 DEF Close
      <4>2. CASE ReadParent(d)
        BY <4>1, <4>2 DEF ReadParent
      <4>3. CASE UpdateParent(d)
        BY <4>1, <4>3 DEF UpdateParent
      <4>4. CASE ParentExhausted(d)
        <5>1. worker[d].op \in {"recommit", "commit", "fail"}
          BY <4>4 DEF ParentExhausted, TypeOK, InPlace
        <5>2. QED
          BY <4>1, <4>4, <5>1 DEF ParentExhausted
      <4>5. QED
        BY <3>1, <4>2, <4>3, <4>4
    <3>2. CASE ~(ReadParent(d) \/ UpdateParent(d) \/ ParentExhausted(d))
      BY <1>5, <3>2 DEF Step, storeVars, LookUpCache, Recommit, StartRender, WorkspaceFails,
         RenderFails, RenderAndUpload, DuplicateHash, AtomicChunkCommit, MarkFailed, Conflict,
         Refresh, Exhausted, CountChunks, ParentConflict, RefreshParent, Interrupt
    <3>3. QED
      BY <3>1, <3>2
  <2>3. QED
    BY <1>5, <2>1, <2>2
<1>6. QED
  BY <1>3, <1>4, <1>5 DEF Next, Deliver, Interrupt, vars, storeVars

(* What a rollup has counted.  The statuses change while it goes on, but   *)
(* a chunk counted as RENDERED has a video, and keeps it.                  *)
Complete == {"ASSEMBLED", "REVIEW_GATE", "COMPLETED"}

AllShown(j) == \A c \in Chunks : JobOf[c] = j => chunk[c].video # None

RollupBacked(w) ==
  /\ w.pc = "parent" /\ w.seen = {"RENDERED"} => AllShown(JobOf[w.chunk])
  /\ w.pc \in {"rollup", "reread"} /\ w.target \in Complete => AllShown(JobOf[w.chunk])

(* A rollup that moves a job on to a complete status has counted RENDERED  *)
(* chunks only.                                                            *)
LEMMA RollupTargetBacked ==
  ASSUME NEW seen, NEW current, RollupTarget(seen, current) # current,
         RollupTarget(seen, current) \in Complete
  PROVE  seen = {"RENDERED"}
BY DEF RollupTarget, Complete

(* The end of a rollup, for the job rows.                                  *)
LEMMA CloseBacked ==
  ASSUME TypeOK, NEW d \in Deliveries, NEW newJob, Close(d, newJob)
  PROVE  /\ job' \in {job, newJob}
         /\ worker'[d].pc \in Ended
BY EndValue DEF Close, Ended

LEMMA StepBacked ==
  ASSUME TypeOK, VideoPublished, NEW d \in Deliveries, Step(d) \/ Interrupt(d),
         RollupBacked(worker[d])
  PROVE  /\ LET v == worker'[d] j == JobOf[worker[d].chunk] IN
             /\ v.pc = "parent" /\ v.seen = {"RENDERED"} => AllShown(j)
             /\ v.pc \in {"rollup", "reread"} /\ v.target \in Complete => AllShown(j)
         /\ \A j \in Jobs : job'[j].status \in Complete =>
              job[j].status \in Complete \/ AllShown(j)
<1> DEFINE w == worker[d]
           v == worker'[d]
           p == JobOf[w.chunk]
           Local == /\ v.pc = "parent" /\ v.seen = {"RENDERED"} => AllShown(p)
                    /\ v.pc \in {"rollup", "reread"} /\ v.target \in Complete => AllShown(p)
           Rows == \A j \in Jobs : job'[j].status \in Complete =>
                     job[j].status \in Complete \/ AllShown(j)
           Elsewhere == v.pc \notin {"parent", "rollup", "reread"}
<1>w. w \in WorkerState /\ InPlace(w)
  BY DEF TypeOK
<1>1. CASE LookUpCache(d) \/ Recommit(d) \/ StartRender(d) \/ WorkspaceFails(d)
           \/ RenderFails(d) \/ RenderAndUpload(d) \/ DuplicateHash(d)
           \/ AtomicChunkCommit(d) \/ MarkFailed(d) \/ Conflict(d) \/ Refresh(d)
           \/ Exhausted(d) \/ Interrupt(d)
  <2>1. UNCHANGED job
    BY <1>1 DEF storeVars, LookUpCache, Recommit, StartRender, WorkspaceFails, RenderFails,
       RenderAndUpload, DuplicateHash, AtomicChunkCommit, MarkFailed, Conflict, Refresh,
       Exhausted, Interrupt
  <2>2. Elsewhere
    <3>1. CASE StartRender(d)
      <4>1. PICK row \in Returned(d) : Becomes(d, [w EXCEPT !.pc = "render", !.row = row])
        BY <3>1 DEF StartRender
      <4>2. QED
        BY <4>1, <1>w, BecomesValue DEF WorkerState
    <3>2. CASE LookUpCache(d)
      <4>1. CASE BeginAfterRead
        <5>1. v = [w EXCEPT !.pc = "update", !.hit = cache[w.code],
                     !.op = Gate(cache[w.code], w.row),
                     !.expected = w.row.version, !.tries = 0]
          BY <3>2, <4>1, BecomesValue DEF LookUpCache
        <5>2. QED
          BY <5>1, <1>w DEF WorkerState
      <4>2. CASE ~BeginAfterRead
        BY <3>2, <4>2, EndValue DEF LookUpCache
      <4>3. QED
        BY <4>1, <4>2
    <3>3. CASE Recommit(d) \/ AtomicChunkCommit(d) \/ MarkFailed(d) \/ Conflict(d) \/ Refresh(d)
      <4>1. \/ v = [w EXCEPT !.pc = "count"]
            \/ v = [w EXCEPT !.pc = "refresh", !.tries = w.tries + 1]
            \/ v = [w EXCEPT !.pc = "update", !.expected = chunk[w.chunk].version]
        BY <3>3, BecomesValue DEF Recommit, AtomicChunkCommit, MarkFailed, Conflict, Refresh
      <4>2. QED
        BY <4>1, <1>w DEF WorkerState
    <3>4. CASE WorkspaceFails(d) \/ RenderFails(d) \/ RenderAndUpload(d) \/ DuplicateHash(d)
               \/ Exhausted(d) \/ Interrupt(d)
      BY <3>4, EndValue, BeginUpdateValue
         DEF WorkspaceFails, RenderFails, RenderAndUpload, DuplicateHash, Exhausted, Interrupt
    <3>5. QED
      BY <1>1, <3>1, <3>2, <3>3, <3>4
  <2>3. QED
    BY <2>1, <2>2
<1>2. CASE CountChunks(d)
  <2> DEFINE seen == {StatusSeen(d, x) : x \in Siblings(w.chunk)}
  <2>1. v = [w EXCEPT !.pc = "parent", !.seen = seen] /\ UNCHANGED job
    BY <1>2, BecomesValue DEF CountChunks, storeVars
  <2>2. ASSUME seen = {"RENDERED"}, NEW c \in Chunks, JobOf[c] = p
        PROVE  chunk[c].video # None
    <3>1. StatusSeen(d, c) = "RENDERED"
      BY <2>2 DEF Siblings
    <3>2. chunk[c].status = "RENDERED"
      BY <3>1 DEF StatusSeen
    <3>3. QED
      BY <3>2 DEF VideoPublished
  <2>3. v.pc = "parent" /\ v.seen = seen
    BY <2>1, <1>w DEF WorkerState
  <2>4. QED
    BY <2>1, <2>2, <2>3 DEF AllShown
<1>3. CASE ReadParent(d)
  <2> DEFINE target == RollupTarget(w.seen, job[p].status)
  <2>1. CASE target = job[p].status
    <3>1. Close(d, job)
      BY <1>3, <2>1 DEF ReadParent
    <3>2. QED
      BY <3>1, CloseBacked DEF Ended
  <2>2. CASE target # job[p].status
    <3>1. /\ v = [w EXCEPT !.pc = "rollup", !.target = target,
                     !.expected = job[p].version, !.tries = 0]
          /\ w.pc = "parent" /\ UNCHANGED job
      BY <1>3, <2>2, BecomesValue DEF ReadParent
    <3>2. target \in Complete => AllShown(p)
      BY <2>2, <3>1, RollupTargetBacked DEF RollupBacked
    <3> HIDE DEF target
    <3>3. v.pc = "rollup" /\ v.target = target
      BY <3>1, <1>w DEF WorkerState
    <3>4. QED
      BY <3>1, <3>2, <3>3
  <2>3. QED
    BY <2>1, <2>2
<1>4. CASE UpdateParent(d)
  <2> DEFINE newJob == [job EXCEPT ![p] = WithStatus(job[p], w.target)]
  <2>1. Close(d, newJob) /\ w.pc = "rollup"
    BY <1>4 DEF UpdateParent
  <2>2. job' \in {job, newJob} /\ Elsewhere
    BY <2>1, CloseBacked DEF Ended
  <2>3. p \in Jobs /\ job[p] \in JobRow
    BY <2>1, <1>w, StoreAssumption DEF InPlace, Running, TypeOK, StoreTypeOK
  <2>4. \A j \in Jobs : newJob[j] = job[j] \/ (j = p /\ newJob[j].status = w.target)
    BY <2>3 DEF TypeOK, StoreTypeOK, WithStatus, JobRow
  <2>5. QED
    BY <2>1, <2>2, <2>4 DEF RollupBacked
<1>5. CASE ParentConflict(d) \/ RefreshParent(d)
  <2>1. UNCHANGED job /\ w.pc \in {"rollup", "reread"}
    BY <1>5 DEF ParentConflict, RefreshParent, storeVars
  <2>2. \/ v = [w EXCEPT !.pc = "reread", !.tries = w.tries + 1]
        \/ v = [w EXCEPT !.pc = "rollup", !.expected = job[p].version]
    BY <1>5, BecomesValue DEF ParentConflict, RefreshParent
  <2>3. v.pc \in {"rollup", "reread"} /\ v.target = w.target
    BY <2>2, <1>w DEF WorkerState
  <2>4. QED
    BY <2>1, <2>3 DEF RollupBacked
<1>6. CASE ParentExhausted(d)
  <2>1. w.op \in {"recommit", "commit", "fail"}
    BY <1>6, <1>w DEF ParentExhausted, InPlace
  <2>2. job' = job /\ Elsewhere
    <3>1. CASE w.op = "fail"
      <4>1. Close(d, job)
        BY <1>6, <3>1 DEF ParentExhausted
      <4>2. QED
        BY <4>1, CloseBacked DEF Ended
    <3>2. CASE w.op = "commit"
      <4>1. BeginUpdate(d, "fail") /\ UNCHANGED job
        BY <1>6, <3>2 DEF ParentExhausted
      <4>2. QED
        BY <4>1, BeginUpdateValue
    <3>3. CASE w.op = "recommit"
      <4>1. End(d, "raised") /\ UNCHANGED job
        BY <1>6, <3>3 DEF ParentExhausted
      <4>2. QED
        BY <4>1, EndValue
    <3>4. QED
      BY <2>1, <3>1, <3>2, <3>3
  <2>3. QED
    BY <2>2
<1>7. QED
  BY <1>1, <1>2, <1>3, <1>4, <1>5, <1>6 DEF Step

(* A step of the workers keeps what all rollups have counted true.  Other  *)
(* actors' rollups and approvals rest on AllShown, which stays too.        *)
LEMMA ShownStays ==
  ASSUME IInv, [Next]_vars, NEW j, AllShown(j)
  PROVE  \A c \in Chunks : JobOf[c] = j => chunk'[c].video # None
BY VideoStays DEF IInv, AllShown

LEMMA NextBacked ==
  ASSUME IInv, [Next]_vars, \A d \in Deliveries : RollupBacked(worker[d])
  PROVE  /\ \A d \in Deliveries : RollupBacked(worker[d])'
         /\ \A j \in Jobs : job'[j].status \in Complete =>
              job[j].status \in Complete \/ AllShown(j)
<1> DEFINE Rows == \A j \in Jobs : job'[j].status \in Complete =>
                     job[j].status \in Complete \/ AllShown(j)
<1>1. \A j : AllShown(j) => \A c \in Chunks : JobOf[c] = j => chunk'[c].video # None
  BY ShownStays
<1>2. ASSUME NEW e \in Deliveries, worker'[e] = worker[e]
      PROVE  RollupBacked(worker[e])'
  BY <1>1, <1>2 DEF RollupBacked, AllShown
<1>3. ASSUME NEW d \in Deliveries, Step(d) \/ Interrupt(d)
      PROVE  (\A e \in Deliveries : RollupBacked(worker[e])') /\ Rows
  <2>1. worker'[d].chunk = worker[d].chunk
    BY <1>3, StepMoves DEF Moves, IInv
  <2>2. /\ LET v == worker'[d] j == JobOf[worker[d].chunk] IN
             /\ v.pc = "parent" /\ v.seen = {"RENDERED"} => AllShown(j)
             /\ v.pc \in {"rollup", "reread"} /\ v.target \in Complete => AllShown(j)
        /\ Rows
    BY <1>3, StepBacked DEF IInv
  <2>3. RollupBacked(worker[d])'
    BY <1>1, <2>1, <2>2 DEF RollupBacked, AllShown
  <2>4. \A e \in Deliveries : e # d => worker'[e] = worker[e]
    BY <1>3, OthersStay DEF IInv
  <2>5. QED
    BY <1>2, <2>2, <2>3, <2>4
<1>4. ASSUME NEW d \in Deliveries, NEW c \in Chunks, NEW h \in Codes, Deliver(d, c, h)
      PROVE  (\A e \in Deliveries : RollupBacked(worker[e])') /\ Rows
  <2>1. /\ worker'[d] = [AtRest("lookup", c, h) EXCEPT !.row = chunk[c]]
        /\ \A e \in Deliveries : e # d => worker'[e] = worker[e]
        /\ UNCHANGED job
    BY <1>4, BecomesValue DEF Deliver, IInv, storeVars
  <2>2. worker'[d].pc = "lookup"
    BY <2>1 DEF AtRest
  <2>3. QED
    BY <1>2, <2>1, <2>2 DEF RollupBacked
<1>5. CASE UNCHANGED vars
  BY <1>2, <1>5 DEF vars
<1>6. QED
  BY <1>3, <1>4, <1>5 DEF Next
-----------------------------------------------------------------------------
(* One delivery at a time.  While deliveries of a chunk do not overlap and *)
(* each part job has one chunk, as POST /generate creates them, what a     *)
(* delivery has read of its rows is what they still hold.                  *)
Serial ==
  /\ ~Overlap
  /\ \A c, x \in Chunks : JobOf[c] = JobOf[x] => c = x

Exclusive ==
  \A d, e \in Deliveries :
    Live(d) /\ Live(e) /\ worker[d].chunk = worker[e].chunk => d = e

(* The statements between which the chunk is RENDERING by the delivery's   *)
(* own doing.                                                              *)
OwnsRendering(w) ==
  \/ w.pc = "render"
  \/ w.pc = "update" /\ w.op = "commit"
  \/ w.pc \in {"update", "count", "parent", "rollup"} /\ w.op = "fail"

UpToDate(d) ==
  LET w == worker[d] row == chunk[w.chunk] IN
  /\ w.pc \notin {"refresh", "reread"}
  /\ w.pc = "lookup" => w.row = row
  /\ w.pc = "update" => w.tries = 0 /\ w.expected = row.version
  /\ w.pc = "update" /\ w.op = "start" => row.status # "RENDERED"
  /\ w.pc = "render" \/ (w.pc = "update" /\ w.op = "commit") => w.row.version = row.version
  /\ OwnsRendering(w) => row.status = "RENDERING"
  /\ w.pc = "rollup" => w.tries = 0 /\ w.expected = job[JobOf[w.chunk]].version

SerialInv ==
  /\ IInv
  /\ Exclusive
  /\ \A d \in Deliveries : UpToDate(d)
  /\ NoContention

(* No statement of an up-to-date delivery meets a conflict.                *)
LEMMA NoConflicts ==
  ASSUME IInv, NEW d \in Deliveries, UpToDate(d)
  PROVE  /\ ~Conflict(d) /\ ~Refresh(d) /\ ~Exhausted(d)
         /\ ~ParentConflict(d) /\ ~RefreshParent(d) /\ ~ParentExhausted(d)
BY DEF UpToDate, Conflict, Refresh, Exhausted, ParentConflict, RefreshParent,
       ParentExhausted, Conflicts

(* What a step of such a delivery does: it writes its own chunk and its    *)
(* own job, and its locals stay up to date.                                *)
SerialEffect(d) ==
  /\ Live(d) /\ worker'[d].chunk = worker[d].chunk
  /\ \A e \in Deliveries : e # d => worker'[e] = worker[e]
  /\ \A c \in Chunks : c # worker[d].chunk => chunk'[c] = chunk[c]
  /\ \A j \in Jobs : j # JobOf[worker[d].chunk] => job'[j] = job[j]
  /\ dlq' = dlq
  /\ UpToDate(d)'

LEMMA EndSerial ==
  ASSUME IInv, NEW d \in Deliveries, NEW how \in Ended, Live(d), End(d, how),
         \A c \in Chunks : c # worker[d].chunk => chunk'[c] = chunk[c],
         \A j \in Jobs : j # JobOf[worker[d].chunk] => job'[j] = job[j],
         dlq' = dlq
  PROVE  SerialEffect(d)
<1>1. /\ worker'[d].pc = how /\ worker'[d].op = "none" /\ worker'[d].chunk = worker[d].chunk
      /\ \A e \in Deliveries : e # d => worker'[e] = worker[e]
  BY EndValue DEF IInv
<1>2. UpToDate(d)'
  BY <1>1 DEF UpToDate, OwnsRendering, Ended
<1>3. QED
  BY <1>1, <1>2 DEF SerialEffect

LEMMA CloseSerial ==
  ASSUME IInv, NEW d \in Deliveries, Live(d), NEW newJob, Close(d, newJob), dlq' = dlq,
         \A j \in Jobs : j # JobOf[worker[d].chunk] => newJob[j] = job[j]
  PROVE  SerialEffect(d)
<1>1. CASE worker[d].op = "fail"
  BY <1>1, EndSerial DEF Close, Ended, IInv, TypeOK, StoreTypeOK
<1>2. CASE worker[d].op # "fail"
  BY <1>2, EndSerial DEF Close, Ended
<1>3. QED
  BY <1>1, <1>2

LEMMA StepSerial ==
  ASSUME IInv, NEW d \in Deliveries, UpToDate(d), Step(d) \/ Interrupt(d)
  PROVE  SerialEffect(d)
<1> DEFINE w == worker[d]
           v == worker'[d]
           c == w.chunk
<1>w. w \in WorkerState /\ InPlace(w) /\ TypeOK
  BY DEF IInv, TypeOK
<1>o. \A e \in Deliveries : e # d => worker'[e] = worker[e]
  BY <1>w, OthersStay
<1>u. /\ w.pc \in Running => c \in Chunks /\ chunk[c] \in ChunkRow /\ JobOf[c] \in Jobs
      /\ chunk \in [Chunks -> ChunkRow] /\ job \in [Jobs -> JobRow]
  BY <1>w, StoreAssumption DEF InPlace, TypeOK, StoreTypeOK
<1>q. ASSUME UNCHANGED <<chunk, job, dlq>>, Live(d), v.chunk = c, UpToDate(d)'
      PROVE  SerialEffect(d)
  BY <1>q, <1>o DEF SerialEffect
<1>1. CASE LookUpCache(d)
  <2>1. CASE BeginAfterRead
    <3>1. v = [w EXCEPT !.pc = "update", !.hit = cache[w.code],
                 !.op = Gate(cache[w.code], w.row),
                 !.expected = w.row.version, !.tries = 0]
      BY <1>1, <2>1, <1>w, BecomesValue DEF LookUpCache
    <3>2. /\ v.pc = "update" /\ v.op = Gate(cache[w.code], w.row) /\ v.chunk = c
          /\ v.expected = w.row.version /\ v.tries = 0
      BY <3>1, <1>w DEF WorkerState
    <3>3. UNCHANGED <<chunk, job, dlq>> /\ Live(d) /\ w.row = chunk[c]
      BY <1>1 DEF LookUpCache, storeVars, Live, Running, UpToDate
    <3>4. v.op \in {"recommit", "start"} /\ (v.op = "start" => w.row.status # "RENDERED")
      BY <3>2 DEF Gate
    <3>5. UpToDate(d)'
      BY <3>2, <3>3, <3>4 DEF UpToDate, OwnsRendering
    <3>6. QED
      BY <1>q, <3>2, <3>3, <3>5
  <2>2. CASE ~BeginAfterRead
    BY <1>1, <2>2, EndSerial DEF LookUpCache, Ended, storeVars, Live, Running
  <2>3. QED
    BY <2>1, <2>2
<1>2. CASE Recommit(d) \/ AtomicChunkCommit(d)
  <2>1. /\ v = [w EXCEPT !.pc = "count"] /\ w.op \in {"recommit", "commit"} /\ Live(d)
        /\ c \in Chunks /\ UNCHANGED <<job, dlq>>
    BY <1>2, <1>w, <1>u, BecomesValue DEF Recommit, AtomicChunkCommit, Matched, Live, Running
  <2>2. v.pc = "count" /\ v.op = w.op /\ v.chunk = c
    BY <2>1, <1>w DEF WorkerState
  <2>3. \A x \in Chunks : x # c => chunk'[x] = chunk[x]
    BY <1>2, <1>u DEF Recommit, AtomicChunkCommit
  <2>4. UpToDate(d)'
    BY <2>1, <2>2 DEF UpToDate, OwnsRendering
  <2>5. QED
    BY <1>o, <2>1, <2>2, <2>3, <2>4 DEF SerialEffect
<1>3. CASE StartRender(d)
  <2> DEFINE row == WithStatus(chunk[c], "RENDERING")
  <2>1. w.pc = "update" /\ w.tries = 0 /\ c \in Chunks /\ Live(d)
    BY <1>3, <1>u DEF StartRender, Matched, UpToDate, Live, Running
  <2>2. Returned(d) = {row}
    BY <2>1 DEF Returned
  <2>3. v = [w EXCEPT !.pc = "render", !.row = row]
    BY <1>3, <2>2, <1>w, BecomesValue DEF StartRender
  <2>4. v.pc = "render" /\ v.row = row /\ v.chunk = c
    BY <2>3, <1>w DEF WorkerState
  <2>5. chunk' = [chunk EXCEPT ![c] = row] /\ UNCHANGED <<job, dlq>>
    BY <1>3 DEF StartRender
  <2>6. chunk'[c] = row /\ row.status = "RENDERING"
    BY <2>1, <2>5, <1>u DEF WithStatus, ChunkRow
  <2>7. UpToDate(d)'
    BY <2>4, <2>6 DEF UpToDate, OwnsRendering
  <2>8. QED
    BY <1>o, <1>u, <2>1, <2>4, <2>5, <2>7 DEF SerialEffect
<1>4. CASE WorkspaceFails(d)
  BY <1>4, EndSerial DEF WorkspaceFails, Ended, storeVars, Live, Running
<1>5. CASE RenderFails(d) \/ RenderAndUpload(d) \/ DuplicateHash(d)
  <2>1. PICK op \in {"fail", "commit"} : BeginUpdate(d, op)
    BY <1>5 DEF RenderFails, RenderAndUpload, DuplicateHash
  <2>2. /\ v.pc = "update" /\ v.op = op /\ v.tries = 0 /\ v.chunk = c /\ v.row = w.row
        /\ v.expected = w.row.version
    <3>1. v = [w EXCEPT !.pc = "update", !.op = op, !.expected = w.row.version, !.tries = 0]
      BY <2>1, <1>w, BecomesValue DEF BeginUpdate
    <3>2. QED
      BY <3>1, <1>w DEF WorkerState
  <2>3. UNCHANGED <<chunk, job, dlq>> /\ Live(d)
    BY <1>5 DEF RenderFails, RenderAndUpload, DuplicateHash, storeVars, Live, Running
  <2>4. w.row.version = chunk[c].version /\ chunk[c].status = "RENDERING"
    BY <1>5 DEF RenderFails, RenderAndUpload, DuplicateHash, UpToDate, OwnsRendering
  <2>5. UpToDate(d)'
    BY <2>2, <2>3, <2>4 DEF UpToDate, OwnsRendering
  <2>6. QED
    BY <1>q, <2>2, <2>3, <2>5
<1>6. CASE MarkFailed(d)
  <2>1. v = [w EXCEPT !.pc = "count"] /\ UNCHANGED <<chunk, job, dlq>> /\ Live(d)
    BY <1>6, <1>w, BecomesValue DEF MarkFailed, Matched, Live, Running
  <2>2. v.pc = "count" /\ v.op = w.op /\ v.chunk = c
    BY <2>1, <1>w DEF WorkerState
  <2>3. chunk[c].status = "RENDERING"
    BY <1>6 DEF MarkFailed, Matched, UpToDate, OwnsRendering
  <2>4. UpToDate(d)'
    BY <2>1, <2>2, <2>3 DEF UpToDate, OwnsRendering
  <2>5. QED
    BY <1>q, <2>1, <2>2, <2>4
<1>7. CASE CountChunks(d)
  <2> DEFINE seen == {StatusSeen(d, x) : x \in Siblings(c)}
  <2>1. v = [w EXCEPT !.pc = "parent", !.seen = seen] /\ UNCHANGED <<chunk, job, dlq>> /\ Live(d)
    BY <1>7, <1>w, BecomesValue DEF CountChunks, storeVars, Live, Running
  <2> HIDE DEF seen
  <2>2. v.pc = "parent" /\ v.op = w.op /\ v.chunk = c
    BY <2>1, <1>w DEF WorkerState
  <2>3. w.op = "fail" => chunk[c].status = "RENDERING"
    BY <1>7 DEF CountChunks, UpToDate, OwnsRendering
  <2>4. UpToDate(d)'
    BY <2>1, <2>2, <2>3 DEF UpToDate, OwnsRendering
  <2>5. QED
    BY <1>q, <2>1, <2>2, <2>4
<1>8. CASE ReadParent(d)
  <2> DEFINE j == JobOf[c]
             target == RollupTarget(w.seen, job[j].status)
  <2>1. Live(d) /\ w.pc = "parent" /\ UNCHANGED dlq
    BY <1>8 DEF ReadParent, Live, Running
  <2>2. CASE target = job[j].status
    <3>1. Close(d, job)
      BY <1>8, <2>2 DEF ReadParent
    <3>2. QED
      BY <2>1, <3>1, CloseSerial
  <2>3. CASE target # job[j].status
    <3>1. /\ v = [w EXCEPT !.pc = "rollup", !.target = target,
                    !.expected = job[j].version, !.tries = 0]
          /\ UNCHANGED <<chunk, job>>
      BY <1>8, <2>3, <1>w, BecomesValue DEF ReadParent
    <3> HIDE DEF target
    <3>2. /\ v.pc = "rollup" /\ v.op = w.op /\ v.chunk = c
          /\ v.tries = 0 /\ v.expected = job[j].version
      BY <3>1, <1>w DEF WorkerState
    <3>3. w.op = "fail" => chunk[c].status = "RENDERING"
      BY <2>1 DEF UpToDate, OwnsRendering
    <3>4. UpToDate(d)'
      BY <3>1, <3>2, <3>3 DEF UpToDate, OwnsRendering
    <3>5. QED
      BY <1>q, <2>1, <3>1, <3>2, <3>4
  <2>4. QED
    BY <2>2, <2>3
<1>9. CASE UpdateParent(d)
  <2> DEFINE newJob == [job EXCEPT ![JobOf[c]] = WithStatus(@, w.target)]
  <2>1. Live(d) /\ Close(d, newJob) /\ UNCHANGED dlq
    BY <1>9 DEF UpdateParent, Live, Running
  <2>2. \A j \in Jobs : j # JobOf[c] => newJob[j] = job[j]
    BY <1>u
  <2> HIDE DEF newJob
  <2>3. QED
    BY <2>1, <2>2, CloseSerial
<1>10. CASE Interrupt(d)
  BY <1>10, EndSerial DEF Interrupt, Ended
<1>11. QED
  BY <1>1, <1>2, <1>3, <1>4, <1>5, <1>6, <1>7, <1>8, <1>9, <1>10, NoConflicts DEF Step

(* The other deliveries at work are on other chunks, and so of other jobs. *)
LEMMA SerialEffectKeeps ==
  ASSUME Serial, SerialInv, IInv', NEW d \in Deliveries, SerialEffect(d)
  PROVE  SerialInv'
<1>1. /\ \A e \in Deliveries : worker'[e].chunk = worker[e].chunk
      /\ \A e \in Deliveries : worker'[e].pc \in Running => worker[e].pc \in Running
  BY DEF SerialEffect, Live
<1>2. Exclusive'
  BY <1>1 DEF SerialInv, Exclusive, Live
<1>3. ASSUME NEW e \in Deliveries, e # d
      PROVE  UpToDate(e)'
  <2>1. worker'[e] = worker[e] /\ UpToDate(e)
    BY <1>3 DEF SerialEffect, SerialInv
  <2>2. CASE worker[e].pc \in Running
    <3>1. worker[e].chunk # worker[d].chunk
      BY <1>3, <2>2 DEF SerialInv, Exclusive, SerialEffect, Live
    <3>2. worker[e].chunk \in Chunks /\ worker[d].chunk \in Chunks
      BY <2>2 DEF SerialInv, IInv, TypeOK, InPlace, SerialEffect, Live
    <3>3. JobOf[worker[e].chunk] # JobOf[worker[d].chunk] /\ JobOf[worker[e].chunk] \in Jobs
      BY <3>1, <3>2, StoreAssumption DEF Serial
    <3>4. /\ chunk'[worker[e].chunk] = chunk[worker[e].chunk]
          /\ job'[JobOf[worker[e].chunk]] = job[JobOf[worker[e].chunk]]
      BY <3>1, <3>2, <3>3 DEF SerialEffect
    <3>5. QED
      BY <2>1, <3>4 DEF UpToDate
  <2>3. CASE worker[e].pc \notin Running
    BY <2>1, <2>3 DEF UpToDate, OwnsRendering, Running
  <2>4. QED
    BY <2>2, <2>3
<1>4. NoContention'
  BY DEF SerialInv, SerialEffect, NoContention
<1>5. QED
  BY <1>2, <1>3, <1>4 DEF SerialInv, SerialEffect

LEMMA DeliverSerial ==
  ASSUME Serial, SerialInv, NEW d \in Deliveries, NEW c \in Chunks, NEW h \in Codes,
         Deliver(d, c, h)
  PROVE  SerialInv'
<1> DEFINE v == [AtRest("lookup", c, h) EXCEPT !.row = chunk[c]]
<1>1. IInv'
  BY DeliverIInv DEF SerialInv
<1>2. v.pc = "lookup" /\ v.op = "none" /\ v.chunk = c /\ v.row = chunk[c]
  BY DEF AtRest
<1>3. worker'[d] = v /\ \A e \in Deliveries : e # d => worker'[e] = worker[e]
  BY BecomesValue DEF Deliver, SerialInv, IInv
<1> HIDE DEF v
<1>4. UNCHANGED <<chunk, job, dlq>>
  BY DEF Deliver, storeVars
<1>5. \A e \in Deliveries : Live(e) => worker[e].chunk # c
  BY DEF Deliver, Serial
<1>6. Exclusive'
  BY <1>2, <1>3, <1>5 DEF SerialInv, Exclusive, Live
<1>7. UpToDate(d)'
  BY <1>2, <1>3, <1>4 DEF UpToDate, OwnsRendering
<1>8. \A e \in Deliveries : e # d => UpToDate(e)'
  BY <1>3, <1>4 DEF SerialInv, UpToDate
<1>9. NoContention'
  BY <1>4 DEF SerialInv, NoContention
<1>10. QED
  BY <1>1, <1>6, <1>7, <1>8, <1>9 DEF SerialInv

LEMMA InitSerial == Init => SerialInv
<1> SUFFICES ASSUME Init PROVE SerialInv
  OBVIOUS
<1>1. \A d \in Deliveries : worker[d].pc = "idle" /\ worker[d].op = "none"
  BY DEF Init, AtRest
<1>2. Exclusive /\ \A d \in Deliveries : UpToDate(d)
  BY <1>1 DEF Exclusive, Live, Running, UpToDate, OwnsRendering
<1>3. NoContention
  BY DEF Init, StoreInit, NoContention
<1>4. QED
  BY <1>2, <1>3, InitIInv DEF SerialInv

LEMMA NextSerial == Serial /\ SerialInv /\ [Next]_vars => SerialInv'
<1> SUFFICES ASSUME Serial, SerialInv, [Next]_vars PROVE SerialInv'
  OBVIOUS
<1>1. IInv'
  BY NextIInv DEF SerialInv
<1>2. ASSUME NEW d \in Deliveries, Step(d) \/ Interrupt(d)
      PROVE  SerialInv'
  <2>1. SerialEffect(d)
    BY <1>2, StepSerial DEF SerialInv
  <2>2. QED
    BY <1>1, <2>1, SerialEffectKeeps
<1>3. CASE UNCHANGED vars
  BY <1>1, <1>3 DEF vars, SerialInv, Exclusive, Live, UpToDate, NoContention
<1>4. QED
  BY <1>2, <1>3, DeliverSerial DEF Next

(* While deliveries of a chunk do not overlap and no two chunks share a    *)
(* part job, no optimistic_update of a render worker ever matches no row:  *)
(* nothing is sent to the DLQ for lock contention.                         *)
THEOREM SerialHasNoContention == Serial => (Spec => []NoContention)
<1> SUFFICES ASSUME Serial PROVE Spec => []NoContention
  OBVIOUS
<1>1. Init => SerialInv
  BY InitSerial
<1>2. SerialInv /\ [Next]_vars => SerialInv'
  BY NextSerial
<1>3. SerialInv => NoContention
  BY DEF SerialInv
<1>4. QED
  BY <1>1, <1>2, <1>3, PTL DEF Spec
-----------------------------------------------------------------------------
(* The refinement of ChunkLifecycle.  Each write of a chunk row is one of  *)
(* its actions, and everything else is a stutter.                          *)

(* The abstract chunk after a write of its status and video.               *)
LEMMA MappedVideo ==
  ASSUME TypeOK, NEW c \in Chunks, NEW v, NEW a,
         chunk' = [chunk EXCEPT ![c] = AsRendered(chunk[c], v, a)]
  PROVE  /\ [x \in Chunks |-> chunk'[x].status] =
              [[x \in Chunks |-> chunk[x].status] EXCEPT ![c] = "RENDERED"]
         /\ [x \in Chunks |-> chunk'[x].video] =
              [[x \in Chunks |-> chunk[x].video] EXCEPT ![c] = v]
<1>1. /\ AsRendered(chunk[c], v, a).status = "RENDERED"
      /\ AsRendered(chunk[c], v, a).video = v
  BY DEF AsRendered
<1>2. QED
  BY <1>1 DEF TypeOK, StoreTypeOK

(* ... and after the write of its status alone.                            *)
LEMMA MappedStatus ==
  ASSUME TypeOK, NEW c \in Chunks, NEW s,
         chunk' = [chunk EXCEPT ![c] = WithStatus(chunk[c], s)]
  PROVE  /\ [x \in Chunks |-> chunk'[x].status] =
              [[x \in Chunks |-> chunk[x].status] EXCEPT ![c] = s]
         /\ [x \in Chunks |-> chunk'[x].video] = [x \in Chunks |-> chunk[x].video]
<1>1. /\ WithStatus(chunk[c], s).status = s
      /\ WithStatus(chunk[c], s).video = chunk[c].video
  BY DEF WithStatus, TypeOK, StoreTypeOK, ChunkRow
<1>2. \A x \in Chunks : chunk'[x].video = chunk[x].video
  BY <1>1 DEF TypeOK, StoreTypeOK
<1>3. [x \in Chunks |-> chunk'[x].status] =
        [[x \in Chunks |-> chunk[x].status] EXCEPT ![c] = s]
  BY <1>1 DEF TypeOK, StoreTypeOK
<1>4. QED
  BY <1>2, <1>3

LEMMA StepRefines ==
  ASSUME IInv, NEW d \in Deliveries, UpToDate(d), Step(d) \/ Interrupt(d)
  PROVE  [Lifecycle!Next]_(Lifecycle!lcVars)
<1> DEFINE w == worker[d]
<1>w. w \in WorkerState /\ InPlace(w) /\ TypeOK
  BY DEF IInv, TypeOK
<1>u. w.chunk \in Chunks /\ w.code \in Codes
  BY <1>w DEF InPlace, Running, Interrupt, Live, Step, LookUpCache, Recommit, StartRender,
     WorkspaceFails, RenderFails, RenderAndUpload, DuplicateHash, AtomicChunkCommit, MarkFailed,
     Conflict, Refresh, Exhausted, CountChunks, ReadParent, UpdateParent, ParentConflict,
     RefreshParent, ParentExhausted, Matched
<1>c. PICK c \in Chunks : c = w.chunk
  BY <1>u
<1>h. PICK h \in Codes : h = w.code
  BY <1>u
<1>1. CASE Recommit(d)
  <2> DEFINE video == IF w.hit # None THEN w.hit ELSE w.row.video
             a == IF w.row.audio # None THEN w.row.audio ELSE DefaultAudioKey(c)
  <2>1. /\ video # None /\ Published(video)
        /\ chunk' = [chunk EXCEPT ![c] = AsRendered(chunk[c], video, a)]
        /\ UNCHANGED cache
    BY <1>1, <1>c DEF Recommit, Matched, IInv, ReadsPublished, Updating
  <2>2. PICK x \in Codes : cache[x] = video
    BY <2>1 DEF Published
  <2> HIDE DEF video, a
  <2>3. /\ [y \in Chunks |-> chunk'[y].status] =
             [[y \in Chunks |-> chunk[y].status] EXCEPT ![c] = "RENDERED"]
        /\ [y \in Chunks |-> chunk'[y].video] =
             [[y \in Chunks |-> chunk[y].video] EXCEPT ![c] = video]
    BY <1>w, <2>1, MappedVideo
  <2>4. Lifecycle!Reuse(c, x)
    BY <2>1, <2>2, <2>3 DEF Lifecycle!Reuse
  <2>5. QED
    BY <2>4 DEF Lifecycle!Next
<1>2. CASE StartRender(d)
  <2>1. /\ chunk[c].status # "RENDERED" /\ UNCHANGED cache
        /\ chunk' = [chunk EXCEPT ![c] = WithStatus(chunk[c], "RENDERING")]
    BY <1>2, <1>c DEF StartRender, Matched, UpToDate
  <2>2. Lifecycle!Start(c)
    BY <1>w, <2>1, MappedStatus DEF Lifecycle!Start
  <2>3. QED
    BY <2>2 DEF Lifecycle!Next
<1>3. CASE AtomicChunkCommit(d)
  <2>1. PICK v \in VideoKeys : v = VideoKey(c, h)
    BY DEF VideoKeys
  <2> DEFINE a == AudioKey(c, h)
  <2>2. /\ chunk[c].status = "RENDERING" /\ cache[h] = None
        /\ chunk' = [chunk EXCEPT ![c] = AsRendered(chunk[c], v, a)]
        /\ cache' = [cache EXCEPT ![h] = v]
    BY <1>3, <1>c, <1>h, <2>1
       DEF AtomicChunkCommit, Matched, Inserted, UpToDate, OwnsRendering
  <2> HIDE DEF a
  <2>3. /\ [y \in Chunks |-> chunk'[y].status] =
             [[y \in Chunks |-> chunk[y].status] EXCEPT ![c] = "RENDERED"]
        /\ [y \in Chunks |-> chunk'[y].video] =
             [[y \in Chunks |-> chunk[y].video] EXCEPT ![c] = v]
    BY <1>w, <2>2, MappedVideo
  <2>4. Lifecycle!Publish(c, h, v)
    BY <2>2, <2>3 DEF Lifecycle!Publish
  <2>5. QED
    BY <2>4 DEF Lifecycle!Next
<1>4. ASSUME NEW newJob, Close(d, newJob), w.pc \in {"parent", "rollup"}, UNCHANGED cache
      PROVE  [Lifecycle!Next]_(Lifecycle!lcVars)
  <2>1. CASE w.op = "fail"
    <3>1. /\ chunk[c].status = "RENDERING"
          /\ chunk' = [chunk EXCEPT ![c] = WithStatus(chunk[c], "FAILED")]
      BY <1>4, <1>c, <2>1 DEF Close, UpToDate, OwnsRendering
    <3>2. Lifecycle!Fail(c)
      BY <1>w, <1>4, <3>1, MappedStatus DEF Lifecycle!Fail
    <3>3. QED
      BY <3>2 DEF Lifecycle!Next
  <2>2. CASE w.op # "fail"
    BY <1>4, <2>2 DEF Close, Lifecycle!lcVars
  <2>3. QED
    BY <2>1, <2>2
<1>5. CASE ReadParent(d) \/ UpdateParent(d)
  <2>1. CASE UNCHANGED <<chunk, cache>>
    BY <2>1 DEF Lifecycle!lcVars
  <2>2. CASE ~UNCHANGED <<chunk, cache>>
    <3>1. /\ w.pc \in {"parent", "rollup"} /\ UNCHANGED cache
          /\ \E newJob : Close(d, newJob)
      BY <1>5, <2>2 DEF ReadParent, UpdateParent
    <3>2. QED
      BY <1>4, <3>1
  <2>3. QED
    BY <2>1, <2>2
<1>6. CASE \/ LookUpCache(d) \/ WorkspaceFails(d) \/ RenderFails(d) \/ RenderAndUpload(d)
           \/ DuplicateHash(d) \/ MarkFailed(d) \/ CountChunks(d) \/ Interrupt(d)
  <2>1. UNCHANGED <<chunk, cache>>
    BY <1>6 DEF LookUpCache, WorkspaceFails, RenderFails, RenderAndUpload, DuplicateHash,
       MarkFailed, CountChunks, Interrupt, storeVars
  <2>2. QED
    BY <2>1 DEF Lifecycle!lcVars
<1>7. QED
  BY <1>1, <1>2, <1>3, <1>5, <1>6, NoConflicts DEF Step

LEMMA NextRefines == SerialInv /\ [Next]_vars => [Lifecycle!Next]_(Lifecycle!lcVars)
<1> SUFFICES ASSUME SerialInv, [Next]_vars PROVE [Lifecycle!Next]_(Lifecycle!lcVars)
  OBVIOUS
<1>1. ASSUME NEW d \in Deliveries, Step(d) \/ Interrupt(d)
      PROVE  [Lifecycle!Next]_(Lifecycle!lcVars)
  BY <1>1, StepRefines DEF SerialInv
<1>2. ASSUME UNCHANGED <<chunk, cache>>
      PROVE  [Lifecycle!Next]_(Lifecycle!lcVars)
  BY <1>2 DEF Lifecycle!lcVars
<1>3. QED
  BY <1>1, <1>2 DEF Next, Deliver, storeVars, vars

(* The render workers with their rows, locks, retries and crashes do what  *)
(* ChunkLifecycle says of a chunk, as long as deliveries of a chunk do not *)
(* overlap: the Transaction Rule of atomic_chunk_commit, no asset rendered *)
(* twice, and RENDERED for good.                                           *)
THEOREM SerialImplementsLifecycle == Serial => (Spec => ImplementsLifecycle)
<1> SUFFICES ASSUME Serial PROVE Spec => ImplementsLifecycle
  OBVIOUS
<1>1. Init => SerialInv
  BY InitSerial
<1>2. SerialInv /\ [Next]_vars => SerialInv'
  BY NextSerial
<1>3. Init => Lifecycle!Init
  BY DEF Init, StoreInit, Lifecycle!Init
<1>4. SerialInv /\ [Next]_vars => [Lifecycle!Next]_(Lifecycle!lcVars)
  BY NextRefines
<1>5. QED
  BY <1>1, <1>2, <1>3, <1>4, PTL DEF Spec, ImplementsLifecycle, Lifecycle!Spec

(* What the abstract specification says of a chunk's status: it leaves     *)
(* RENDERED by none of its actions.                                        *)
LEMMA AbstractFinal ==
  ASSUME TypeOK, [Lifecycle!Next]_(Lifecycle!lcVars), NEW c \in Chunks,
         chunk[c].status = "RENDERED"
  PROVE  chunk'[c].status = "RENDERED"
<1> DEFINE was == [x \in Chunks |-> chunk[x].status]
           is  == [x \in Chunks |-> chunk'[x].status]
<1>1. was[c] = "RENDERED" /\ was = [x \in Chunks |-> was[x]]
  OBVIOUS
<1>2. ASSUME NEW x \in Chunks, NEW s, is = [was EXCEPT ![x] = s],
             was[x] # "RENDERED" \/ s = "RENDERED"
      PROVE  is[c] = "RENDERED"
  BY <1>1, <1>2
<1>3. ASSUME NEW x \in Chunks, Lifecycle!Start(x) \/ Lifecycle!Fail(x)
      PROVE  is[c] = "RENDERED"
  BY <1>1, <1>3 DEF Lifecycle!Start, Lifecycle!Fail
<1>4. ASSUME NEW x \in Chunks, NEW h \in Codes, Lifecycle!Reuse(x, h)
      PROVE  is[c] = "RENDERED"
  BY <1>1, <1>4 DEF Lifecycle!Reuse
<1>5. ASSUME NEW x \in Chunks, NEW h \in Codes, NEW v \in VideoKeys, Lifecycle!Publish(x, h, v)
      PROVE  is[c] = "RENDERED"
  BY <1>1, <1>5 DEF Lifecycle!Publish
<1>6. CASE UNCHANGED Lifecycle!lcVars
  BY <1>1, <1>6 DEF Lifecycle!lcVars
<1>7. is[c] = "RENDERED"
  BY <1>3, <1>4, <1>5, <1>6 DEF Lifecycle!Next
<1>8. QED
  BY <1>7

(* A cache row is written by atomic_chunk_commit alone.                    *)
LEMMA SerialInsert ==
  ASSUME SerialInv, [Next]_vars, NEW h \in Codes, cache[h] = None, cache'[h] # None
  PROVE  chunk'[cache'[h].chunk].status = "RENDERED"
<1>1. PICK d \in Deliveries : (Step(d) \/ Interrupt(d)) /\ Inserts(d)
  BY CacheEffect DEF Next, Deliver, storeVars, vars
<1>2. AtomicChunkCommit(d)
  <2>1. CASE AtomicChunkCommit(d)
    BY <2>1
  <2>2. CASE ~AtomicChunkCommit(d)
    <3>1. ~Exhausted(d)
      BY NoConflicts DEF SerialInv
    <3>2. UNCHANGED cache
      BY <1>1, <2>2, <3>1 DEF Step, Interrupt, storeVars, LookUpCache, Recommit, StartRender,
         WorkspaceFails, RenderFails, RenderAndUpload, DuplicateHash, MarkFailed, Conflict,
         Refresh, CountChunks, ReadParent, UpdateParent, ParentConflict, RefreshParent,
         ParentExhausted
    <3>3. QED
      BY <3>2
  <2>3. QED
    BY <2>1, <2>2
<1>3. worker[d].chunk \in Chunks /\ worker[d].code \in Codes
  BY <1>1 DEF Inserts, SerialInv, IInv, TypeOK, InPlace, Running
<1>4. h = worker[d].code /\ cache'[h] = VideoKey(worker[d].chunk, worker[d].code)
  BY <1>1, <1>3 DEF Inserts, SerialInv, IInv, TypeOK, StoreTypeOK
<1>5. cache'[h].chunk = worker[d].chunk
  BY <1>4 DEF VideoKey
<1>6. chunk'[worker[d].chunk].status = "RENDERED"
  BY <1>2, <1>3 DEF AtomicChunkCommit, AsRendered, SerialInv, IInv, TypeOK, StoreTypeOK
<1>7. QED
  BY <1>5, <1>6

(* A RENDERED chunk is never taken back while deliveries of it do not      *)
(* overlap: Plan.md's no-op redelivery needs no more than that.            *)
THEOREM SerialRenderedIsFinal == Serial => (Spec => RenderedIsFinal)
<1> SUFFICES ASSUME Serial PROVE Spec => RenderedIsFinal
  OBVIOUS
<1>1. Init => SerialInv
  BY InitSerial
<1>2. SerialInv /\ [Next]_vars => SerialInv'
  BY NextSerial
<1>3. SerialInv /\ [Next]_vars =>
        [\A c \in Chunks : chunk[c].status = "RENDERED" => chunk'[c].status = "RENDERED"]_vars
  BY NextRefines, AbstractFinal DEF SerialInv, IInv
<1>4. QED
  BY <1>1, <1>2, <1>3, PTL DEF Spec, RenderedIsFinal

(* The Transaction Rule of atomic_chunk_commit's docstring, under the same *)
(* condition: no cache row without RENDERED on its chunk in the same step. *)
THEOREM SerialTransactionRule == Serial => (Spec => TransactionRule)
<1> SUFFICES ASSUME Serial PROVE Spec => TransactionRule
  OBVIOUS
<1>1. Init => SerialInv
  BY InitSerial
<1>2. SerialInv /\ [Next]_vars => SerialInv'
  BY NextSerial
<1>3. SerialInv /\ [Next]_vars =>
        [\A h \in Codes : cache[h] = None /\ cache'[h] # None =>
           chunk'[cache'[h].chunk].status = "RENDERED"]_vars
  BY SerialInsert
<1>4. QED
  BY <1>1, <1>2, <1>3, PTL DEF Spec, TransactionRule
=============================================================================
