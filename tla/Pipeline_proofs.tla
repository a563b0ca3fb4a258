--------------------------- MODULE Pipeline_proofs ---------------------------
(***************************************************************************)
(* The safety invariants of the composed pipeline, for every set of rows   *)
(* and actors and every interleaving of them.                              *)
(*                                                                         *)
(* A component's invariant is kept by its own steps, as its own module     *)
(* proves, and by the steps of the others, as long as those leave alone    *)
(* what it relies on.  The modules of the components say what that is (In  *)
(* company); here each component is shown to respect the others.  The      *)
(* lemmas speak of the components as their proof modules instantiate them. *)
(***************************************************************************)
EXTENDS Pipeline, TLAPS

RP == INSTANCE RenderSafety_proofs

HP == INSTANCE Healing_proofs

(* The assumptions the components' lemmas are proved from.                 *)
LEMMA KeysAssumption ==
  /\ None \notin RP!VideoKeys \cup RP!AudioKeys
  /\ None \notin HP!VideoKeys \cup HP!AudioKeys
BY NoneAssumption
   DEF VideoKeys, AudioKeys, VideoKey, AudioKey, DefaultAudioKey, Pool,
     RP!VideoKeys, RP!AudioKeys, RP!VideoKey, RP!AudioKey, RP!DefaultAudioKey, RP!Pool,
     HP!VideoKeys, HP!AudioKeys, HP!VideoKey, HP!AudioKey, HP!DefaultAudioKey, HP!Pool

LEMMA SameStoreTypes ==
  /\ StoreTypeOK <=> RP!StoreTypeOK
  /\ StoreTypeOK <=> HP!StoreTypeOK
  /\ StoreTypeOK' <=> RP!StoreTypeOK'
  /\ StoreTypeOK' <=> HP!StoreTypeOK'
BY DEF
     ChunkStatus, JobStatus, DLQReason, VideoKeys, AudioKeys, VideoKey, AudioKey,
     DefaultAudioKey, Pool, ChunkRow, JobRow, StoreTypeOK,
     RP!ChunkStatus, RP!JobStatus, RP!DLQReason, RP!VideoKeys, RP!AudioKeys,
     RP!VideoKey, RP!AudioKey, RP!DefaultAudioKey, RP!Pool, RP!ChunkRow, RP!JobRow,
     RP!StoreTypeOK,
     HP!ChunkStatus, HP!JobStatus, HP!DLQReason, HP!VideoKeys, HP!AudioKeys,
     HP!VideoKey, HP!AudioKey, HP!DefaultAudioKey, HP!Pool, HP!ChunkRow, HP!JobRow,
     HP!StoreTypeOK

(* A step of the render workers, or of the healing workers, is one of      *)
(* theirs there.                                                           *)
LEMMA RenderSteps == Render!Next => RP!Next
BY
   DEF Render!Pool, RP!Pool, Render!VideoKey, RP!VideoKey, Render!AudioKey, RP!AudioKey,
     Render!DefaultAudioKey, RP!DefaultAudioKey, Render!VideoKeys, RP!VideoKeys,
     Render!AudioKeys, RP!AudioKeys, Render!WithStatus, RP!WithStatus,
     Render!AsRendered, RP!AsRendered, Render!Conflicts, RP!Conflicts, Render!WithDLQ,
     RP!WithDLQ, Render!Siblings, RP!Siblings, Render!RollupTarget, RP!RollupTarget,
     Render!storeVars, RP!storeVars, Render!Running, RP!Running, Render!Ended, RP!Ended,
     Render!Ops, RP!Ops, Render!NoRow, RP!NoRow, Render!AtRest, RP!AtRest, Render!Live,
     RP!Live, Render!Held, RP!Held, Render!Becomes, RP!Becomes, Render!End, RP!End,
     Render!BeginUpdate, RP!BeginUpdate, Render!Deliver, RP!Deliver, Render!Gate,
     RP!Gate, Render!LookUpCache, RP!LookUpCache, Render!Matched, RP!Matched,
     Render!Recommit, RP!Recommit, Render!Returned, RP!Returned, Render!StartRender,
     RP!StartRender, Render!WorkspaceFails, RP!WorkspaceFails, Render!RenderFails,
     RP!RenderFails, Render!Uploads, RP!Uploads, Render!RenderAndUpload,
     RP!RenderAndUpload, Render!Inserted, RP!Inserted, Render!DuplicateHash,
     RP!DuplicateHash, Render!AtomicChunkCommit, RP!AtomicChunkCommit,
     Render!MarkFailed, RP!MarkFailed, Render!Conflict, RP!Conflict, Render!Refresh,
     RP!Refresh, Render!Exhausted, RP!Exhausted, Render!StatusSeen, RP!StatusSeen,
     Render!CountChunks, RP!CountChunks, Render!Close, RP!Close, Render!ReadParent,
     RP!ReadParent, Render!UpdateParent, RP!UpdateParent, Render!ParentConflict,
     RP!ParentConflict, Render!RefreshParent, RP!RefreshParent, Render!ParentExhausted,
     RP!ParentExhausted, Render!Interrupt, RP!Interrupt, Render!Step, RP!Step,
     Render!Next, RP!Next

LEMMA HealSteps == Heal!Next => HP!Next
<1>1. \A c : Heal!AttemptsOf(c) = HP!AttemptsOf(c)
  BY DEF Heal!AttemptsOf, HP!AttemptsOf
<1>2. \A S : Heal!Cardinality(S) = HP!Cardinality(S)
  BY DEF Heal!Cardinality, HP!Cardinality
<1>3. \A o : Heal!CountAttempts(o) => HP!CountAttempts(o)
  BY <1>1, <1>2
     DEF Heal!CountAttempts, HP!CountAttempts, Heal!Becomes, HP!Becomes,
       Heal!storeVars, HP!storeVars
<1>4. ASSUME NEW o, Heal!Step(o) PROVE HP!Step(o)
  <2>1. CASE Heal!CountAttempts(o)
    BY <1>3, <2>1 DEF HP!Step
  <2>2. CASE ~Heal!CountAttempts(o)
    BY <1>4, <2>2
       DEF Heal!WithStatus, HP!WithStatus, Heal!Conflicts, HP!Conflicts, Heal!WithDLQ,
         HP!WithDLQ, Heal!Siblings, HP!Siblings, Heal!RollupTarget, HP!RollupTarget,
         Heal!storeVars, HP!storeVars, Heal!Running, HP!Running, Heal!AtRest, HP!AtRest,
         Heal!Live, HP!Live, Heal!InRollup, HP!InRollup, Heal!Held, HP!Held,
         Heal!Becomes, HP!Becomes, Heal!End, HP!End, Heal!Passed, HP!Passed,
         Heal!Verified, HP!Verified, Heal!InBudget, HP!InBudget, Heal!OverBudget,
         HP!OverBudget, Heal!LimitReached, HP!LimitReached, Heal!LoadChunk,
         HP!LoadChunk, Heal!Escalate, HP!Escalate, Heal!Matched, HP!Matched,
         Heal!StartHealing, HP!StartHealing, Heal!HealFails, HP!HealFails,
         Heal!LogAttempt, HP!LogAttempt, Heal!WriteOutcome, HP!WriteOutcome,
         Heal!Conflict, HP!Conflict, Heal!Refresh, HP!Refresh, Heal!GiveUp, HP!GiveUp,
         Heal!Exhausted, HP!Exhausted, Heal!RecordError, HP!RecordError, Heal!Outcome,
         HP!Outcome, Heal!StatusSeen, HP!StatusSeen, Heal!CountChunks, HP!CountChunks,
         Heal!Commit, HP!Commit, Heal!Close, HP!Close, Heal!ReadParent, HP!ReadParent,
         Heal!UpdateParent, HP!UpdateParent, Heal!ParentConflict, HP!ParentConflict,
         Heal!RefreshParent, HP!RefreshParent, Heal!ParentExhausted, HP!ParentExhausted,
         Heal!Step, HP!Step
  <2>3. QED
    BY <2>1, <2>2
<1>5. ASSUME NEW o, NEW c, Heal!Begin(o, c) PROVE HP!Begin(o, c)
  BY <1>5
     DEF Heal!Begin, HP!Begin, Heal!AtRest, HP!AtRest, Heal!Becomes, HP!Becomes,
       Heal!Live, HP!Live, Heal!Running, HP!Running, Heal!storeVars, HP!storeVars
<1>6. ASSUME NEW o, Heal!Interrupt(o) PROVE HP!Interrupt(o)
  BY <1>6
     DEF Heal!Interrupt, HP!Interrupt, Heal!End, HP!End, Heal!Held, HP!Held,
       Heal!InRollup, HP!InRollup, Heal!AtRest, HP!AtRest, Heal!Becomes, HP!Becomes,
       Heal!Live, HP!Live, Heal!Running, HP!Running
<1>7. QED
  BY <1>4, <1>5, <1>6 DEF Heal!Next, HP!Next

LEMMA InitialStates == Init => RP!Init /\ HP!Init
BY DEF Init, Render!Init, Render!StoreInit, Render!AtRest, Render!NoRow,
     RP!Init, RP!StoreInit, RP!AtRest, RP!NoRow,
     Heal!HealingInit, Heal!AtRest, HP!Init, HP!StoreInit, HP!HealingInit, HP!AtRest
-----------------------------------------------------------------------------
(* The reaper's and the reviewers' own steps: their locals and the rows    *)
(* they write keep their types.                                            *)

LEMMA FinitelyManyHealers == HP!IsFiniteSet(Healers)
BY PipelineAssumption DEF IsFiniteSet, HP!IsFiniteSet

LEMMA JobRowType ==
  \A row \in JobRow, s \in JobStatus :
    /\ WithStatus(row, s) \in JobRow
    /\ WithStatus(row, s).status = s
<1> SUFFICES ASSUME NEW row \in JobRow, NEW s \in JobStatus
             PROVE  WithStatus(row, s) \in JobRow /\ WithStatus(row, s).status = s
  OBVIOUS
<1>1. row.version + 1 \in Nat
  BY DEF JobRow
<1>2. QED
  BY <1>1 DEF JobRow, WithStatus

ReaperSane ==
  /\ Reap!ReaperTypeOK
  /\ reaper.pc \in {"parent", "rollup", "reread"} => reaper.chunk \in Chunks

ReaperRecord ==
  [pc: {"off", "asleep", "reap", "next", "parent", "rollup", "reread"},
   before: [Chunks -> Nat], stuck: SUBSET Chunks, todo: SUBSET Chunks,
   chunk: Chunks \cup {None}, seen: SUBSET ChunkStatus, target: JobStatus,
   expected: Nat, tries: 0 .. MaxRetries,
   wrote: [Jobs -> JobRow \cup {None}], loaded: [Jobs -> JobRow \cup {None}]]

LEMMA ReaperType == Reap!ReaperTypeOK <=> reaper \in ReaperRecord
<1>1. /\ Reap!JobRow = JobRow /\ Reap!JobStatus = JobStatus
      /\ Reap!ChunkStatus = ChunkStatus
  BY DEF Reap!JobRow, JobRow, Reap!JobStatus, JobStatus, Reap!ChunkStatus, ChunkStatus
<1>2. {"off", "asleep"} \cup Reap!AtWork =
        {"off", "asleep", "reap", "next", "parent", "rollup", "reread"}
  BY DEF Reap!AtWork
<1>3. QED
  BY <1>1, <1>2 DEF Reap!ReaperTypeOK, ReaperRecord

LEMMA AsleepType ==
  ASSUME NEW pc \in {"off", "asleep"}, NEW before \in [Chunks -> Nat]
  PROVE  Reap!Asleep(pc, before) \in ReaperRecord
<1>1. 0 \in 0 .. MaxRetries /\ "PENDING" \in JobStatus
  BY StoreAssumption DEF JobStatus
<1>2. QED
  BY <1>1 DEF Reap!Asleep, Reap!Nothing, ReaperRecord

(* What the daemon sees of a job row is a job row.                         *)
LEMMA CurrentType ==
  ASSUME StoreTypeOK, reaper \in ReaperRecord, NEW j \in Jobs
  PROVE  Reap!Current(j) \in JobRow
BY DEF StoreTypeOK, ReaperRecord, Reap!Current, Reap!Held

LEMMA CommitType ==
  ASSUME StoreTypeOK, reaper \in ReaperRecord, Reap!Commit
  PROVE  /\ job' \in [Jobs -> JobRow]
         /\ locked' \subseteq Chunks \cup Jobs \cup Codes
         /\ reaper' \in ReaperRecord /\ reaper'.pc = "asleep"
<1>1. \A j \in Jobs : Reap!Current(j) \in JobRow
  BY CurrentType
<1>2. reaper.before \in [Chunks -> Nat]
  BY DEF ReaperRecord
<1>3. Reap!Asleep("asleep", reaper.before) \in ReaperRecord
  BY <1>2, AsleepType
<1>4. Reap!Asleep("asleep", reaper.before).pc = "asleep"
  BY DEF Reap!Asleep
<1>5. QED
  BY <1>1, <1>3, <1>4 DEF Reap!Commit, StoreTypeOK

LEMMA ReapType ==
  ASSUME StoreTypeOK, ReaperSane, Reap!Next
  PROVE  StoreTypeOK' /\ ReaperSane'
<1> DEFINE r == reaper
<1>r. r \in ReaperRecord
  BY ReaperType DEF ReaperSane
<1>t. r.tries + 1 < MaxRetries => r.tries + 1 \in 0 .. MaxRetries
  BY <1>r, StoreAssumption DEF ReaperRecord
<1>z. 0 \in 0 .. MaxRetries
  BY StoreAssumption
<1>g. ASSUME reaper' \in ReaperRecord,
             reaper'.pc \in {"parent", "rollup", "reread"} => reaper'.chunk \in Chunks
      PROVE  ReaperSane'
  <2>1. Reap!ReaperTypeOK'
    <3>1. /\ Reap!JobRow = JobRow /\ Reap!JobStatus = JobStatus
          /\ Reap!ChunkStatus = ChunkStatus
      BY DEF Reap!JobRow, JobRow, Reap!JobStatus, JobStatus, Reap!ChunkStatus, ChunkStatus
    <3>2. QED
      BY <1>g, <3>1 DEF Reap!ReaperTypeOK, ReaperRecord, Reap!AtWork
  <2>2. QED
    BY <1>g, <2>1 DEF ReaperSane
<1>1. ASSUME NEW aged \in SUBSET Chunks, Reap!Start(aged)
      PROVE  StoreTypeOK' /\ ReaperSane'
  <2> DEFINE before == [c \in Chunks |-> IF c \in aged THEN chunk[c].version ELSE 0]
  <2>1. before \in [Chunks -> Nat]
    BY DEF StoreTypeOK, ChunkRow
  <2>2. reaper' = Reap!Asleep("asleep", before) /\ UNCHANGED storeVars
    BY <1>1 DEF Reap!Start, Reap!storeVars, storeVars
  <2>3. Reap!Asleep("asleep", before).pc = "asleep"
    BY DEF Reap!Asleep
  <2>4. QED
    BY <1>g, <2>1, <2>2, <2>3, AsleepType DEF StoreTypeOK, storeVars
<1>2. CASE Reap!FindStuck
  <2>1. Reap!Zombies \subseteq Chunks
    BY DEF Reap!Zombies
  <2>2. reaper' = [reaper EXCEPT !.pc = "reap", !.stuck = Reap!Zombies]
        /\ UNCHANGED storeVars
    BY <1>2 DEF Reap!FindStuck, Reap!storeVars, storeVars
  <2>3. reaper' \in ReaperRecord /\ reaper'.pc = "reap"
    BY <1>r, <2>1, <2>2 DEF ReaperRecord
  <2>4. QED
    BY <1>g, <2>2, <2>3 DEF StoreTypeOK, storeVars
<1>3. CASE Reap!Reap
  <2>1. reaper' = [reaper EXCEPT !.pc = "next", !.todo = reaper.stuck]
    BY <1>3 DEF Reap!Reap
  <2>2. reaper' \in ReaperRecord /\ reaper'.pc = "next"
    BY <1>r, <2>1 DEF ReaperRecord
  <2>3. \A c \in Chunks : Reap!Reaped(chunk[c]) \in ChunkRow
    BY DEF Reap!Reaped, StoreTypeOK, ChunkRow, ChunkStatus
  <2>4. chunk' \in [Chunks -> ChunkRow]
    BY <1>3, <2>3 DEF Reap!Reap, StoreTypeOK
  <2>5. dlq' \subseteq [row: Chunks \cup Jobs, reason: DLQReason]
    BY <1>3, <1>r DEF Reap!Reap, StoreTypeOK, ReaperRecord, DLQReason
  <2>6. QED
    BY <1>3, <1>g, <2>2, <2>4, <2>5 DEF Reap!Reap, StoreTypeOK
<1>4. ASSUME NEW c \in Chunks, Reap!CountChunks(c)
      PROVE  StoreTypeOK' /\ ReaperSane'
  <2> DEFINE seen == {chunk[x].status : x \in Reap!Siblings(c)}
  <2>1. seen \subseteq ChunkStatus
    BY DEF Reap!Siblings, StoreTypeOK, ChunkRow
  <2>2. reaper' = [reaper EXCEPT !.pc = "parent", !.chunk = c,
                     !.todo = reaper.todo \ {c}, !.seen = seen]
        /\ UNCHANGED storeVars
    BY <1>4 DEF Reap!CountChunks, Reap!storeVars, storeVars
  <2> HIDE DEF seen
  <2>3. reaper' \in ReaperRecord /\ reaper'.chunk = c
    BY <1>r, <2>1, <2>2 DEF ReaperRecord
  <2>4. QED
    BY <1>g, <2>2, <2>3 DEF StoreTypeOK, storeVars
<1>5. CASE Reap!ReadParent
  <2> DEFINE j == JobOf[reaper.chunk]
             target(row) == Reap!RollupTarget(reaper.seen, row.status)
  <2>1. reaper.chunk \in Chunks /\ j \in Jobs
    BY <1>5, StoreAssumption DEF Reap!ReadParent, ReaperSane
  <2>2. PICK row \in Reap!Selected(j) :
          reaper' = [reaper EXCEPT
            !.loaded[j] = row, !.target = target(row), !.expected = row.version, !.tries = 0,
            !.pc = IF target(row) = row.status THEN "next" ELSE "rollup"]
    BY <1>5 DEF Reap!ReadParent
  <2>3. row \in JobRow
    BY <2>1, <2>2, <1>r, CurrentType DEF Reap!Selected, ReaperRecord
  <2>4. target(row) \in JobStatus /\ row.version \in Nat
    BY <2>3 DEF Reap!RollupTarget, JobRow, JobStatus
  <2>5. UNCHANGED storeVars
    BY <1>5 DEF Reap!ReadParent, Reap!storeVars, storeVars
  <2> HIDE DEF target
  <2>6. reaper' \in ReaperRecord /\ reaper'.chunk = reaper.chunk
    BY <1>r, <1>z, <2>1, <2>3, <2>4, <2>2 DEF ReaperRecord
  <2>7. QED
    BY <1>g, <2>1, <2>6, <2>5 DEF StoreTypeOK, storeVars
<1>6. CASE Reap!UpdateParent
  <2> DEFINE j == JobOf[reaper.chunk]
             row == Reap!WithStatus(Reap!Current(j), reaper.target)
  <2>1. reaper.chunk \in Chunks /\ j \in Jobs
    BY <1>6, StoreAssumption DEF Reap!UpdateParent, ReaperSane
  <2>2. row \in JobRow
    BY <2>1, <1>r, CurrentType, JobRowType DEF ReaperRecord, Reap!WithStatus, WithStatus
  <2>3. PICK kept \in {row} \cup {x \in {reaper.loaded[j]} : reaper.tries > 0} :
          reaper' = [reaper EXCEPT !.pc = "next", !.wrote[j] = row, !.loaded[j] = kept]
    BY <1>6 DEF Reap!UpdateParent
  <2> HIDE DEF row
  <2>4. kept \in JobRow \cup {None}
    BY <2>1, <2>2, <2>3, <1>r DEF ReaperRecord
  <2>5. reaper' \in ReaperRecord /\ reaper'.pc = "next"
    BY <1>r, <2>1, <2>2, <2>3, <2>4 DEF ReaperRecord
  <2>6. QED
    BY <1>6, <1>g, <2>1, <2>5 DEF Reap!UpdateParent, StoreTypeOK
<1>7. CASE Reap!ParentConflict
  <2>1. reaper' = [reaper EXCEPT !.pc = "reread", !.tries = reaper.tries + 1]
        /\ UNCHANGED storeVars /\ reaper.tries + 1 < MaxRetries /\ reaper.pc = "rollup"
    BY <1>7 DEF Reap!ParentConflict, Reap!storeVars, storeVars
  <2>2. reaper' \in ReaperRecord /\ reaper'.chunk = reaper.chunk
    BY <1>r, <1>t, <2>1 DEF ReaperRecord
  <2>3. QED
    BY <1>g, <2>1, <2>2 DEF StoreTypeOK, storeVars, ReaperSane
<1>8. CASE Reap!RefreshParent
  <2> DEFINE j == JobOf[reaper.chunk]
  <2>1. reaper' = [reaper EXCEPT !.pc = "rollup", !.expected = Reap!Current(j).version]
        /\ UNCHANGED storeVars /\ reaper.pc = "reread"
    BY <1>8 DEF Reap!RefreshParent, Reap!storeVars, storeVars
  <2>2. reaper.chunk \in Chunks /\ j \in Jobs
    BY <2>1, StoreAssumption DEF ReaperSane
  <2>3. Reap!Current(j).version \in Nat
    BY <2>2, <1>r, CurrentType DEF JobRow
  <2>4. reaper' \in ReaperRecord /\ reaper'.chunk = reaper.chunk
    BY <1>r, <2>1, <2>3 DEF ReaperRecord
  <2>5. QED
    BY <1>g, <2>1, <2>2, <2>4 DEF StoreTypeOK, storeVars
<1>9. CASE Reap!ParentExhausted
  <2> DEFINE j == JobOf[reaper.chunk]
  <2>1. j \in Jobs
    BY <1>9, StoreAssumption DEF Reap!ParentExhausted, ReaperSane
  <2>2. dlq' \subseteq [row: Chunks \cup Jobs, reason: DLQReason]
    BY <1>9, <2>1 DEF Reap!ParentExhausted, Reap!WithDLQ, StoreTypeOK, DLQReason
  <2>3. QED
    BY <1>9, <1>g, <1>r, <2>2, CommitType DEF Reap!ParentExhausted, StoreTypeOK
<1>10. CASE Reap!EndPass
  BY <1>10, <1>g, <1>r, CommitType DEF Reap!EndPass, StoreTypeOK
<1>11. CASE Reap!Stop
  <2> DEFINE before == [c \in Chunks |-> 0]
  <2>1. before \in [Chunks -> Nat]
    OBVIOUS
  <2>2. Reap!Asleep("off", before).pc = "off"
    BY DEF Reap!Asleep
  <2>3. QED
    BY <1>11, <1>g, <2>1, <2>2, AsleepType DEF Reap!Stop, StoreTypeOK
<1>12. QED
  BY <1>1, <1>2, <1>3, <1>4, <1>5, <1>6, <1>7, <1>8, <1>9, <1>10, <1>11
     DEF Reap!Next, Reap!Step

(* The daemon changes the status of chunk rows, to FAILED, and nothing     *)
(* else that the workers of either kind rely on.                           *)
LEMMA ReapRows ==
  ASSUME StoreTypeOK, ReaperSane, Reap!Next
  PROVE  /\ UNCHANGED <<cache, store>> /\ dlq \subseteq dlq'
         /\ \A c \in Chunks :
              /\ chunk'[c].video = chunk[c].video
              /\ chunk'[c].status # "FAILED" => chunk'[c].status = chunk[c].status
         /\ \A h \in Codes : h \in locked => h \in locked'
<1> DEFINE Rows == \A c \in Chunks :
                     /\ chunk'[c].video = chunk[c].video
                     /\ chunk'[c].status # "FAILED" => chunk'[c].status = chunk[c].status
<1>1. UNCHANGED <<cache, store>> /\ dlq \subseteq dlq'
  BY DEF Reap!Next, Reap!Step, Reap!storeVars, Reap!WithDLQ, Reap!Start, Reap!FindStuck,
     Reap!Reap, Reap!CountChunks, Reap!ReadParent, Reap!UpdateParent, Reap!ParentConflict,
     Reap!RefreshParent, Reap!ParentExhausted, Reap!EndPass, Reap!Stop
<1>2. Rows
  <2>1. CASE Reap!Reap
    <3>1. ASSUME NEW c \in Chunks
          PROVE  /\ Reap!Reaped(chunk[c]).video = chunk[c].video
                 /\ Reap!Reaped(chunk[c]).status = "FAILED"
      BY DEF Reap!Reaped, StoreTypeOK, ChunkRow
    <3>2. QED
      BY <2>1, <3>1 DEF Reap!Reap
  <2>2. CASE ~Reap!Reap
    <3>1. UNCHANGED chunk
      BY <2>2 DEF Reap!Next, Reap!Step, Reap!storeVars, Reap!Start, Reap!FindStuck,
         Reap!CountChunks, Reap!ReadParent, Reap!UpdateParent, Reap!ParentConflict,
         Reap!RefreshParent, Reap!ParentExhausted, Reap!EndPass, Reap!Stop
    <3>2. QED
      BY <3>1
  <2>3. QED
    BY <2>1, <2>2
<1>3. \A h \in Codes : h \in locked => h \in locked'
  <2>1. Reap!Held \cap Codes = {}
    BY StoreAssumption DEF Reap!Held
  <2>2. \/ locked \subseteq locked'
        \/ locked' = locked \ Reap!Held
    BY DEF Reap!Next, Reap!Step, Reap!storeVars, Reap!Start, Reap!FindStuck, Reap!Reap,
       Reap!CountChunks, Reap!ReadParent, Reap!UpdateParent, Reap!ParentConflict,
       Reap!RefreshParent, Reap!ParentExhausted, Reap!EndPass, Reap!Stop, Reap!Commit
  <2>3. QED
    BY <2>1, <2>2
<1>4. QED
  BY <1>1, <1>2, <1>3

ReviewSane ==
  /\ Review!ReviewTypeOK
  /\ \A r \in Reviewers : reviewer[r].pc \in Review!InRequest => reviewer[r].job \in Jobs

RequestRecord ==
  [pc: {"idle", "ended", "update", "refresh"}, job: Jobs \cup {None}, expected: Nat,
   tries: 0 .. MaxRetries - 1]

LEMMA ReviewType ==
  /\ Review!ReviewTypeOK <=> /\ reviewer \in [Reviewers -> RequestRecord]
                             /\ approvedBy \in [Jobs -> Reviewers \cup {None}]
  /\ \A pc \in {"idle", "ended"} : Review!AtRest(pc) \in RequestRecord
<1>1. {"idle", "ended"} \cup Review!InRequest = {"idle", "ended", "update", "refresh"}
  BY DEF Review!InRequest
<1>2. 0 \in 0 .. MaxRetries - 1
  BY StoreAssumption
<1>3. QED
  BY <1>1, <1>2 DEF Review!ReviewTypeOK, RequestRecord, Review!AtRest

(* One request's new record is its own.                                    *)
LEMMA RequestType ==
  ASSUME ReviewSane, NEW r \in Reviewers, NEW v \in RequestRecord, Review!Becomes(r, v),
         v.pc \in Review!InRequest => v.job \in Jobs,
         approvedBy' \in [Jobs -> Reviewers \cup {None}]
  PROVE  /\ ReviewSane'
         /\ reviewer'[r] = v /\ \A q \in Reviewers : q # r => reviewer'[q] = reviewer[q]
<1>1. reviewer \in [Reviewers -> RequestRecord]
  BY ReviewType DEF ReviewSane
<1>2. /\ reviewer' = [reviewer EXCEPT ![r] = v]
      /\ reviewer' \in [Reviewers -> RequestRecord]
  BY <1>1 DEF Review!Becomes
<1>3. {"idle", "ended"} \cup Review!InRequest = {"idle", "ended", "update", "refresh"}
  BY DEF Review!InRequest
<1>4. Review!ReviewTypeOK'
  BY <1>2, <1>3 DEF Review!ReviewTypeOK, RequestRecord
<1>5. QED
  BY <1>1, <1>2, <1>4 DEF ReviewSane

(* A request ends.                                                         *)
LEMMA RequestEnds ==
  ASSUME ReviewSane, NEW r \in Reviewers, Review!End(r),
         approvedBy' \in [Jobs -> Reviewers \cup {None}]
  PROVE  /\ ReviewSane'
         /\ reviewer'[r].pc = "ended"
         /\ \A q \in Reviewers : q # r => reviewer'[q] = reviewer[q]
<1>1. Review!AtRest("ended") \in RequestRecord /\ Review!AtRest("ended").pc = "ended"
  BY ReviewType DEF Review!AtRest
<1>2. "ended" \notin Review!InRequest
  BY DEF Review!InRequest
<1>3. QED
  BY <1>1, <1>2, RequestType DEF Review!End
-----------------------------------------------------------------------------
(* What is known of the videos of a job, and by whom.                      *)

Complete == {"ASSEMBLED", "REVIEW_GATE", "COMPLETED"}

AllShown(j) == \A c \in Chunks : JobOf[c] = j => chunk[c].video # None

(* The daemon: the rollup it is in, and those it has not committed.        *)
ReaperBacked ==
  /\ reaper.pc = "parent" /\ reaper.seen = {"RENDERED"} => AllShown(JobOf[reaper.chunk])
  /\ reaper.pc \in {"rollup", "reread"} /\ reaper.target \in Complete =>
       AllShown(JobOf[reaper.chunk])
  /\ \A j \in Jobs :
       reaper.wrote[j] # None /\ reaper.wrote[j].status \in Complete => AllShown(j)

(* A request that has found its job at the gate approves it sooner or      *)
(* later, whatever becomes of the job's status.                            *)
ReviewBacked ==
  \A r \in Reviewers : reviewer[r].pc \in Review!InRequest => AllShown(reviewer[r].job)

JobsBacked ==
  \A j \in Jobs : job[j].status \in Complete \/ approvedBy[j] # None => AllShown(j)

(* A step that keeps what has been shown keeps what rests on it.           *)
LEMMA BackedStays ==
  ASSUME \A j : AllShown(j) => AllShown(j)'
  PROVE  /\ ReaperBacked /\ UNCHANGED reaper => ReaperBacked'
         /\ ReviewBacked /\ UNCHANGED reviewer => ReviewBacked'
         /\ /\ JobsBacked
            /\ \A j \in Jobs : job'[j].status \in Complete =>
                 job[j].status \in Complete \/ AllShown(j)
            /\ \A j \in Jobs : approvedBy'[j] # None => approvedBy[j] # None \/ AllShown(j)
            => JobsBacked'
<1>1. ASSUME ReaperBacked, UNCHANGED reaper PROVE ReaperBacked'
  BY <1>1 DEF ReaperBacked
<1>2. ASSUME ReviewBacked, UNCHANGED reviewer PROVE ReviewBacked'
  BY <1>2 DEF ReviewBacked
<1>3. ASSUME JobsBacked,
             \A j \in Jobs : job'[j].status \in Complete =>
               job[j].status \in Complete \/ AllShown(j),
             \A j \in Jobs : approvedBy'[j] # None => approvedBy[j] # None \/ AllShown(j)
      PROVE  JobsBacked'
  BY <1>3 DEF JobsBacked
<1>4. QED
  BY <1>1, <1>2, <1>3

(* The end of the daemon's transaction: the job rows it has written are    *)
(* committed.                                                              *)
LEMMA ReapCommitBacked ==
  ASSUME ReaperBacked, Reap!Commit
  PROVE  /\ reaper'.pc = "asleep" /\ \A j \in Jobs : reaper'.wrote[j] = None
         /\ \A j \in Jobs : job'[j].status \in Complete =>
              job[j].status \in Complete \/ AllShown(j)
<1>1. reaper' = Reap!Asleep("asleep", reaper.before)
  BY DEF Reap!Commit
<1>2. reaper'.pc = "asleep" /\ \A j \in Jobs : reaper'.wrote[j] = None
  BY <1>1 DEF Reap!Asleep, Reap!Nothing
<1>3. ASSUME NEW j \in Jobs, job'[j].status \in Complete
      PROVE  job[j].status \in Complete \/ AllShown(j)
  <2>1. job'[j] = IF reaper.wrote[j] # None THEN reaper.wrote[j] ELSE job[j]
    BY DEF Reap!Commit, Reap!Current, Reap!Held
  <2>2. QED
    BY <1>3, <2>1 DEF ReaperBacked
<1>4. QED
  BY <1>2, <1>3

LEMMA ReapBacked ==
  ASSUME StoreTypeOK, ReaperSane, ReaperBacked, Reap!Next,
         \A c \in Chunks : chunk[c].status = "RENDERED" => chunk[c].video # None,
         \A j : AllShown(j) => AllShown(j)'
  PROVE  /\ ReaperBacked'
         /\ \A j \in Jobs : job'[j].status \in Complete =>
              job[j].status \in Complete \/ AllShown(j)
<1> DEFINE Rows == \A j \in Jobs : job'[j].status \in Complete =>
                     job[j].status \in Complete \/ AllShown(j)
           Kept == \A j \in Jobs : reaper'.wrote[j] # None /\ reaper'.wrote[j].status \in Complete
                     => AllShown(j)
<1>r. reaper \in ReaperRecord
  BY ReaperType DEF ReaperSane
<1>k. \A j \in Jobs : reaper.wrote[j] # None /\ reaper.wrote[j].status \in Complete => AllShown(j)
  BY DEF ReaperBacked
<1>g. ASSUME reaper'.pc \notin {"parent", "rollup", "reread"}, Kept
      PROVE  ReaperBacked'
  BY <1>g DEF ReaperBacked
<1>1. ASSUME NEW aged \in SUBSET Chunks, Reap!Start(aged)
      PROVE  ReaperBacked' /\ Rows
  <2>1. reaper'.pc = "asleep" /\ \A j \in Jobs : reaper'.wrote[j] = None
    BY <1>1 DEF Reap!Start, Reap!Asleep, Reap!Nothing
  <2>2. QED
    BY <1>1, <1>g, <2>1 DEF Reap!Start, Reap!storeVars
<1>2. CASE Reap!FindStuck \/ Reap!Reap
  <2>1. \/ reaper' = [reaper EXCEPT !.pc = "reap", !.stuck = Reap!Zombies]
        \/ reaper' = [reaper EXCEPT !.pc = "next", !.todo = reaper.stuck]
    BY <1>2 DEF Reap!FindStuck, Reap!Reap
  <2>2. reaper'.pc \in {"reap", "next"} /\ reaper'.wrote = reaper.wrote
    BY <2>1, <1>r DEF ReaperRecord
  <2>3. UNCHANGED job
    BY <1>2 DEF Reap!FindStuck, Reap!Reap, Reap!storeVars
  <2>4. QED
    BY <1>g, <1>k, <2>2, <2>3
<1>3. ASSUME NEW c \in Chunks, Reap!CountChunks(c)
      PROVE  ReaperBacked' /\ Rows
  <2> DEFINE seen == {chunk[x].status : x \in Reap!Siblings(c)}
  <2>1. reaper' = [reaper EXCEPT !.pc = "parent", !.chunk = c,
                     !.todo = reaper.todo \ {c}, !.seen = seen]
        /\ UNCHANGED job
    BY <1>3 DEF Reap!CountChunks, Reap!storeVars
  <2>2. seen = {"RENDERED"} => AllShown(JobOf[c])
    BY DEF Reap!Siblings, AllShown
  <2> HIDE DEF seen
  <2>3. /\ reaper'.pc = "parent" /\ reaper'.chunk = c /\ reaper'.seen = seen
        /\ reaper'.wrote = reaper.wrote
    BY <2>1, <1>r DEF ReaperRecord
  <2>4. QED
    BY <1>k, <2>1, <2>2, <2>3 DEF ReaperBacked
<1>4. CASE Reap!ReadParent
  <2> DEFINE j == JobOf[reaper.chunk]
             target(row) == Reap!RollupTarget(reaper.seen, row.status)
             pc(row) == IF target(row) = row.status THEN "next" ELSE "rollup"
  <2>1. PICK row \in Reap!Selected(j) :
          reaper' = [reaper EXCEPT
            !.loaded[j] = row, !.target = target(row), !.expected = row.version, !.tries = 0,
            !.pc = pc(row)]
    BY <1>4 DEF Reap!ReadParent
  <2>2. reaper.pc = "parent" /\ UNCHANGED job
    BY <1>4 DEF Reap!ReadParent, Reap!storeVars
  <2>3. target(row) # row.status /\ target(row) \in Complete => reaper.seen = {"RENDERED"}
    BY DEF Reap!RollupTarget, Complete
  <2> HIDE DEF target
  <2>4. /\ reaper'.pc = pc(row) /\ reaper'.chunk = reaper.chunk
        /\ reaper'.target = target(row) /\ reaper'.wrote = reaper.wrote
    BY <2>1, <1>r DEF ReaperRecord
  <2>5. QED
    BY <1>k, <2>3, <2>4, <2>2 DEF ReaperBacked
<1>5. CASE Reap!UpdateParent
  <2> DEFINE j == JobOf[reaper.chunk]
             row == Reap!WithStatus(Reap!Current(j), reaper.target)
  <2>1. reaper.pc = "rollup" /\ reaper.chunk \in Chunks /\ j \in Jobs /\ UNCHANGED job
    BY <1>5, StoreAssumption DEF Reap!UpdateParent, ReaperSane
  <2>2. row.status = reaper.target
    BY <2>1, <1>r, CurrentType, JobRowType DEF ReaperRecord, Reap!WithStatus, WithStatus
  <2>3. PICK kept \in {row} \cup {x \in {reaper.loaded[j]} : reaper.tries > 0} :
          reaper' = [reaper EXCEPT !.pc = "next", !.wrote[j] = row, !.loaded[j] = kept]
    BY <1>5 DEF Reap!UpdateParent
  <2> HIDE DEF row
  <2>4. reaper'.pc = "next" /\ reaper'.wrote = [reaper.wrote EXCEPT ![j] = row]
    BY <2>3, <1>r DEF ReaperRecord
  <2>5. reaper.target \in Complete => AllShown(j)
    BY <2>1 DEF ReaperBacked
  <2>6. \A x \in Jobs : reaper'.wrote[x] = IF x = j THEN row ELSE reaper.wrote[x]
    BY <2>4, <1>r DEF ReaperRecord
  <2>7. QED
    BY <1>g, <1>k, <2>1, <2>2, <2>4, <2>5, <2>6
<1>6. CASE Reap!ParentConflict \/ Reap!RefreshParent
  <2>1. \/ reaper' = [reaper EXCEPT !.pc = "reread", !.tries = reaper.tries + 1]
        \/ reaper' = [reaper EXCEPT !.pc = "rollup",
                         !.expected = Reap!Current(JobOf[reaper.chunk]).version]
    BY <1>6 DEF Reap!ParentConflict, Reap!RefreshParent
  <2>2. /\ reaper'.pc \in {"rollup", "reread"} /\ reaper'.chunk = reaper.chunk
        /\ reaper'.target = reaper.target /\ reaper'.wrote = reaper.wrote
    BY <2>1, <1>r DEF ReaperRecord
  <2>3. reaper.pc \in {"rollup", "reread"} /\ UNCHANGED job
    BY <1>6 DEF Reap!ParentConflict, Reap!RefreshParent, Reap!storeVars
  <2>4. QED
    BY <1>k, <2>2, <2>3 DEF ReaperBacked
<1>7. CASE Reap!ParentExhausted \/ Reap!EndPass
  <2>1. Reap!Commit
    BY <1>7 DEF Reap!ParentExhausted, Reap!EndPass
  <2>2. QED
    BY <1>g, <2>1, ReapCommitBacked
<1>8. CASE Reap!Stop
  <2>1. reaper'.pc = "off" /\ \A j \in Jobs : reaper'.wrote[j] = None
    BY <1>8 DEF Reap!Stop, Reap!Asleep, Reap!Nothing
  <2>2. QED
    BY <1>8, <1>g, <2>1 DEF Reap!Stop
<1>9. QED
  BY <1>1, <1>2, <1>3, <1>4, <1>5, <1>6, <1>7, <1>8 DEF Reap!Next, Reap!Step

(* The reviewers: types, and who may approve.                              *)
LEMMA ReviewKeeps ==
  ASSUME StoreTypeOK, ReviewSane, ReviewBacked, JobsBacked, Review!Next,
         \A j : AllShown(j) => AllShown(j)'
  PROVE  /\ StoreTypeOK' /\ ReviewSane' /\ ReviewBacked'
         /\ \A j \in Jobs : job'[j].status \in Complete =>
              job[j].status \in Complete \/ AllShown(j)
         /\ \A j \in Jobs : approvedBy'[j] # None => approvedBy[j] # None \/ AllShown(j)
<1> DEFINE Goal ==
             /\ StoreTypeOK' /\ ReviewSane' /\ ReviewBacked'
             /\ \A j \in Jobs : job'[j].status \in Complete =>
                  job[j].status \in Complete \/ AllShown(j)
             /\ \A j \in Jobs : approvedBy'[j] # None => approvedBy[j] # None \/ AllShown(j)
<1>t. /\ reviewer \in [Reviewers -> RequestRecord]
      /\ approvedBy \in [Jobs -> Reviewers \cup {None}]
  BY ReviewType DEF ReviewSane
<1>v. \A j \in Jobs : job[j].version \in Nat
  BY DEF StoreTypeOK, JobRow
<1>e. ASSUME NEW r \in Reviewers, Review!End(r), UNCHANGED approvedBy
      PROVE  ReviewSane' /\ ReviewBacked'
  <2>1. /\ ReviewSane' /\ reviewer'[r].pc = "ended"
        /\ \A q \in Reviewers : q # r => reviewer'[q] = reviewer[q]
    BY <1>e, <1>t, RequestEnds
  <2>2. "ended" \notin Review!InRequest
    BY DEF Review!InRequest
  <2>3. QED
    BY <2>1, <2>2 DEF ReviewBacked
<1>b. ASSUME NEW r \in Reviewers, NEW v \in RequestRecord, Review!Becomes(r, v),
             v.job \in Jobs, AllShown(v.job), UNCHANGED approvedBy
      PROVE  ReviewSane' /\ ReviewBacked'
  <2>1. /\ ReviewSane' /\ reviewer'[r] = v
        /\ \A q \in Reviewers : q # r => reviewer'[q] = reviewer[q]
    BY <1>b, <1>t, RequestType
  <2>2. \A q \in Reviewers :
          reviewer'[q].pc \in Review!InRequest => AllShown(reviewer'[q].job)
    BY <1>b, <2>1 DEF ReviewBacked
  <2>3. QED
    BY <2>1, <2>2 DEF ReviewBacked
<1>1. ASSUME NEW r \in Reviewers, NEW j \in Jobs, Review!SendToReview(r, j)
      PROVE  Goal
  <2>1. job' = [job EXCEPT ![j] = WithStatus(job[j], "REVIEW_GATE")]
    BY <1>1 DEF Review!SendToReview, Review!WithStatus, WithStatus
  <2>2. job' \in [Jobs -> JobRow]
    BY <2>1, JobRowType DEF StoreTypeOK, JobStatus
  <2>3. job[j].status \in Complete /\ \A x \in Jobs : x # j => job'[x] = job[x]
    BY <1>1, <2>1 DEF Review!SendToReview, StoreTypeOK, Complete
  <2>4. UNCHANGED <<chunk, cache, dlq, store, locked, reviewer, approvedBy>>
    BY <1>1 DEF Review!SendToReview, Review!reviewVars
  <2>5. StoreTypeOK' /\ ReviewSane' /\ ReviewBacked'
    BY <2>2, <2>4, BackedStays DEF StoreTypeOK, ReviewSane, Review!ReviewTypeOK
  <2>6. QED
    BY <2>3, <2>4, <2>5
<1>2. ASSUME NEW r \in Reviewers, NEW j \in Jobs, Review!Request(r, j)
      PROVE  Goal
  <2>1. UNCHANGED <<chunk, job, cache, dlq, store, locked, approvedBy>>
    BY <1>2 DEF Review!Request, Review!storeVars
  <2>2. ReviewSane' /\ ReviewBacked'
    <3>1. CASE BeginAfterRead
      <4> DEFINE v == [pc |-> "update", job |-> j, expected |-> job[j].version, tries |-> 0]
      <4>1. Review!Becomes(r, v)
        BY <1>2, <3>1 DEF Review!Request, Review!StartUpdate
      <4>2. v \in RequestRecord /\ v.job = j
        BY <1>v, StoreAssumption DEF RequestRecord
      <4>3. AllShown(j)
        BY <1>2 DEF Review!Request, JobsBacked, Complete
      <4>4. QED
        BY <1>b, <2>1, <4>1, <4>2, <4>3
    <3>2. CASE ~BeginAfterRead
      BY <1>2, <1>e, <2>1, <3>2 DEF Review!Request
    <3>3. QED
      BY <3>1, <3>2
  <2>3. QED
    BY <2>1, <2>2 DEF StoreTypeOK
<1>3. ASSUME NEW r \in Reviewers, Review!Approve(r)
      PROVE  Goal
  <2> DEFINE j == reviewer[r].job
  <2>1. j \in Jobs /\ AllShown(j)
    BY <1>3 DEF Review!Approve, Review!InRequest, ReviewSane, ReviewBacked
  <2>2. /\ job' = [job EXCEPT ![j] = WithStatus(job[j], "COMPLETED")]
        /\ approvedBy' = [approvedBy EXCEPT ![j] = r]
        /\ UNCHANGED <<chunk, cache, dlq, store, locked>> /\ Review!End(r)
    BY <1>3 DEF Review!Approve, Review!WithStatus, WithStatus
  <2>3. job' \in [Jobs -> JobRow] /\ approvedBy' \in [Jobs -> Reviewers \cup {None}]
    BY <1>t, <2>1, <2>2, JobRowType DEF StoreTypeOK, JobStatus
  <2>4. /\ ReviewSane' /\ reviewer'[r].pc = "ended"
        /\ \A q \in Reviewers : q # r => reviewer'[q] = reviewer[q]
    BY <2>2, <2>3, RequestEnds
  <2>5. ReviewBacked'
    BY <2>4 DEF ReviewBacked, Review!InRequest
  <2>6. \A x \in Jobs : x # j => job'[x] = job[x] /\ approvedBy'[x] = approvedBy[x]
    BY <1>t, <2>2 DEF StoreTypeOK
  <2>7. QED
    BY <2>1, <2>2, <2>3, <2>4, <2>5, <2>6 DEF StoreTypeOK
<1>4. ASSUME NEW r \in Reviewers, Review!Conflict(r) \/ Review!Refresh(r)
      PROVE  Goal
  <2> DEFINE j == reviewer[r].job
  <2>1. reviewer[r].pc \in Review!InRequest /\ reviewer[r] \in RequestRecord
    BY <1>4, <1>t DEF Review!Conflict, Review!Refresh, Review!InRequest
  <2>2. j \in Jobs /\ AllShown(j)
    BY <2>1 DEF ReviewSane, ReviewBacked
  <2>3. UNCHANGED <<chunk, job, cache, dlq, store, locked, approvedBy>>
    BY <1>4 DEF Review!Conflict, Review!Refresh, Review!storeVars
  <2>4. CASE Review!Conflict(r)
    <3> DEFINE v == [reviewer[r] EXCEPT !.pc = "refresh", !.tries = reviewer[r].tries + 1]
    <3>1. Review!Becomes(r, v) /\ reviewer[r].tries + 1 < MaxRetries
      BY <2>4 DEF Review!Conflict
    <3>2. reviewer[r].tries + 1 \in 0 .. MaxRetries - 1
      BY <2>1, <3>1, StoreAssumption DEF RequestRecord
    <3>3. v \in RequestRecord /\ v.job = j
      BY <2>1, <3>2 DEF RequestRecord
    <3>4. QED
      BY <1>b, <2>2, <2>3, <3>1, <3>3 DEF StoreTypeOK
  <2>5. CASE Review!Refresh(r)
    <3> DEFINE v == [reviewer[r] EXCEPT !.pc = "update", !.expected = job[j].version]
    <3>1. Review!Becomes(r, v)
      BY <2>5 DEF Review!Refresh
    <3>2. v \in RequestRecord /\ v.job = j
      BY <1>v, <2>1, <2>2 DEF RequestRecord
    <3>3. QED
      BY <1>b, <2>2, <2>3, <3>1, <3>2 DEF StoreTypeOK
  <2>6. QED
    BY <1>4, <2>4, <2>5
<1>5. ASSUME NEW r \in Reviewers, Review!Exhausted(r)
      PROVE  Goal
  <2>1. reviewer[r].job \in Jobs
    BY <1>5 DEF Review!Exhausted, Review!InRequest, ReviewSane
  <2>2. StoreTypeOK'
    BY <1>5, <2>1 DEF Review!Exhausted, Review!WithDLQ, StoreTypeOK, DLQReason
  <2>3. QED
    BY <1>5, <1>e, <2>2 DEF Review!Exhausted
<1>6. ASSUME NEW r \in Reviewers, Review!Interrupt(r)
      PROVE  Goal
  <2>1. UNCHANGED <<chunk, job, cache, dlq, store, locked, approvedBy>> /\ Review!End(r)
    BY <1>6 DEF Review!Interrupt, Review!storeVars
  <2>2. QED
    BY <1>e, <2>1 DEF StoreTypeOK
<1>7. QED
  BY <1>1, <1>2, <1>3, <1>4, <1>5, <1>6 DEF Review!Next, Review!Step

(* The reviewers' steps on the other rows.                                 *)
LEMMA ReviewRows ==
  ASSUME Review!Next
  PROVE  UNCHANGED <<chunk, cache, store, locked>> /\ dlq \subseteq dlq'
BY DEF Review!Next, Review!Step, Review!storeVars, Review!SendToReview, Review!Request,
   Review!Approve, Review!Conflict, Review!Refresh, Review!Exhausted, Review!Interrupt,
   Review!WithDLQ
-----------------------------------------------------------------------------
(* The invariant: each component's own, and what every rollup and request  *)
(* under way knows of the videos of the job it is about to write.          *)
PipelineInv ==
  /\ RP!IInv
  /\ HP!IInv /\ HP!CountInv
  /\ ReaperSane /\ ReviewSane
  /\ \A d \in Deliveries : RP!RollupBacked(worker[d])
  /\ \A o \in Healers : HP!NeverAssembles(healer[o])
  /\ ReaperBacked /\ ReviewBacked /\ JobsBacked

(* All components speak of the same statuses and the same videos.          *)
LEMMA SameShown ==
  /\ \A j : AllShown(j) <=> RP!AllShown(j)
  /\ Complete = RP!Complete /\ Complete = HP!Complete
BY DEF AllShown, RP!AllShown, Complete, RP!Complete, HP!Complete

LEMMA Parts ==
  ASSUME PipelineInv
  PROVE  /\ StoreTypeOK
         /\ RP!TypeOK /\ RP!VideoPublished
         /\ HP!TypeInv
         /\ \A c \in Chunks : chunk[c].status = "RENDERED" => chunk[c].video # None
BY SameStoreTypes DEF PipelineInv, RP!IInv, RP!TypeOK, RP!VideoPublished, HP!IInv

(* What the workers' rollups have counted stays true while the workers     *)
(* stand still and no video goes.                                          *)
LEMMA RollupsStay ==
  ASSUME UNCHANGED worker, \A j : AllShown(j) => AllShown(j)',
         \A d \in Deliveries : RP!RollupBacked(worker[d])
  PROVE  \A d \in Deliveries : RP!RollupBacked(worker[d])'
BY DEF RP!RollupBacked, RP!AllShown, AllShown

LEMMA VideosShown ==
  ASSUME \A c \in Chunks : chunk'[c].video = chunk[c].video
  PROVE  \A j : AllShown(j) => AllShown(j)'
BY DEF AllShown

LEMMA InitPipelineInv == Init => PipelineInv
<1> SUFFICES ASSUME Init PROVE PipelineInv
  OBVIOUS
<1>1. RP!Init /\ HP!Init
  BY InitialStates
<1>2. RP!IInv
  BY <1>1, RP!InitIInv, StoreAssumption, KeysAssumption, PipelineAssumption
<1>3. HP!IInv /\ HP!CountInv
  BY <1>1, HP!InitIInv, HP!InitCount, StoreAssumption, KeysAssumption, PipelineAssumption,
     FinitelyManyHealers
<1>4. ReaperSane /\ ReaperBacked
  <2> DEFINE before == [c \in Chunks |-> 0]
  <2>1. reaper = Reap!Asleep("off", before)
    BY DEF Init, Reap!ReaperInit
  <2>2. before \in [Chunks -> Nat]
    OBVIOUS
  <2>3. reaper \in ReaperRecord
    BY <2>1, <2>2, AsleepType
  <2>4. reaper.pc = "off" /\ \A j \in Jobs : reaper.wrote[j] = None
    BY <2>1 DEF Reap!Asleep, Reap!Nothing
  <2>5. QED
    BY <2>3, <2>4, ReaperType DEF ReaperSane, ReaperBacked
<1>5. ReviewSane /\ ReviewBacked
  <2>1. /\ reviewer = [r \in Reviewers |-> Review!AtRest("idle")]
        /\ approvedBy = [j \in Jobs |-> None]
    BY DEF Init, Review!ReviewInit
  <2>2. Review!AtRest("idle").pc = "idle"
    BY DEF Review!AtRest
  <2>3. QED
    BY <2>1, <2>2, ReviewType DEF ReviewSane, ReviewBacked, Review!InRequest
<1>6. JobsBacked
  BY DEF Init, Render!Init, Render!StoreInit, Review!ReviewInit, JobsBacked, Complete
<1>7. \A d \in Deliveries : RP!RollupBacked(worker[d])
  BY <1>1 DEF RP!Init, RP!AtRest, RP!RollupBacked
<1>8. \A o \in Healers : HP!NeverAssembles(healer[o])
  BY <1>1 DEF HP!Init, HP!HealingInit, HP!AtRest, HP!NeverAssembles
<1>9. QED
  BY <1>2, <1>3, <1>4, <1>5, <1>6, <1>7, <1>8 DEF PipelineInv
-----------------------------------------------------------------------------
(* Each component's steps keep the invariant.                              *)

LEMMA RenderKeeps == PipelineInv /\ RenderNext => PipelineInv'
<1> SUFFICES ASSUME PipelineInv, RenderNext PROVE PipelineInv'
  OBVIOUS
<1>1. /\ [RP!Next]_(RP!vars)
      /\ UNCHANGED <<healer, attempts, reaper, reviewer, approvedBy>>
  BY RenderSteps DEF RenderNext, reviewVars
<1>2. RP!IInv'
  BY <1>1, RP!NextIInv, StoreAssumption, KeysAssumption, PipelineAssumption DEF PipelineInv
<1>3. StoreTypeOK'
  BY <1>2, SameStoreTypes DEF RP!IInv, RP!TypeOK
<1>4. \A j : AllShown(j) => AllShown(j)'
  <2>1. ASSUME NEW j, RP!AllShown(j)
        PROVE  \A c \in Chunks : JobOf[c] = j => chunk'[c].video # None
    BY <1>1, <2>1, RP!ShownStays, StoreAssumption, KeysAssumption, PipelineAssumption
       DEF PipelineInv
  <2>2. QED
    BY <2>1, SameShown DEF AllShown
<1>5. /\ \A d \in Deliveries : RP!RollupBacked(worker[d])'
      /\ \A j \in Jobs : job'[j].status \in Complete =>
           job[j].status \in Complete \/ AllShown(j)
  BY <1>1, RP!NextBacked, SameShown, StoreAssumption, KeysAssumption, PipelineAssumption
     DEF PipelineInv
<1>6. /\ dlq \subseteq dlq'
      /\ \A c \in Chunks : chunk'[c].status = "HEALING" => chunk[c].status = "HEALING"
  BY <1>1, Parts, RP!NextHealsNothing, StoreAssumption, KeysAssumption, PipelineAssumption
<1>7. HP!IInv' /\ HP!CountInv'
  <2>1. HP!StoreTypeOK'
    BY <1>3, SameStoreTypes
  <2>2. QED
    BY <1>1, <1>6, <2>1, HP!OthersKeepIInv, HP!OthersKeepCountInv, StoreAssumption,
       KeysAssumption, PipelineAssumption, FinitelyManyHealers DEF PipelineInv
<1>8. ReaperSane' /\ ReviewSane'
  BY <1>1 DEF PipelineInv, ReaperSane, Reap!ReaperTypeOK, ReviewSane, Review!ReviewTypeOK
<1>9. ReaperBacked' /\ ReviewBacked' /\ JobsBacked'
  BY <1>1, <1>4, <1>5, BackedStays DEF PipelineInv
<1>10. \A o \in Healers : HP!NeverAssembles(healer'[o])
  BY <1>1 DEF PipelineInv
<1>11. QED
  BY <1>2, <1>5, <1>7, <1>8, <1>9, <1>10 DEF PipelineInv, HP!NeverAssembles

LEMMA HealKeeps == PipelineInv /\ HealNext => PipelineInv'
<1> SUFFICES ASSUME PipelineInv, HealNext PROVE PipelineInv'
  OBVIOUS
<1>1. /\ [HP!Next]_(HP!vars)
      /\ UNCHANGED <<worker, reaper, reviewer, approvedBy>>
  BY HealSteps DEF HealNext, reviewVars
<1>2. HP!IInv' /\ HP!CountInv'
  BY <1>1, HP!NextKeeps, HP!NextCount, StoreAssumption, KeysAssumption, PipelineAssumption,
     FinitelyManyHealers DEF PipelineInv
<1>3. /\ UNCHANGED <<cache, store>>
      /\ \A c \in Chunks :
           /\ chunk'[c].video = chunk[c].video
           /\ chunk'[c].status = "RENDERED" => chunk[c].status = "RENDERED"
      /\ \A h \in Codes : h \in locked => h \in locked'
  BY <1>1, Parts, HP!NextRows, StoreAssumption, KeysAssumption, PipelineAssumption,
     FinitelyManyHealers
<1>4. \A j : AllShown(j) => AllShown(j)'
  BY <1>3, VideosShown
<1>5. /\ \A o \in Healers : HP!NeverAssembles(healer'[o])
      /\ \A j \in Jobs : job'[j].status \in Complete => job[j].status \in Complete
  BY <1>1, Parts, HP!NextIncomplete, SameShown, StoreAssumption, KeysAssumption,
     PipelineAssumption, FinitelyManyHealers DEF PipelineInv
<1>6. RP!IInv'
  <2>1. RP!StoreTypeOK'
    BY <1>2, SameStoreTypes DEF HP!IInv, HP!TypeInv
  <2>2. QED
    BY <1>1, <1>3, <2>1, RP!OthersKeepIInv, StoreAssumption, KeysAssumption,
       PipelineAssumption DEF PipelineInv
<1>7. \A d \in Deliveries : RP!RollupBacked(worker[d])'
  BY <1>1, <1>4, RollupsStay DEF PipelineInv
<1>8. ReaperSane' /\ ReviewSane'
  BY <1>1 DEF PipelineInv, ReaperSane, Reap!ReaperTypeOK, ReviewSane, Review!ReviewTypeOK
<1>9. ReaperBacked' /\ ReviewBacked' /\ JobsBacked'
  BY <1>1, <1>4, <1>5, BackedStays DEF PipelineInv
<1>10. QED
  BY <1>2, <1>5, <1>6, <1>7, <1>8, <1>9 DEF PipelineInv, HP!NeverAssembles

(* What a step of the daemon or of a reviewer leaves alone is enough for   *)
(* the workers of both kinds.                                              *)
LEMMA WorkersUndisturbed ==
  ASSUME PipelineInv, StoreTypeOK', UNCHANGED <<worker, healer, attempts, cache, store>>,
         dlq \subseteq dlq',
         \A c \in Chunks :
           /\ chunk'[c].video = chunk[c].video
           /\ chunk'[c].status # "FAILED" => chunk'[c].status = chunk[c].status,
         \A h \in Codes : h \in locked => h \in locked'
  PROVE  /\ RP!IInv' /\ HP!IInv' /\ HP!CountInv'
         /\ \A d \in Deliveries : RP!RollupBacked(worker[d])'
         /\ \A o \in Healers : HP!NeverAssembles(healer[o])'
<1>1. RP!StoreTypeOK' /\ HP!StoreTypeOK'
  BY SameStoreTypes
<1>2. /\ \A c \in Chunks : chunk'[c].video = chunk[c].video
      /\ \A c \in Chunks : chunk'[c].status = "RENDERED" => chunk[c].status = "RENDERED"
      /\ \A c \in Chunks : chunk'[c].status = "HEALING" => chunk[c].status = "HEALING"
  OBVIOUS
<1>3. RP!IInv'
  BY <1>1, <1>2, RP!OthersKeepIInv, StoreAssumption, KeysAssumption, PipelineAssumption
     DEF PipelineInv
<1>4. HP!IInv' /\ HP!CountInv'
  BY <1>1, <1>2, HP!OthersKeepIInv, HP!OthersKeepCountInv, StoreAssumption, KeysAssumption,
     PipelineAssumption, FinitelyManyHealers DEF PipelineInv
<1>5. \A d \in Deliveries : RP!RollupBacked(worker[d])'
  BY <1>2, VideosShown, RollupsStay DEF PipelineInv
<1>6. \A o \in Healers : HP!NeverAssembles(healer[o])'
  BY DEF PipelineInv, HP!NeverAssembles
<1>7. QED
  BY <1>3, <1>4, <1>5, <1>6

LEMMA ReapKeeps == PipelineInv /\ ReapNext => PipelineInv'
<1> SUFFICES ASSUME PipelineInv, ReapNext PROVE PipelineInv'
  OBVIOUS
<1>1. Reap!Next /\ UNCHANGED <<worker, healer, attempts, reviewer, approvedBy>>
  BY DEF ReapNext, reviewVars
<1>2. StoreTypeOK /\ ReaperSane /\ ReaperBacked
  BY Parts DEF PipelineInv
<1>3. StoreTypeOK' /\ ReaperSane'
  BY <1>1, <1>2, ReapType
<1>4. /\ UNCHANGED <<cache, store>> /\ dlq \subseteq dlq'
      /\ \A c \in Chunks :
           /\ chunk'[c].video = chunk[c].video
           /\ chunk'[c].status # "FAILED" => chunk'[c].status = chunk[c].status
      /\ \A h \in Codes : h \in locked => h \in locked'
  BY <1>1, <1>2, ReapRows
<1>5. \A j : AllShown(j) => AllShown(j)'
  BY <1>4, VideosShown
<1>6. /\ ReaperBacked'
      /\ \A j \in Jobs : job'[j].status \in Complete =>
           job[j].status \in Complete \/ AllShown(j)
  BY <1>1, <1>2, <1>5, Parts, ReapBacked
<1>7. ReviewBacked' /\ JobsBacked'
  BY <1>1, <1>5, <1>6, BackedStays DEF PipelineInv
<1>8. ReviewSane'
  BY <1>1 DEF PipelineInv, ReviewSane, Review!ReviewTypeOK
<1>9. QED
  BY <1>1, <1>3, <1>4, <1>6, <1>7, <1>8, WorkersUndisturbed DEF PipelineInv

LEMMA ReviewNextKeeps == PipelineInv /\ ReviewNext => PipelineInv'
<1> SUFFICES ASSUME PipelineInv, ReviewNext PROVE PipelineInv'
  OBVIOUS
<1>1. Review!Next /\ UNCHANGED <<worker, healer, attempts, reaper>>
  BY DEF ReviewNext
<1>2. UNCHANGED <<chunk, cache, store, locked>> /\ dlq \subseteq dlq'
  BY <1>1, ReviewRows
<1>3. \A j : AllShown(j) => AllShown(j)'
  BY <1>2, VideosShown
<1>4. /\ StoreTypeOK' /\ ReviewSane' /\ ReviewBacked'
      /\ \A j \in Jobs : job'[j].status \in Complete =>
           job[j].status \in Complete \/ AllShown(j)
      /\ \A j \in Jobs : approvedBy'[j] # None => approvedBy[j] # None \/ AllShown(j)
  BY <1>1, <1>3, Parts, ReviewKeeps DEF PipelineInv
<1>5. ReaperBacked' /\ JobsBacked'
  BY <1>1, <1>3, <1>4, BackedStays DEF PipelineInv
<1>6. ReaperSane'
  BY <1>1 DEF PipelineInv, ReaperSane, Reap!ReaperTypeOK
<1>7. QED
  BY <1>1, <1>2, <1>4, <1>5, <1>6, WorkersUndisturbed DEF PipelineInv

LEMMA NextKeeps == PipelineInv /\ [Next]_vars => PipelineInv'
<1> SUFFICES ASSUME PipelineInv, UNCHANGED vars PROVE PipelineInv'
  BY RenderKeeps, HealKeeps, ReapKeeps, ReviewNextKeeps DEF Next
<1>1. UNCHANGED <<chunk, job, cache, dlq, store, locked, worker, healer, attempts, reaper,
                  reviewer, approvedBy>>
  BY DEF vars
<1>2. StoreTypeOK'
  BY <1>1, Parts DEF StoreTypeOK
<1>3. \A j : AllShown(j) => AllShown(j)'
  BY <1>1, VideosShown
<1>4. ReaperBacked' /\ ReviewBacked' /\ JobsBacked'
  BY <1>1, <1>3, BackedStays DEF PipelineInv
<1>5. ReaperSane' /\ ReviewSane'
  BY <1>1 DEF PipelineInv, ReaperSane, Reap!ReaperTypeOK, ReviewSane, Review!ReviewTypeOK
<1>6. QED
  BY <1>1, <1>2, <1>4, <1>5, WorkersUndisturbed DEF PipelineInv
-----------------------------------------------------------------------------
(* The theorems.                                                           *)

(* The invariant holds however the actors interleave and whoever of them   *)
(* is cut short (the transactions of atomic_chunk_commit, mark_failed,     *)
(* start_healing, run_chunk_reaper and approve_video_part on the rows they *)
(* share).                                                                 *)
THEOREM Invariance == Spec => []PipelineInv
BY InitPipelineInv, NextKeeps, PTL DEF Spec

(* The daemon's locals keep their types in company of everybody else       *)
(* (run_chunk_reaper, aggregate_job_rollup).                               *)
THEOREM ReaperTypesHold == Spec => []ReaperTypeOK
<1>1. PipelineInv => ReaperTypeOK
  BY DEF PipelineInv, ReaperSane, ReaperTypeOK
<1>2. QED
  BY <1>1, Invariance, PTL

(* So do the reviewers' requests (approve_video_part, optimistic_update).  *)
THEOREM ReviewTypesHold == Spec => []ReviewTypeOK
<1>1. PipelineInv => ReviewTypeOK
  BY DEF PipelineInv, ReviewSane, ReviewTypeOK
<1>2. QED
  BY <1>1, Invariance, PTL

(* A job is ASSEMBLED, reviewed or approved only while all of its chunks   *)
(* have a video, although the counts its rollup rests on are taken in a    *)
(* statement of their own and the approval never looks at the status again *)
(* (aggregate_job_rollup, approve_video_part).                             *)
THEOREM AssembledJobsHaveVideos == Spec => []AssembledHasVideos
<1>1. PipelineInv => AssembledHasVideos
  BY StoreAssumption DEF PipelineInv, JobsBacked, AllShown, Complete, AssembledHasVideos
<1>2. QED
  BY <1>1, Invariance, PTL

(* What a worker acknowledged stays visible whatever healing workers,      *)
(* daemon and reviewers write afterwards (process_chunk_job).              *)
THEOREM AcknowledgedStaysVisible == Spec => []AckedHasVideo
<1>1. PipelineInv => AckedHasVideo
  BY DEF PipelineInv, RP!IInv, RP!Shown, RP!Succeeded, AckedHasVideo, Render!AckedHasVideo
<1>2. QED
  BY <1>1, Invariance, PTL

(* No chunk is forgotten in HEALING, with renderers and the daemon writing *)
(* the same row between the statements of an execution (heal_chunk_code).  *)
THEOREM HealingStaysOwned == Spec => []HealingIsOwned
<1>1. PipelineInv => HealingIsOwned
  BY DEF PipelineInv, HP!IInv, HP!Owned, HP!Heals, HP!DeadLettered, HealingIsOwned,
     Heal!HealingIsOwned, Heal!Live, Heal!Running
<1>2. QED
  BY <1>1, Invariance, PTL

(* A row of the asset cache names an uploaded video, and a chunk's video   *)
(* is in the cache, in the full company too (atomic_chunk_commit).         *)
THEOREM PublishedInCompany == Spec => [](Render!CacheBacked /\ Render!VideoPublished)
<1>1. \A c, h : RP!VideoKey(c, h) = Render!VideoKey(c, h)
  BY DEF RP!VideoKey, Render!VideoKey, RP!Pool, Render!Pool
<1>2. PipelineInv => Render!CacheBacked
  BY <1>1 DEF PipelineInv, RP!IInv, RP!CacheBacked, Render!CacheBacked
<1>3. PipelineInv => Render!VideoPublished
  BY DEF PipelineInv, RP!IInv, RP!VideoPublished, Render!VideoPublished
<1>4. QED
  BY <1>2, <1>3, Invariance, PTL

(* No step of anybody replaces or removes a cache row, or leaves a chunk   *)
(* without the video it showed: a player that was given one keeps it       *)
(* (atomic_chunk_commit, run_chunk_reaper, heal_chunk_code).               *)
NothingIsUnpublished ==
  [][/\ \A h \in Codes : cache[h] # None => cache'[h] = cache[h]
     /\ \A c \in Chunks : chunk[c].video # None => chunk'[c].video # None]_vars

THEOREM PublishedIsFinal == Spec => NothingIsUnpublished
<1> DEFINE Keeps == /\ \A h \in Codes : cache[h] # None => cache'[h] = cache[h]
                    /\ \A c \in Chunks : chunk[c].video # None => chunk'[c].video # None
<1>1. ASSUME PipelineInv, RenderNext PROVE Keeps
  <2>1. [RP!Next]_(RP!vars)
    BY <1>1, RenderSteps DEF RenderNext
  <2>2. RP!TypeOK /\ RP!PendingInserts /\ RP!ReadsPublished
    BY <1>1 DEF PipelineInv, RP!IInv
  <2>3. \A h \in Codes : cache[h] # None => cache'[h] = cache[h]
    BY <2>1, <2>2, RP!CacheGrows, StoreAssumption, KeysAssumption, PipelineAssumption
  <2>4. ASSUME NEW c \in Chunks, chunk[c].video # None PROVE chunk'[c].video # None
    BY <2>1, <2>2, <2>4, RP!VideoStays, StoreAssumption, KeysAssumption, PipelineAssumption
  <2>5. QED
    BY <2>3, <2>4
<1>2. ASSUME PipelineInv, HealNext PROVE Keeps
  <2>1. [HP!Next]_(HP!vars)
    BY <1>2, HealSteps DEF HealNext
  <2>2. UNCHANGED cache /\ \A c \in Chunks : chunk'[c].video = chunk[c].video
    BY <1>2, <2>1, Parts, HP!NextRows, StoreAssumption, KeysAssumption, PipelineAssumption,
       FinitelyManyHealers
  <2>3. QED
    BY <2>2
<1>3. ASSUME PipelineInv, ReapNext PROVE Keeps
  <2>1. StoreTypeOK /\ ReaperSane /\ Reap!Next
    BY <1>3, Parts DEF PipelineInv, ReapNext
  <2>2. UNCHANGED cache /\ \A c \in Chunks : chunk'[c].video = chunk[c].video
    BY <2>1, ReapRows
  <2>3. QED
    BY <2>2
<1>4. ASSUME ReviewNext PROVE Keeps
  <2>1. UNCHANGED <<chunk, cache>>
    BY <1>4, ReviewRows DEF ReviewNext
  <2>2. QED
    BY <2>1
<1>5. PipelineInv /\ [Next]_vars => [Keeps]_vars
  BY <1>1, <1>2, <1>3, <1>4 DEF Next
<1>6. QED
  BY <1>5, Invariance, PTL DEF Spec, NothingIsUnpublished

(* What the daemon has written of a job and not committed is ahead of the  *)
(* committed row, which is locked.                                         *)
ReaperAhead ==
  \A j \in Jobs : reaper.wrote[j] # None =>
    j \in locked /\ reaper.wrote[j].version > job[j].version

LEMMA AheadInCompany ==
  ASSUME StoreTypeOK, ReaperAhead, UNCHANGED reaper,
         \A j \in Jobs : job'[j] # job[j] => j \notin locked /\ job'[j].version = job[j].version + 1,
         \A j \in Jobs : j \in locked => j \in locked'
  PROVE  ReaperAhead' /\ \A j \in Jobs : job'[j] = job[j] \/ job'[j].version > job[j].version
<1>1. \A j \in Jobs : job[j].version \in Nat
  BY DEF StoreTypeOK, JobRow
<1>2. QED
  BY <1>1 DEF ReaperAhead

(* The daemon's own steps: an update goes on from the row it wrote before, *)
(* and the commit writes all of them.                                      *)
LEMMA ReapAhead ==
  ASSUME StoreTypeOK, ReaperSane, ReaperAhead, Reap!Next
  PROVE  ReaperAhead' /\ \A j \in Jobs : job'[j] = job[j] \/ job'[j].version > job[j].version
<1> DEFINE JobRows == \A j \in Jobs : job'[j] = job[j] \/ job'[j].version > job[j].version
<1>r. reaper \in ReaperRecord
  BY ReaperType DEF ReaperSane
<1>a. ASSUME NEW pc, NEW before, reaper' = Reap!Asleep(pc, before)
      PROVE  ReaperAhead'
  BY <1>a DEF Reap!Asleep, Reap!Nothing, ReaperAhead
<1>1. CASE Reap!UpdateParent
  <2> DEFINE x == JobOf[reaper.chunk]
             row == Reap!WithStatus(Reap!Current(x), reaper.target)
  <2>1. x \in Jobs
    BY <1>1, StoreAssumption DEF Reap!UpdateParent, ReaperSane
  <2>2. /\ Reap!Current(x) \in JobRow /\ Reap!Current(x).version >= job[x].version
    <3>1. Reap!Current(x) \in JobRow /\ job[x].version \in Nat
      BY <2>1, <1>r, CurrentType DEF StoreTypeOK, JobRow
    <3>2. QED
      BY <2>1, <3>1 DEF Reap!Current, Reap!Held, ReaperAhead, JobRow
  <2>3. row.version = Reap!Current(x).version + 1
    BY <2>2 DEF Reap!WithStatus, JobRow
  <2>4. row.version > job[x].version
    BY <2>1, <2>2, <2>3 DEF StoreTypeOK, JobRow
  <2>5. PICK kept : reaper' = [reaper EXCEPT !.pc = "next", !.wrote[x] = row, !.loaded[x] = kept]
    BY <1>1 DEF Reap!UpdateParent
  <2> HIDE DEF row
  <2>6. /\ reaper'.wrote[x] = row
        /\ \A j \in Jobs : j # x => reaper'.wrote[j] = reaper.wrote[j]
    BY <2>1, <2>5, <1>r DEF ReaperRecord
  <2>7. UNCHANGED job /\ locked' = locked \cup {x}
    BY <1>1 DEF Reap!UpdateParent
  <2>8. ReaperAhead'
    BY <2>4, <2>6, <2>7 DEF ReaperAhead
  <2>9. QED
    BY <2>7, <2>8
<1>2. CASE Reap!ParentExhausted \/ Reap!EndPass
  <2>1. Reap!Commit
    BY <1>2 DEF Reap!ParentExhausted, Reap!EndPass
  <2>2. ReaperAhead'
    BY <2>1, <1>a DEF Reap!Commit
  <2>3. JobRows
    BY <2>1 DEF Reap!Commit, Reap!Current, Reap!Held, ReaperAhead
  <2>4. QED
    BY <2>2, <2>3
<1>3. CASE Reap!Stop \/ \E aged \in SUBSET Chunks : Reap!Start(aged)
  <2>1. UNCHANGED job /\ \E pc, before : reaper' = Reap!Asleep(pc, before)
    BY <1>3 DEF Reap!Stop, Reap!Start, Reap!storeVars
  <2>2. QED
    BY <2>1, <1>a
<1>4. CASE \/ Reap!FindStuck \/ Reap!Reap \/ (\E c \in Chunks : Reap!CountChunks(c))
           \/ Reap!ReadParent \/ Reap!ParentConflict \/ Reap!RefreshParent
  <2>1. UNCHANGED <<job, locked>>
    BY <1>4 DEF Reap!storeVars, Reap!FindStuck, Reap!Reap, Reap!CountChunks, Reap!ReadParent,
       Reap!ParentConflict, Reap!RefreshParent
  <2>2. reaper'.wrote = reaper.wrote
    BY <1>4, <1>r DEF ReaperRecord, Reap!FindStuck, Reap!Reap, Reap!CountChunks,
       Reap!ReadParent, Reap!ParentConflict, Reap!RefreshParent
  <2>3. QED
    BY <2>1, <2>2 DEF ReaperAhead
<1>5. QED
  BY <1>1, <1>2, <1>3, <1>4 DEF Reap!Next, Reap!Step

LEMMA ReapVersions ==
  ASSUME Reap!Next
  PROVE  \A c \in Chunks :
           chunk'[c] # chunk[c] => Reap!Reap /\ chunk'[c] = [chunk[c] EXCEPT !.status = "FAILED"]
<1>1. CASE Reap!Reap
  <2>1. ASSUME NEW c \in Chunks
        PROVE  chunk'[c] = chunk[c] \/ chunk'[c] = [chunk[c] EXCEPT !.status = "FAILED"]
    BY <1>1 DEF Reap!Reap, Reap!Reaped
  <2>2. QED
    BY <1>1, <2>1
<1>2. CASE ~Reap!Reap
  <2>1. UNCHANGED chunk
    BY <1>2 DEF Reap!Next, Reap!Step, Reap!storeVars, Reap!Start, Reap!FindStuck,
       Reap!CountChunks, Reap!ReadParent, Reap!UpdateParent, Reap!ParentConflict,
       Reap!RefreshParent, Reap!ParentExhausted, Reap!EndPass, Reap!Stop
  <2>2. QED
    BY <2>1
<1>3. QED
  BY <1>1, <1>2

LEMMA ReviewVersions ==
  ASSUME StoreTypeOK, Review!Next
  PROVE  /\ UNCHANGED <<chunk, locked>>
         /\ \A j \in Jobs : job'[j] # job[j] => j \notin locked /\ job'[j].version = job[j].version + 1
<1>1. ASSUME NEW x, x \notin locked, NEW s,
             job' = [job EXCEPT ![x] = Review!WithStatus(job[x], s)]
      PROVE  \A j \in Jobs : job'[j] # job[j] => j \notin locked /\ job'[j].version = job[j].version + 1
  <2>1. ASSUME NEW j \in Jobs
        PROVE  Review!WithStatus(job[j], s).version = job[j].version + 1
    BY DEF StoreTypeOK, JobRow, Review!WithStatus
  <2>2. ASSUME NEW j \in Jobs
        PROVE  job'[j] = job[j] \/ (j = x /\ job'[j] = Review!WithStatus(job[j], s))
    BY <1>1 DEF StoreTypeOK
  <2>3. QED
    BY <1>1, <2>1, <2>2
<1>2. ASSUME NEW r \in Reviewers, NEW j \in Jobs, Review!SendToReview(r, j)
      PROVE  j \notin locked
             /\ job' = [job EXCEPT ![j] = Review!WithStatus(job[j], "REVIEW_GATE")]
  BY <1>2 DEF Review!SendToReview
<1>3. ASSUME NEW r \in Reviewers, Review!Approve(r)
      PROVE  LET j == reviewer[r].job IN
             j \notin locked /\ job' = [job EXCEPT ![j] = Review!WithStatus(job[j], "COMPLETED")]
  BY <1>3 DEF Review!Approve
<1>4. \/ \E r \in Reviewers, j \in Jobs : Review!SendToReview(r, j)
      \/ \E r \in Reviewers : Review!Approve(r)
      \/ UNCHANGED job
  BY DEF Review!Next, Review!Step, Review!storeVars, Review!Request, Review!Conflict,
     Review!Refresh, Review!Exhausted, Review!Interrupt
<1>5. QED
  BY <1>1, <1>2, <1>3, <1>4, ReviewRows

(* Every write of a row raises its version but for the daemon's flush,     *)
(* whoever overtakes whom (optimistic_update, run_chunk_reaper,            *)
(* aggregate_job_rollup).                                                  *)
THEOREM VersionsAlwaysGrow == Spec => RowsAreVersioned
<1> DEFINE ChunkRows == \A c \in Chunks :
             \/ chunk'[c] = chunk[c]
             \/ chunk'[c].version > chunk[c].version
             \/ Reap!Reap /\ chunk'[c] = [chunk[c] EXCEPT !.status = "FAILED"]
           JobRows == \A j \in Jobs : job'[j] = job[j] \/ job'[j].version > job[j].version
           Inv == PipelineInv /\ ReaperAhead
           Good == ChunkRows /\ JobRows
<1>v. PipelineInv => \A c \in Chunks : chunk[c].version \in Nat
  BY Parts DEF StoreTypeOK, ChunkRow
<1>1. Init => Inv
  <2>1. Init => \A j \in Jobs : reaper.wrote[j] = None
    BY DEF Init, Reap!ReaperInit, Reap!Asleep, Reap!Nothing
  <2>2. QED
    BY <2>1, InitPipelineInv DEF ReaperAhead
<1>2. ASSUME Inv, RenderNext PROVE ReaperAhead' /\ Good
  <2>1. [RP!Next]_(RP!vars) /\ UNCHANGED reaper /\ StoreTypeOK /\ RP!TypeOK
    BY <1>2, RenderSteps, Parts DEF RenderNext
  <2>2. /\ \A c \in Chunks : chunk'[c] = chunk[c] \/ chunk'[c].version = chunk[c].version + 1
        /\ \A j \in Jobs : job'[j] # job[j] => j \notin locked /\ job'[j].version = job[j].version + 1
        /\ \A j \in Jobs : j \in locked => j \in locked'
    BY <2>1, RP!NextVersions, StoreAssumption, KeysAssumption, PipelineAssumption
  <2>3. ReaperAhead' /\ JobRows
    BY <1>2, <2>1, <2>2, AheadInCompany
  <2>4. ChunkRows
    BY <1>2, <1>v, <2>2
  <2>5. QED
    BY <2>3, <2>4
<1>3. ASSUME Inv, HealNext PROVE ReaperAhead' /\ Good
  <2>1. [HP!Next]_(HP!vars) /\ UNCHANGED reaper /\ StoreTypeOK /\ HP!TypeInv
    BY <1>3, HealSteps, Parts DEF HealNext
  <2>2. /\ \A c \in Chunks : chunk'[c] = chunk[c] \/ chunk'[c].version = chunk[c].version + 1
        /\ \A j \in Jobs : job'[j] # job[j] => j \notin locked /\ job'[j].version = job[j].version + 1
        /\ \A j \in Jobs : j \in locked => j \in locked'
    BY <2>1, HP!NextVersions, StoreAssumption, KeysAssumption, PipelineAssumption,
       FinitelyManyHealers
  <2>3. ReaperAhead' /\ JobRows
    BY <1>3, <2>1, <2>2, AheadInCompany
  <2>4. ChunkRows
    BY <1>3, <1>v, <2>2
  <2>5. QED
    BY <2>3, <2>4
<1>4. ASSUME Inv, ReapNext PROVE ReaperAhead' /\ Good
  <2>1. StoreTypeOK /\ ReaperSane /\ Reap!Next
    BY <1>4, Parts DEF PipelineInv, ReapNext
  <2>2. QED
    BY <1>4, <2>1, ReapAhead, ReapVersions
<1>5. ASSUME Inv, ReviewNext PROVE ReaperAhead' /\ Good
  <2>1. StoreTypeOK /\ Review!Next /\ UNCHANGED reaper
    BY <1>5, Parts DEF ReviewNext
  <2>2. ReaperAhead' /\ JobRows /\ UNCHANGED chunk
    BY <1>5, <2>1, ReviewVersions, AheadInCompany
  <2>3. QED
    BY <2>2
<1>6. ASSUME Inv, UNCHANGED vars PROVE ReaperAhead'
  BY <1>6 DEF vars, ReaperAhead
<1>7. Inv /\ [Next]_vars => Inv' /\ [Good]_vars
  BY <1>2, <1>3, <1>4, <1>5, <1>6, NextKeeps DEF Next
<1>8. QED
  BY <1>1, <1>7, PTL DEF Spec, RowsAreVersioned

(* A healing execution that fails has dead-lettered its chunk, and no      *)
(* chunk is healed more often than its budget and the overlapping          *)
(* executions allow, in the full company too (heal_chunk_code,             *)
(* record_healing_failure).                                                *)
THEOREM HealingInCompany == Spec => [](Heal!FailureIsEscalated /\ Heal!AttemptsBounded)
<1>1. PipelineInv => Heal!FailureIsEscalated
  BY DEF PipelineInv, HP!IInv, HP!Escalated, HP!MustBeDeadLettered, HP!DeadLettered,
     Heal!FailureIsEscalated
<1>2. PipelineInv => Heal!AttemptsBounded
  <2>1. PipelineInv => HP!AttemptsBounded
    BY HP!CountBounds, StoreAssumption, KeysAssumption, PipelineAssumption,
       FinitelyManyHealers DEF PipelineInv
  <2>2. \A S : Heal!Cardinality(S) = HP!Cardinality(S)
    BY DEF Heal!Cardinality, HP!Cardinality
  <2>3. \A c : Heal!AttemptsOf(c) = HP!AttemptsOf(c)
    BY DEF Heal!AttemptsOf, HP!AttemptsOf
  <2>4. QED
    BY <2>1, <2>2, <2>3 DEF HP!AttemptsBounded, Heal!AttemptsBounded
<1>3. QED
  BY <1>1, <1>2, Invariance, PTL
=============================================================================
