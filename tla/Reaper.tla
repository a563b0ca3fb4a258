------------------------------- MODULE Reaper -------------------------------
(***************************************************************************)
(* run_chunk_reaper of core/concurrency.py, the daemon that fails chunks   *)
(* stuck in RENDERING.  Nothing in the repository starts it: Start and     *)
(* Stop are whoever does.                                                  *)
(*                                                                         *)
(*   before[c]  the version up to which the chunk was last updated before  *)
(*              zombie_threshold, or 0.  The threshold is computed once,   *)
(*              when the daemon starts.                                    *)
(*   stuck      stuck_chunks        todo   those the rollup loop has left  *)
(*   chunk      the chunk of the loop      seen, target, expected, tries   *)
(*   wrote[j]   the row its open transaction has written for job j         *)
(*   loaded[j]  the VideoPartJob a rollup of the session has loaded: a     *)
(*              second rollup of the same job may get this object          *)
(***************************************************************************)
EXTENDS MediaStore

VARIABLE reaper

vars == <<chunk, job, cache, dlq, store, locked, reaper>>

AtWork == {"reap", "next", "parent", "rollup", "reread"}

Nothing == [j \in Jobs |-> None]

Asleep(pc, before) ==
  [pc |-> pc, before |-> before, stuck |-> {}, todo |-> {}, chunk |-> None, seen |-> {},
   target |-> "PENDING", expected |-> 0, tries |-> 0, wrote |-> Nothing, loaded |-> Nothing]

Held == {j \in Jobs : reaper.wrote[j] # None}

(* A job row as the daemon's transaction sees it.                          *)
Current(j) == IF j \in Held THEN reaper.wrote[j] ELSE job[j]

-----------------------------------------------------------------------------
(* Some chunks were last updated before the threshold.                     *)
Start(aged) ==
  /\ reaper.pc = "off"
  /\ reaper' = Asleep("asleep", [c \in Chunks |-> IF c \in aged THEN chunk[c].version ELSE 0])
  /\ UNCHANGED storeVars

(* Every write of optimistic_update sets updated_at, and bumps the version *)
(* for all to see; so a chunk is as old as the threshold only if its       *)
(* version is.                                                             *)
Zombies ==
  {c \in Chunks : chunk[c].status = "RENDERING" /\ chunk[c].version <= reaper.before[c]}

(* The SELECT of one pass; a pass that finds nothing does nothing.         *)
FindStuck ==
  /\ reaper.pc = "asleep" /\ Zombies # {}
  /\ reaper' = [reaper EXCEPT !.pc = "reap", !.stuck = Zombies]
  /\ UNCHANGED storeVars

(* Mutant of Reaped: the chunk is put back as if it had never been tried.  *)
Restarted(row) == [row EXCEPT !.status = "FAILED", !.video = None, !.audio = None]

(* The flush of chunk.status = FAILED: no version compared, none written.  *)
Reaped(row) == [row EXCEPT !.status = "FAILED"]

(* The commit of the marked chunks and their dead-letter entries.          *)
Reap ==
  /\ reaper.pc = "reap" /\ reaper.stuck \cap locked = {}
  /\ chunk' = [c \in Chunks |-> IF c \in reaper.stuck THEN Reaped(chunk[c]) ELSE chunk[c]]
  /\ dlq' = dlq \cup {[row |-> c, reason |-> "CRITICAL_ERROR"] : c \in reaper.stuck}
  /\ reaper' = [reaper EXCEPT !.pc = "next", !.todo = reaper.stuck]
  /\ UNCHANGED <<job, cache, store, locked>>

-----------------------------------------------------------------------------
(* The second transaction rolls up the job of each stuck chunk.            *)
CountChunks(c) ==
  /\ reaper.pc = "next" /\ c \in reaper.todo
  /\ reaper' = [reaper EXCEPT !.pc = "parent", !.chunk = c, !.todo = @ \ {c},
                  !.seen = {chunk[x].status : x \in Siblings(c)}]
  /\ UNCHANGED storeVars

(* The job row as a SELECT gives it: the session's identity map is weak,   *)
(* so that the object of an earlier rollup, as it was loaded, is handed    *)
(* back only if it is still there.                                         *)
Selected(j) == {Current(j)} \cup {row \in {reaper.loaded[j]} : row # None}

ReadParent ==
  LET j == JobOf[reaper.chunk] IN
  /\ reaper.pc = "parent"
  /\ \E row \in Selected(j) :
       LET target == RollupTarget(reaper.seen, row.status) IN
       reaper' = [reaper EXCEPT
         !.loaded[j] = row, !.target = target, !.expected = row.version, !.tries = 0,
         !.pc = IF target = row.status THEN "next" ELSE "rollup"]
  /\ UNCHANGED storeVars

(* Mutant of UpdateParent: the job's status is assigned and flushed, as    *)
(* the chunks' are, instead of updated with its version.                   *)
FlushParent ==
  LET j == JobOf[reaper.chunk] IN
  /\ reaper.pc = "rollup" /\ j \notin locked \ Held
  /\ locked' = locked \cup {j}
  /\ reaper' = [reaper EXCEPT !.pc = "next",
                  !.wrote[j] = [Current(j) EXCEPT !.status = reaper.target]]
  /\ UNCHANGED <<chunk, job, cache, dlq, store>>

(* As for a worker's chunk, an update that matched on a retry leaves the   *)
(* loaded object as it was, or not.                                        *)
UpdateParent ==
  LET j == JobOf[reaper.chunk]
      row == WithStatus(Current(j), reaper.target)
  IN /\ reaper.pc = "rollup" /\ j \notin locked \ Held
     /\ ~Conflicts(Current(j), reaper.expected)
     /\ locked' = locked \cup {j}
     /\ \E kept \in {row} \cup {r \in {reaper.loaded[j]} : reaper.tries > 0} :
          reaper' = [reaper EXCEPT !.pc = "next", !.wrote[j] = row, !.loaded[j] = kept]
     /\ UNCHANGED <<chunk, job, cache, dlq, store>>

ParentConflict ==
  /\ reaper.pc = "rollup" /\ Conflicts(Current(JobOf[reaper.chunk]), reaper.expected)
  /\ reaper.tries + 1 < MaxRetries
  /\ reaper' = [reaper EXCEPT !.pc = "reread", !.tries = @ + 1]
  /\ UNCHANGED storeVars

RefreshParent ==
  /\ reaper.pc = "reread"
  /\ reaper' = [reaper EXCEPT !.pc = "rollup",
                  !.expected = Current(JobOf[reaper.chunk]).version]
  /\ UNCHANGED storeVars

(* Mutant of Commit: the job rows stay locked.                             *)
CommitKeepingLocks ==
  /\ job' = [j \in Jobs |-> Current(j)]
  /\ reaper' = Asleep("asleep", reaper.before)
  /\ UNCHANGED locked

(* The transaction is over, and with it the pass.                          *)
Commit ==
  /\ job' = [j \in Jobs |-> Current(j)]
  /\ locked' = locked \ Held
  /\ reaper' = Asleep("asleep", reaper.before)

(* The dead-letter entry commits the rollups so far; the RuntimeError is   *)
(* logged, and the chunks that are left are not rolled up.                 *)
ParentExhausted ==
  LET j == JobOf[reaper.chunk] IN
  /\ reaper.pc = "rollup" /\ Conflicts(Current(j), reaper.expected)
  /\ reaper.tries + 1 = MaxRetries
  /\ dlq' = WithDLQ(j, "LOCK_CONTENTION")
  /\ Commit
  /\ UNCHANGED <<chunk, cache, store>>

EndPass ==
  /\ reaper.pc = "next" /\ reaper.todo = {}
  /\ Commit
  /\ UNCHANGED <<chunk, cache, dlq, store>>

(* The daemon is cancelled, or its process dies.                           *)
Stop ==
  /\ reaper.pc # "off"
  /\ reaper' = Asleep("off", [c \in Chunks |-> 0])
  /\ locked' = locked \ Held
  /\ UNCHANGED <<chunk, job, cache, dlq, store>>

ReaperInit == reaper = Asleep("off", [c \in Chunks |-> 0])

Step ==
  \/ FindStuck \/ Reap \/ (\E c \in Chunks : CountChunks(c)) \/ ReadParent
  \/ UpdateParent \/ ParentConflict \/ RefreshParent \/ ParentExhausted \/ EndPass

Next == (\E aged \in SUBSET Chunks : Start(aged)) \/ Step \/ Stop

-----------------------------------------------------------------------------
(* Properties.                                                             *)

(* The daemon's locals have values of their types (run_chunk_reaper).      *)
ReaperTypeOK ==
  reaper \in
    [pc: {"off", "asleep"} \cup AtWork, before: [Chunks -> Nat],
     stuck: SUBSET Chunks, todo: SUBSET Chunks, chunk: Chunks \cup {None},
     seen: SUBSET ChunkStatus, target: JobStatus, expected: Nat, tries: 0 .. MaxRetries,
     wrote: [Jobs -> JobRow \cup {None}], loaded: [Jobs -> JobRow \cup {None}]]
=============================================================================
