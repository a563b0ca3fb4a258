--------------------------- MODULE ChunkLifecycle ---------------------------
(***************************************************************************)
(* What the render pipeline promises about a chunk, with no workers, locks *)
(* or versions: a code is rendered into an asset once, a chunk becomes     *)
(* RENDERED in the very step that publishes its asset or by reusing a      *)
(* published one, and RENDERED is final.  This is the Transaction Rule of  *)
(* core/concurrency.py (atomic_chunk_commit, lines 135-139) together with  *)
(* the idempotency gate of the workers.                                    *)
(***************************************************************************)
CONSTANTS Chunks, Codes, Videos, None

VARIABLES
  status,   \* [Chunks -> status]
  video,    \* [Chunks -> the video the chunk shows, or None]
  asset     \* [Codes -> the published video of that code, or None]

lcVars == <<status, video, asset>>

Init ==
  /\ status = [c \in Chunks |-> "PENDING"]
  /\ video = [c \in Chunks |-> None]
  /\ asset = [h \in Codes |-> None]

(* A worker starts, or starts over, a chunk that is not rendered.          *)
Start(c) ==
  /\ status[c] # "RENDERED"
  /\ status' = [status EXCEPT ![c] = "RENDERING"]
  /\ UNCHANGED <<video, asset>>

Publish(c, h, v) ==
  /\ status[c] = "RENDERING" /\ asset[h] = None
  /\ asset' = [asset EXCEPT ![h] = v]
  /\ status' = [status EXCEPT ![c] = "RENDERED"]
  /\ video' = [video EXCEPT ![c] = v]

(* Whatever became of the chunk, it can show an asset published before.    *)
Reuse(c, h) ==
  /\ asset[h] # None
  /\ status' = [status EXCEPT ![c] = "RENDERED"]
  /\ video' = [video EXCEPT ![c] = asset[h]]
  /\ UNCHANGED asset

Fail(c) ==
  /\ status[c] = "RENDERING"
  /\ status' = [status EXCEPT ![c] = "FAILED"]
  /\ UNCHANGED <<video, asset>>

Next ==
  \E c \in Chunks :
    \/ Start(c) \/ Fail(c)
    \/ \E h \in Codes : Reuse(c, h) \/ \E v \in Videos : Publish(c, h, v)

Spec == Init /\ [][Next]_lcVars
=============================================================================
