------------------------------ MODULE Splitter ------------------------------
(***************************************************************************)
(* split_narration_into_chunks of orchestration/semantic_splitter.py: cuts *)
(* a narration, given as the aligned words of a transcript, into chunks.   *)
(* One step is one pass of its loop.  Times are numbers of a unit in which *)
(* all of them are whole; the runs use tenths of a second.                 *)
(*                                                                         *)
(*   words    word_alignments, with the start and the end of each word     *)
(*   i        the word the loop is at                                      *)
(*   first    the first word of current_chunk, which is words first..i-1;  *)
(*            chunk_start_time is its start                                *)
(*   chunks   the chunks that are closed, as ranges of words               *)
(***************************************************************************)
EXTENDS Integers, Sequences

CONSTANTS
  Narrations,   \* the narrations to split
  Target,       \* settings.CHUNK_TARGET_DURATION_S
  HardCap,      \* settings.CHUNK_HARD_CAP_DURATION_S
  Grace,        \* settings.CHUNK_WORD_BOUNDARY_GRACE_S
  SilenceGap,   \* the gap of a natural split
  GraceGap      \* the gap that is worth waiting for beyond the hard cap

VARIABLES words, i, first, chunks

vars == <<words, i, first, chunks>>

Word == [start: Nat, end: Nat]

ASSUME SplitterAssumption ==
  /\ Narrations \subseteq Seq(Word)
  /\ {Target, HardCap, Grace, SilenceGap, GraceGap} \subseteq Nat
  /\ Target <= HardCap
  /\ GraceGap <= SilenceGap

-----------------------------------------------------------------------------
(* chunk_elapsed of a chunk that starts with word f and ends with word k.  *)
Duration(f, k) == words[k].end - words[f].start

Elapsed(k) == Duration(first, k)

(* The silence between word k and the next one.                            *)
Gap(k) == words[k + 1].start - words[k].end

WithinGrace(k) == Elapsed(k) <= HardCap + Grace

NaturalSnap == Elapsed(i) >= Target /\ Gap(i) >= SilenceGap

(* Mutant of GapAhead: the look-ahead does not stop at the end of grace.   *)
GapFarAhead ==
  \E k \in i + 1 .. Len(words) - 1 : Gap(k) >= GraceGap

(* Mutant of GapAhead: any word within grace is worth waiting for.         *)
RoomAhead ==
  \E k \in i + 1 .. Len(words) - 1 : \A m \in i + 1 .. k : WithinGrace(m)

(* The look-ahead finds a gap before it comes to a word beyond grace.  It  *)
(* looks at no gap that follows the last word.                             *)
GapAhead ==
  \E k \in i + 1 .. Len(words) - 1 :
    /\ \A m \in i + 1 .. k : WithinGrace(m)
    /\ Gap(k) >= GraceGap

AtHardCap == Elapsed(i) >= HardCap /\ ~GapAhead

(* The third branch, tried where the hard cap has not been reached.        *)
BeyondGrace == Elapsed(i) < HardCap /\ Elapsed(i) >= HardCap + Grace

ShouldSplit ==
  /\ i < Len(words)
  /\ NaturalSnap \/ AtHardCap \/ BeyondGrace

-----------------------------------------------------------------------------
(* Mutant of Closed: the chunk is cut one word too late.                   *)
ClosedAfterNext == Append(chunks, [first |-> first, last |-> i + 1])

Closed == Append(chunks, [first |-> first, last |-> i])

(* The chunk ends with word i and the next one starts.                     *)
Split ==
  /\ i <= Len(words) /\ ShouldSplit
  /\ chunks' = Closed
  /\ first' = i + 1
  /\ i' = i + 1
  /\ UNCHANGED words

(* Mutant of Continue: a pass that does not split leaves the loop where it *)
(* was.                                                                    *)
ContinueWithout ==
  /\ i < Len(words) /\ ~ShouldSplit
  /\ UNCHANGED vars

Continue ==
  /\ i < Len(words) /\ ~ShouldSplit
  /\ i' = i + 1
  /\ UNCHANGED <<words, first, chunks>>

(* Mutant of Finish: what is left after the last split is dropped.         *)
FinishEmpty ==
  /\ i = Len(words)
  /\ first' = i + 1
  /\ i' = i + 1
  /\ UNCHANGED <<words, chunks>>

(* The last word closes the last chunk, whatever its length.               *)
Finish ==
  /\ i = Len(words)
  /\ chunks' = Closed
  /\ first' = i + 1
  /\ i' = i + 1
  /\ UNCHANGED words

Init ==
  /\ words \in Narrations
  /\ i = 1 /\ first = 1
  /\ chunks = <<>>

Next == Split \/ Continue \/ Finish

Spec == Init /\ [][Next]_vars /\ WF_vars(Next)

-----------------------------------------------------------------------------
(* Properties.                                                             *)

(* The loop variables are indices, and chunks ranges of words.             *)
SplitterTypeOK ==
  /\ words \in Seq(Word)
  /\ i \in 1 .. Len(words) + 1
  /\ first \in 1 .. i
  /\ chunks \in Seq([first: 1 .. Len(words), last: 1 .. Len(words)])

(* The chunks are the narration: in order, none empty, no word in two of   *)
(* them, and none lost when the loop is over (the append after the last    *)
(* word, the reset of current_chunk after the others).                     *)
ChunksPartition ==
  /\ \A n \in 1 .. Len(chunks) :
       /\ chunks[n].first = (IF n = 1 THEN 1 ELSE chunks[n - 1].last + 1)
       /\ chunks[n].first <= chunks[n].last
  /\ first = (IF chunks = <<>> THEN 1 ELSE chunks[Len(chunks)].last + 1)
  /\ i > Len(words) => first > Len(words)

(* Which word makes a chunk too long is known only once it is in it: every *)
(* chunk is within hard cap and grace, or was below the hard cap up to its *)
(* last word (the hard cap, its grace and the last word).                  *)
ChunksBounded ==
  \A n \in 1 .. Len(chunks) :
    LET f == chunks[n].first l == chunks[n].last IN
    \/ Duration(f, l) <= HardCap + Grace
    \/ l = f
    \/ Duration(f, l - 1) < HardCap

(* The bound that the plan sets for narrations without pauses: the hard    *)
(* cap, which the code tests when the word beyond it is in the chunk.      *)
ChunksWithinHardCap ==
  \A n \in 1 .. Len(chunks) : Duration(chunks[n].first, chunks[n].last) <= HardCap

(* No chunk but the last is shorter than the target, and the grace beyond  *)
(* the hard cap is used only to end at a gap: a look-ahead that promises a *)
(* gap is kept by the passes that follow.                                  *)
CutsAreMeant ==
  \A n \in 1 .. Len(chunks) :
    LET f == chunks[n].first l == chunks[n].last IN
    l < Len(words) =>
      /\ Duration(f, l) >= Target
      /\ f < l /\ Duration(f, l - 1) >= HardCap => Gap(l) >= GraceGap

(* Every word is looked at, and the loop ends (i += 1 on each path).       *)
SplitterEnds == <>(i > Len(words))
=============================================================================
