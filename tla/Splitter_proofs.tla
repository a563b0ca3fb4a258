--------------------------- MODULE Splitter_proofs ---------------------------
(***************************************************************************)
(* Theorems about the splitter, for narrations of any length, words of any *)
(* length and in any order, and any limits that SplitterAssumption allows. *)
(*                                                                         *)
(* ChunksBounded and CutsAreMeant speak of closed chunks; a pass that does *)
(* not split beyond the hard cap relies on a gap it has seen ahead.        *)
(* Promised says so of the open chunk.                                     *)
(***************************************************************************)
EXTENDS Splitter, TLAPS

(* Once the open chunk has reached the hard cap there is a gap ahead, up   *)
(* to which every word is within grace.                                    *)
Promised ==
  first < i /\ Elapsed(i - 1) >= HardCap =>
    \E k \in i .. Len(words) - 1 :
      /\ \A m \in i .. k : WithinGrace(m)
      /\ Gap(k) >= GraceGap

BoundedChunk(f, l) ==
  \/ Duration(f, l) <= HardCap + Grace
  \/ l = f
  \/ Duration(f, l - 1) < HardCap

MeantCut(f, l) ==
  l < Len(words) =>
    /\ Duration(f, l) >= Target
    /\ f < l /\ Duration(f, l - 1) >= HardCap => Gap(l) >= GraceGap

LEMMA TimesAreNumbers ==
  ASSUME SplitterTypeOK
  PROVE  /\ \A k \in 1 .. Len(words) : words[k].start \in Nat /\ words[k].end \in Nat
         /\ \A f, l \in 1 .. Len(words) : Duration(f, l) \in Int
         /\ \A k \in 1 .. Len(words) - 1 : Gap(k) \in Int
         /\ Len(words) \in Nat /\ i \in Nat /\ first \in Nat
<1>1. Len(words) \in Nat /\ words \in [1 .. Len(words) -> Word]
  BY DEF SplitterTypeOK
<1>2. \A k \in 1 .. Len(words) : words[k] \in Word
  BY <1>1
<1>3. \A k \in 1 .. Len(words) : words[k].start \in Nat /\ words[k].end \in Nat
  BY <1>2 DEF Word
<1>4. \A k \in 1 .. Len(words) - 1 : k \in 1 .. Len(words) /\ k + 1 \in 1 .. Len(words)
  BY <1>1
<1> QED
  BY <1>1, <1>3, <1>4 DEF Duration, Gap, SplitterTypeOK

LEMMA InitTypes == Init => SplitterTypeOK
  BY SplitterAssumption DEF Init, SplitterTypeOK

LEMMA NextTypes == SplitterTypeOK /\ [Next]_vars => SplitterTypeOK'
<1> DEFINE Range == [first: 1 .. Len(words), last: 1 .. Len(words)]
<1> SUFFICES ASSUME SplitterTypeOK, [Next]_vars PROVE SplitterTypeOK'
  OBVIOUS
<1>1. Len(words) \in Nat /\ i \in 1 .. Len(words) + 1 /\ first \in 1 .. i
  BY DEF SplitterTypeOK
<1>2. ASSUME i <= Len(words) PROVE Closed \in Seq(Range)
  <2>1. [first |-> first, last |-> i] \in Range
    BY <1>1, <1>2
  <2> QED
    BY <2>1 DEF Closed, SplitterTypeOK
<1>3. CASE Split
  BY <1>1, <1>2, <1>3 DEF Split, SplitterTypeOK
<1>4. CASE Continue
  BY <1>1, <1>4 DEF Continue, SplitterTypeOK
<1>5. CASE Finish
  BY <1>1, <1>2, <1>5 DEF Finish, SplitterTypeOK
<1>6. CASE UNCHANGED vars
  BY <1>6 DEF vars, SplitterTypeOK
<1> QED
  BY <1>3, <1>4, <1>5, <1>6 DEF Next

(* The variables of the loop keep their types                              *)
(* (split_narration_into_chunks).                                          *)
THEOREM TypeCorrect == Spec => []SplitterTypeOK
  BY InitTypes, NextTypes, PTL DEF Spec

-----------------------------------------------------------------------------
(* Each pass appends at most one chunk, first..i, and leaves the others.   *)
LEMMA Appended ==
  ASSUME SplitterTypeOK, Split \/ Finish
  PROVE  /\ words' = words /\ i' = i + 1 /\ first' = i + 1
         /\ Len(chunks') = Len(chunks) + 1
         /\ chunks'[Len(chunks) + 1] = [first |-> first, last |-> i]
         /\ \A n \in 1 .. Len(chunks) : chunks'[n] = chunks[n]
         /\ i \in 1 .. Len(words)
         /\ Len(chunks) \in Nat
<1> DEFINE Range == [first: 1 .. Len(words), last: 1 .. Len(words)]
<1>1. Len(words) \in Nat /\ i \in 1 .. Len(words) /\ first \in 1 .. i
  BY DEF Split, Finish, SplitterTypeOK
<1>2. words' = words /\ i' = i + 1 /\ first' = i + 1 /\ chunks' = Closed
  BY DEF Split, Finish
<1>3. chunks \in Seq(Range) /\ [first |-> first, last |-> i] \in Range
  BY <1>1 DEF SplitterTypeOK
<1> HIDE DEF Range
<1> QED
  BY <1>1, <1>2, <1>3 DEF Closed

LEMMA NextPartition ==
  SplitterTypeOK /\ ChunksPartition /\ [Next]_vars => ChunksPartition'
<1> SUFFICES ASSUME SplitterTypeOK, ChunksPartition, [Next]_vars PROVE ChunksPartition'
  OBVIOUS
<1>1. Len(words) \in Nat /\ i \in 1 .. Len(words) + 1 /\ first \in 1 .. i
  BY DEF SplitterTypeOK
<1>2. CASE Split \/ Finish
  <2> DEFINE m == Len(chunks) + 1
  <2>1. /\ words' = words /\ i' = i + 1 /\ first' = i + 1
        /\ Len(chunks') = m /\ chunks'[m] = [first |-> first, last |-> i]
        /\ \A n \in 1 .. Len(chunks) : chunks'[n] = chunks[n]
        /\ Len(chunks) \in Nat
    BY <1>2, Appended
  <2>2. ASSUME NEW n \in 1 .. m
        PROVE  /\ chunks'[n].first = (IF n = 1 THEN 1 ELSE chunks'[n - 1].last + 1)
               /\ chunks'[n].first <= chunks'[n].last
    <3>1. CASE n = m
      <4>1. chunks = <<>> <=> Len(chunks) = 0
        BY DEF SplitterTypeOK
      <4>2. n - 1 = Len(chunks)
        BY <3>1, <2>1
      <4>3. n # 1 => chunks'[n - 1] = chunks[Len(chunks)]
        BY <4>2, <2>1
      <4> QED
        BY <1>1, <2>1, <3>1, <4>1, <4>2, <4>3 DEF ChunksPartition
    <3>2. CASE n # m
      <4>1. n \in 1 .. Len(chunks) /\ (n # 1 => n - 1 \in 1 .. Len(chunks))
        BY <2>1, <3>2
      <4> QED
        BY <4>1, <2>1 DEF ChunksPartition
    <3> QED
      BY <3>1, <3>2
  <2>3. chunks' # <<>> /\ first' = chunks'[Len(chunks')].last + 1
    BY <2>1
  <2>4. i' > Len(words') => first' > Len(words')
    BY <2>1
  <2> QED
    BY <2>1, <2>2, <2>3, <2>4 DEF ChunksPartition
<1>3. CASE Continue
  BY <1>1, <1>3 DEF Continue, ChunksPartition
<1>4. CASE UNCHANGED vars
  BY <1>4 DEF vars, ChunksPartition
<1> QED
  BY <1>2, <1>3, <1>4 DEF Next

(* The chunks are the narration, in order and complete: the append after   *)
(* each split and after the last word (split_narration_into_chunks).       *)
THEOREM NothingIsLost == Spec => []ChunksPartition
<1>1. Init => ChunksPartition
  BY SplitterAssumption DEF Init, ChunksPartition
<1> QED
  BY <1>1, InitTypes, NextTypes, NextPartition, PTL DEF Spec

-----------------------------------------------------------------------------
LEMMA NextPromised ==
  SplitterTypeOK /\ Promised /\ [Next]_vars => Promised'
<1> SUFFICES ASSUME SplitterTypeOK, Promised, [Next]_vars PROVE Promised'
  OBVIOUS
<1>1. Len(words) \in Nat /\ i \in 1 .. Len(words) + 1 /\ first \in 1 .. i
  BY DEF SplitterTypeOK
<1>2. CASE Split \/ Finish
  <2>1. ~(first' < i')
    BY <1>1, <1>2, Appended
  <2> QED
    BY <2>1 DEF Promised
<1>3. CASE Continue
  <2>1. words' = words /\ first' = first /\ i' = i + 1 /\ i < Len(words)
    BY <1>3 DEF Continue
  <2>2. ASSUME Elapsed(i) >= HardCap PROVE GapAhead
    BY <1>3, <2>2 DEF Continue, ShouldSplit, AtHardCap
  <2>3. Elapsed(i - 1)' = Elapsed(i)
    <3>1. i' - 1 = i
      BY <1>1, <2>1
    <3> QED
      BY <2>1, <3>1 DEF Elapsed, Duration
  <2>4. /\ \A m \in i + 1 .. Len(words) : WithinGrace(m)' <=> WithinGrace(m)
        /\ \A k \in i + 1 .. Len(words) - 1 : Gap(k)' = Gap(k)
    BY <2>1 DEF WithinGrace, Elapsed, Duration, Gap
  <2>5. ASSUME Elapsed(i - 1)' >= HardCap
        PROVE  \E k \in i' .. Len(words)' - 1 :
                 (\A m \in i' .. k : WithinGrace(m)') /\ Gap(k)' >= GraceGap
    <3>1. PICK k \in i + 1 .. Len(words) - 1 :
            (\A m \in i + 1 .. k : WithinGrace(m)) /\ Gap(k) >= GraceGap
      BY <2>2, <2>3, <2>5 DEF GapAhead
    <3>2. k \in i' .. Len(words)' - 1 /\ Gap(k)' >= GraceGap
      BY <2>1, <2>4, <3>1
    <3>3. \A m \in i' .. k : WithinGrace(m)'
      BY <1>1, <2>1, <2>4, <3>1
    <3> QED
      BY <3>2, <3>3
  <2> QED
    BY <2>5 DEF Promised
<1>4. CASE UNCHANGED vars
  BY <1>4 DEF vars, Promised, WithinGrace, Elapsed, Duration, Gap
<1> QED
  BY <1>2, <1>3, <1>4 DEF Next

(* What the promise says of a chunk at the moment it is closed.            *)
LEMMA ClosedIsBounded ==
  ASSUME SplitterTypeOK, Promised, i <= Len(words) PROVE BoundedChunk(first, i)
<1>1. /\ Len(words) \in Nat /\ i \in 1 .. Len(words) /\ first \in 1 .. i
      /\ {HardCap, Grace} \subseteq Nat
  BY SplitterAssumption DEF SplitterTypeOK
<1>2. CASE first = i
  BY <1>2 DEF BoundedChunk
<1>3. CASE first < i
  <2>1. first \in 1 .. Len(words) /\ i - 1 \in 1 .. Len(words)
    BY <1>1, <1>3
  <2>2. Duration(first, i - 1) \in Int /\ Duration(first, i) \in Int
    BY <1>1, <2>1, TimesAreNumbers
  <2>3. CASE Duration(first, i - 1) < HardCap
    BY <2>3 DEF BoundedChunk
  <2>4. CASE Duration(first, i - 1) >= HardCap
    <3>1. PICK k \in i .. Len(words) - 1 : \A m \in i .. k : WithinGrace(m)
      BY <1>3, <2>4 DEF Promised, Elapsed
    <3>2. WithinGrace(i)
      BY <1>1, <3>1
    <3> QED
      BY <3>2 DEF BoundedChunk, WithinGrace, Elapsed
  <2> QED
    BY <1>1, <2>2, <2>3, <2>4
<1> QED
  BY <1>1, <1>2, <1>3

LEMMA ClosedIsMeant ==
  ASSUME SplitterTypeOK, Promised, Split PROVE MeantCut(first, i)
<1>1. /\ Len(words) \in Nat /\ i \in 1 .. Len(words) - 1 /\ first \in 1 .. i
      /\ {Target, HardCap, Grace, SilenceGap, GraceGap} \subseteq Nat
      /\ Target <= HardCap /\ GraceGap <= SilenceGap
  BY SplitterAssumption DEF SplitterTypeOK, Split, ShouldSplit
<1>2. Duration(first, i) \in Int /\ Gap(i) \in Int /\ i \in 1 .. Len(words)
  <2>1. first \in 1 .. Len(words) /\ i \in 1 .. Len(words)
    BY <1>1
  <2> QED
    BY <1>1, <2>1, TimesAreNumbers
<1>3. NaturalSnap \/ AtHardCap
  BY <1>1, <1>2 DEF Split, ShouldSplit, BeyondGrace, Elapsed
<1>4. Duration(first, i) >= Target
  BY <1>1, <1>2, <1>3 DEF NaturalSnap, AtHardCap, Elapsed
<1>5. ASSUME first < i, Duration(first, i - 1) >= HardCap PROVE Gap(i) >= GraceGap
  <2>1. PICK k \in i .. Len(words) - 1 :
          (\A m \in i .. k : WithinGrace(m)) /\ Gap(k) >= GraceGap
    BY <1>5 DEF Promised, Elapsed
  <2>2. CASE NaturalSnap
    BY <1>1, <1>2, <2>2 DEF NaturalSnap
  <2>3. CASE AtHardCap
    <3>1. ~(k \in i + 1 .. Len(words) - 1)
      BY <1>1, <2>1, <2>3 DEF AtHardCap, GapAhead
    <3>2. k = i
      BY <1>1, <3>1
    <3> QED
      BY <2>1, <3>2
  <2> QED
    BY <1>3, <2>2, <2>3
<1> QED
  BY <1>4, <1>5 DEF MeantCut

LEMMA FinishIsMeant ==
  ASSUME SplitterTypeOK, Finish PROVE MeantCut(first, i)
  BY DEF SplitterTypeOK, Finish, MeantCut

AllBounded == \A n \in 1 .. Len(chunks) : BoundedChunk(chunks[n].first, chunks[n].last)

AllMeant == \A n \in 1 .. Len(chunks) : MeantCut(chunks[n].first, chunks[n].last)

SplitterInv == SplitterTypeOK /\ Promised /\ AllBounded /\ AllMeant

LEMMA NextInv == SplitterInv /\ [Next]_vars => SplitterInv'
<1> SUFFICES ASSUME SplitterTypeOK, Promised, AllBounded, AllMeant, [Next]_vars
             PROVE  SplitterInv'
  BY DEF SplitterInv
<1>1. SplitterTypeOK' /\ Promised'
  BY NextTypes, NextPromised
<1>2. CASE Split \/ Finish
  <2>1. /\ words' = words /\ Len(chunks') = Len(chunks) + 1
        /\ chunks'[Len(chunks) + 1] = [first |-> first, last |-> i]
        /\ \A n \in 1 .. Len(chunks) : chunks'[n] = chunks[n]
        /\ i \in 1 .. Len(words) /\ Len(chunks) \in Nat
    BY <1>2, Appended
  <2>2. BoundedChunk(first, i)
    <3>1. i <= Len(words)
      BY <2>1 DEF SplitterTypeOK
    <3> QED
      BY <3>1, ClosedIsBounded
  <2>3. MeantCut(first, i)
    BY <1>2, ClosedIsMeant, FinishIsMeant
  <2>4. ASSUME NEW n \in 1 .. Len(chunks')
        PROVE  /\ BoundedChunk(chunks'[n].first, chunks'[n].last)
               /\ MeantCut(chunks'[n].first, chunks'[n].last)
    <3>1. n = Len(chunks) + 1 \/ n \in 1 .. Len(chunks)
      BY <2>1
    <3> QED
      BY <3>1, <2>1, <2>2, <2>3 DEF AllBounded, AllMeant
  <2> QED
    BY <1>1, <2>1, <2>4
       DEF SplitterInv, AllBounded, AllMeant, BoundedChunk, MeantCut, Duration, Gap
<1>3. CASE Continue \/ UNCHANGED vars
  <2>1. words' = words /\ chunks' = chunks
    BY <1>3 DEF Continue, vars
  <2> QED
    BY <1>1, <2>1
       DEF SplitterInv, AllBounded, AllMeant, BoundedChunk, MeantCut, Duration, Gap
<1> QED
  BY <1>2, <1>3 DEF Next

(* The inductive invariant: the two theorems below with the promise of the *)
(* look-ahead (split_narration_into_chunks, the loop over k).              *)
THEOREM Invariance == Spec => []SplitterInv
<1>1. Init => SplitterInv
  <2>1. Init => Promised /\ AllBounded /\ AllMeant
    BY DEF Init, Promised, AllBounded, AllMeant
  <2> QED
    BY <2>1, InitTypes DEF SplitterInv
<1> QED
  BY <1>1, NextInv, PTL DEF Spec

(* Every chunk is within hard cap and grace, or was below the hard cap up  *)
(* to its last word.                                                       *)
THEOREM ChunksAreBounded == Spec => []ChunksBounded
<1>1. SplitterInv => ChunksBounded
  BY DEF SplitterInv, AllBounded, BoundedChunk, ChunksBounded
<1> QED
  BY <1>1, Invariance, PTL

(* No chunk but the last is below the target, and grace is used only to    *)
(* end at a gap.                                                           *)
THEOREM CutsAreForGaps == Spec => []CutsAreMeant
<1>1. SplitterInv => CutsAreMeant
  BY DEF SplitterInv, AllMeant, MeantCut, CutsAreMeant
<1> QED
  BY <1>1, Invariance, PTL
=============================================================================
