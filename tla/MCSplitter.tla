---------------------------- MODULE MCSplitter ----------------------------
(* Narrations of up to Words words, in tenths of a second, around the      *)
(* limits: an opening word that comes to the target, to just below the     *)
(* hard cap, to it or beyond its grace, and words and gaps that meet or    *)
(* miss the limits by one another.                                         *)
EXTENDS Splitter

CONSTANTS Words, Openings, Lengths, Gaps

Narration(opening, rest) ==
  LET end[n \in 0 .. Len(rest)] ==
        IF n = 0 THEN opening ELSE end[n - 1] + rest[n].gap + rest[n].length
  IN [n \in 1 .. Len(rest) + 1 |->
        [start |-> IF n = 1 THEN 0 ELSE end[n - 2] + rest[n - 1].gap, end |-> end[n - 1]]]

SmallNarrations ==
  {<<>>} \cup
  {Narration(o, r) : o \in Openings,
     r \in UNION {[1 .. n -> [gap: Gaps, length: Lengths]] : n \in 0 .. Words - 1}}

(* Narrations without pauses, of Words words of one length.                *)
DenseNarrations ==
  {[n \in 1 .. Words |-> [start |-> (n - 1) * l, end |-> n * l]] : l \in Lengths}
=============================================================================
