---------------------------- MODULE Transactions ----------------------------
(***************************************************************************)
(* The transactions of the API's background tasks: each opens a session of *)
(* its own, reads the job's row, changes it and commits.                   *)
(***************************************************************************)
CONSTANTS
  LostReplies,   \* may a commit be applied and its reply be lost?
  None           \* no row

ASSUME LostRepliesAssumption == LostReplies \in BOOLEAN

(* What a transaction leaves whose caller has got an exception.            *)
WrittenOrNot(row, new) == {row} \cup {r \in {new} : LostReplies}
=============================================================================
