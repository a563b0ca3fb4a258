---------------------------- MODULE MCApiProcess ----------------------------
(* The API process with a few jobs, and a repair agent that may break an   *)
(* item in each way the judge looks for.                                   *)
EXTENDS ApiProcess

ThreeItems == [q \in QuizJobs |-> 3]

AnyRepair ==
  {Sound, [Sound EXCEPT !.choices = 3], [Sound EXCEPT !.listed = FALSE],
   [Sound EXCEPT !.explanation = FALSE]}
=============================================================================
