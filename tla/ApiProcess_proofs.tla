------------------------- MODULE ApiProcess_proofs -------------------------
(***************************************************************************)
(* The API process runs its background tasks as their modules specify, so  *)
(* what is proved of quiz and chemistry jobs alone holds of it: for any    *)
(* jobs of both kinds, through any number of restarts.                     *)
(***************************************************************************)
EXTENDS ApiProcess, QuizJob_proofs, ChemistryJob_proofs

LEMMA StepIsTheirs ==
  ASSUME [Next]_vars PROVE [QuizNext]_quizVars /\ [VideoNext]_videoVars
<1>1. ASSUME NEW q \in QuizJobs, QuizRequest(q) \/ QuizTurn(q)
      PROVE  QuizNext /\ UNCHANGED videoVars
  BY <1>1 DEF QuizRequest, QuizTurn, QuizNext
<1>2. ASSUME NEW v \in Videos, VideoRequest(v) \/ VideoTurn(v) \/ ThreadTurn(v)
      PROVE  VideoNext /\ UNCHANGED quizVars
  BY <1>2 DEF VideoRequest, VideoTurn, ThreadTurn, VideoNext
<1>3. CASE Shutdown
  BY <1>3 DEF Shutdown, QuizNext, VideoNext
<1>4. CASE Startup
  BY <1>4 DEF Startup
<1>5. CASE UNCHANGED vars
  BY <1>5 DEF vars, quizVars, videoVars
<1> QED
  BY <1>1, <1>2, <1>3, <1>4, <1>5 DEF Next

(* The process implements the specification of quiz jobs and that of       *)
(* chemistry jobs: sharing an event loop and a process does nothing to     *)
(* either that it does not allow for (main.py, quiz_routes.py,             *)
(* chemistry_routes.py).                                                   *)
THEOREM ProcessImplementsJobs == Spec => QuizSpec /\ VideoSpec
<1>1. Init => QuizInit /\ VideoInit
  BY DEF Init
<1>2. [Next]_vars => [QuizNext]_quizVars /\ [VideoNext]_videoVars
  BY StepIsTheirs
<1> QED
  BY <1>1, <1>2, PTL DEF Spec, QuizSpec, VideoSpec

(* Rows, items and locals of quiz jobs keep their types; an item is judged *)
(* three times at most (run_quiz_item_pipeline).                           *)
THEOREM QuizTypes == Spec => []QuizTypeOK
<1>1. QuizInv => QuizTypeOK
  BY QuizInv_Properties
<1> QED
  BY <1>1, ProcessImplementsJobs, QuizInvariance, PTL

(* No stored item would fail the judge, whatever the repair agent returns  *)
(* (the fallback of run_quiz_item_pipeline).                               *)
THEOREM StoredItemsAlwaysPass == Spec => []StoredItemsPass
<1>1. QuizInv => StoredItemsPass
  BY QuizInv_Properties
<1> QED
  BY <1>1, ProcessImplementsJobs, QuizInvariance, PTL

(* A job has all of its items or none, each at the price of the calls its  *)
(* attempts took, and they add up to the job's total_cost, for any number  *)
(* of items (run_quiz_item_pipeline, run_quiz_generation_job).             *)
THEOREM CostsAlwaysAddUp == Spec => []CostsAddUp
<1>1. CostInv => CostsAddUp
  BY CostInv_Property
<1> QED
  BY <1>1, ProcessImplementsJobs, CostInvariance, PTL

(* An unfinished quiz job has a task at work, or one that ended in a way   *)
(* QuizAbandoned lists (run_quiz_generation_job).                          *)
THEOREM QuizAlwaysOwned == Spec => []QuizIsOwned
<1>1. QuizInv => QuizIsOwned
  BY QuizInv_Properties
<1> QED
  BY <1>1, ProcessImplementsJobs, QuizInvariance, PTL

(* Rows, files and locals of chemistry jobs keep their types, the number   *)
(* of attempts among them (run_generation_job).                            *)
THEOREM ChemistryTypes == Spec => []ChemistryTypeOK
<1>1. VideoInv => ChemistryTypeOK
  BY VideoInv_Properties
<1> QED
  BY <1>1, ProcessImplementsJobs, VideoInvariance, PTL

(* A done job has its complete file, unless its task has gone on to        *)
(* another attempt after a lost reply (run_generation_job).                *)
THEOREM DoneIsAlwaysPlayable == Spec => []DoneIsPlayable
<1>1. VideoInv => DoneIsPlayable
  BY VideoInv_Properties
<1> QED
  BY <1>1, ProcessImplementsJobs, VideoInvariance, PTL

(* An unfinished chemistry job has a task at work, or one that ended in a  *)
(* way VideoAbandoned lists (run_generation_job).                          *)
THEOREM VideoAlwaysOwned == Spec => []VideoIsOwned
<1>1. VideoInv => VideoIsOwned
  BY VideoInv_Properties
<1> QED
  BY <1>1, ProcessImplementsJobs, VideoInvariance, PTL
=============================================================================
