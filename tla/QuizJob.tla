------------------------------- MODULE QuizJob -------------------------------
(***************************************************************************)
(* Quiz generation: POST /api/quiz/generate and its background task        *)
(* run_quiz_generation_job (api/quiz_routes.py), which takes each item     *)
(* through the creator, the judge and the repair agent of                  *)
(* core/quiz_pipeline.py.  Costs are in millionths of a dollar.            *)
(*                                                                         *)
(*   quizJob[q]     the row of quiz_jobs, or None                          *)
(*   quizItems[q]   the rows of quiz_items of the job, in order            *)
(*   quizTask[q]    the background task's locals: where it is, the item    *)
(*                  under way with its attempts and total_item_cost, and   *)
(*                  generated_items with total_cost_usd                    *)
(***************************************************************************)
EXTENDS Integers, Sequences, SequencesExt, Transactions

CONSTANTS
  QuizJobs,      \* the jobs that may be requested
  NumItems,      \* [QuizJobs -> 1..20]: payload.num_items
  Repaired       \* what the repair agent may return

VARIABLES quizJob, quizItems, quizTask

quizVars == <<quizJob, quizItems, quizTask>>

(* What the judge tells apart: the number of choices, whether the answer   *)
(* is one of them, whether the texts are there.                            *)
Item == [choices: {3, 4}, listed: BOOLEAN, question: BOOLEAN, explanation: BOOLEAN]

QuizStatus == {"pending", "generating", "completed", "failed"}

QuizRow == [status: QuizStatus, cost: Nat]

(* Every generator writes a question.                                      *)
ASSUME QuizAssumption ==
  /\ NumItems \in [QuizJobs -> Nat \ {0}]
  /\ Repaired \subseteq {r \in Item : r.question}
  /\ None \notin QuizRow

FinalItem == [item: Item, cost: Nat, attempts: 1 .. 3]

QuizRunning == {"start", "create", "judge", "repair", "finish", "persist", "record"}

(* Ways to end that leave the row as it was last written.                  *)
QuizAbandoned == {"unscheduled", "unstarted", "unrecorded", "killed"}

QuizLive(q) == quizTask[q].pc \in QuizRunning

-----------------------------------------------------------------------------
(* The agents.                                                             *)

Tokens(input, inputRate, output, outputRate) == input * inputRate + output * outputRate

CreatorCost(faulty) == Tokens(250, 3, IF faulty THEN 120 ELSE 150, 15)

(* The judge's rates are in halves of a millionth.                         *)
JudgeCost == Tokens(300, 3, 50, 12) \div 2

RepairCost == Tokens(350, 3, 160, 15)

(* The pre-baked and the generated items alike.                            *)
Sound == [choices |-> 4, listed |-> TRUE, question |-> TRUE, explanation |-> TRUE]

(* A faulty item keeps three choices, perhaps without the answer.          *)
Created(faulty) ==
  IF faulty THEN {[Sound EXCEPT !.choices = 3, !.listed = b] : b \in BOOLEAN} ELSE {Sound}

Passes(item) == item.choices = 4 /\ item.listed /\ item.question /\ item.explanation

(* Mutant of Fallback: the answer is kept from before.                     *)
FallbackChoices(item) == [item EXCEPT !.choices = 4, !.explanation = TRUE]

Fallback(item) == [item EXCEPT !.choices = 4, !.listed = TRUE, !.explanation = TRUE]

Final(item) == IF Passes(item) THEN item ELSE Fallback(item)

-----------------------------------------------------------------------------
NewTask(pc) ==
  [pc |-> pc, item |-> Sound, attempts |-> 1, cost |-> 0, items |-> <<>>, total |-> 0]

TaskBecomes(q, task) == quizTask' = [quizTask EXCEPT ![q] = task]

GoesTo(q, pc) == TaskBecomes(q, [quizTask[q] EXCEPT !.pc = pc])

(* The row is committed; then the response may fail, in refresh or when it *)
(* is serialised, and the task with it.                                    *)
RequestQuiz(q) ==
  /\ quizJob[q] = None
  /\ quizJob' = [quizJob EXCEPT ![q] = [status |-> "pending", cost |-> 0]]
  /\ \E pc \in {"start", "unscheduled"} : TaskBecomes(q, NewTask(pc))
  /\ UNCHANGED quizItems

StartQuiz(q) ==
  /\ quizTask[q].pc = "start"
  /\ quizJob' = [quizJob EXCEPT ![q].status = "generating"]
  /\ GoesTo(q, "create")
  /\ UNCHANGED quizItems

StartQuizFails(q) ==
  /\ quizTask[q].pc = "start"
  /\ \E row \in WrittenOrNot(quizJob[q], [quizJob[q] EXCEPT !.status = "generating"]) :
       quizJob' = [quizJob EXCEPT ![q] = row]
  /\ GoesTo(q, "unstarted")
  /\ UNCHANGED quizItems

(* The first item is made faulty, to be healed.                            *)
Create(q) ==
  LET task == quizTask[q] faulty == task.items = <<>> IN
  /\ task.pc = "create"
  /\ \E item \in Created(faulty) :
       TaskBecomes(q, [task EXCEPT !.pc = "judge", !.item = item, !.attempts = 1,
                         !.cost = CreatorCost(faulty)])
  /\ UNCHANGED <<quizJob, quizItems>>

(* Mutant of Judge: only the first judgement is charged for.               *)
JudgeOnce(q) ==
  LET task == quizTask[q] IN
  /\ task.pc = "judge"
  /\ TaskBecomes(q, [task EXCEPT
       !.pc = IF ~Passes(task.item) /\ task.attempts < 3 THEN "repair" ELSE "finish",
       !.cost = IF task.attempts = 1 THEN @ + JudgeCost ELSE @])
  /\ UNCHANGED <<quizJob, quizItems>>

(* Mutant of Judge: the loop's condition is off by one.                    *)
JudgeFour(q) ==
  LET task == quizTask[q] IN
  /\ task.pc = "judge"
  /\ TaskBecomes(q, [task EXCEPT
       !.pc = IF ~Passes(task.item) /\ task.attempts <= 3 THEN "repair" ELSE "finish",
       !.cost = @ + JudgeCost])
  /\ UNCHANGED <<quizJob, quizItems>>

Judge(q) ==
  LET task == quizTask[q] IN
  /\ task.pc = "judge"
  /\ TaskBecomes(q, [task EXCEPT
       !.pc = IF ~Passes(task.item) /\ task.attempts < 3 THEN "repair" ELSE "finish",
       !.cost = @ + JudgeCost])
  /\ UNCHANGED <<quizJob, quizItems>>

Repair(q) ==
  LET task == quizTask[q] IN
  /\ task.pc = "repair"
  /\ \E item \in Repaired :
       TaskBecomes(q, [task EXCEPT !.pc = "judge", !.item = item, !.attempts = @ + 1,
                         !.cost = @ + RepairCost])
  /\ UNCHANGED <<quizJob, quizItems>>

(* The item goes to generated_items, and the loop to the next index.       *)
FinishItem(q) ==
  LET task == quizTask[q]
      items == Append(task.items, [item |-> Final(task.item), cost |-> task.cost,
                                   attempts |-> task.attempts])
  IN /\ task.pc = "finish"
     /\ TaskBecomes(q, [task EXCEPT
          !.pc = IF Len(items) < NumItems[q] THEN "create" ELSE "persist",
          !.items = items, !.total = @ + task.cost])
     /\ UNCHANGED <<quizJob, quizItems>>

Completed(q) == [status |-> "completed", cost |-> quizTask[q].total]

(* Mutant of Persist: the items are added, the job is not updated.         *)
PersistItems(q) ==
  /\ quizTask[q].pc = "persist"
  /\ quizItems' = [quizItems EXCEPT ![q] = quizTask[q].items]
  /\ GoesTo(q, "returned")
  /\ UNCHANGED quizJob

(* All items and the row, in one transaction.                              *)
Persist(q) ==
  /\ quizTask[q].pc = "persist"
  /\ quizJob' = [quizJob EXCEPT ![q] = Completed(q)]
  /\ quizItems' = [quizItems EXCEPT ![q] = quizTask[q].items]
  /\ GoesTo(q, "returned")

PersistFails(q) ==
  /\ quizTask[q].pc = "persist"
  /\ \/ UNCHANGED <<quizJob, quizItems>>
     \/ /\ LostReplies
        /\ quizJob' = [quizJob EXCEPT ![q] = Completed(q)]
        /\ quizItems' = [quizItems EXCEPT ![q] = quizTask[q].items]
  /\ GoesTo(q, "record")

RecordFailure(q) ==
  /\ quizTask[q].pc = "record"
  /\ quizJob' = [quizJob EXCEPT ![q].status = "failed"]
  /\ GoesTo(q, "returned")
  /\ UNCHANGED quizItems

RecordFailureFails(q) ==
  /\ quizTask[q].pc = "record"
  /\ \E row \in WrittenOrNot(quizJob[q], [quizJob[q] EXCEPT !.status = "failed"]) :
       quizJob' = [quizJob EXCEPT ![q] = row]
  /\ GoesTo(q, "unrecorded")
  /\ UNCHANGED quizItems

(* The process ends, and its background tasks with it.                     *)
KillQuizTasks ==
  /\ quizTask' = [q \in QuizJobs |->
       IF QuizLive(q) THEN [quizTask[q] EXCEPT !.pc = "killed"] ELSE quizTask[q]]
  /\ UNCHANGED <<quizJob, quizItems>>

QuizInit ==
  /\ quizJob = [q \in QuizJobs |-> None]
  /\ quizItems = [q \in QuizJobs |-> <<>>]
  /\ quizTask = [q \in QuizJobs |-> NewTask("idle")]

QuizStep(q) ==
  \/ StartQuiz(q) \/ StartQuizFails(q) \/ Create(q) \/ Judge(q) \/ Repair(q)
  \/ FinishItem(q) \/ Persist(q) \/ PersistFails(q)
  \/ RecordFailure(q) \/ RecordFailureFails(q)

QuizNext == (\E q \in QuizJobs : RequestQuiz(q) \/ QuizStep(q)) \/ KillQuizTasks

QuizSpec == QuizInit /\ [][QuizNext]_quizVars

-----------------------------------------------------------------------------
(* Properties.                                                             *)

QuizTask ==
  [pc: {"idle", "returned"} \cup QuizRunning \cup QuizAbandoned, item: Item,
   attempts: 1 .. 3, cost: Nat, items: Seq(FinalItem), total: Nat]

(* Rows, items and the task's locals have values of their types, among     *)
(* which the number of attempts: judge and repair take turns three times   *)
(* at most (run_quiz_item_pipeline).                                       *)
QuizTypeOK ==
  /\ quizJob \in [QuizJobs -> QuizRow \cup {None}]
  /\ quizItems \in [QuizJobs -> Seq(FinalItem)]
  /\ quizTask \in [QuizJobs -> QuizTask]

(* Whatever the repair agent returns, no stored item would fail the judge  *)
(* (the fallback at the end of run_quiz_item_pipeline).                    *)
StoredItemsPass ==
  \A q \in QuizJobs : \A n \in 1 .. Len(quizItems[q]) : Passes(quizItems[q][n].item)

(* The price of an item that took so many attempts.                        *)
PriceOf(faulty, attempts) ==
  CreatorCost(faulty) + attempts * JudgeCost + (attempts - 1) * RepairCost

(* A job has all of its items or none, each at the price of its attempts;  *)
(* they add up to the job's total_cost, which a job without items has not. *)
(* A completed job has them (the atomic transaction, the cost tracking of  *)
(* three agents over the loop and its rounds).                             *)
CostsAddUp ==
  \A q \in QuizJobs :
    LET items == quizItems[q] IN
    /\ Len(items) \in {0, NumItems[q]}
    /\ \A n \in 1 .. Len(items) : items[n].cost = PriceOf(n = 1, items[n].attempts)
    /\ quizJob[q] # None =>
         /\ quizJob[q].cost = FoldLeft(LAMBDA sum, x : sum + x.cost, 0, items)
         /\ quizJob[q].status = "completed" => items # <<>>

(* A job that says pending or generating has a task at work on it, or one  *)
(* that ended in one of four ways: its response or its first or its last   *)
(* write failed, or the process went away (run_quiz_generation_job).       *)
QuizIsOwned ==
  \A q \in QuizJobs :
    quizJob[q] # None /\ quizJob[q].status \in {"pending", "generating"} =>
      QuizLive(q) \/ quizTask[q].pc \in QuizAbandoned
=============================================================================
