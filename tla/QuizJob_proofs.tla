--------------------------- MODULE QuizJob_proofs ---------------------------
(***************************************************************************)
(* Theorems about quiz generation, for any number of jobs and of items in  *)
(* each, whatever the repair agent returns and whether replies are lost.   *)
(*                                                                         *)
(* A step changes one job's task, row and items, except the end of the     *)
(* process, which changes tasks only.  JobOK is the inductive invariant of *)
(* one job, and each action is shown to lead to values that satisfy it.    *)
(***************************************************************************)
EXTENDS QuizJob, WellFoundedInduction, TLAPS

AllPass(items) == \A n \in 1 .. Len(items) : Passes(items[n].item)

(* Types; a task at work has a row, a round left before each repair, an    *)
(* item with a question; what it has generated and what is stored pass; an *)
(* unfinished row has its task.                                            *)
JobOK(task, row, items) ==
  /\ task \in QuizTask /\ row \in QuizRow \cup {None} /\ items \in Seq(FinalItem)
  /\ task.pc \in QuizRunning => row \in QuizRow
  /\ task.pc = "repair" => task.attempts < 3
  /\ task.item.question
  /\ AllPass(task.items) /\ AllPass(items)
  /\ row # None /\ row.status \in {"pending", "generating"} =>
       task.pc \in QuizRunning \cup QuizAbandoned

QuizInv ==
  /\ quizJob \in [QuizJobs -> QuizRow \cup {None}]
  /\ quizItems \in [QuizJobs -> Seq(FinalItem)]
  /\ quizTask \in [QuizJobs -> QuizTask]
  /\ \A q \in QuizJobs : JobOK(quizTask[q], quizJob[q], quizItems[q])

(* The three values of job q become task, row and items.                   *)
Moves(q, task, row, items) ==
  /\ quizTask' = [quizTask EXCEPT ![q] = task]
  /\ quizJob' = [quizJob EXCEPT ![q] = row]
  /\ quizItems' = [quizItems EXCEPT ![q] = items]

MovesWell(q) ==
  \E task \in QuizTask, row \in QuizRow, items \in Seq(FinalItem) :
    Moves(q, task, row, items) /\ JobOK(task, row, items)

LEMMA Prices ==
  /\ \A b \in BOOLEAN : CreatorCost(b) \in Nat
  /\ JudgeCost \in Nat /\ RepairCost \in Nat
  BY DEF CreatorCost, JudgeCost, RepairCost, Tokens

LEMMA FinalPasses ==
  ASSUME NEW item \in Item, item.question PROVE Final(item) \in Item /\ Passes(Final(item))
  BY DEF Item, Final, Fallback, Passes

LEMMA MovingKeeps ==
  ASSUME QuizInv, NEW q \in QuizJobs, MovesWell(q) PROVE QuizInv'
<1>1. PICK task \in QuizTask, row \in QuizRow, items \in Seq(FinalItem) :
        Moves(q, task, row, items) /\ JobOK(task, row, items)
  BY DEF MovesWell
<1>2. ASSUME NEW p \in QuizJobs
      PROVE  JobOK(quizTask'[p], quizJob'[p], quizItems'[p])
  <2>1. CASE p = q
    BY <1>1, <2>1 DEF Moves, QuizInv
  <2>2. CASE p # q
    BY <1>1, <2>2 DEF Moves, QuizInv
  <2> QED
    BY <2>1, <2>2
<1> QED
  BY <1>1, <1>2 DEF Moves, QuizInv

LEMMA RequestMoves ==
  ASSUME QuizInv, NEW q \in QuizJobs, RequestQuiz(q) PROVE MovesWell(q)
<1> DEFINE row == [status |-> "pending", cost |-> 0]
<1>1. PICK pc \in {"start", "unscheduled"} : TaskBecomes(q, NewTask(pc))
  BY DEF RequestQuiz
<1>2. NewTask(pc) \in QuizTask /\ row \in QuizRow
  BY DEF NewTask, QuizTask, QuizRunning, QuizAbandoned, Sound, Item, QuizRow, QuizStatus
<1>3. quizItems[q] \in Seq(FinalItem) /\ AllPass(quizItems[q])
  BY DEF QuizInv, JobOK
<1>4. JobOK(NewTask(pc), row, quizItems[q])
  BY <1>2, <1>3 DEF JobOK, NewTask, AllPass, Sound, QuizRunning, QuizAbandoned
<1>5. Moves(q, NewTask(pc), row, quizItems[q])
  BY <1>1, <1>3 DEF Moves, RequestQuiz, TaskBecomes, QuizInv
<1> QED
  BY <1>2, <1>3, <1>4, <1>5 DEF MovesWell

(* Only the place of the task and the row change.                          *)
LEMMA PlaceMoves ==
  ASSUME QuizInv, NEW q \in QuizJobs, NEW pc, NEW row \in QuizRow,
         pc \in {"returned"} \cup (QuizRunning \ {"repair"}) \cup QuizAbandoned,
         pc = "returned" => row.status \notin {"pending", "generating"},
         GoesTo(q, pc), quizJob' = [quizJob EXCEPT ![q] = row], UNCHANGED quizItems
  PROVE  MovesWell(q)
<1> DEFINE task == [quizTask[q] EXCEPT !.pc = pc]
<1>1. JobOK(quizTask[q], quizJob[q], quizItems[q]) /\ quizTask[q] \in QuizTask
  BY DEF QuizInv
<1>2. task \in QuizTask
  BY <1>1 DEF QuizTask
<1>3. /\ task.pc = pc /\ task.item = quizTask[q].item /\ task.items = quizTask[q].items
  BY <1>1 DEF QuizTask
<1>4. JobOK(task, row, quizItems[q])
  <2>1. pc # "repair" /\ (pc = "returned" \/ pc \in QuizRunning \cup QuizAbandoned)
    BY DEF QuizAbandoned
  <2> HIDE DEF task
  <2> QED
    BY <2>1, <1>1, <1>2, <1>3 DEF JobOK
<1>5. Moves(q, task, row, quizItems[q])
  BY DEF Moves, GoesTo, TaskBecomes, QuizInv
<1>6. quizItems[q] \in Seq(FinalItem)
  BY DEF QuizInv
<1> QED
  BY <1>2, <1>4, <1>5, <1>6 DEF MovesWell

(* Only the task changes, and stays at work.                               *)
LEMMA TaskMoves ==
  ASSUME QuizInv, NEW q \in QuizJobs, NEW task \in QuizTask,
         QuizLive(q), task.pc \in QuizRunning, task.pc = "repair" => task.attempts < 3,
         task.item.question, AllPass(task.items),
         TaskBecomes(q, task), UNCHANGED <<quizJob, quizItems>>
  PROVE  MovesWell(q)
<1>1. quizJob[q] \in QuizRow /\ quizItems[q] \in Seq(FinalItem) /\ AllPass(quizItems[q])
  BY DEF QuizInv, JobOK, QuizLive
<1>2. JobOK(task, quizJob[q], quizItems[q])
  BY <1>1 DEF JobOK
<1>3. Moves(q, task, quizJob[q], quizItems[q])
  BY <1>1 DEF Moves, TaskBecomes, QuizInv
<1> QED
  BY <1>1, <1>2, <1>3 DEF MovesWell

LEMMA LiveFacts ==
  ASSUME QuizInv, NEW q \in QuizJobs, QuizLive(q)
  PROVE  /\ quizTask[q] \in QuizTask /\ quizJob[q] \in QuizRow
         /\ quizTask[q].pc = "repair" => quizTask[q].attempts < 3
         /\ quizTask[q].item \in Item /\ quizTask[q].item.question
         /\ AllPass(quizTask[q].items) /\ quizTask[q].items \in Seq(FinalItem)
  BY DEF QuizInv, JobOK, QuizLive, QuizTask

LEMMA WrittenIsARow ==
  ASSUME NEW row \in QuizRow, NEW new \in QuizRow PROVE WrittenOrNot(row, new) \subseteq QuizRow
  BY DEF WrittenOrNot

QuizPlaces == {"idle", "returned"} \cup QuizRunning \cup QuizAbandoned

WithItem(t, pc, item, attempts, cost) ==
  [t EXCEPT !.pc = pc, !.item = item, !.attempts = attempts, !.cost = cost]

WithCost(t, pc, cost) == [t EXCEPT !.pc = pc, !.cost = cost]

WithItems(t, pc, items, total) == [t EXCEPT !.pc = pc, !.items = items, !.total = total]

LEMMA ItemChanges ==
  ASSUME NEW t \in QuizTask, NEW pc \in QuizPlaces, NEW item \in Item,
         NEW attempts \in 1 .. 3, NEW cost \in Nat, NEW task,
         task = WithItem(t, pc, item, attempts, cost)
  PROVE  task \in QuizTask /\ task.pc = pc /\ task.item = item /\ task.items = t.items
  BY DEF QuizTask, QuizPlaces, WithItem

LEMMA JudgedChanges ==
  ASSUME NEW t \in QuizTask, NEW pc \in QuizPlaces, NEW cost \in Nat, NEW task,
         task = WithCost(t, pc, cost)
  PROVE  /\ task \in QuizTask /\ task.pc = pc /\ task.item = t.item
         /\ task.items = t.items /\ task.attempts = t.attempts
  BY DEF QuizTask, QuizPlaces, WithCost

LEMMA ListChanges ==
  ASSUME NEW t \in QuizTask, NEW pc \in QuizPlaces, NEW items \in Seq(FinalItem),
         NEW total \in Nat, NEW task, task = WithItems(t, pc, items, total)
  PROVE  task \in QuizTask /\ task.pc = pc /\ task.items = items /\ task.item = t.item
  BY DEF QuizTask, QuizPlaces, WithItems

LEMMA CreatedHasQuestion ==
  ASSUME NEW faulty \in BOOLEAN, NEW item \in Created(faulty)
  PROVE  item \in Item /\ item.question
<1>1. Sound \in Item /\ Sound.question
  BY DEF Sound, Item
<1>2. ASSUME NEW b \in BOOLEAN
      PROVE  LET i == [Sound EXCEPT !.choices = 3, !.listed = b] IN i \in Item /\ i.question
  BY <1>1 DEF Item
<1> QED
  BY <1>1, <1>2 DEF Created

LEMMA StartMoves ==
  ASSUME QuizInv, NEW q \in QuizJobs, StartQuiz(q) \/ StartQuizFails(q) PROVE MovesWell(q)
<1>1. QuizLive(q)
  BY DEF StartQuiz, StartQuizFails, QuizLive, QuizRunning
<1> DEFINE new == [quizJob[q] EXCEPT !.status = "generating"]
<1>2. quizJob[q] \in QuizRow /\ new \in QuizRow
  BY <1>1, LiveFacts DEF QuizRow, QuizStatus
<1>3. CASE StartQuiz(q)
  <2>1. quizJob' = [quizJob EXCEPT ![q] = new]
    BY <1>3 DEF StartQuiz
  <2>2. "create" \in QuizRunning \ {"repair"}
    BY DEF QuizRunning
  <2> HIDE DEF new
  <2> QED
    BY <2>1, <2>2, <1>2, <1>3, PlaceMoves DEF StartQuiz
<1>4. CASE StartQuizFails(q)
  <2> HIDE DEF new
  <2>1. PICK row \in WrittenOrNot(quizJob[q], new) : quizJob' = [quizJob EXCEPT ![q] = row]
    BY <1>4 DEF StartQuizFails, new
  <2>2. row \in QuizRow
    BY <1>2, WrittenIsARow
  <2>3. "unstarted" \in QuizAbandoned
    BY DEF QuizAbandoned
  <2> QED
    BY <2>1, <2>2, <2>3, <1>4, PlaceMoves DEF StartQuizFails
<1> QED
  BY <1>3, <1>4

LEMMA CreateMoves ==
  ASSUME QuizInv, NEW q \in QuizJobs, Create(q) PROVE MovesWell(q)
<1> DEFINE faulty == quizTask[q].items = <<>>
<1>1. PICK item \in Created(faulty) :
        TaskBecomes(q, [quizTask[q] EXCEPT !.pc = "judge", !.item = item, !.attempts = 1,
                          !.cost = CreatorCost(faulty)])
  BY DEF Create
<1>2. QuizLive(q)
  BY DEF Create, QuizLive, QuizRunning
<1>3. item \in Item /\ item.question
  BY CreatedHasQuestion
<1> DEFINE task == WithItem(quizTask[q], "judge", item, 1, CreatorCost(faulty))
<1>4. /\ task \in QuizTask /\ task.pc = "judge" /\ task.item = item
      /\ task.items = quizTask[q].items
  <2>1. CreatorCost(faulty) \in Nat /\ 1 \in 1 .. 3
    BY DEF CreatorCost, Tokens
  <2>2. "judge" \in QuizPlaces /\ quizTask[q] \in QuizTask
    BY <1>2, LiveFacts DEF QuizPlaces, QuizRunning
  <2> HIDE DEF faulty
  <2> QED
    BY <2>1, <2>2, <1>3, ItemChanges
<1>5. "judge" \in QuizRunning
  BY DEF QuizRunning
<1>6. TaskBecomes(q, task) /\ UNCHANGED <<quizJob, quizItems>>
  BY <1>1 DEF Create, WithItem
<1> HIDE DEF task
<1> QED
  BY <1>2, <1>3, <1>4, <1>5, <1>6, LiveFacts, TaskMoves

LEMMA JudgeMoves ==
  ASSUME QuizInv, NEW q \in QuizJobs, Judge(q) PROVE MovesWell(q)
<1>1. QuizLive(q)
  BY DEF Judge, QuizLive, QuizRunning
<1> DEFINE again == ~Passes(quizTask[q].item) /\ quizTask[q].attempts < 3
           pc    == IF again THEN "repair" ELSE "finish"
           task  == WithCost(quizTask[q], pc, quizTask[q].cost + JudgeCost)
<1>2. TaskBecomes(q, task) /\ UNCHANGED <<quizJob, quizItems>>
  BY DEF Judge, WithCost
<1>3. pc = "repair" => quizTask[q].attempts < 3
  OBVIOUS
<1>4. pc \in {"repair", "finish"}
  OBVIOUS
<1>5. /\ task \in QuizTask /\ task.pc = pc /\ task.item = quizTask[q].item
      /\ task.items = quizTask[q].items /\ task.attempts = quizTask[q].attempts
  <2>1. pc \in QuizPlaces
    BY DEF QuizPlaces, QuizRunning
  <2>2. quizTask[q] \in QuizTask /\ quizTask[q].cost + JudgeCost \in Nat
    BY <1>1, LiveFacts, Prices DEF QuizTask
  <2> HIDE DEF pc
  <2> QED
    BY <2>1, <2>2, JudgedChanges
<1>6. {"repair", "finish"} \subseteq QuizRunning
  BY DEF QuizRunning
<1> HIDE DEF task, pc
<1> QED
  BY <1>1, <1>2, <1>3, <1>4, <1>5, <1>6, LiveFacts, TaskMoves

LEMMA RepairMoves ==
  ASSUME QuizInv, NEW q \in QuizJobs, Repair(q) PROVE MovesWell(q)
<1>1. PICK item \in Repaired :
        TaskBecomes(q, [quizTask[q] EXCEPT !.pc = "judge", !.item = item, !.attempts = @ + 1,
                          !.cost = @ + RepairCost])
  BY DEF Repair
<1>2. QuizLive(q) /\ quizTask[q].pc = "repair"
  BY DEF Repair, QuizLive, QuizRunning
<1>3. item \in Item /\ item.question
  BY QuizAssumption
<1> DEFINE round == quizTask[q].attempts + 1
           price == quizTask[q].cost + RepairCost
           task  == WithItem(quizTask[q], "judge", item, round, price)
<1>4. /\ task \in QuizTask /\ task.pc = "judge" /\ task.item = item
      /\ task.items = quizTask[q].items
  <2>1. quizTask[q] \in QuizTask /\ round \in 1 .. 3 /\ price \in Nat
    BY <1>2, LiveFacts, Prices DEF QuizTask
  <2>2. "judge" \in QuizPlaces
    BY DEF QuizPlaces, QuizRunning
  <2>3. task = WithItem(quizTask[q], "judge", item, round, price)
    OBVIOUS
  <2> HIDE DEF round, price, task
  <2> QED
    BY <2>1, <2>2, <2>3, <1>3, ItemChanges
<1>5. "judge" \in QuizRunning
  BY DEF QuizRunning
<1>6. TaskBecomes(q, task) /\ UNCHANGED <<quizJob, quizItems>>
  BY <1>1 DEF Repair, WithItem
<1> HIDE DEF task
<1> QED
  BY <1>2, <1>3, <1>4, <1>5, <1>6, LiveFacts, TaskMoves

LEMMA FinishMoves ==
  ASSUME QuizInv, NEW q \in QuizJobs, FinishItem(q) PROVE MovesWell(q)
<1>1. QuizLive(q)
  BY DEF FinishItem, QuizLive, QuizRunning
<1> DEFINE new   == [item |-> Final(quizTask[q].item), cost |-> quizTask[q].cost,
                     attempts |-> quizTask[q].attempts]
           items == Append(quizTask[q].items, new)
           pc    == IF Len(items) < NumItems[q] THEN "create" ELSE "persist"
           task  == WithItems(quizTask[q], pc, items, quizTask[q].total + quizTask[q].cost)
<1>2. TaskBecomes(q, task) /\ UNCHANGED <<quizJob, quizItems>>
  BY DEF FinishItem, WithItems
<1>3. new \in FinalItem /\ Passes(new.item)
  <2>1. Final(quizTask[q].item) \in Item /\ Passes(Final(quizTask[q].item))
    BY <1>1, LiveFacts, FinalPasses
  <2> QED
    BY <2>1, <1>1, LiveFacts DEF QuizTask, FinalItem
<1>4. items \in Seq(FinalItem) /\ AllPass(items)
  <2> HIDE DEF new
  <2> QED
    BY <1>1, <1>3, LiveFacts DEF AllPass
<1>5. task \in QuizTask /\ task.pc \in {"create", "persist"} /\ task.items = items
      /\ task.item = quizTask[q].item
  <2>1. pc \in QuizPlaces \cap {"create", "persist"}
    BY DEF QuizPlaces, QuizRunning
  <2>2. quizTask[q] \in QuizTask /\ quizTask[q].total + quizTask[q].cost \in Nat
    BY <1>1, LiveFacts DEF QuizTask
  <2> HIDE DEF items, pc
  <2> QED
    BY <2>1, <2>2, <1>4, ListChanges
<1>6. {"create", "persist"} \subseteq QuizRunning
  BY DEF QuizRunning
<1>7. task.item.question /\ AllPass(task.items)
  BY <1>1, <1>4, <1>5, LiveFacts
<1> HIDE DEF task
<1> QED
  BY <1>1, <1>2, <1>5, <1>6, <1>7, TaskMoves

LEMMA PersistMoves ==
  ASSUME QuizInv, NEW q \in QuizJobs, Persist(q) \/ PersistFails(q) PROVE MovesWell(q)
<1>1. QuizLive(q)
  BY DEF Persist, PersistFails, QuizLive, QuizRunning
<1>2. /\ quizTask[q] \in QuizTask /\ quizJob[q] \in QuizRow /\ quizTask[q].item.question
      /\ quizTask[q].items \in Seq(FinalItem) /\ AllPass(quizTask[q].items)
      /\ quizItems[q] \in Seq(FinalItem) /\ AllPass(quizItems[q])
  BY <1>1, LiveFacts DEF QuizInv, JobOK
<1>3. Completed(q) \in QuizRow /\ Completed(q).status = "completed"
  BY <1>2 DEF Completed, QuizRow, QuizStatus, QuizTask
(* Nothing is written, or all of it.                                       *)
<1>4. ASSUME NEW pc \in {"returned", "record"}, GoesTo(q, pc),
             \/ pc = "record" /\ UNCHANGED <<quizJob, quizItems>>
             \/ /\ quizJob' = [quizJob EXCEPT ![q] = Completed(q)]
                /\ quizItems' = [quizItems EXCEPT ![q] = quizTask[q].items]
      PROVE  MovesWell(q)
  <2> DEFINE task == [quizTask[q] EXCEPT !.pc = pc]
  <2>1. pc \in QuizPlaces /\ (pc = "record" => pc \in QuizRunning) /\ pc # "repair"
    BY DEF QuizPlaces, QuizRunning
  <2>2. /\ task \in QuizTask /\ task.pc = pc /\ task.item = quizTask[q].item
        /\ task.items = quizTask[q].items
    BY <1>2, <2>1 DEF QuizTask, QuizPlaces
  <2>3. TaskBecomes(q, task)
    BY <1>4 DEF GoesTo
  <2> HIDE DEF task
  <2>4. CASE pc = "record" /\ UNCHANGED <<quizJob, quizItems>>
    <3>1. JobOK(task, quizJob[q], quizItems[q])
      BY <1>2, <2>1, <2>2, <2>4 DEF JobOK
    <3>2. Moves(q, task, quizJob[q], quizItems[q])
      BY <2>3, <2>4 DEF Moves, TaskBecomes, QuizInv
    <3> QED
      BY <3>1, <3>2, <2>2, <1>2 DEF MovesWell
  <2>5. CASE /\ quizJob' = [quizJob EXCEPT ![q] = Completed(q)]
             /\ quizItems' = [quizItems EXCEPT ![q] = quizTask[q].items]
    <3>1. JobOK(task, Completed(q), quizTask[q].items)
      BY <1>2, <1>3, <2>1, <2>2 DEF JobOK
    <3>2. Moves(q, task, Completed(q), quizTask[q].items)
      BY <2>3, <2>5 DEF Moves, TaskBecomes
    <3> QED
      BY <3>1, <3>2, <2>2, <1>2, <1>3 DEF MovesWell
  <2> QED
    BY <1>4, <2>4, <2>5
<1>5. CASE Persist(q)
  BY <1>4, <1>5 DEF Persist
<1>6. CASE PersistFails(q)
  BY <1>4, <1>6 DEF PersistFails
<1> QED
  BY <1>5, <1>6

LEMMA RecordMoves ==
  ASSUME QuizInv, NEW q \in QuizJobs, RecordFailure(q) \/ RecordFailureFails(q)
  PROVE  MovesWell(q)
<1>1. QuizLive(q)
  BY DEF RecordFailure, RecordFailureFails, QuizLive, QuizRunning
<1> DEFINE new == [quizJob[q] EXCEPT !.status = "failed"]
<1>2. quizJob[q] \in QuizRow /\ new \in QuizRow /\ new.status = "failed"
  BY <1>1, LiveFacts DEF QuizRow, QuizStatus
<1> HIDE DEF new
<1>3. CASE RecordFailure(q)
  <2>1. quizJob' = [quizJob EXCEPT ![q] = new]
    BY <1>3 DEF RecordFailure, new
  <2> QED
    BY <2>1, <1>2, <1>3, PlaceMoves DEF RecordFailure
<1>4. CASE RecordFailureFails(q)
  <2>1. PICK row \in WrittenOrNot(quizJob[q], new) : quizJob' = [quizJob EXCEPT ![q] = row]
    BY <1>4 DEF RecordFailureFails, new
  <2>2. row \in QuizRow
    BY <1>2, WrittenIsARow
  <2>3. "unrecorded" \in QuizAbandoned
    BY DEF QuizAbandoned
  <2> QED
    BY <2>1, <2>2, <2>3, <1>4, PlaceMoves DEF RecordFailureFails
<1> QED
  BY <1>3, <1>4

LEMMA KillKeeps ==
  ASSUME QuizInv, KillQuizTasks PROVE QuizInv'
<1>1. ASSUME NEW q \in QuizJobs
      PROVE  quizTask'[q] \in QuizTask /\ JobOK(quizTask'[q], quizJob'[q], quizItems'[q])
  <2>1. quizTask[q] \in QuizTask /\ JobOK(quizTask[q], quizJob[q], quizItems[q])
    BY DEF QuizInv
  <2>2. CASE QuizLive(q)
    <3> DEFINE task == [quizTask[q] EXCEPT !.pc = "killed"]
    <3>1. quizTask'[q] = task
      BY <2>2 DEF KillQuizTasks
    <3>2. "killed" \in QuizAbandoned /\ "killed" \notin QuizRunning
      BY DEF QuizAbandoned, QuizRunning
    <3>3. /\ task \in QuizTask /\ task.pc = "killed" /\ task.item = quizTask[q].item
          /\ task.items = quizTask[q].items
      BY <2>1, <3>2 DEF QuizTask
    <3> HIDE DEF task
    <3> QED
      BY <2>1, <3>1, <3>2, <3>3 DEF KillQuizTasks, JobOK
  <2>3. CASE ~QuizLive(q)
    BY <2>1, <2>3 DEF KillQuizTasks
  <2> QED
    BY <2>2, <2>3
<1>2. quizTask' \in [QuizJobs -> QuizTask]
  BY <1>1 DEF KillQuizTasks
<1> QED
  BY <1>1, <1>2 DEF QuizInv, KillQuizTasks

LEMMA QuizInit_QuizInv ==
  ASSUME QuizInit PROVE QuizInv
<1>1. NewTask("idle") \in QuizTask /\ NewTask("idle").pc = "idle"
  BY DEF NewTask, QuizTask, Sound, Item
<1>2. NewTask("idle").item.question /\ NewTask("idle").items = <<>>
  BY DEF NewTask, Sound
<1>3. "idle" \notin QuizRunning
  BY DEF QuizRunning
<1>4. AllPass(<<>>) /\ <<>> \in Seq(FinalItem)
  BY DEF AllPass
<1>5. JobOK(NewTask("idle"), None, <<>>)
  BY <1>1, <1>2, <1>3, <1>4 DEF JobOK
<1> QED
  BY <1>1, <1>4, <1>5 DEF QuizInit, QuizInv

LEMMA QuizNext_QuizInv ==
  ASSUME QuizInv, [QuizNext]_quizVars PROVE QuizInv'
<1>1. ASSUME NEW q \in QuizJobs, RequestQuiz(q) \/ QuizStep(q) PROVE MovesWell(q)
  BY <1>1, RequestMoves, StartMoves, CreateMoves, JudgeMoves, RepairMoves, FinishMoves,
     PersistMoves, RecordMoves DEF QuizStep
<1>2. CASE UNCHANGED quizVars
  BY <1>2 DEF QuizInv, quizVars
<1> QED
  BY <1>1, <1>2, MovingKeeps, KillKeeps DEF QuizNext

(* In every run of the quiz jobs, QuizInv holds: for any jobs, numbers of  *)
(* items, answers of the repair agent and lost replies.                    *)
THEOREM QuizInvariance == QuizSpec => []QuizInv
<1>1. QuizInit => QuizInv
  BY QuizInit_QuizInv
<1>2. QuizInv /\ [QuizNext]_quizVars => QuizInv'
  BY QuizNext_QuizInv
<1> QED
  BY <1>1, <1>2, PTL DEF QuizSpec

LEMMA QuizInv_Properties ==
  ASSUME QuizInv PROVE QuizTypeOK /\ StoredItemsPass /\ QuizIsOwned
<1>1. QuizTypeOK
  BY DEF QuizInv, QuizTypeOK
<1>2. StoredItemsPass
  BY DEF QuizInv, JobOK, AllPass, StoredItemsPass
<1>3. QuizIsOwned
  BY DEF QuizInv, JobOK, QuizIsOwned, QuizLive
<1> QED
  BY <1>1, <1>2, <1>3
-----------------------------------------------------------------------------
(* Sums.  The cost of a list is a fold, computed by a recursive function;  *)
(* what it adds up to is shown by taking the least position at which it    *)
(* would not.                                                              *)

LEMMA Least ==
  ASSUME NEW T \in SUBSET Nat, T # {}
  PROVE  \E m \in T : \A k \in T : m <= k
<1> DEFINE R == OpToRel(<, Nat)
<1>1. IsWellFoundedOn(R, Nat)
  BY NatLessThanWellFounded
<1> HIDE DEF R
<1>2. PICK x \in T : \A y \in T : ~ (<<y, x>> \in R)
  BY <1>1, WFMin
<1>3. \A a, b \in Nat : <<a, b>> \in R <=> a < b
  BY DEF R, OpToRel
<1>4. ASSUME NEW y \in T PROVE x <= y
  <2>1. x \in Nat /\ y \in Nat
    OBVIOUS
  <2>2. ~(y < x)
    BY <1>2, <1>3, <2>1
  <2>3. QED
    BY <2>1, <2>2
<1>5. QED
  BY <1>4

(* A set of positions that is bounded has a last one.                      *)
LEMMA LastOne ==
  ASSUME NEW n \in Nat, NEW s \in SUBSET (1 .. n), s # {}
  PROVE  /\ Max(s) \in s
         /\ \A k \in s : k <= Max(s)
<1> DEFINE bounds == {u \in Nat : \A k \in s : k <= u}
<1>1. n \in bounds
  OBVIOUS
<1>2. PICK u \in bounds : \A k \in bounds : u <= k
  BY <1>1, Least
<1>3. u \in s
  <2>1. SUFFICES ASSUME u \notin s PROVE FALSE
    OBVIOUS
  <2>2. \A k \in s : k \in Nat /\ k >= 1 /\ k <= u /\ k # u
    BY <2>1
  <2>3. u \in Nat /\ u - 1 \in Nat
    <3>1. PICK k \in s : TRUE
      OBVIOUS
    <3>2. u \in Nat
      OBVIOUS
    <3>3. k \in Nat /\ k >= 1 /\ k <= u
      BY <2>2
    <3>4. QED
      BY <3>2, <3>3
  <2>4. u - 1 \in bounds
    BY <2>2, <2>3
  <2>5. QED
    BY <1>2, <2>3, <2>4
<1>4. \E x \in s : \A y \in s : x >= y
  BY <1>3
<1>5. QED
  BY <1>4 DEF Max

Price(items) == FoldLeft(LAMBDA sum, x : sum + x.cost, 0, items)

(* How the fold is computed: from the sums of all sets of positions.       *)
Sums(g, items, n) ==
  g = [s \in SUBSET (1 .. n) |->
         IF s = {} THEN 0 ELSE g[s \ {Max(s)}] + items[Max(s)].cost]

LEMMA PriceIsASum ==
  ASSUME NEW S, NEW items \in Seq(S)
  PROVE  Price(items) = (CHOOSE g : Sums(g, items, Len(items)))[1 .. Len(items)]
<1>1. DOMAIN items = 1 .. Len(items)
  OBVIOUS
<1>2. QED
  BY <1>1 DEF Price, FoldLeft, MapThenFoldSet, Sums

LEMMA SumsExist ==
  ASSUME NEW items, NEW n \in Nat
  PROVE  \E g : Sums(g, items, n)
<1> DEFINE bad == {m \in Nat : ~\E g : Sums(g, items, m)}
<1>1. bad \in SUBSET Nat
  OBVIOUS
<1>2. SUFFICES ASSUME n \in bad PROVE FALSE
  OBVIOUS
<1>3. PICK m \in bad : \A k \in bad : m <= k
  BY <1>1, <1>2, Least
<1>4. CASE m = 0
  <2> DEFINE g == [s \in SUBSET (1 .. 0) |-> 0]
  <2>1. SUBSET (1 .. 0) = {{}}
    OBVIOUS
  <2>2. Sums(g, items, 0)
    BY <2>1 DEF Sums
  <2>3. QED
    BY <1>3, <1>4, <2>2
<1>5. CASE m # 0
  <2> DEFINE k == m - 1
  <2>1. k \in Nat /\ k \notin bad /\ m = k + 1
    BY <1>3, <1>5
  <2> HIDE DEF k
  <2>2. PICK g : Sums(g, items, k)
    BY <2>1
  <2> DEFINE below(s) == s \ {m}
             h == [s \in SUBSET (1 .. m) |->
                     IF m \in s THEN g[s \ {m}] + items[m].cost ELSE g[s]]
             rhs(s) == IF s = {} THEN 0 ELSE h[s \ {Max(s)}] + items[Max(s)].cost
  <2>3. ASSUME NEW s \in SUBSET (1 .. m) PROVE h[s] = rhs(s)
    <3>1. CASE m \in s
      <4>1. Max(s) \in s /\ m <= Max(s)
        BY <3>1, <2>1, LastOne
      <4>2. Max(s) = m
        <5>1. Max(s) \in 1 .. m /\ m \in Nat
          BY <4>1, <2>1
        <5>2. QED
          BY <4>1, <5>1
      <4>3. s \ {m} \in SUBSET (1 .. m) /\ m \notin s \ {m}
        OBVIOUS
      <4>4. h[s \ {m}] = g[s \ {m}]
        BY <4>3
      <4>5. QED
        BY <3>1, <4>2, <4>4
    <3>2. CASE m \notin s
      <4>1. s \in SUBSET (1 .. k)
        BY <3>2, <2>1
      <4>2. g[s] = IF s = {} THEN 0 ELSE g[s \ {Max(s)}] + items[Max(s)].cost
        BY <4>1, <2>2 DEF Sums
      <4>3. s \ {Max(s)} \in SUBSET (1 .. m) /\ m \notin s \ {Max(s)}
        BY <3>2
      <4>4. h[s] = g[s] /\ h[s \ {Max(s)}] = g[s \ {Max(s)}]
        BY <3>2, <4>3
      <4>5. QED
        BY <4>2, <4>4
    <3>3. QED
      BY <3>1, <3>2
  <2>4. Sums(h, items, m)
    <3>1. h = [s \in SUBSET (1 .. m) |-> h[s]]
      OBVIOUS
    <3>2. [s \in SUBSET (1 .. m) |-> h[s]] = [s \in SUBSET (1 .. m) |-> rhs(s)]
      BY <2>3
    <3>3. QED
      BY <3>1, <3>2 DEF Sums
  <2>5. QED
    BY <1>3, <2>4
<1>6. QED
  BY <1>4, <1>5

(* Sums over the same positions agree, whatever follows them.              *)
LEMMA SumsAgree ==
  ASSUME NEW items, NEW longer, NEW g, NEW h, NEW n \in Nat, NEW o \in Nat, n <= o,
         \A k \in 1 .. n : longer[k] = items[k],
         Sums(g, items, n), Sums(h, longer, o)
  PROVE  \A s \in SUBSET (1 .. n) : g[s] = h[s]
<1> DEFINE bad == {m \in 0 .. n : \E s \in SUBSET (1 .. m) : g[s] # h[s]}
<1>1. bad \in SUBSET Nat
  OBVIOUS
<1>2. SUFFICES ASSUME bad # {} PROVE FALSE
  OBVIOUS
<1>3. PICK m \in bad : \A k \in bad : m <= k
  BY <1>1, <1>2, Least
<1>4. PICK s \in SUBSET (1 .. m) : g[s] # h[s]
  BY <1>3
<1>5. s \in SUBSET (1 .. n) /\ s \in SUBSET (1 .. o) /\ m \in 0 .. n
  BY <1>3, <1>4
<1>6. CASE s = {}
  BY <1>4, <1>5, <1>6 DEF Sums
<1>7. CASE s # {}
  <2> DEFINE last == Max(s)
  <2>1. last \in s /\ last \in 1 .. m /\ \A k \in s : k <= last
    <3>1. m \in Nat
      BY <1>5
    <3>2. last \in s /\ \A k \in s : k <= last
      BY <3>1, <1>7, LastOne
    <3>3. QED
      BY <3>2
  <2> HIDE DEF last
  <2>2. last - 1 \in 0 .. n /\ last - 1 < m
    BY <2>1, <1>5
  <2>3. s \ {last} \in SUBSET (1 .. last - 1)
    BY <2>1, <1>5
  <2>4. g[s \ {last}] = h[s \ {last}]
    BY <1>3, <2>2, <2>3
  <2>5. g[s] = g[s \ {last}] + items[last].cost
    BY <1>5, <1>7 DEF Sums, last
  <2>6. h[s] = h[s \ {last}] + longer[last].cost
    BY <1>5, <1>7 DEF Sums, last
  <2>7. longer[last] = items[last]
    BY <2>1, <1>5
  <2>8. QED
    BY <1>4, <2>4, <2>5, <2>6, <2>7
<1>8. QED
  BY <1>6, <1>7

LEMMA PriceOfNone == Price(<<>>) = 0
<1>1. PICK g : Sums(g, <<>>, 0)
  BY SumsExist
<1> DEFINE c == CHOOSE f : Sums(f, <<>>, 0)
<1>2. Sums(c, <<>>, 0)
  BY <1>1
<1> HIDE DEF c
<1>3. {} \in SUBSET (1 .. 0) /\ 1 .. 0 = {}
  OBVIOUS
<1>4. c[{}] = 0
  BY <1>2, <1>3 DEF Sums
<1>5. <<>> \in Seq({}) /\ Len(<<>>) = 0
  OBVIOUS
<1>6. Price(<<>>) = c[1 .. 0]
  BY <1>5, PriceIsASum DEF c
<1>7. QED
  BY <1>3, <1>4, <1>6

LEMMA PriceOfOneMore ==
  ASSUME NEW S, NEW items \in Seq(S), NEW x \in S
  PROVE  Price(Append(items, x)) = Price(items) + x.cost
<1> DEFINE n == Len(items)
           longer == Append(items, x)
           g == CHOOSE f : Sums(f, items, n)
           h == CHOOSE f : Sums(f, longer, n + 1)
<1>1. n \in Nat /\ longer \in Seq(S) /\ Len(longer) = n + 1
  OBVIOUS
<1>2. (\A k \in 1 .. n : longer[k] = items[k]) /\ longer[n + 1] = x
  OBVIOUS
<1>3. Price(items) = g[1 .. n] /\ Price(longer) = h[1 .. n + 1]
  BY <1>1, PriceIsASum
<1>4. Sums(g, items, n) /\ Sums(h, longer, n + 1)
  <2>1. \E f : Sums(f, items, n)
    BY <1>1, SumsExist
  <2>2. n + 1 \in Nat
    BY <1>1
  <2> HIDE DEF n, longer
  <2>3. \E f : Sums(f, longer, n + 1)
    BY <2>2, SumsExist
  <2>4. QED
    BY <2>1, <2>3
<1> HIDE DEF n, longer, g, h
<1>5. g[1 .. n] = h[1 .. n]
  <2>1. \A s \in SUBSET (1 .. n) : g[s] = h[s]
    BY <1>1, <1>2, <1>4, SumsAgree
  <2>2. QED
    BY <2>1
<1>6. h[1 .. n + 1] = h[1 .. n] + x.cost
  <2> DEFINE s == 1 .. n + 1
  <2>1. n + 1 \in s /\ n + 1 \in Nat /\ s \in SUBSET (1 .. n + 1)
    BY <1>1
  <2> HIDE DEF s
  <2>2. Max(s) \in s /\ n + 1 <= Max(s)
    BY <2>1, LastOne
  <2> USE DEF s
  <2>3. Max(s) = n + 1 /\ s # {} /\ s \ {n + 1} = 1 .. n
    BY <2>1, <2>2, <1>1
  <2>4. h[s] = h[s \ {Max(s)}] + longer[Max(s)].cost
    BY <1>4, <2>3 DEF Sums
  <2>5. QED
    BY <1>2, <2>3, <2>4
<1>7. QED
  BY <1>3, <1>5, <1>6 DEF longer

-----------------------------------------------------------------------------
(* Costs.  What is charged for the item under way, which depends on how    *)
(* far it has come, for the items generated and for those stored.          *)

Priced(items) ==
  \A n \in 1 .. Len(items) : items[n].cost = PriceOf(n = 1, items[n].attempts)

Charged(n, task, row, items) ==
  /\ Priced(task.items) /\ task.total = Price(task.items)
  /\ task.pc \in {"start", "create", "judge", "repair", "finish"} => Len(task.items) < n
  /\ task.pc = "persist" => Len(task.items) = n
  /\ task.pc = "judge" =>
       task.cost + JudgeCost = PriceOf(task.items = <<>>, task.attempts)
  /\ task.pc \in {"repair", "finish"} =>
       task.cost = PriceOf(task.items = <<>>, task.attempts)
  /\ Priced(items) /\ Len(items) \in {0, n}
  /\ row = None => items = <<>>
  /\ row # None => /\ row.cost = Price(items)
                   /\ row.status = "completed" => items # <<>>

CostInv == \A q \in QuizJobs : Charged(NumItems[q], quizTask[q], quizJob[q], quizItems[q])

LEMMA Rates ==
  /\ JudgeCost = 750 /\ RepairCost = 3450
  /\ \A faulty \in BOOLEAN : CreatorCost(faulty) \in Nat
<1>1. JudgeCost = 750
  BY DEF JudgeCost, Tokens
<1>2. RepairCost = 3450
  BY DEF RepairCost, Tokens
<1>3. QED
  BY <1>1, <1>2, Prices

(* One judgement, and one repair with the judgement after it.              *)
LEMMA Rounds ==
  ASSUME NEW faulty \in BOOLEAN, NEW attempts \in 1 .. 3, NEW cost \in Nat
  PROVE  /\ cost = CreatorCost(faulty) => cost + JudgeCost = PriceOf(faulty, 1)
         /\ cost = PriceOf(faulty, attempts) =>
              cost + RepairCost + JudgeCost = PriceOf(faulty, attempts + 1)
<1> DEFINE base == CreatorCost(faulty)
<1>1. base \in Nat
  BY Rates
<1>2. \A n \in Nat : PriceOf(faulty, n) = base + n * 750 + (n - 1) * 3450
  BY Rates DEF PriceOf
<1>3. /\ PriceOf(faulty, 1) = base + 750
      /\ PriceOf(faulty, attempts) = base + attempts * 750 + (attempts - 1) * 3450
      /\ PriceOf(faulty, attempts + 1) = base + (attempts + 1) * 750 + attempts * 3450
  BY <1>1, <1>2
<1> HIDE DEF base
<1>4. /\ cost = base => cost + 750 = PriceOf(faulty, 1)
      /\ cost = PriceOf(faulty, attempts) => cost + 3450 + 750 = PriceOf(faulty, attempts + 1)
  BY <1>1, <1>3
<1>5. QED
  BY <1>4, Rates DEF base

(* The three values of job q become task, row and items.                   *)
LEMMA ChargedKeeps ==
  ASSUME QuizInv, CostInv, NEW q \in QuizJobs, NEW task, NEW row, NEW items,
         Moves(q, task, row, items), Charged(NumItems[q], task, row, items)
  PROVE  CostInv'
<1>1. ASSUME NEW p \in QuizJobs
      PROVE  Charged(NumItems[p], quizTask'[p], quizJob'[p], quizItems'[p])
  <2>1. CASE p = q
    BY <2>1 DEF Moves, QuizInv
  <2>2. CASE p # q
    <3>1. /\ quizTask'[p] = quizTask[p] /\ quizJob'[p] = quizJob[p]
          /\ quizItems'[p] = quizItems[p]
      BY <2>2 DEF Moves, QuizInv
    <3> QED
      BY <3>1 DEF CostInv
  <2> QED
    BY <2>1, <2>2
<1> QED
  BY <1>1 DEF CostInv, Charged, Priced

(* What is known of a job at work.                                         *)
LEMMA LiveCharges ==
  ASSUME QuizInv, CostInv, NEW q \in QuizJobs, QuizLive(q)
  PROVE  /\ quizTask[q] \in QuizTask /\ quizJob[q] \in QuizRow /\ quizJob[q] # None
         /\ quizItems[q] \in Seq(FinalItem) /\ NumItems[q] \in Nat \ {0}
         /\ Charged(NumItems[q], quizTask[q], quizJob[q], quizItems[q])
  BY LiveFacts, QuizAssumption DEF QuizInv, CostInv

(* Only the place of the task changes, and the status of the row.          *)
LEMMA PlaceCharges ==
  ASSUME QuizInv, CostInv, NEW q \in QuizJobs, QuizLive(q), NEW pc, NEW row \in QuizRow,
         \/ pc \in {"returned", "record"} \cup QuizAbandoned
         \/ pc = "create" /\ quizTask[q].pc = "start",
         row.cost = quizJob[q].cost,
         row.status = "completed" => quizJob[q].status = "completed",
         GoesTo(q, pc), quizJob' = [quizJob EXCEPT ![q] = row], UNCHANGED quizItems
  PROVE  CostInv'
<1> DEFINE task == [quizTask[q] EXCEPT !.pc = pc]
<1>1. /\ quizTask[q] \in QuizTask /\ quizJob[q] # None /\ row # None
      /\ Charged(NumItems[q], quizTask[q], quizJob[q], quizItems[q])
  BY LiveCharges, QuizAssumption
<1>2. /\ task.pc = pc /\ task.items = quizTask[q].items /\ task.total = quizTask[q].total
  BY <1>1 DEF QuizTask
<1>3. pc \notin {"start", "judge", "repair", "finish", "persist"}
  BY DEF QuizAbandoned
<1>4. Moves(q, task, row, quizItems[q])
  BY DEF Moves, GoesTo, TaskBecomes, QuizInv
<1> HIDE DEF task
<1>5. Charged(NumItems[q], task, row, quizItems[q])
  BY <1>1, <1>2, <1>3 DEF Charged, QuizAbandoned
<1> QED
  BY <1>4, <1>5, ChargedKeeps

(* Only the task changes.                                                  *)
LEMMA TaskCharges ==
  ASSUME QuizInv, CostInv, NEW q \in QuizJobs, NEW task,
         TaskBecomes(q, task), UNCHANGED <<quizJob, quizItems>>,
         Charged(NumItems[q], task, quizJob[q], quizItems[q])
  PROVE  CostInv'
<1>1. Moves(q, task, quizJob[q], quizItems[q])
  BY DEF Moves, TaskBecomes, QuizInv
<1> QED
  BY <1>1, ChargedKeeps

LEMMA RequestCharges ==
  ASSUME QuizInv, CostInv, NEW q \in QuizJobs, RequestQuiz(q) PROVE CostInv'
<1> DEFINE row == [status |-> "pending", cost |-> 0]
<1>1. PICK pc \in {"start", "unscheduled"} : TaskBecomes(q, NewTask(pc))
  BY DEF RequestQuiz
<1>2. quizItems[q] = <<>> /\ NumItems[q] \in Nat \ {0}
  BY QuizAssumption DEF RequestQuiz, CostInv, Charged
<1>3. Moves(q, NewTask(pc), row, quizItems[q])
  BY <1>1 DEF Moves, RequestQuiz, TaskBecomes, QuizInv
<1>4. row \in QuizRow
  BY DEF QuizRow, QuizStatus
<1>5. Charged(NumItems[q], NewTask(pc), row, <<>>)
  BY <1>2, <1>4, PriceOfNone, QuizAssumption DEF Charged, Priced, NewTask
<1> QED
  BY <1>2, <1>3, <1>5, ChargedKeeps

LEMMA StartCharges ==
  ASSUME QuizInv, CostInv, NEW q \in QuizJobs, StartQuiz(q) \/ StartQuizFails(q)
  PROVE  CostInv'
<1> DEFINE new == [quizJob[q] EXCEPT !.status = "generating"]
<1>1. QuizLive(q) /\ quizTask[q].pc = "start"
  BY DEF StartQuiz, StartQuizFails, QuizLive, QuizRunning
<1>2. quizJob[q] \in QuizRow
  BY <1>1, LiveFacts
<1>3. new \in QuizRow /\ new.cost = quizJob[q].cost /\ new.status = "generating"
  BY <1>2 DEF QuizRow, QuizStatus
<1>4. CASE StartQuiz(q)
  <2>1. quizJob' = [quizJob EXCEPT ![q] = new]
    BY <1>4 DEF StartQuiz
  <2> HIDE DEF new
  <2> QED
    BY <2>1, <1>1, <1>3, <1>4, PlaceCharges DEF StartQuiz
<1>5. CASE StartQuizFails(q)
  <2> HIDE DEF new
  <2>1. PICK row \in WrittenOrNot(quizJob[q], new) : quizJob' = [quizJob EXCEPT ![q] = row]
    BY <1>5 DEF StartQuizFails, new
  <2>2. row \in {quizJob[q], new}
    BY DEF WrittenOrNot
  <2>3. "unstarted" \in QuizAbandoned
    BY DEF QuizAbandoned
  <2>4. /\ row \in QuizRow /\ row.cost = quizJob[q].cost
        /\ row.status = "completed" => quizJob[q].status = "completed"
    BY <2>2, <1>2, <1>3
  <2> QED
    BY <2>1, <2>3, <2>4, <1>1, <1>5, PlaceCharges DEF StartQuizFails
<1> QED
  BY <1>4, <1>5

LEMMA CreateCharges ==
  ASSUME QuizInv, CostInv, NEW q \in QuizJobs, Create(q) PROVE CostInv'
<1> DEFINE faulty == quizTask[q].items = <<>>
<1>1. PICK item \in Created(faulty) :
        TaskBecomes(q, [quizTask[q] EXCEPT !.pc = "judge", !.item = item, !.attempts = 1,
                          !.cost = CreatorCost(faulty)])
  BY DEF Create
<1> DEFINE task == WithItem(quizTask[q], "judge", item, 1, CreatorCost(faulty))
<1>2. QuizLive(q) /\ quizTask[q].pc = "create"
  BY DEF Create, QuizLive, QuizRunning
<1>3. /\ quizTask[q] \in QuizTask
      /\ Charged(NumItems[q], quizTask[q], quizJob[q], quizItems[q])
  BY <1>2, LiveCharges
<1>4. /\ task.pc = "judge" /\ task.items = quizTask[q].items /\ task.attempts = 1
      /\ task.total = quizTask[q].total /\ task.cost = CreatorCost(faulty)
  BY <1>3 DEF QuizTask, WithItem
<1>5. TaskBecomes(q, task) /\ UNCHANGED <<quizJob, quizItems>>
  BY <1>1 DEF Create, WithItem
<1>6. faulty \in BOOLEAN
  OBVIOUS
<1> HIDE DEF task, faulty
<1>7. task.cost + JudgeCost = PriceOf(faulty, 1)
  <2>1. 1 \in 1 .. 3 /\ CreatorCost(faulty) \in Nat
    BY <1>6, Rates
  <2> QED
    BY <2>1, <1>4, <1>6, Rounds
<1>8. Charged(NumItems[q], task, quizJob[q], quizItems[q])
  BY <1>2, <1>3, <1>4, <1>7 DEF Charged, faulty
<1> QED
  BY <1>5, <1>8, TaskCharges

LEMMA JudgeCharges ==
  ASSUME QuizInv, CostInv, NEW q \in QuizJobs, Judge(q) PROVE CostInv'
<1> DEFINE again == ~Passes(quizTask[q].item) /\ quizTask[q].attempts < 3
           pc    == IF again THEN "repair" ELSE "finish"
           task  == WithCost(quizTask[q], pc, quizTask[q].cost + JudgeCost)
<1>1. QuizLive(q) /\ quizTask[q].pc = "judge"
  BY DEF Judge, QuizLive, QuizRunning
<1>2. TaskBecomes(q, task) /\ UNCHANGED <<quizJob, quizItems>>
  BY DEF Judge, WithCost
<1>3. /\ quizTask[q] \in QuizTask
      /\ Charged(NumItems[q], quizTask[q], quizJob[q], quizItems[q])
  BY <1>1, LiveCharges
<1>4. pc \in {"repair", "finish"}
  OBVIOUS
<1> HIDE DEF pc
<1>5. /\ task.pc = pc /\ task.items = quizTask[q].items
      /\ task.attempts = quizTask[q].attempts /\ task.total = quizTask[q].total
      /\ task.cost = quizTask[q].cost + JudgeCost
  BY <1>3 DEF QuizTask, WithCost
<1> HIDE DEF task
<1>6. Charged(NumItems[q], task, quizJob[q], quizItems[q])
  BY <1>1, <1>3, <1>4, <1>5 DEF Charged
<1> QED
  BY <1>2, <1>6, TaskCharges

LEMMA RepairCharges ==
  ASSUME QuizInv, CostInv, NEW q \in QuizJobs, Repair(q) PROVE CostInv'
<1>1. PICK item \in Repaired :
        TaskBecomes(q, [quizTask[q] EXCEPT !.pc = "judge", !.item = item, !.attempts = @ + 1,
                          !.cost = @ + RepairCost])
  BY DEF Repair
<1> DEFINE t == quizTask[q]
           faulty == t.items = <<>>
           task == WithItem(t, "judge", item, t.attempts + 1, t.cost + RepairCost)
<1>2. QuizLive(q) /\ t.pc = "repair"
  BY DEF Repair, QuizLive, QuizRunning
<1>3. t \in QuizTask /\ Charged(NumItems[q], t, quizJob[q], quizItems[q])
  BY <1>2, LiveCharges
<1>4. /\ task.pc = "judge" /\ task.items = t.items /\ task.attempts = t.attempts + 1
      /\ task.total = t.total /\ task.cost = t.cost + RepairCost
  BY <1>3 DEF QuizTask, WithItem
<1>5. TaskBecomes(q, task) /\ UNCHANGED <<quizJob, quizItems>>
  BY <1>1 DEF Repair, WithItem
<1>6. faulty \in BOOLEAN /\ t.attempts \in 1 .. 3 /\ t.cost \in Nat
  BY <1>3 DEF QuizTask
<1>7. t.cost = PriceOf(faulty, t.attempts)
  BY <1>2, <1>3 DEF Charged
<1> HIDE DEF task
<1>8. task.cost + JudgeCost = PriceOf(faulty, task.attempts)
  BY <1>4, <1>6, <1>7, Rounds
<1>9. Charged(NumItems[q], task, quizJob[q], quizItems[q])
  BY <1>2, <1>3, <1>4, <1>8 DEF Charged
<1> QED
  BY <1>5, <1>9, TaskCharges

LEMMA FinishCharges ==
  ASSUME QuizInv, CostInv, NEW q \in QuizJobs, FinishItem(q) PROVE CostInv'
<1> DEFINE t     == quizTask[q]
           new   == [item |-> Final(t.item), cost |-> t.cost, attempts |-> t.attempts]
           items == Append(t.items, new)
           pc    == IF Len(items) < NumItems[q] THEN "create" ELSE "persist"
           task  == WithItems(t, pc, items, t.total + t.cost)
<1>1. QuizLive(q) /\ t.pc = "finish"
  BY DEF FinishItem, QuizLive, QuizRunning
<1>2. TaskBecomes(q, task) /\ UNCHANGED <<quizJob, quizItems>>
  BY DEF FinishItem, WithItems
<1>3. /\ t \in QuizTask /\ NumItems[q] \in Nat \ {0}
      /\ Charged(NumItems[q], t, quizJob[q], quizItems[q])
  BY <1>1, LiveCharges
<1>4. new \in FinalItem /\ t.items \in Seq(FinalItem)
  <2>1. Final(t.item) \in Item
    BY <1>1, LiveFacts, FinalPasses
  <2> QED
    BY <2>1, <1>3 DEF QuizTask, FinalItem
<1>5. new.cost = t.cost /\ new.attempts = t.attempts
  OBVIOUS
<1>6. Price(items) = Price(t.items) + t.cost
  <2> HIDE DEF new
  <2> QED
    BY <1>4, <1>5, PriceOfOneMore
<1>7. Priced(items)
  <2> HIDE DEF new
  <2>1. /\ Len(items) = Len(t.items) + 1 /\ Len(t.items) \in Nat
        /\ \A n \in 1 .. Len(t.items) : items[n] = t.items[n]
        /\ items[Len(t.items) + 1] = new
    BY <1>4
  <2>2. (t.items = <<>>) = (Len(t.items) + 1 = 1)
    BY <1>4
  <2>3. new.cost = PriceOf(Len(t.items) + 1 = 1, new.attempts)
    BY <1>1, <1>3, <1>5, <2>2 DEF Charged
  <2>4. \A n \in 1 .. Len(t.items) : t.items[n].cost = PriceOf(n = 1, t.items[n].attempts)
    BY <1>3 DEF Charged, Priced
  <2> HIDE DEF items
  <2>5. \A n \in 1 .. Len(items) : n \in 1 .. Len(t.items) \/ n = Len(t.items) + 1
    BY <2>1
  <2> QED
    BY <2>1, <2>3, <2>4, <2>5 DEF Priced
<1>8. /\ Len(items) = Len(t.items) + 1 /\ Len(t.items) \in Nat
      /\ Len(t.items) < NumItems[q]
  BY <1>1, <1>3, <1>4 DEF Charged
<1>9. /\ pc \in {"create", "persist"}
      /\ pc = "create" => Len(items) < NumItems[q]
      /\ pc = "persist" => Len(items) = NumItems[q]
  BY <1>3, <1>8
<1> HIDE DEF pc, items
<1>10. task.pc = pc /\ task.items = items /\ task.total = t.total + t.cost
  BY <1>3 DEF QuizTask, WithItems
<1> HIDE DEF task
<1>11. Charged(NumItems[q], task, quizJob[q], quizItems[q])
  BY <1>3, <1>6, <1>7, <1>9, <1>10 DEF Charged
<1> QED
  BY <1>2, <1>11, TaskCharges

LEMMA PersistCharges ==
  ASSUME QuizInv, CostInv, NEW q \in QuizJobs, Persist(q) \/ PersistFails(q)
  PROVE  CostInv'
<1> DEFINE t == quizTask[q]
<1>1. QuizLive(q) /\ t.pc = "persist"
  BY DEF Persist, PersistFails, QuizLive, QuizRunning
<1>2. /\ t \in QuizTask /\ NumItems[q] \in Nat \ {0} /\ quizJob[q] \in QuizRow
      /\ Charged(NumItems[q], t, quizJob[q], quizItems[q])
  BY <1>1, LiveCharges
<1>3. ASSUME NEW pc \in {"returned", "record"}, GoesTo(q, pc),
             quizJob' = [quizJob EXCEPT ![q] = Completed(q)],
             quizItems' = [quizItems EXCEPT ![q] = t.items]
      PROVE  CostInv'
  <2> DEFINE task == [t EXCEPT !.pc = pc]
  <2>1. task.pc = pc /\ task.items = t.items /\ task.total = t.total
    BY <1>2 DEF QuizTask
  <2>2. Moves(q, task, Completed(q), t.items)
    BY <1>3 DEF Moves, GoesTo, TaskBecomes
  <2>3. Completed(q) \in QuizRow /\ Completed(q).cost = t.total
    BY <1>2 DEF Completed, QuizRow, QuizStatus, QuizTask
  <2>4. t.items # <<>>
    BY <1>1, <1>2 DEF Charged
  <2> HIDE DEF task
  <2>5. Charged(NumItems[q], task, Completed(q), t.items)
    BY <1>1, <1>2, <2>1, <2>3, <2>4, QuizAssumption DEF Charged
  <2> QED
    BY <2>2, <2>5, ChargedKeeps
<1>4. ASSUME GoesTo(q, "record"), UNCHANGED <<quizJob, quizItems>>
      PROVE  CostInv'
  <2>1. quizJob' = [quizJob EXCEPT ![q] = quizJob[q]]
    BY <1>4 DEF QuizInv
  <2> QED
    BY <2>1, <1>1, <1>2, <1>4, PlaceCharges
<1> QED
  BY <1>3, <1>4 DEF Persist, PersistFails

LEMMA RecordCharges ==
  ASSUME QuizInv, CostInv, NEW q \in QuizJobs, RecordFailure(q) \/ RecordFailureFails(q)
  PROVE  CostInv'
<1> DEFINE new == [quizJob[q] EXCEPT !.status = "failed"]
<1>1. QuizLive(q)
  BY DEF RecordFailure, RecordFailureFails, QuizLive, QuizRunning
<1>2. quizJob[q] \in QuizRow
  BY <1>1, LiveFacts
<1>3. new \in QuizRow /\ new.cost = quizJob[q].cost /\ new.status = "failed"
  BY <1>2 DEF QuizRow, QuizStatus
<1>4. CASE RecordFailure(q)
  <2>1. quizJob' = [quizJob EXCEPT ![q] = new]
    BY <1>4 DEF RecordFailure
  <2> HIDE DEF new
  <2> QED
    BY <2>1, <1>1, <1>3, <1>4, PlaceCharges DEF RecordFailure
<1>5. CASE RecordFailureFails(q)
  <2> HIDE DEF new
  <2>1. PICK row \in WrittenOrNot(quizJob[q], new) : quizJob' = [quizJob EXCEPT ![q] = row]
    BY <1>5 DEF RecordFailureFails, new
  <2>2. row \in {quizJob[q], new}
    BY DEF WrittenOrNot
  <2>3. "unrecorded" \in QuizAbandoned
    BY DEF QuizAbandoned
  <2>4. /\ row \in QuizRow /\ row.cost = quizJob[q].cost
        /\ row.status = "completed" => quizJob[q].status = "completed"
    BY <2>2, <1>2, <1>3
  <2> QED
    BY <2>1, <2>3, <2>4, <1>1, <1>5, PlaceCharges DEF RecordFailureFails
<1> QED
  BY <1>4, <1>5

LEMMA KillCharges ==
  ASSUME QuizInv, CostInv, KillQuizTasks PROVE CostInv'
<1>1. ASSUME NEW q \in QuizJobs
      PROVE  Charged(NumItems[q], quizTask'[q], quizJob[q], quizItems[q])
  <2>1. Charged(NumItems[q], quizTask[q], quizJob[q], quizItems[q]) /\ quizTask[q] \in QuizTask
    BY DEF QuizInv, CostInv
  <2>2. CASE QuizLive(q)
    <3> DEFINE task == [quizTask[q] EXCEPT !.pc = "killed"]
    <3>1. quizTask'[q] = task
      BY <2>2 DEF KillQuizTasks
    <3>2. task.pc = "killed" /\ task.items = quizTask[q].items /\ task.total = quizTask[q].total
      BY <2>1 DEF QuizTask
    <3> HIDE DEF task
    <3> QED
      BY <2>1, <3>1, <3>2 DEF Charged
  <2>3. CASE ~QuizLive(q)
    BY <2>1, <2>3 DEF KillQuizTasks
  <2> QED
    BY <2>2, <2>3
<1> QED
  BY <1>1 DEF CostInv, Charged, Priced, KillQuizTasks

LEMMA QuizInit_CostInv ==
  ASSUME QuizInit PROVE CostInv
<1>1. ASSUME NEW q \in QuizJobs
      PROVE  Charged(NumItems[q], NewTask("idle"), None, <<>>)
  BY PriceOfNone DEF Charged, Priced, NewTask
<1> QED
  BY <1>1 DEF QuizInit, CostInv

LEMMA QuizNext_CostInv ==
  ASSUME QuizInv, CostInv, [QuizNext]_quizVars PROVE CostInv'
<1>1. ASSUME NEW q \in QuizJobs, RequestQuiz(q) \/ QuizStep(q) PROVE CostInv'
  BY <1>1, RequestCharges, StartCharges, CreateCharges, JudgeCharges, RepairCharges,
     FinishCharges, PersistCharges, RecordCharges DEF QuizStep
<1>2. CASE UNCHANGED quizVars
  BY <1>2 DEF CostInv, Charged, Priced, quizVars
<1> QED
  BY <1>1, <1>2, KillCharges DEF QuizNext

(* In every run of the quiz jobs, what is charged for the item under way,  *)
(* for the items generated and for the items stored is the price of the    *)
(* agents' calls so far (run_quiz_item_pipeline, run_quiz_generation_job). *)
THEOREM CostInvariance == QuizSpec => []CostInv
<1>1. QuizInit => CostInv
  BY QuizInit_CostInv
<1>2. QuizInv /\ CostInv /\ [QuizNext]_quizVars => CostInv'
  BY QuizNext_CostInv
<1> QED
  BY <1>1, <1>2, QuizInvariance, PTL DEF QuizSpec

LEMMA CostInv_Property ==
  ASSUME CostInv PROVE CostsAddUp
  BY DEF CostInv, Charged, Priced, CostsAddUp, Price
=============================================================================
