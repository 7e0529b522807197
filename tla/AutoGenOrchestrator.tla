------------------------ MODULE AutoGenOrchestrator ------------------------
(***************************************************************************)
(* One call of orchestrateTask (lib/auto-gen-orchestrator.js): the LLM is  *)
(* asked for a plan, its answer is rebuilt into sub-tasks field by field,  *)
(* the sub-tasks are put in an order by their dependencies (Kahn's         *)
(* algorithm), an agent is made for each and runs it with the results of   *)
(* its dependencies in its prompt, and the LLM is asked for the final      *)
(* answer.                                                                 *)
(*                                                                         *)
(* The text of the answer is abstracted to its sub-tasks and to which      *)
(* fields each of them writes.  The call has no rival: what it works on is *)
(* local to it.                                                            *)
(***************************************************************************)
EXTENDS Integers, Sequences, FiniteSets

CONSTANTS
    TaskIds,    \* what the LLM may write as an id
    NoId,       \* a sub-task it wrote without one
    Answers,    \* the sequences of sub-tasks it may write
    MaxTasks    \* the longest of them

Written == [id : TaskIds \cup {NoId}, dependsOn : SUBSET TaskIds,
            hasDependsOn : BOOLEAN, hasPrompt : BOOLEAN]

ASSUME AnswersAreWritten ==
    /\ MaxTasks \in Nat
    /\ \A w \in Answers : \E n \in 0..MaxTasks : w \in [1..n -> Written]
ASSUME NoIdIsNoId == NoId \notin TaskIds

VARIABLES
    pc,
    written,          \* the answer the plan was rebuilt from
    subTasks,
    inDegree,
    queue,
    orderedTaskIds,
    visiting,         \* the position a forEach over subTasks has reached
    orderedSubTasks,  \* positions in subTasks
    subTaskResults,
    handled,          \* what became of each element of orderedSubTasks
    response

sortVars == <<inDegree, queue, orderedTaskIds, visiting>>
vars == <<pc, written, subTasks, sortVars, orderedSubTasks, subTaskResults,
          handled, response>>

(* The prompt of a sub-task is the position in the answer of the one that  *)
(* wrote it, or 0 for the default.                                         *)
SubTask == [id : TaskIds, dependsOn : SUBSET TaskIds, prompt : 0..MaxTasks]

(* What the agent's LLM returns; an empty result is falsy. *)
Outcomes == {"text", "error", "empty"}

Known == {subTasks[i].id : i \in DOMAIN subTasks}
TypeOK ==
    /\ pc \in {"planning", "queueing", "sorting", "executing", "done"}
    /\ written \in Answers \cup {<<>>}
    /\ subTasks \in Seq(SubTask)
    /\ inDegree \in [Known -> Int]
    /\ queue \in Seq(Known)
    /\ orderedTaskIds \in Seq(Known)
    /\ visiting \in 1..(Len(subTasks) + 1)
    /\ orderedSubTasks \in Seq(DOMAIN subTasks)
    /\ subTaskResults \in [TaskIds -> Outcomes \cup {"none"}]
    /\ handled \in Seq([task : DOMAIN subTasks, context : SUBSET TaskIds,
                        outcome : Outcomes \cup {"noAgent"}])
    /\ response \in {"none", "noPlan", "answer", "error"}

Init ==
    /\ pc = "planning"
    /\ written = <<>>
    /\ subTasks = <<>>
    /\ inDegree = [id \in {} |-> 0]
    /\ queue = <<>>
    /\ orderedTaskIds = <<>>
    /\ visiting = 1
    /\ orderedSubTasks = <<>>
    /\ subTaskResults = [id \in TaskIds |-> "none"]
    /\ handled = <<>>
    /\ response = "none"

-----------------------------------------------------------------------------
(* Planning.                                                               *)

(* The matches of a field in the answer, in the order of the text: the one *)
(* increasing enumeration of the sub-tasks that write it.                  *)
Matches(S) ==
    {at \in [1..Cardinality(S) -> S] :
        \A i, j \in 1..Cardinality(S) : i < j => at[i] < at[j]}

(* The i-th sub-task has the i-th match of every field. *)
Rebuilt(w, ids, dependsOns, prompts) ==
    [i \in DOMAIN ids |->
        [id |-> w[ids[i]].id,
         dependsOn |-> IF i \in DOMAIN dependsOns
                       THEN w[dependsOns[i]].dependsOn ELSE {},
         prompt |-> IF i \in DOMAIN prompts THEN prompts[i] ELSE 0]]

HasId(w) == {p \in DOMAIN w : w[p].id # NoId}

(* The arrows of the dependency graph into id: a sub-task of that name, and *)
(* a sub-task of the plan it depends on.                                    *)
Arrows(tasks, id) ==
    {a \in (DOMAIN tasks) \X {tasks[j].id : j \in DOMAIN tasks} :
        tasks[a[1]].id = id /\ a[2] \in tasks[a[1]].dependsOn}

InDegrees(tasks) ==
    [id \in {tasks[i].id : i \in DOMAIN tasks} |->
        Cardinality(Arrows(tasks, id))]

GenerateTaskPlan(w) ==
    /\ pc = "planning"
    /\ HasId(w) # {}
    /\ written' = w
    /\ \E ids \in Matches(HasId(w)),
          dependsOns \in Matches({p \in DOMAIN w : w[p].hasDependsOn}),
          prompts \in Matches({p \in DOMAIN w : w[p].hasPrompt}) :
            subTasks' = Rebuilt(w, ids, dependsOns, prompts)
    /\ inDegree' = InDegrees(subTasks')
    /\ pc' = "queueing"
    /\ UNCHANGED <<queue, orderedTaskIds, visiting, orderedSubTasks,
                   subTaskResults, handled, response>>

(* The LLM call fails, or its answer holds no sub-task with an id. *)
NoPlan ==
    /\ pc = "planning"
    /\ response' = "noPlan"
    /\ pc' = "done"
    /\ UNCHANGED <<written, subTasks, sortVars, orderedSubTasks,
                   subTaskResults, handled>>

-----------------------------------------------------------------------------
(* Ordering (orderSubTasksByDependencies).                                 *)

QueueIfReady ==
    /\ pc = "queueing"
    /\ LET id == subTasks[visiting].id
       IN  queue' = IF inDegree[id] = 0 THEN Append(queue, id) ELSE queue
    /\ visiting' = visiting + 1
    /\ pc' = IF visiting = Len(subTasks) THEN "sorting" ELSE "queueing"
    /\ UNCHANGED <<written, subTasks, inDegree, orderedTaskIds,
                   orderedSubTasks, subTaskResults, handled, response>>

VisitedAll == visiting = Len(subTasks) + 1

Dequeue ==
    /\ pc = "sorting"
    /\ VisitedAll
    /\ queue # <<>>
    /\ orderedTaskIds' = Append(orderedTaskIds, Head(queue))
    /\ queue' = Tail(queue)
    /\ visiting' = 1
    /\ UNCHANGED <<pc, written, subTasks, inDegree, orderedSubTasks,
                   subTaskResults, handled, response>>

currentId == orderedTaskIds[Len(orderedTaskIds)]

(* A mutant: it joins the queue one dependency too early. *)
ReleaseEarly(id) ==
    /\ inDegree' = [inDegree EXCEPT ![id] = @ - 1]
    /\ queue' = IF inDegree[id] = 2 THEN Append(queue, id) ELSE queue

(* A neighbour joins the queue when its degree reaches zero. *)
Release(id) ==
    /\ inDegree' = [inDegree EXCEPT ![id] = @ - 1]
    /\ queue' = IF inDegree[id] = 1 THEN Append(queue, id) ELSE queue

VisitNeighbour ==
    /\ pc = "sorting"
    /\ ~VisitedAll
    /\ IF currentId \in subTasks[visiting].dependsOn
       THEN Release(subTasks[visiting].id)
       ELSE UNCHANGED <<inDegree, queue>>
    /\ visiting' = visiting + 1
    /\ UNCHANGED <<pc, written, subTasks, orderedTaskIds, orderedSubTasks,
                   subTaskResults, handled, response>>

OriginalOrder == [i \in DOMAIN subTasks |-> i]

(* taskMap: the last sub-task called id. *)
TaskMap(id) ==
    CHOOSE i \in DOMAIN subTasks :
        /\ subTasks[i].id = id
        /\ \A j \in DOMAIN subTasks : j > i => subTasks[j].id # id

(* A mutant: whatever was ordered is used. *)
NeverIncomplete == FALSE

(* Some sub-tasks are missing from the order: it is not used. *)
IsIncomplete == Len(orderedTaskIds) # Len(subTasks)

SortEnds ==
    /\ pc = "sorting"
    /\ VisitedAll
    /\ queue = <<>>
    /\ orderedSubTasks' =
            IF IsIncomplete THEN OriginalOrder
            ELSE [k \in DOMAIN orderedTaskIds |-> TaskMap(orderedTaskIds[k])]
    /\ pc' = "executing"
    /\ UNCHANGED <<written, subTasks, sortVars, subTaskResults, handled,
                   response>>

-----------------------------------------------------------------------------
(* Execution, one sub-task at a time (executeSubTasks).                    *)

nextTask == orderedSubTasks[Len(handled) + 1]
IsTruthy(result) == result \in {"text", "error"}

(* The results that go into the prompt of a sub-task. *)
DependencyContext(t) ==
    {d \in subTasks[t].dependsOn : IsTruthy(subTaskResults[d])}

Handle(context, outcome, result) ==
    /\ handled' = Append(handled, [task |-> nextTask, context |-> context,
                                   outcome |-> outcome])
    /\ subTaskResults' = [subTaskResults EXCEPT ![subTasks[nextTask].id] =
                                                    result]
    /\ UNCHANGED <<pc, written, subTasks, sortVars, orderedSubTasks, response>>

HasNext == pc = "executing" /\ Len(handled) < Len(orderedSubTasks)

CreateSpecializedAgentFails == HasNext /\ Handle({}, "noAgent", "error")

ExecuteTask(outcome) ==
    HasNext /\ Handle(DependencyContext(nextTask), outcome, outcome)

(* The results are put together and the LLM is asked for the answer. *)
GenerateFinalResponse ==
    /\ pc = "executing"
    /\ Len(handled) = Len(orderedSubTasks)
    /\ response' \in {"answer", "error"}
    /\ pc' = "done"
    /\ UNCHANGED <<written, subTasks, sortVars, orderedSubTasks,
                   subTaskResults, handled>>

Next ==
    \/ pc = "planning" /\ \E w \in Answers : GenerateTaskPlan(w)
    \/ NoPlan
    \/ QueueIfReady
    \/ Dequeue
    \/ VisitNeighbour
    \/ SortEnds
    \/ CreateSpecializedAgentFails
    \/ \E outcome \in Outcomes : ExecuteTask(outcome)
    \/ GenerateFinalResponse

Spec == Init /\ [][Next]_vars

-----------------------------------------------------------------------------
(* Properties.                                                             *)

(* No two sub-tasks of the plan have the same id. *)
UniqueIds ==
    \A i, j \in DOMAIN subTasks : subTasks[i].id = subTasks[j].id => i = j

(* Some sub-tasks wait for each other: each depends on one of them. *)
Cyclic ==
    \E C \in (SUBSET Known) \ {{}} :
        \A i \in DOMAIN subTasks :
            subTasks[i].id \in C => subTasks[i].dependsOn \cap C # {}

PlanIsExecuted == pc = "done" /\ response # "noPlan"

(* When the ids are unique, no sub-task is taken twice, and every one has  *)
(* been taken when the answer is made, cycles or not                       *)
(* (auto-gen-orchestrator.js:469-481 and the loop of 493).                 *)
EachTaskOnce ==
    UniqueIds =>
        /\ \A j, k \in DOMAIN handled :
                handled[j].task = handled[k].task => j = k
        /\ PlanIsExecuted =>
                \A i \in DOMAIN subTasks :
                    \E k \in DOMAIN handled : handled[k].task = i

(* When the ids are unique and no dependencies form a cycle, the prompt of *)
(* a sub-task holds the result of each of its dependencies that the plan   *)
(* has and that returned something (docs/dependencias-agentes.md:71-75).   *)
PromptsAreComplete ==
    UniqueIds /\ ~Cyclic =>
        \A k \in DOMAIN handled :
            handled[k].outcome # "noAgent" =>
                handled[k].context =
                    {d \in subTasks[handled[k].task].dependsOn \cap Known :
                        IsTruthy(subTaskResults[d])}

(* Whatever the LLM wrote, repeated ids and cycles included, every id of   *)
(* the plan has a result when the answer is made                           *)
(* (auto-gen-orchestrator.js:582-592 reads one for each).                  *)
EveryIdHasResult ==
    PlanIsExecuted => \A id \in Known : subTaskResults[id] # "none"
=============================================================================
