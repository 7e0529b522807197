--------------------- MODULE AutoGenOrchestrator_proofs ---------------------
(***************************************************************************)
(* Proofs about the order and the prompts of the sub-tasks.  While they    *)
(* are ordered, the degree of a sub-task is the number of its dependencies *)
(* that still count against it (Pending); the queue and the finished ids   *)
(* together are the sub-tasks whose degree is zero.                        *)
(***************************************************************************)
EXTENDS AutoGenOrchestrator, FiniteSetTheorems, SequenceTheorems,
        NaturalsInduction, TLAPS

-----------------------------------------------------------------------------
(* The invariant.                                                          *)

(* What each phase leaves for the next.                                    *)
Phases ==
    /\ pc = "planning" => visiting = 1 /\ queue = <<>> /\ subTasks = <<>>
    /\ pc \in {"planning", "queueing"} => orderedTaskIds = <<>>
    /\ pc \in {"planning", "queueing", "sorting"} =>
            /\ orderedSubTasks = <<>>
            /\ handled = <<>>
    /\ pc = "queueing" => visiting \in DOMAIN subTasks
    /\ pc = "sorting" /\ ~VisitedAll => orderedTaskIds # <<>>
    /\ pc # "done" => response = "none"
    /\ pc = "done" /\ response = "noPlan" => handled = <<>>
    /\ PlanIsExecuted => Len(handled) = Len(orderedSubTasks)

(* Sub-tasks are taken in order, and only ids of the plan have results. *)
TakenInOrder ==
    /\ Len(handled) <= Len(orderedSubTasks)
    /\ \A k \in DOMAIN handled : handled[k].task = orderedSubTasks[k]
    /\ \A id \in TaskIds : subTaskResults[id] # "none" => id \in Known

Elements(s) == {s[k] : k \in DOMAIN s}
Finished == Elements(orderedTaskIds)
Queued == Elements(queue)

(* The dependencies of the i-th sub-task that count in its degree: those   *)
(* not finished, and the one just finished if i is still to be visited.    *)
Pending(i) ==
    {d \in subTasks[i].dependsOn \cap Known :
        d \in Finished =>
            pc = "sorting" /\ ~VisitedAll /\ visiting <= i /\ d = currentId}

Distinct(s) == \A j, k \in DOMAIN s : s[j] = s[k] => j = k

(* The state of the ordering. *)
Sorting ==
    /\ \A i \in DOMAIN subTasks :
            inDegree[subTasks[i].id] = Cardinality(Pending(i))
    /\ Distinct(orderedTaskIds)
    /\ Distinct(queue)
    /\ Finished \cap Queued = {}
    /\ \A i \in DOMAIN subTasks :
            subTasks[i].id \in Finished \cup Queued <=>
                Pending(i) = {} /\ (pc = "queueing" => i < visiting)
    /\ \A k \in DOMAIN orderedTaskIds, i \in DOMAIN subTasks :
            subTasks[i].id = orderedTaskIds[k] =>
                \A d \in subTasks[i].dependsOn \cap Known :
                    \E j \in DOMAIN orderedTaskIds :
                        j < k /\ orderedTaskIds[j] = d

(* What the ordering is for. *)
Ordered ==
    /\ Distinct(orderedSubTasks)
    /\ Len(orderedSubTasks) = Len(subTasks)
    /\ ~Cyclic =>
        \A k \in DOMAIN orderedSubTasks :
            \A d \in subTasks[orderedSubTasks[k]].dependsOn \cap Known :
                \E j \in DOMAIN orderedSubTasks :
                    j < k /\ subTasks[orderedSubTasks[j]].id = d

SortInv ==
    UniqueIds =>
        /\ pc \in {"queueing", "sorting"} => Sorting
        /\ pc = "executing" \/ PlanIsExecuted => Ordered

IInv ==
    /\ TypeOK
    /\ Phases
    /\ TakenInOrder
    /\ SortInv
    /\ PromptsAreComplete

-----------------------------------------------------------------------------
(* Type correctness.                                                       *)

(* The last sub-task of a name of the plan is a sub-task of that name.     *)
LEMMA TaskMapIsTask ==
    ASSUME NEW id, subTasks \in Seq(SubTask), id \in Known
    PROVE  TaskMap(id) \in DOMAIN subTasks /\ subTasks[TaskMap(id)].id = id
<1> DEFINE n == Len(subTasks)
           T == {m \in Nat : n - m \in DOMAIN subTasks
                                /\ subTasks[n - m].id = id}
<1>1. n \in Nat /\ DOMAIN subTasks = 1..n
    BY LenProperties
<1>2. PICK i \in DOMAIN subTasks : subTasks[i].id = id
    BY DEF Known
<1>3. n - i \in T
    BY <1>1, <1>2
<1>4. PICK m \in T : \A k \in T : ~(<<k, m>> \in OpToRel(<, Nat))
    <2>1. IsWellFoundedOn(OpToRel(<, Nat), Nat)
        BY NatLessThanWellFounded
    <2> QED
        BY <2>1, <1>3, WFMin
<1>5. \A k \in T : ~(k < m)
    BY <1>4 DEF OpToRel
<1>6. m \in Nat /\ n - m \in DOMAIN subTasks /\ subTasks[n - m].id = id
    OBVIOUS
<1>7. \A j \in DOMAIN subTasks : j > n - m => subTasks[j].id # id
    <2> SUFFICES ASSUME NEW j \in DOMAIN subTasks, j > n - m,
                        subTasks[j].id = id
                 PROVE  FALSE
        OBVIOUS
    <2>1. n - j \in Nat /\ n - (n - j) = j /\ n - j < m
        BY <1>1, <1>6
    <2> QED
        BY <2>1, <1>5
<1> QED
    BY <1>6, <1>7 DEF TaskMap

(* Rebuilt makes sub-tasks of what the LLM wrote.                          *)
LEMMA RebuiltType ==
    ASSUME NEW w \in Answers,
           NEW ids \in Matches(HasId(w)),
           NEW dependsOns \in Matches({p \in DOMAIN w : w[p].hasDependsOn}),
           NEW prompts \in Matches({p \in DOMAIN w : w[p].hasPrompt})
    PROVE  Rebuilt(w, ids, dependsOns, prompts) \in Seq(SubTask)
<1>1. PICK n \in 0..MaxTasks : w \in [1..n -> Written]
    BY AnswersAreWritten
<1> DEFINE S == HasId(w)
<1>2. ids \in [1..Cardinality(S) -> S] /\ DOMAIN ids = 1..Cardinality(S)
    BY DEF Matches
<1>3. IsFiniteSet(S) /\ Cardinality(S) \in Nat
    <2>1. S \subseteq 1..n
        BY <1>1 DEF HasId
    <2>2. IsFiniteSet(1..n)
        BY <1>1, AnswersAreWritten, FS_Interval
    <2> QED
        BY <2>1, <2>2, FS_Subset, FS_CardinalityType
<1>4. ASSUME NEW i \in 1..Cardinality(S)
      PROVE  [id |-> w[ids[i]].id,
              dependsOn |-> IF i \in DOMAIN dependsOns
                            THEN w[dependsOns[i]].dependsOn ELSE {},
              prompt |-> IF i \in DOMAIN prompts THEN prompts[i] ELSE 0]
                \in SubTask
    <2>1. w[ids[i]].id \in TaskIds
        BY <1>1, <1>2 DEF HasId, Written
    <2>2. i \in DOMAIN dependsOns => w[dependsOns[i]].dependsOn \in SUBSET TaskIds
        BY <1>1 DEF Matches, Written
    <2>3. i \in DOMAIN prompts => prompts[i] \in 0..MaxTasks
        BY <1>1, AnswersAreWritten DEF Matches
    <2> QED
        BY <2>1, <2>2, <2>3, AnswersAreWritten DEF SubTask
<1>5. Rebuilt(w, ids, dependsOns, prompts) \in [1..Cardinality(S) -> SubTask]
    BY <1>2, <1>4 DEF Rebuilt
<1> QED
    BY <1>3, <1>5

(* The Arrows into an id are finitely many.                                *)
LEMMA ArrowsAreFinite ==
    ASSUME NEW tasks \in Seq(SubTask), NEW id
    PROVE  /\ IsFiniteSet(Arrows(tasks, id))
           /\ Cardinality(Arrows(tasks, id)) \in Nat
<1> DEFINE n == Len(tasks)
           K == {tasks[j].id : j \in DOMAIN tasks}
           f == [j \in 1..n |-> tasks[j].id]
<1>1. n \in Nat /\ DOMAIN tasks = 1..n
    BY LenProperties
<1>2. f \in Surjection(1..n, K)
    BY <1>1 DEF Surjection
<1>3. IsFiniteSet(1..n)
    BY <1>1, FS_Interval
<1>4. IsFiniteSet(K)
    BY <1>2, <1>3, FS_Surjection
<1>5. IsFiniteSet((DOMAIN tasks) \X K)
    BY <1>1, <1>3, <1>4, FS_Product
<1>6. Arrows(tasks, id) \subseteq (DOMAIN tasks) \X K
    BY DEF Arrows
<1> QED
    BY <1>5, <1>6, FS_Subset, FS_CardinalityType


(* The next element of orderedSubTasks is a sub-task.                      *)
LEMMA NextTaskType ==
    ASSUME TypeOK, HasNext
    PROVE  nextTask \in DOMAIN subTasks /\ subTasks[nextTask] \in SubTask
<1> DEFINE D == DOMAIN subTasks
<1>1. orderedSubTasks \in Seq(D) /\ subTasks \in Seq(SubTask)
    BY DEF TypeOK
<1>2. Len(handled) \in Nat /\ Len(orderedSubTasks) \in Nat
    BY LenProperties DEF TypeOK
<1>3. Len(handled) + 1 \in 1..Len(orderedSubTasks)
    BY <1>2 DEF HasNext
<1> HIDE DEF D
<1>4. nextTask \in D
    BY <1>1, <1>3, ElementOfSeq DEF nextTask
<1>5. subTasks[nextTask] \in SubTask
    BY <1>1, <1>4 DEF D
<1> QED
    BY <1>4, <1>5 DEF D

(* Every step keeps the types and the phases.                              *)
LEMMA TypeStep ==
    ASSUME TypeOK, Phases, [Next]_vars
    PROVE  TypeOK' /\ Phases'
<1> DEFINE Handled == [task : DOMAIN subTasks, context : SUBSET TaskIds,
                       outcome : Outcomes \cup {"noAgent"}]
<1>1. ASSUME NEW w \in Answers, GenerateTaskPlan(w) PROVE TypeOK' /\ Phases'
    <2>1. subTasks' \in Seq(SubTask)
        BY <1>1, RebuiltType DEF GenerateTaskPlan
    <2>2. DOMAIN subTasks' = 1..Len(subTasks') /\ Len(subTasks') \in Nat
        BY <2>1, LenProperties
    <2>3. inDegree' \in [Known' -> Int]
        <3>1. \A id : Cardinality(Arrows(subTasks', id)) \in Nat
            BY <2>1, ArrowsAreFinite
        <3> QED
            BY <1>1, <3>1 DEF GenerateTaskPlan, InDegrees, Known
    <2>4. 1 \in DOMAIN subTasks'
        <3>1. PICK n \in 0..MaxTasks : w \in [1..n -> Written]
            BY AnswersAreWritten
        <3>2. IsFiniteSet(1..n)
            BY <3>1, AnswersAreWritten, FS_Interval
        <3>3. HasId(w) \subseteq 1..n /\ HasId(w) # {}
            BY <1>1, <3>1 DEF HasId, GenerateTaskPlan
        <3>4. Cardinality(HasId(w)) \in Nat /\ Cardinality(HasId(w)) # 0
            BY <3>2, <3>3, FS_Subset, FS_EmptySet, FS_CardinalityType
        <3>5. DOMAIN subTasks' = 1..Cardinality(HasId(w))
            BY <1>1 DEF GenerateTaskPlan, Rebuilt, Matches
        <3> QED
            BY <3>4, <3>5
    <2> QED
        BY <1>1, <2>1, <2>2, <2>3, <2>4
        DEF GenerateTaskPlan, TypeOK, Phases, VisitedAll, PlanIsExecuted
<1>2. ASSUME NoPlan PROVE TypeOK' /\ Phases'
    BY <1>2
    DEF NoPlan, TypeOK, Phases, sortVars, VisitedAll, PlanIsExecuted, Known
<1>3. ASSUME QueueIfReady PROVE TypeOK' /\ Phases'
    <2>1. DOMAIN subTasks = 1..Len(subTasks) /\ Len(subTasks) \in Nat
        BY LenProperties DEF TypeOK
    <2>2. visiting \in DOMAIN subTasks /\ subTasks[visiting].id \in Known
        BY <1>3 DEF QueueIfReady, Phases, Known
    <2>3. queue' \in Seq(Known)
        BY <1>3, <2>2, AppendProperties DEF QueueIfReady, TypeOK
    <2>4. visiting' \in 1..(Len(subTasks) + 1)
        BY <1>3, <2>1, <2>2 DEF QueueIfReady
    <2>5. TypeOK'
        BY <1>3, <2>3, <2>4 DEF QueueIfReady, TypeOK, Known
    <2>6. Phases'
        BY <1>3, <2>1, <2>2
        DEF QueueIfReady, Phases, VisitedAll, PlanIsExecuted
    <2> QED
        BY <2>5, <2>6
<1>4. ASSUME Dequeue PROVE TypeOK' /\ Phases'
    <2>1. Head(queue) \in Known /\ queue' \in Seq(Known)
        BY <1>4, HeadTailProperties DEF Dequeue, TypeOK
    <2>2. orderedTaskIds' \in Seq(Known) /\ orderedTaskIds' # <<>>
        BY <1>4, <2>1, AppendProperties DEF Dequeue, TypeOK
    <2>3. visiting' \in 1..(Len(subTasks) + 1)
        BY <1>4, LenProperties DEF Dequeue, TypeOK
    <2>4. TypeOK'
        BY <1>4, <2>1, <2>2, <2>3 DEF Dequeue, TypeOK, Known
    <2>5. Phases'
        BY <1>4, <2>2 DEF Dequeue, Phases, VisitedAll, PlanIsExecuted
    <2> QED
        BY <2>4, <2>5
<1>5. ASSUME VisitNeighbour PROVE TypeOK' /\ Phases'
    <2>1. DOMAIN subTasks = 1..Len(subTasks) /\ Len(subTasks) \in Nat
        BY LenProperties DEF TypeOK
    <2>2. visiting \in DOMAIN subTasks /\ subTasks[visiting].id \in Known
        <3>1. visiting \in 1..(Len(subTasks) + 1) /\ visiting # Len(subTasks) + 1
            BY <1>5 DEF VisitNeighbour, TypeOK, VisitedAll
        <3>2. visiting \in DOMAIN subTasks
            BY <2>1, <3>1
        <3> QED
            BY <3>2 DEF Known
    <2>3. queue' \in Seq(Known)
        <3>1. queue \in Seq(Known)
            BY DEF TypeOK
        <3>2. Append(queue, subTasks[visiting].id) \in Seq(Known)
            BY <2>2, <3>1, AppendProperties
        <3>3. queue' \in {queue, Append(queue, subTasks[visiting].id)}
            BY <1>5 DEF VisitNeighbour, Release
        <3> QED
            BY <3>1, <3>2, <3>3
    <2>4. inDegree' \in [Known -> Int]
        BY <1>5, <2>2 DEF VisitNeighbour, Release, TypeOK
    <2>5. visiting' \in 1..(Len(subTasks) + 1)
        BY <1>5, <2>1, <2>2 DEF VisitNeighbour
    <2>6. TypeOK'
        BY <1>5, <2>3, <2>4, <2>5 DEF VisitNeighbour, TypeOK, Known
    <2>7. Phases'
        BY <1>5, <2>1, <2>2
        DEF VisitNeighbour, Phases, VisitedAll, PlanIsExecuted
    <2> QED
        BY <2>6, <2>7
<1>6. ASSUME SortEnds PROVE TypeOK' /\ Phases'
    <2>1. DOMAIN subTasks = 1..Len(subTasks) /\ Len(subTasks) \in Nat
          /\ DOMAIN orderedTaskIds = 1..Len(orderedTaskIds)
          /\ Len(orderedTaskIds) \in Nat
        BY LenProperties DEF TypeOK
    <2>2. \A k \in DOMAIN orderedTaskIds :
                TaskMap(orderedTaskIds[k]) \in DOMAIN subTasks
        BY <2>1, TaskMapIsTask, ElementOfSeq DEF TypeOK
    <2>3. orderedSubTasks' \in Seq(DOMAIN subTasks)
        <3>1. OriginalOrder \in [1..Len(subTasks) -> DOMAIN subTasks]
            BY <2>1 DEF OriginalOrder
        <3>2. [k \in DOMAIN orderedTaskIds |-> TaskMap(orderedTaskIds[k])]
                \in [1..Len(orderedTaskIds) -> DOMAIN subTasks]
            BY <2>1, <2>2
        <3> QED
            BY <1>6, <2>1, <3>1, <3>2 DEF SortEnds
    <2>4. TypeOK'
        BY <1>6, <2>3 DEF SortEnds, TypeOK, sortVars, Known
    <2>5. Phases'
        BY <1>6 DEF SortEnds, Phases, sortVars, VisitedAll, PlanIsExecuted
    <2> QED
        BY <2>4, <2>5
<1>7. ASSUME HasNext, NEW context \in SUBSET TaskIds,
             NEW outcome \in Outcomes \cup {"noAgent"}, NEW result \in Outcomes,
             Handle(context, outcome, result)
      PROVE  TypeOK' /\ Phases'
    <2>1. nextTask \in DOMAIN subTasks
        BY <1>7, NextTaskType
    <2>2. subTasks[nextTask].id \in TaskIds
        BY <1>7, NextTaskType DEF SubTask
    <2>3. handled' \in Seq(Handled)
        BY <1>7, <2>1, AppendProperties DEF Handle, TypeOK
    <2>4. TypeOK'
        BY <1>7, <2>2, <2>3 DEF Handle, TypeOK, sortVars, Known
    <2>5. Phases'
        BY <1>7
        DEF Handle, HasNext, Phases, sortVars, VisitedAll, PlanIsExecuted
    <2> QED
        BY <2>4, <2>5
<1>8. ASSUME CreateSpecializedAgentFails PROVE TypeOK' /\ Phases'
    BY <1>7, <1>8 DEF CreateSpecializedAgentFails, Outcomes
<1>9. ASSUME NEW outcome \in Outcomes, ExecuteTask(outcome)
      PROVE  TypeOK' /\ Phases'
    <2>1. nextTask \in DOMAIN subTasks
        BY <1>9, NextTaskType DEF ExecuteTask
    <2>2. DependencyContext(nextTask) \in SUBSET TaskIds
        BY <1>9, NextTaskType DEF ExecuteTask, DependencyContext, SubTask
    <2> QED
        BY <1>7, <1>9, <2>2 DEF ExecuteTask
<1>10. ASSUME GenerateFinalResponse PROVE TypeOK' /\ Phases'
    BY <1>10
    DEF GenerateFinalResponse, TypeOK, Phases, sortVars, VisitedAll,
        PlanIsExecuted, Known
<1>11. ASSUME UNCHANGED vars PROVE TypeOK' /\ Phases'
    BY <1>11
    DEF vars, sortVars, TypeOK, Phases, VisitedAll, PlanIsExecuted, Known
<1> QED
    BY <1>1, <1>2, <1>3, <1>4, <1>5, <1>6, <1>8, <1>9, <1>10, <1>11 DEF Next

(* Every step takes sub-tasks in order.                                    *)
LEMMA TakenStep ==
    ASSUME TypeOK, Phases, TakenInOrder, [Next]_vars
    PROVE  TakenInOrder'
<1>1. ASSUME NEW w \in Answers, GenerateTaskPlan(w) PROVE TakenInOrder'
    <2>1. subTasks = <<>>
        BY <1>1 DEF GenerateTaskPlan, Phases
    <2>2. Known = {}
        BY <2>1 DEF Known
    <2> QED
        BY <1>1, <2>2 DEF GenerateTaskPlan, TakenInOrder
<1>2. ASSUME UNCHANGED <<subTasks, handled, orderedSubTasks, subTaskResults>>
      PROVE  TakenInOrder'
    BY <1>2 DEF TakenInOrder, Known
<1>3. ASSUME SortEnds PROVE TakenInOrder'
    <2>1. handled' = <<>> /\ Known' = Known
        BY <1>3 DEF SortEnds, Phases, Known
    <2>2. Len(handled') = 0 /\ DOMAIN handled' = {}
        BY <2>1
    <2>3. Len(orderedSubTasks') \in Nat
        BY <1>3, TypeStep, LenProperties DEF Next, TypeOK
    <2> QED
        BY <1>3, <2>1, <2>2, <2>3 DEF SortEnds, TakenInOrder
<1>4. ASSUME HasNext, NEW context \in SUBSET TaskIds,
             NEW outcome \in Outcomes \cup {"noAgent"}, NEW result,
             Handle(context, outcome, result)
      PROVE  TakenInOrder'
    <2> DEFINE h == [task |-> nextTask, context |-> context, outcome |-> outcome]
               H == [task : DOMAIN subTasks, context : SUBSET TaskIds,
                     outcome : Outcomes \cup {"noAgent"}]
    <2>1. handled \in Seq(H) /\ h \in H
        BY <1>4, NextTaskType DEF TypeOK
    <2>2. /\ Len(handled') = Len(handled) + 1
          /\ \A k \in 1..Len(handled) : handled'[k] = handled[k]
          /\ handled'[Len(handled) + 1] = h
          /\ DOMAIN handled' = 1..(Len(handled) + 1)
          /\ DOMAIN handled = 1..Len(handled)
          /\ Len(handled) \in Nat
        <3> HIDE DEF h, H
        <3>1. handled' = Append(handled, h)
            BY <1>4 DEF Handle, h
        <3>2. handled' \in Seq(H)
            BY <2>1, <3>1, AppendProperties
        <3>3. Len(handled) \in Nat /\ DOMAIN handled = 1..Len(handled)
              /\ DOMAIN handled' = 1..Len(handled')
            BY <2>1, <3>2, LenProperties
        <3> QED
            BY <2>1, <3>1, <3>3, AppendProperties
    <2>3. \A k \in DOMAIN handled' : handled'[k].task = orderedSubTasks[k]
        BY <2>2 DEF TakenInOrder, nextTask
    <2>4. Len(handled') <= Len(orderedSubTasks)
        BY <1>4, <2>2, LenProperties DEF HasNext, TypeOK
    <2>5. subTasks[nextTask].id \in Known /\ Known' = Known
        BY <1>4, NextTaskType DEF Known, Handle
    <2>6. \A id \in TaskIds : subTaskResults'[id] # "none" => id \in Known
        BY <1>4, <2>5 DEF Handle, TypeOK, TakenInOrder
    <2> QED
        BY <1>4, <2>3, <2>4, <2>5, <2>6 DEF Handle, TakenInOrder
<1>5. ASSUME NEW outcome \in Outcomes, ExecuteTask(outcome)
      PROVE  TakenInOrder'
    BY <1>4, <1>5, NextTaskType DEF ExecuteTask, DependencyContext, SubTask
<1>6. ASSUME CreateSpecializedAgentFails PROVE TakenInOrder'
    BY <1>4, <1>6 DEF CreateSpecializedAgentFails
<1> QED
    BY <1>1, <1>2, <1>3, <1>5, <1>6
    DEF Next, vars, sortVars, NoPlan, QueueIfReady, Dequeue, VisitNeighbour,
        GenerateFinalResponse

-----------------------------------------------------------------------------
(* Facts about the plan and about sequences.                               *)

(* What Append does to the elements of a sequence.                         *)
LEMMA AppendElements ==
    ASSUME NEW S, NEW s \in Seq(S), NEW e \in S
    PROVE  /\ Elements(Append(s, e)) = Elements(s) \cup {e}
           /\ Distinct(s) /\ e \notin Elements(s) => Distinct(Append(s, e))
<1> DEFINE t == Append(s, e)
<1>1. /\ DOMAIN s = 1..Len(s) /\ Len(s) \in Nat
      /\ t \in Seq(S) /\ Len(t) = Len(s) + 1
      /\ \A k \in 1..Len(s) : t[k] = s[k]
      /\ t[Len(s) + 1] = e
    BY AppendProperties, LenProperties
<1>2. DOMAIN t = 1..(Len(s) + 1)
    BY <1>1, LenProperties
<1> HIDE DEF t
<1>3. Elements(t) = Elements(s) \cup {e}
    BY <1>1, <1>2 DEF Elements
<1>4. Distinct(s) /\ e \notin Elements(s) => Distinct(t)
    BY <1>1, <1>2 DEF Elements, Distinct
<1> QED
    BY <1>3, <1>4 DEF t

(* What shift does to the elements of a queue.                             *)
LEMMA TailElements ==
    ASSUME NEW S, NEW s \in Seq(S), s # <<>>, Distinct(s)
    PROVE  /\ Head(s) \in Elements(s)
           /\ Elements(Tail(s)) = Elements(s) \ {Head(s)}
           /\ Distinct(Tail(s))
<1> DEFINE t == Tail(s)
<1>1. /\ DOMAIN s = 1..Len(s) /\ Len(s) \in Nat /\ Len(s) # 0
      /\ t \in Seq(S) /\ Len(t) = Len(s) - 1
      /\ \A k \in 1..Len(t) : t[k] = s[k + 1]
    BY HeadTailProperties, LenProperties, EmptySeq
<1>2. DOMAIN t = 1..(Len(s) - 1)
    BY <1>1, LenProperties
<1>3. Head(s) = s[1]
    OBVIOUS
<1> HIDE DEF t
<1>4. Head(s) \in Elements(s)
    BY <1>1, <1>3 DEF Elements
<1>5. Elements(t) = Elements(s) \ {Head(s)}
    <2>1. ASSUME NEW x \in Elements(t) PROVE x \in Elements(s) \ {Head(s)}
        <3>1. PICK k \in 1..(Len(s) - 1) : x = s[k + 1]
            BY <1>1, <1>2 DEF Elements
        <3>2. k + 1 \in DOMAIN s /\ 1 \in DOMAIN s /\ k + 1 # 1
            BY <1>1
        <3> QED
            BY <1>3, <3>1, <3>2 DEF Distinct, Elements
    <2>2. ASSUME NEW x \in Elements(s) \ {Head(s)} PROVE x \in Elements(t)
        <3>1. PICK k \in 1..Len(s) : x = s[k] /\ k # 1
            BY <1>1, <1>3 DEF Elements
        <3>2. k - 1 \in 1..(Len(s) - 1) /\ (k - 1) + 1 = k
            BY <1>1, <3>1
        <3> QED
            BY <1>1, <1>2, <3>1, <3>2 DEF Elements
    <2> QED
        BY <2>1, <2>2
<1>6. ASSUME NEW j \in DOMAIN t, NEW k \in DOMAIN t, t[j] = t[k]
      PROVE  j = k
    <2>1. j + 1 \in DOMAIN s /\ k + 1 \in DOMAIN s /\ s[j + 1] = s[k + 1]
        BY <1>1, <1>2, <1>6
    <2>2. j + 1 = k + 1 /\ j \in Int /\ k \in Int
        BY <1>2, <2>1 DEF Distinct
    <2> QED
        BY <2>2
<1> QED
    BY <1>4, <1>5, <1>6 DEF t, Distinct

(* A plan has finitely many ids, as many as sub-tasks if they are unique.  *)
LEMMA KnownIsFinite ==
    ASSUME subTasks \in Seq(SubTask)
    PROVE  /\ IsFiniteSet(Known)
           /\ UniqueIds => Cardinality(Known) = Len(subTasks)
<1> DEFINE n == Len(subTasks)
           f == [i \in 1..n |-> subTasks[i].id]
<1>1. n \in Nat /\ DOMAIN subTasks = 1..n
    BY LenProperties
<1>2. f \in Surjection(1..n, Known)
    BY <1>1 DEF Surjection, Known
<1>3. IsFiniteSet(1..n)
    BY <1>1, FS_Interval
<1>4. IsFiniteSet(Known)
    BY <1>2, <1>3, FS_Surjection
<1>5. ASSUME UniqueIds PROVE Cardinality(Known) = n
    <2>1. f \in Injection(1..n, Known)
        BY <1>1, <1>2, <1>5 DEF UniqueIds, Injection, IsInjective, Surjection
    <2>2. f \in Bijection(1..n, Known)
        BY <1>2, <2>1 DEF Bijection
    <2>3. ExistsBijection(1..n, Known)
        BY <2>2 DEF ExistsBijection
    <2> QED
        BY <1>1, <2>3, FS_CountingElements
<1> QED
    BY <1>4, <1>5

ArrowsCount ==
    \A i \in DOMAIN subTasks :
        Cardinality(Arrows(subTasks, subTasks[i].id))
            = Cardinality(subTasks[i].dependsOn \cap Known)

(* When the ids are unique, the arrows into an id are as many as the       *)
(* dependencies of its sub-task in the plan.                               *)
LEMMA DegreeOfUnique == TypeOK /\ UniqueIds => ArrowsCount
<1> SUFFICES ASSUME TypeOK, UniqueIds PROVE ArrowsCount
    OBVIOUS
<1>0. subTasks \in Seq(SubTask)
    BY DEF TypeOK
<1> SUFFICES ASSUME NEW i \in DOMAIN subTasks
             PROVE  Cardinality(Arrows(subTasks, subTasks[i].id))
                        = Cardinality(subTasks[i].dependsOn \cap Known)
    BY DEF ArrowsCount
<1> DEFINE A == Arrows(subTasks, subTasks[i].id)
           D == subTasks[i].dependsOn \cap Known
           f == [d \in D |-> <<i, d>>]
<1>1. A = {a \in (DOMAIN subTasks) \X Known : a[1] = i /\ a[2] \in D}
    BY DEF Arrows, UniqueIds, Known
<1>2. f \in Surjection(D, A)
    BY <1>1 DEF Surjection, Known
<1>3. f \in Injection(D, A)
    BY <1>2 DEF Surjection, Injection, IsInjective
<1>4. IsFiniteSet(D)
    BY <1>0, KnownIsFinite, FS_Subset
<1>5. ExistsBijection(D, A)
    BY <1>2, <1>3 DEF Bijection, ExistsBijection
<1> QED
    BY <1>4, <1>5, FS_Bijection

(* The pending dependencies are finitely many, and none if none count.     *)
LEMMA PendingIsFinite ==
    ASSUME subTasks \in Seq(SubTask), NEW i \in DOMAIN subTasks
    PROVE  /\ IsFiniteSet(Pending(i))
           /\ Cardinality(Pending(i)) \in Nat
           /\ Cardinality(Pending(i)) = 0 <=> Pending(i) = {}
<1>1. IsFiniteSet(Pending(i))
    BY KnownIsFinite, FS_Subset DEF Pending
<1> QED
    BY <1>1, FS_EmptySet, FS_CardinalityType

-----------------------------------------------------------------------------
(* The order.  Each lemma is one action.                                   *)

(* A plan whose degrees are counted has not begun to be ordered.           *)
LEMMA PlanStarts ==
    ASSUME TypeOK, Phases, TypeOK', UniqueIds',
           NEW w \in Answers, GenerateTaskPlan(w)
    PROVE  Sorting'
<1>1. subTasks' \in Seq(SubTask)
    BY DEF TypeOK
<1>2. orderedTaskIds' = <<>> /\ queue' = <<>> /\ visiting' = 1
      /\ pc' = "queueing"
    BY DEF GenerateTaskPlan, Phases
<1>3. Finished' = {} /\ Queued' = {}
    BY <1>2 DEF Finished, Queued, Elements
<1>4. ASSUME NEW i \in DOMAIN subTasks'
      PROVE  /\ inDegree'[subTasks'[i].id] = Cardinality(Pending(i)')
             /\ ~(i < visiting')
    <2>1. Pending(i)' = subTasks'[i].dependsOn \cap Known'
        BY <1>3 DEF Pending
    <2>2. Cardinality(Arrows(subTasks', subTasks'[i].id))
            = Cardinality(subTasks'[i].dependsOn \cap Known')
        <3>1. TypeOK' /\ UniqueIds'
            OBVIOUS
        <3>2. ArrowsCount'
            BY <3>1, PTL, DegreeOfUnique
        <3> QED
            BY <3>2 DEF ArrowsCount
    <2>3. inDegree'[subTasks'[i].id]
            = Cardinality(Arrows(subTasks', subTasks'[i].id))
        BY DEF GenerateTaskPlan, InDegrees
    <2>4. i \in 1..Len(subTasks') /\ Len(subTasks') \in Nat
        BY <1>1, LenProperties
    <2> QED
        BY <1>2, <2>1, <2>2, <2>3, <2>4
<1> QED
    BY <1>2, <1>3, <1>4 DEF Sorting, Distinct

(* The sub-tasks without dependencies are queued.                          *)
LEMMA QueueStep ==
    ASSUME TypeOK, Phases, UniqueIds, Sorting, QueueIfReady
    PROVE  Sorting'
<1> DEFINE p == visiting
           n == Len(subTasks)
<1>1. /\ subTasks \in Seq(SubTask) /\ n \in Nat
      /\ DOMAIN subTasks = 1..n
      /\ p \in 1..n
      /\ orderedTaskIds = <<>> /\ pc = "queueing"
    BY LenProperties DEF QueueIfReady, TypeOK, Phases
<1>2. /\ subTasks' = subTasks /\ inDegree' = inDegree
      /\ orderedTaskIds' = <<>> /\ Finished = {} /\ Finished' = {}
      /\ Known' = Known
    BY <1>1 DEF QueueIfReady, Finished, Elements, Known
<1>3. \A i \in DOMAIN subTasks : Pending(i)' = Pending(i)
    BY <1>2 DEF Pending
<1>4. p \in DOMAIN subTasks /\ (inDegree[subTasks[p].id] = 0 <=> Pending(p) = {})
    BY <1>1, PendingIsFinite DEF Sorting
<1>5. subTasks[p].id \notin Queued
    BY <1>1, <1>4 DEF Sorting
<1>6. /\ Queued' = IF Pending(p) = {} THEN Queued \cup {subTasks[p].id}
                   ELSE Queued
      /\ Distinct(queue')
    <2>1. subTasks[p].id \in Known /\ queue \in Seq(Known)
        BY <1>4 DEF Known, TypeOK
    <2>2. CASE Pending(p) = {}
        <3>1. queue' = Append(queue, subTasks[p].id)
            BY <1>4, <2>2 DEF QueueIfReady
        <3> QED
            BY <1>5, <2>1, <2>2, <3>1, AppendElements DEF Queued, Sorting
    <2>3. CASE Pending(p) # {}
        <3>1. queue' = queue
            BY <1>4, <2>3 DEF QueueIfReady
        <3> QED
            BY <2>3, <3>1 DEF Queued, Sorting
    <2> QED
        BY <2>2, <2>3
<1>7. ASSUME NEW i \in DOMAIN subTasks
      PROVE  subTasks[i].id \in Queued' <=>
                Pending(i) = {} /\ (pc' = "queueing" => i < visiting')
    <2>1. subTasks[i].id \in Queued <=> Pending(i) = {} /\ i < p
        BY <1>1, <1>2 DEF Sorting
    <2>2. (pc' = "queueing" => i < visiting') <=> (i < p \/ i = p)
        <3>1. CASE p = n
            BY <1>1, <3>1 DEF QueueIfReady
        <3>2. CASE p # n
            <4>1. pc' = "queueing" /\ visiting' = p + 1
                BY <3>2 DEF QueueIfReady
            <4>2. i \in Int /\ p \in Int
                BY <1>1
            <4>3. i < p + 1 <=> (i < p \/ i = p)
                BY <4>2
            <4> QED
                BY <4>1, <4>3
        <3> QED
            BY <3>1, <3>2
    <2>3. subTasks[i].id = subTasks[p].id <=> i = p
        BY <1>4 DEF UniqueIds
    <2> QED
        BY <1>6, <2>1, <2>2, <2>3
<1> QED
    BY <1>2, <1>3, <1>6, <1>7 DEF Sorting, Distinct

(* The head of the queue is finished; it still counts for all.             *)
LEMMA DequeueStep ==
    ASSUME TypeOK, Phases, UniqueIds, Sorting, Dequeue, TypeOK'
    PROVE  Sorting'
<1> DEFINE h == Head(queue)
           n == Len(subTasks)
<1>1. /\ n \in Nat /\ DOMAIN subTasks = 1..n
      /\ h \in Known /\ queue \in Seq(Known) /\ queue # <<>>
      /\ orderedTaskIds \in Seq(Known)
    BY LenProperties, HeadTailProperties DEF Dequeue, TypeOK
<1>2. h \in Queued /\ Queued' = Queued \ {h} /\ Distinct(queue')
    BY <1>1, TailElements DEF Dequeue, Queued, Sorting
<1>3. Finished' = Finished \cup {h} /\ Distinct(orderedTaskIds')
    BY <1>1, <1>2, AppendElements DEF Dequeue, Finished, Sorting
<1>4. /\ DOMAIN orderedTaskIds = 1..Len(orderedTaskIds)
      /\ Len(orderedTaskIds) \in Nat
      /\ DOMAIN orderedTaskIds' = 1..(Len(orderedTaskIds) + 1)
      /\ orderedTaskIds'[Len(orderedTaskIds) + 1] = h
      /\ \A k \in 1..Len(orderedTaskIds) :
            orderedTaskIds'[k] = orderedTaskIds[k]
      /\ Len(orderedTaskIds') = Len(orderedTaskIds) + 1
    <2>1. orderedTaskIds' = Append(orderedTaskIds, h)
        BY DEF Dequeue
    <2>2. orderedTaskIds' \in Seq(Known)
        BY <1>1, <2>1, AppendProperties
    <2> QED
        BY <1>1, <2>1, <2>2, AppendProperties, LenProperties
<1>5. currentId' = h
    BY <1>4 DEF currentId
<1>6. /\ subTasks' = subTasks /\ Known' = Known /\ inDegree' = inDegree
      /\ pc = "sorting" /\ pc' = "sorting" /\ VisitedAll /\ visiting' = 1
    BY DEF Dequeue, Known
<1>7. ~VisitedAll'
    <2>1. n # 0
        BY <1>1 DEF Known
    <2> QED
        BY <1>1, <1>6, <2>1 DEF VisitedAll
<1>8. \A i \in DOMAIN subTasks : Pending(i)' = Pending(i)
    <2> SUFFICES ASSUME NEW i \in DOMAIN subTasks PROVE Pending(i)' = Pending(i)
        OBVIOUS
    <2>1. Pending(i) = {d \in subTasks[i].dependsOn \cap Known : d \notin Finished}
        BY <1>6 DEF Pending
    <2>2. 1 <= i
        BY <1>1
    <2>3. Pending(i)' = {d \in subTasks[i].dependsOn \cap Known :
                            d \in Finished \cup {h} => d = h}
        BY <1>3, <1>5, <1>6, <1>7, <2>2 DEF Pending
    <2>4. h \notin Finished
        BY <1>2 DEF Sorting
    <2> QED
        BY <2>1, <2>3, <2>4
<1>9. ASSUME NEW k \in DOMAIN orderedTaskIds', NEW i \in DOMAIN subTasks,
             subTasks[i].id = orderedTaskIds'[k],
             NEW d \in subTasks[i].dependsOn \cap Known
      PROVE  \E j \in DOMAIN orderedTaskIds' : j < k /\ orderedTaskIds'[j] = d
    <2>1. CASE k \in DOMAIN orderedTaskIds
        <3>1. PICK j \in DOMAIN orderedTaskIds : j < k /\ orderedTaskIds[j] = d
            BY <1>4, <1>9, <2>1 DEF Sorting
        <3> QED
            BY <1>4, <3>1
    <2>2. CASE k = Len(orderedTaskIds) + 1
        <3>1. subTasks[i].id \in Queued
            BY <1>2, <1>4, <1>9, <2>2
        <3>2. Pending(i) = {}
            BY <3>1 DEF Sorting
        <3>3. d \in Finished
            BY <1>6, <3>2 DEF Pending
        <3>4. PICK j \in DOMAIN orderedTaskIds : orderedTaskIds[j] = d
            BY <3>3 DEF Finished, Elements
        <3> QED
            BY <1>4, <2>2, <3>4
    <2> QED
        BY <1>4, <2>1, <2>2
<1>10. ASSUME NEW i \in DOMAIN subTasks
       PROVE  subTasks[i].id \in Finished' \cup Queued' <=> Pending(i) = {}
    BY <1>2, <1>3, <1>6 DEF Sorting
<1>11. Finished' \cap Queued' = {}
    BY <1>2, <1>3 DEF Sorting
<1> QED
    BY <1>2, <1>3, <1>6, <1>8, <1>9, <1>10, <1>11 DEF Sorting

(* A neighbour's degree falls by one, and it is queued when none is left.  *)
LEMMA VisitStep ==
    ASSUME TypeOK, Phases, UniqueIds, Sorting, VisitNeighbour, TypeOK'
    PROVE  Sorting'
<1>0. PICK p : p = visiting
    OBVIOUS
<1> DEFINE n == Len(subTasks)
           c == currentId
<1>1. /\ n \in Nat /\ DOMAIN subTasks = 1..n
      /\ p \in 1..n /\ visiting' = p + 1
      /\ subTasks \in Seq(SubTask)
      /\ orderedTaskIds \in Seq(Known) /\ orderedTaskIds # <<>>
    <2>1. n \in Nat /\ DOMAIN subTasks = 1..n
        BY LenProperties DEF TypeOK
    <2>2. p \in 1..n
        BY <1>0, <2>1 DEF VisitNeighbour, TypeOK, VisitedAll
    <2> QED
        BY <1>0, <2>1, <2>2 DEF VisitNeighbour, Phases, TypeOK
<1>2. /\ subTasks' = subTasks /\ Known' = Known
      /\ orderedTaskIds' = orderedTaskIds /\ Finished' = Finished
      /\ currentId' = c
      /\ pc = "sorting" /\ pc' = "sorting" /\ ~VisitedAll
    BY DEF VisitNeighbour, Known, Finished, Elements, currentId
<1>3. c \in Finished /\ c \in Known
    <2>1. Len(orderedTaskIds) \in DOMAIN orderedTaskIds
        BY <1>1, EmptySeq, LenProperties
    <2> QED
        BY <1>1, <2>1, ElementOfSeq, LenProperties
        DEF currentId, Finished, Elements
<1>4. \A i \in DOMAIN subTasks :
        Pending(i) = {d \in subTasks[i].dependsOn \cap Known :
                        d \in Finished => p <= i /\ d = c}
    BY <1>0, <1>2 DEF Pending
<1>5. \A i \in DOMAIN subTasks :
        Pending(i)' = {d \in subTasks[i].dependsOn \cap Known :
                        d \in Finished => p < i /\ d = c}
    <2> SUFFICES ASSUME NEW i \in DOMAIN subTasks
                 PROVE  Pending(i)' = {d \in subTasks[i].dependsOn \cap Known :
                                    d \in Finished => p < i /\ d = c}
        OBVIOUS
    <2>1. (~VisitedAll' /\ visiting' <= i) <=> p < i
        BY <1>1, <1>2 DEF VisitedAll
    <2> QED
        BY <1>2, <2>1 DEF Pending
<1>6. \A i \in DOMAIN subTasks : i # p => Pending(i)' = Pending(i)
    <2>1. \A i \in DOMAIN subTasks : i # p => (p <= i <=> p < i)
        BY <1>1
    <2> QED
        BY <1>4, <1>5, <2>1
<1>7. Pending(p)' = Pending(p) \ {c}
    <2>1. p <= p /\ ~(p < p) /\ p \in DOMAIN subTasks
        BY <1>1
    <2> QED
        BY <1>3, <1>4, <1>5, <2>1
<1>8. \A i \in DOMAIN subTasks : subTasks[i].id = subTasks[p].id <=> i = p
    BY <1>1 DEF UniqueIds
<1>9. CASE c \notin subTasks[p].dependsOn
    <2>1. inDegree' = inDegree /\ queue' = queue /\ Queued' = Queued
        BY <1>0, <1>9 DEF VisitNeighbour, Queued
    <2>2. Pending(p)' = Pending(p)
        BY <1>1, <1>4, <1>7, <1>9
    <2>3. \A i \in DOMAIN subTasks : Pending(i)' = Pending(i)
        BY <1>6, <2>2
    <2> QED
        BY <1>2, <2>1, <2>3 DEF Sorting
<1>10. CASE c \in subTasks[p].dependsOn
    <2> DEFINE id == subTasks[p].id
    <2>1. inDegree' = [inDegree EXCEPT ![id] = @ - 1]
          /\ queue' = IF inDegree[id] = 1 THEN Append(queue, id) ELSE queue
        BY <1>0, <1>10 DEF VisitNeighbour, Release
    <2>2. p \in DOMAIN subTasks /\ c \in Pending(p) /\ id \in Known
        BY <1>1, <1>3, <1>4, <1>10 DEF Known
    <2>3. Cardinality(Pending(p) \ {c}) = Cardinality(Pending(p)) - 1
          /\ IsFiniteSet(Pending(p) \ {c})
        BY <1>1, <2>2, PendingIsFinite, FS_RemoveElement
    <2>4. inDegree[id] = Cardinality(Pending(p)) /\ Cardinality(Pending(p)) \in Nat
        BY <1>1, <2>2, PendingIsFinite DEF Sorting
    <2>5. inDegree'[id] = Cardinality(Pending(p)')
        BY <1>7, <2>1, <2>2, <2>3, <2>4 DEF TypeOK
    <2>6. \A i \in DOMAIN subTasks :
            inDegree'[subTasks[i].id] = Cardinality(Pending(i)')
        <3> SUFFICES ASSUME NEW i \in DOMAIN subTasks, i # p
                     PROVE  inDegree'[subTasks[i].id] = Cardinality(Pending(i)')
            BY <2>5
        <3>1. subTasks[i].id \in Known /\ subTasks[i].id # id
            BY <1>8 DEF Known
        <3>2. inDegree'[subTasks[i].id] = inDegree[subTasks[i].id]
            BY <2>1, <3>1 DEF TypeOK
        <3> QED
            BY <1>6, <3>2 DEF Sorting
    <2>7. inDegree[id] = 1 <=> Pending(p)' = {}
        BY <1>7, <2>3, <2>4, FS_EmptySet
    <2>8. id \notin Finished \cup Queued
        BY <1>2, <2>2 DEF Sorting
    <2>9. /\ Queued' = IF Pending(p)' = {} THEN Queued \cup {id} ELSE Queued
          /\ Distinct(queue')
        <3>1. queue \in Seq(Known)
            BY DEF TypeOK
        <3>2. CASE inDegree[id] = 1
            <4>1. queue' = Append(queue, id) /\ Distinct(queue)
                BY <2>1, <3>2 DEF Sorting
            <4>2. Elements(Append(queue, id)) = Elements(queue) \cup {id}
                BY <2>2, <3>1, AppendElements
            <4>3. Distinct(Append(queue, id))
                BY <2>2, <2>8, <3>1, <4>1, AppendElements DEF Queued
            <4> QED
                BY <2>7, <3>2, <4>1, <4>2, <4>3 DEF Queued
        <3>3. CASE inDegree[id] # 1
            BY <2>1, <2>7, <3>3 DEF Queued, Sorting
        <3> QED
            BY <3>2, <3>3
    <2>10. \A i \in DOMAIN subTasks :
            subTasks[i].id \in Finished \cup Queued' <=> Pending(i)' = {}
        <3>1. \A i \in DOMAIN subTasks :
                subTasks[i].id \in Finished \cup Queued <=> Pending(i) = {}
            BY <1>2 DEF Sorting
        <3>2. id \in Finished \cup Queued' <=> Pending(p)' = {}
            BY <2>8, <2>9
        <3>3. \A i \in DOMAIN subTasks :
                i # p => (subTasks[i].id \in Queued' <=> subTasks[i].id \in Queued)
            BY <1>8, <2>9
        <3> QED
            BY <1>6, <3>1, <3>2, <3>3
    <2>11. Finished \cap Queued' = {}
        BY <2>8, <2>9 DEF Sorting
    <2> QED
        BY <1>2, <2>6, <2>9, <2>10, <2>11 DEF Sorting
<1> QED
    BY <1>9, <1>10

(* An empty queue leaves out only sub-tasks that wait for each other.      *)
LEMMA AcyclicIsComplete ==
    ASSUME TypeOK, UniqueIds, Sorting, pc = "sorting", VisitedAll,
           queue = <<>>, ~Cyclic
    PROVE  Len(orderedTaskIds) = Len(subTasks)
<1> DEFINE C == Known \ Finished
           m == Len(orderedTaskIds)
<1>1. Queued = {}
    BY DEF Queued, Elements
<1>2. ASSUME NEW i \in DOMAIN subTasks, subTasks[i].id \in C
      PROVE  subTasks[i].dependsOn \cap C # {}
    <2>1. Pending(i) # {}
        BY <1>1, <1>2 DEF Sorting
    <2> QED
        BY <2>1 DEF Pending
<1>3. C = {}
    BY <1>2 DEF Cyclic
<1>4. /\ orderedTaskIds \in [1..m -> Known] /\ m \in Nat
      /\ DOMAIN orderedTaskIds = 1..m
    BY LenProperties DEF TypeOK
<1>5. Finished = Known
    BY <1>3, <1>4 DEF Finished, Elements
<1>6. orderedTaskIds \in Bijection(1..m, Known)
    BY <1>4, <1>5
    DEF Bijection, Injection, IsInjective, Surjection, Sorting, Distinct,
        Finished, Elements
<1>7. Cardinality(Known) = m
    BY <1>4, <1>6, FS_CountingElements DEF ExistsBijection
<1> QED
    BY <1>7, KnownIsFinite DEF TypeOK

(* The order that is used takes dependencies first.                        *)
LEMMA SortEndsStep ==
    ASSUME TypeOK, UniqueIds, Sorting, SortEnds
    PROVE  Ordered'
<1>1. /\ Len(subTasks) \in Nat /\ DOMAIN subTasks = 1..Len(subTasks)
      /\ DOMAIN orderedTaskIds = 1..Len(orderedTaskIds)
      /\ Len(orderedTaskIds) \in Nat
    BY LenProperties DEF TypeOK
<1>2. subTasks' = subTasks /\ Known' = Known /\ (Cyclic' <=> Cyclic)
    BY DEF SortEnds, Known, Cyclic
<1>3. CASE IsIncomplete
    <2>1. Cyclic
        BY <1>3, AcyclicIsComplete DEF SortEnds, IsIncomplete
    <2>2. orderedSubTasks' = [i \in 1..Len(subTasks) |-> i]
        BY <1>1, <1>3 DEF SortEnds, OriginalOrder
    <2>3. Len(orderedSubTasks') = Len(subTasks) /\ Distinct(orderedSubTasks')
        BY <1>1, <2>2 DEF Distinct
    <2> QED
        BY <1>2, <2>1, <2>3 DEF Ordered, Distinct
<1>4. CASE ~IsIncomplete
    <2>1. Len(orderedTaskIds) = Len(subTasks)
        BY <1>4 DEF IsIncomplete
    <2>2. orderedSubTasks' =
            [k \in 1..Len(subTasks) |-> TaskMap(orderedTaskIds[k])]
        BY <1>1, <1>4, <2>1 DEF SortEnds
    <2>3. Len(orderedSubTasks') = Len(subTasks)
          /\ DOMAIN orderedSubTasks' = 1..Len(subTasks)
        BY <1>1, <2>2
    <2>4. \A k \in 1..Len(subTasks) :
            /\ orderedSubTasks'[k] \in DOMAIN subTasks
            /\ subTasks[orderedSubTasks'[k]].id = orderedTaskIds[k]
        BY <1>1, <2>1, <2>2, TaskMapIsTask, ElementOfSeq DEF TypeOK
    <2>5. Distinct(orderedSubTasks')
        BY <1>1, <2>1, <2>3, <2>4 DEF Distinct, Sorting
    <2>6. ASSUME NEW k \in 1..Len(subTasks),
                 NEW d \in subTasks[orderedSubTasks'[k]].dependsOn \cap Known
          PROVE  \E j \in 1..Len(subTasks) :
                    j < k /\ subTasks[orderedSubTasks'[j]].id = d
        <3>1. PICK j \in DOMAIN orderedTaskIds : j < k /\ orderedTaskIds[j] = d
            BY <1>1, <2>1, <2>4, <2>6 DEF Sorting
        <3> QED
            BY <1>1, <2>1, <2>4, <3>1
    <2> QED
        BY <1>2, <2>3, <2>5, <2>6 DEF Ordered
<1> QED
    BY <1>3, <1>4

(* Every step keeps the order.                                             *)
LEMMA SortStep ==
    ASSUME TypeOK, Phases, SortInv, TypeOK', [Next]_vars
    PROVE  SortInv'
<1>1. ASSUME NEW w \in Answers, GenerateTaskPlan(w) PROVE SortInv'
    <2>1. pc' = "queueing"
        BY <1>1 DEF GenerateTaskPlan
    <2>2. UniqueIds' => Sorting'
        BY <1>1, PlanStarts
    <2> QED
        BY <2>1, <2>2 DEF SortInv, PlanIsExecuted
<1>2. ASSUME NoPlan PROVE SortInv'
    BY <1>2 DEF NoPlan, SortInv, PlanIsExecuted
<1>3. ASSUME QueueIfReady \/ Dequeue \/ VisitNeighbour PROVE SortInv'
    <2>1. pc \in {"queueing", "sorting"} /\ pc' \in {"queueing", "sorting"}
          /\ (UniqueIds' <=> UniqueIds)
        BY <1>3 DEF QueueIfReady, Dequeue, VisitNeighbour, UniqueIds
    <2>2. UniqueIds => Sorting'
        BY <1>3, <2>1, QueueStep, DequeueStep, VisitStep DEF SortInv
    <2> QED
        BY <2>1, <2>2 DEF SortInv, PlanIsExecuted
<1>4. ASSUME SortEnds PROVE SortInv'
    <2>1. pc = "sorting" /\ pc' = "executing" /\ (UniqueIds' <=> UniqueIds)
        BY <1>4 DEF SortEnds, UniqueIds
    <2> QED
        BY <1>4, <2>1, SortEndsStep DEF SortInv
<1>5. ASSUME pc = "executing", pc' \in {"executing", "done"},
             UNCHANGED <<subTasks, orderedSubTasks>>
      PROVE  SortInv'
    <2>1. (UniqueIds' <=> UniqueIds) /\ (Ordered' <=> Ordered)
        BY <1>5 DEF UniqueIds, Ordered, Distinct, Cyclic, Known
    <2> QED
        BY <1>5, <2>1 DEF SortInv
<1>6. ASSUME UNCHANGED vars PROVE SortInv'
    <2>1. /\ Known' = Known /\ Finished' = Finished /\ Queued' = Queued
          /\ (VisitedAll' <=> VisitedAll) /\ currentId' = currentId
          /\ (UniqueIds' <=> UniqueIds) /\ (PlanIsExecuted' <=> PlanIsExecuted)
        BY <1>6
        DEF vars, sortVars, Known, Finished, Queued, Elements, VisitedAll,
            currentId, UniqueIds, PlanIsExecuted
    <2>2. \A i : Pending(i)' = Pending(i)
        BY <1>6, <2>1 DEF vars, sortVars, Pending
    <2>3. Sorting' <=> Sorting
        BY <1>6, <2>1, <2>2 DEF vars, sortVars, Sorting, Distinct
    <2>4. Ordered' <=> Ordered
        BY <1>6, <2>1 DEF vars, Ordered, Distinct, Cyclic
    <2> QED
        BY <1>6, <2>1, <2>3, <2>4 DEF vars, SortInv
<1> QED
    BY <1>1, <1>2, <1>3, <1>4, <1>5, <1>6
    DEF Next, CreateSpecializedAgentFails, ExecuteTask, Handle, HasNext,
        GenerateFinalResponse

-----------------------------------------------------------------------------
(* The prompts.                                                            *)

(* A sub-task that is handled now is not one that an earlier one depends   *)
(* on, nor one it depends on itself.                                       *)
LEMMA NewIsNoDependency ==
    ASSUME TypeOK, Phases, TakenInOrder, SortInv, HasNext, UniqueIds, ~Cyclic,
           NEW k \in 1..(Len(handled) + 1)
    PROVE  subTasks[nextTask].id \notin
                subTasks[orderedSubTasks[k]].dependsOn \cap Known
<1> DEFINE new == Len(handled) + 1
           D == DOMAIN subTasks
<1>1. /\ Len(handled) \in Nat /\ Len(orderedSubTasks) \in Nat
      /\ DOMAIN orderedSubTasks = 1..Len(orderedSubTasks)
      /\ orderedSubTasks \in Seq(D)
    BY LenProperties DEF TypeOK
<1>2. new \in DOMAIN orderedSubTasks /\ k \in DOMAIN orderedSubTasks
    BY <1>1 DEF HasNext
<1>3. Ordered
    BY DEF SortInv, HasNext
<1> SUFFICES ASSUME subTasks[nextTask].id \in
                        subTasks[orderedSubTasks[k]].dependsOn \cap Known
             PROVE  FALSE
    OBVIOUS
<1>4. PICK j \in DOMAIN orderedSubTasks :
        j < k /\ subTasks[orderedSubTasks[j]].id = subTasks[nextTask].id
    BY <1>2, <1>3 DEF Ordered
<1>5. orderedSubTasks[j] \in D /\ nextTask \in D
    BY <1>1, <1>4, NextTaskType, ElementOfSeq
<1>6. orderedSubTasks[j] = orderedSubTasks[new]
    BY <1>4, <1>5 DEF UniqueIds, nextTask
<1>7. j = new
    BY <1>2, <1>3, <1>6 DEF Ordered, Distinct
<1> QED
    BY <1>1, <1>4, <1>7

(* Handling a sub-task keeps the prompts complete.                         *)
LEMMA HandleStep ==
    ASSUME TypeOK, Phases, TakenInOrder, SortInv, PromptsAreComplete, HasNext,
           NEW context \in SUBSET TaskIds,
           NEW outcome \in Outcomes \cup {"noAgent"}, NEW result,
           outcome # "noAgent" => context = DependencyContext(nextTask),
           Handle(context, outcome, result)
    PROVE  PromptsAreComplete'
<1> DEFINE h == [task |-> nextTask, context |-> context, outcome |-> outcome]
           H == [task : DOMAIN subTasks, context : SUBSET TaskIds,
                 outcome : Outcomes \cup {"noAgent"}]
           new == Len(handled) + 1
           Results(t) == {d \in subTasks[t].dependsOn \cap Known :
                            IsTruthy(subTaskResults[d])}
<1>1. /\ subTasks' = subTasks /\ Known' = Known
      /\ (UniqueIds' <=> UniqueIds) /\ (Cyclic' <=> Cyclic)
    BY DEF Handle, Known, UniqueIds, Cyclic
<1> SUFFICES ASSUME UniqueIds, ~Cyclic,
                    NEW k \in DOMAIN handled', handled'[k].outcome # "noAgent"
             PROVE  handled'[k].context =
                        {d \in subTasks[handled'[k].task].dependsOn \cap Known :
                            IsTruthy(subTaskResults'[d])}
    BY <1>1 DEF PromptsAreComplete, IsTruthy
<1>2. handled \in Seq(H) /\ h \in H
    BY NextTaskType DEF TypeOK
<1>3. /\ handled' = Append(handled, h) /\ Len(handled) \in Nat
      /\ DOMAIN handled = 1..Len(handled) /\ DOMAIN handled' = 1..new
      /\ \A j \in 1..Len(handled) : handled'[j] = handled[j]
      /\ handled'[new] = h
    <2> HIDE DEF h, H
    <2>1. handled' = Append(handled, h)
        BY DEF Handle, h
    <2>2. handled' \in Seq(H) /\ Len(handled') = new
        BY <1>2, <2>1, AppendProperties
    <2> QED
        BY <1>2, <2>1, <2>2, AppendProperties, LenProperties
<1>4. handled'[k].task = orderedSubTasks[k]
    <2>1. CASE k = new
        BY <1>3, <2>1 DEF nextTask
    <2>2. CASE k \in 1..Len(handled)
        BY <1>3, <2>2 DEF TakenInOrder
    <2> QED
        BY <1>3, <2>1, <2>2
<1>5. \A d \in subTasks[handled'[k].task].dependsOn \cap Known :
        subTaskResults'[d] = subTaskResults[d]
    <2>1. subTasks[nextTask].id \notin
            subTasks[handled'[k].task].dependsOn \cap Known
        BY <1>3, <1>4, NewIsNoDependency
    <2>2. DOMAIN subTaskResults = TaskIds
        BY DEF TypeOK
    <2>3. subTasks[handled'[k].task].dependsOn \cap Known \subseteq TaskIds
        <3>1. subTasks \in Seq(SubTask)
            BY DEF TypeOK
        <3>2. \A i \in DOMAIN subTasks : subTasks[i] \in SubTask
            BY <3>1, ElementOfSeq, LenProperties
        <3> QED
            BY <3>2 DEF Known, SubTask
    <2>4. subTaskResults' = [subTaskResults EXCEPT ![subTasks[nextTask].id] =
                                                        result]
        BY DEF Handle
    <2> QED
        BY <2>1, <2>2, <2>3, <2>4
<1>6. handled'[k].context = Results(handled'[k].task)
    <2>1. CASE k = new
        <3>1. handled'[k].context = DependencyContext(nextTask)
              /\ handled'[k].task = nextTask
            BY <1>3, <2>1
        <3>2. subTasks[nextTask].dependsOn \subseteq TaskIds
            BY NextTaskType DEF SubTask
        <3>3. \A d \in subTasks[nextTask].dependsOn :
                IsTruthy(subTaskResults[d]) => d \in Known
            BY <3>2 DEF IsTruthy, TakenInOrder
        <3> QED
            BY <3>1, <3>3 DEF DependencyContext
    <2>2. CASE k \in 1..Len(handled)
        BY <1>3, <2>2 DEF PromptsAreComplete
    <2> QED
        BY <1>3, <2>1, <2>2
<1> QED
    BY <1>5, <1>6

(* Every step keeps the prompts complete.                                  *)
LEMMA PromptsStep ==
    ASSUME TypeOK, Phases, TakenInOrder, SortInv, PromptsAreComplete,
           [Next]_vars
    PROVE  PromptsAreComplete'
<1>1. ASSUME handled' = <<>> PROVE PromptsAreComplete'
    BY <1>1 DEF PromptsAreComplete
<1>2. ASSUME UNCHANGED <<subTasks, handled, subTaskResults>>
      PROVE  PromptsAreComplete'
    BY <1>2 DEF PromptsAreComplete, UniqueIds, Cyclic, Known
<1>3. ASSUME NEW w \in Answers, GenerateTaskPlan(w) PROVE handled' = <<>>
    BY <1>3 DEF GenerateTaskPlan, Phases
<1>4. ASSUME NEW outcome \in Outcomes, ExecuteTask(outcome)
      PROVE  PromptsAreComplete'
    <2>1. DependencyContext(nextTask) \in SUBSET TaskIds
        BY <1>4, NextTaskType DEF ExecuteTask, DependencyContext, SubTask
    <2> QED
        BY <1>4, <2>1, HandleStep DEF ExecuteTask
<1>5. ASSUME CreateSpecializedAgentFails PROVE PromptsAreComplete'
    BY <1>5, HandleStep DEF CreateSpecializedAgentFails
<1> QED
    BY <1>1, <1>2, <1>3, <1>4, <1>5
    DEF Next, vars, sortVars, NoPlan, QueueIfReady, Dequeue, VisitNeighbour,
        SortEnds, GenerateFinalResponse

-----------------------------------------------------------------------------
(* The results, whatever the LLM wrote: ids may repeat, and the degree of  *)
(* an id counts the dependencies of all the sub-tasks that bear it.        *)

(* The ids that were ever in the queue, in their order.                    *)
Ranked == orderedTaskIds \o queue

(* Each of them has a sub-task of its own that brought it to the queue.    *)
BroughtBy(f) ==
    /\ \A j, k \in DOMAIN Ranked : f[j] = f[k] => j = k
    /\ \A k \in DOMAIN Ranked :
            /\ subTasks[f[k]].id = Ranked[k]
            /\ inDegree[Ranked[k]] <= 0
            /\ pc = "queueing" => f[k] < visiting

Brought ==
    pc \in {"queueing", "sorting"} =>
        \E f \in [DOMAIN Ranked -> DOMAIN subTasks] : BroughtBy(f)

(* Hence an order as long as the plan has all its ids.                     *)
EveryIdIsOrdered ==
    pc = "executing" \/ PlanIsExecuted =>
        \A id \in Known :
            \E k \in DOMAIN orderedSubTasks :
                subTasks[orderedSubTasks[k]].id = id

HandledHaveResult ==
    \A k \in DOMAIN handled :
        subTaskResults[subTasks[handled[k].task].id] # "none"

ResultsInv == Brought /\ EveryIdIsOrdered /\ HandledHaveResult

(* The elements of a concatenation of sequences of ids.                    *)
LEMMA RankedType ==
    ASSUME NEW S, NEW s \in Seq(S), NEW t \in Seq(S)
    PROVE  /\ s \o t \in Seq(S)
           /\ DOMAIN (s \o t) = 1..Len(s \o t) /\ Len(s \o t) \in Nat
           /\ \A e \in S : s \o Append(t, e) = Append(s \o t, e)
           /\ t # <<>> => Append(s, Head(t)) \o Tail(t) = s \o t
<1>1. s \o t \in Seq(S)
    BY ConcatProperties
<1>2. ASSUME NEW e \in S PROVE s \o Append(t, e) = Append(s \o t, e)
    <2>1. <<e>> \in Seq(S)
        OBVIOUS
    <2>2. Append(t, e) = t \o <<e>> /\ Append(s \o t, e) = (s \o t) \o <<e>>
        BY <1>1, AppendIsConcat
    <2> QED
        BY <2>1, <2>2, ConcatAssociative
<1>3. ASSUME t # <<>> PROVE Append(s, Head(t)) \o Tail(t) = s \o t
    <2>1. Head(t) \in S /\ Tail(t) \in Seq(S) /\ <<Head(t)>> \in Seq(S)
        BY <1>3, HeadTailProperties
    <2>2. Append(s, Head(t)) = s \o <<Head(t)>>
        BY <2>1, AppendIsConcat
    <2>3. <<Head(t)>> \o Tail(t) = t
        <3> DEFINE u == <<Head(t)>> \o Tail(t)
        <3>1. Len(t) \in Nat /\ Len(t) # 0 /\ Len(Tail(t)) = Len(t) - 1
            BY <1>3, HeadTailProperties, EmptySeq, LenProperties
        <3>2. u \in Seq(S) /\ Len(u) = Len(t)
            BY <2>1, <3>1, ConcatProperties
        <3>3. ASSUME NEW i \in 1..Len(u) PROVE u[i] = t[i]
            <4>1. u[i] = IF i <= 1 THEN <<Head(t)>>[i] ELSE Tail(t)[i - 1]
                BY <2>1, <3>1, <3>2, ConcatProperties
            <4>2. CASE i = 1
                BY <1>3, <4>1, <4>2
            <4>3. CASE i # 1
                <5>1. i - 1 \in 1..Len(Tail(t)) /\ (i - 1) + 1 = i
                    BY <3>1, <3>2, <4>3
                <5>2. Tail(t)[i - 1] = t[i]
                    BY <1>3, <5>1, HeadTailProperties
                <5> QED
                    BY <4>1, <4>3, <5>2
            <4> QED
                BY <4>2, <4>3
        <3> HIDE DEF u
        <3>4. u = t
            BY <3>2, <3>3, SeqEqual
        <3> QED
            BY <3>4 DEF u
    <2> QED
        BY <2>1, <2>2, <2>3, ConcatAssociative
<1> QED
    BY <1>1, <1>2, <1>3, LenProperties

(* A sub-task whose id joins the queue brings it there.                    *)
LEMMA Joins ==
    ASSUME TypeOK, TypeOK',
           NEW f \in [DOMAIN Ranked -> DOMAIN subTasks], BroughtBy(f),
           NEW i \in DOMAIN subTasks,
           \A k \in DOMAIN Ranked : f[k] # i,
           UNCHANGED <<subTasks, orderedTaskIds>>,
           queue' = Append(queue, subTasks[i].id),
           \A id \in Known : inDegree[id] <= 0 => inDegree'[id] <= 0,
           inDegree'[subTasks[i].id] <= 0,
           pc' = "queueing" =>
                pc = "queueing" /\ visiting <= visiting' /\ i < visiting'
    PROVE  Brought'
<1> DEFINE n == Len(Ranked)
           id == subTasks[i].id
           g == [k \in 1..(n + 1) |-> IF k = n + 1 THEN i ELSE f[k]]
<1>1. id \in Known /\ queue \in Seq(Known) /\ orderedTaskIds \in Seq(Known)
      /\ inDegree \in [Known -> Int] /\ inDegree' \in [Known -> Int]
    BY DEF TypeOK, Known
<1>2. /\ Ranked \in Seq(Known) /\ DOMAIN Ranked = 1..n /\ n \in Nat
      /\ Ranked' = Append(Ranked, id)
    BY <1>1, RankedType DEF Ranked
<1>3. /\ DOMAIN Ranked' = 1..(n + 1)
      /\ \A k \in 1..n : Ranked'[k] = Ranked[k]
      /\ Ranked'[n + 1] = id
    <2> HIDE DEF id
    <2>1. Ranked' \in Seq(Known) /\ Len(Ranked') = n + 1
        BY <1>1, <1>2, AppendProperties
    <2> QED
        BY <1>1, <1>2, <2>1, AppendProperties, LenProperties
<1>4. DOMAIN subTasks \subseteq Nat /\ visiting \in Int /\ visiting' \in Int
    <2>1. DOMAIN subTasks = 1..Len(subTasks) /\ Len(subTasks) \in Nat
        BY LenProperties DEF TypeOK
    <2> QED
        BY <2>1 DEF TypeOK
<1>5. g \in [DOMAIN Ranked' -> DOMAIN subTasks']
    BY <1>2, <1>3
<1>6. ASSUME NEW j \in 1..(n + 1), NEW k \in 1..(n + 1), g[j] = g[k]
      PROVE  j = k
    BY <1>2, <1>6 DEF BroughtBy
<1>7. ASSUME NEW k \in 1..(n + 1)
      PROVE  /\ subTasks'[g[k]].id = Ranked'[k]
             /\ inDegree'[Ranked'[k]] <= 0
             /\ pc' = "queueing" => g[k] < visiting'
    <2>1. CASE k = n + 1
        BY <1>2, <1>3, <2>1
    <2>2. CASE k # n + 1
        <3>1. k \in DOMAIN Ranked /\ g[k] = f[k] /\ Ranked'[k] = Ranked[k]
            BY <1>2, <1>3, <2>2
        <3>2. Ranked[k] \in Known
            BY <1>2, <3>1, ElementOfSeq
        <3>3. subTasks[f[k]].id = Ranked[k] /\ inDegree[Ranked[k]] <= 0
              /\ (pc = "queueing" => f[k] < visiting) /\ f[k] \in Nat
            BY <1>4, <3>1 DEF BroughtBy
        <3> QED
            BY <1>4, <3>1, <3>2, <3>3
    <2> QED
        BY <2>1, <2>2
<1>8. PICK h : h = g
    OBVIOUS
<1> HIDE DEF g
<1>9. BroughtBy(h)'
    BY <1>3, <1>6, <1>7, <1>8 DEF BroughtBy
<1> QED
    BY <1>5, <1>8, <1>9 DEF Brought

(* No id joins the queue: those that were there stay brought.              *)
LEMMA NoneJoins ==
    ASSUME TypeOK, TypeOK',
           NEW f \in [DOMAIN Ranked -> DOMAIN subTasks], BroughtBy(f),
           UNCHANGED subTasks, Ranked' = Ranked,
           \A id \in Known : inDegree[id] <= 0 => inDegree'[id] <= 0,
           pc' = "queueing" => pc = "queueing" /\ visiting <= visiting'
    PROVE  Brought'
<1>1. /\ Ranked \in Seq(Known) /\ DOMAIN Ranked = 1..Len(Ranked)
    BY RankedType DEF Ranked, TypeOK
<1>2. \A k \in DOMAIN Ranked : Ranked[k] \in Known
    BY <1>1, ElementOfSeq
<1>3. DOMAIN subTasks \subseteq Nat /\ visiting \in Int /\ visiting' \in Int
    <2>1. DOMAIN subTasks = 1..Len(subTasks) /\ Len(subTasks) \in Nat
        BY LenProperties DEF TypeOK
    <2> QED
        BY <2>1 DEF TypeOK
<1>4. \A k \in DOMAIN Ranked : f[k] \in Nat
    BY <1>3
<1>5. BroughtBy(f)'
    BY <1>2, <1>3, <1>4 DEF BroughtBy
<1> QED
    BY <1>5 DEF Brought

(* Every step leaves the ids of the queue with sub-tasks that brought them. *)
LEMMA BroughtStep ==
    ASSUME TypeOK, TypeOK', Phases, Brought, [Next]_vars
    PROVE  Brought'
<1>0. /\ DOMAIN subTasks = 1..Len(subTasks) /\ Len(subTasks) \in Nat
      /\ visiting \in 1..(Len(subTasks) + 1)
      /\ inDegree \in [Known -> Int] /\ inDegree' \in [Known' -> Int]
      /\ queue \in Seq(Known) /\ orderedTaskIds \in Seq(Known)
    BY LenProperties DEF TypeOK
<1>1. ASSUME NEW w \in Answers, GenerateTaskPlan(w) PROVE Brought'
    <2>1. queue' = <<>> /\ orderedTaskIds' = <<>>
        BY <1>1 DEF GenerateTaskPlan, Phases
    <2>2. DOMAIN Ranked' = {}
        BY <2>1 DEF Ranked
    <2>3. PICK f : f = [k \in {} |-> 1]
        OBVIOUS
    <2>4. f \in [DOMAIN Ranked' -> DOMAIN subTasks'] /\ BroughtBy(f)'
        BY <2>2, <2>3 DEF BroughtBy
    <2> QED
        BY <2>4 DEF Brought
<1>2. ASSUME QueueIfReady PROVE Brought'
    <2>1. PICK f \in [DOMAIN Ranked -> DOMAIN subTasks] : BroughtBy(f)
        BY <1>2 DEF QueueIfReady, Brought
    <2>2. visiting \in DOMAIN subTasks /\ visiting' = visiting + 1
          /\ UNCHANGED <<subTasks, orderedTaskIds, inDegree>>
          /\ pc = "queueing"
        BY <1>2 DEF QueueIfReady, Phases
    <2>3. \A id \in Known : inDegree[id] <= 0 => inDegree'[id] <= 0
        BY <2>2
    <2>4. visiting <= visiting' /\ visiting < visiting'
        BY <1>0, <2>2
    <2>5. CASE inDegree[subTasks[visiting].id] = 0
        <3>1. \A k \in DOMAIN Ranked : f[k] # visiting
            BY <1>0, <2>1, <2>2 DEF BroughtBy
        <3>2. queue' = Append(queue, subTasks[visiting].id)
            BY <1>2, <2>5 DEF QueueIfReady
        <3> QED
            BY <2>1, <2>2, <2>5, <2>3, <2>4, <3>1, <3>2, Joins
    <2>6. CASE inDegree[subTasks[visiting].id] # 0
        <3>1. Ranked' = Ranked
            BY <1>2, <2>6 DEF QueueIfReady, Ranked
        <3> QED
            BY <2>1, <2>2, <2>3, <2>4, <3>1, NoneJoins
    <2> QED
        BY <2>5, <2>6
<1>3. ASSUME Dequeue PROVE Brought'
    <2>1. PICK f \in [DOMAIN Ranked -> DOMAIN subTasks] : BroughtBy(f)
        BY <1>3 DEF Dequeue, Brought
    <2>2. Ranked' = Ranked
        BY <1>0, <1>3, RankedType DEF Dequeue, Ranked
    <2> QED
        BY <1>3, <2>1, <2>2, NoneJoins DEF Dequeue
<1>4. ASSUME VisitNeighbour PROVE Brought'
    <2>1. PICK f \in [DOMAIN Ranked -> DOMAIN subTasks] : BroughtBy(f)
        BY <1>4 DEF VisitNeighbour, Brought
    <2> DEFINE id == subTasks[visiting].id
    <2>2. /\ visiting \in DOMAIN subTasks /\ visiting' = visiting + 1
          /\ UNCHANGED <<subTasks, orderedTaskIds>>
          /\ pc = "sorting" /\ pc' = "sorting"
        <3>1. UNCHANGED <<subTasks, orderedTaskIds, pc>> /\ pc = "sorting"
              /\ visiting' = visiting + 1
            BY <1>4 DEF VisitNeighbour
        <3>2. visiting # Len(subTasks) + 1
            BY <1>4 DEF VisitNeighbour, VisitedAll
        <3>3. visiting \in DOMAIN subTasks
            BY <1>0, <3>2
        <3> QED
            BY <3>1, <3>3
    <2>3. id \in Known
        BY <2>2 DEF Known
    <2>4. CASE currentId \in subTasks[visiting].dependsOn
        <3>1. /\ inDegree' = [inDegree EXCEPT ![id] = @ - 1]
              /\ queue' = IF inDegree[id] = 1 THEN Append(queue, id) ELSE queue
            BY <1>4, <2>4 DEF VisitNeighbour, Release
        <3>2. \A x \in Known : inDegree[x] <= 0 => inDegree'[x] <= 0
            BY <1>0, <3>1
        <3>3. CASE inDegree[id] = 1
            <4>1. \A k \in DOMAIN Ranked : f[k] # visiting
                BY <2>1, <3>3 DEF BroughtBy
            <4>2. queue' = Append(queue, id) /\ inDegree'[id] <= 0
                BY <1>0, <2>3, <3>1, <3>3
            <4> QED
                BY <2>1, <2>2, <3>2, <4>1, <4>2, Joins
        <3>4. CASE inDegree[id] # 1
            <4>1. Ranked' = Ranked
                BY <2>2, <3>1, <3>4 DEF Ranked
            <4> QED
                BY <2>1, <2>2, <3>2, <4>1, NoneJoins
        <3> QED
            BY <3>3, <3>4
    <2>5. CASE currentId \notin subTasks[visiting].dependsOn
        <3>1. Ranked' = Ranked /\ inDegree' = inDegree
            BY <1>4, <2>5 DEF VisitNeighbour, Ranked
        <3> QED
            BY <2>1, <2>2, <3>1, NoneJoins
    <2> QED
        BY <2>4, <2>5
<1>5. ASSUME pc' \in {"executing", "done"} PROVE Brought'
    BY <1>5 DEF Brought
<1>6. ASSUME UNCHANGED vars PROVE Brought'
    <2>1. Ranked' = Ranked
        BY <1>6 DEF vars, sortVars, Ranked
    <2>2. \A f : BroughtBy(f)' <=> BroughtBy(f)
        BY <1>6, <2>1 DEF vars, sortVars, BroughtBy
    <2> QED
        BY <1>6, <2>1, <2>2 DEF vars, sortVars, Brought
<1> QED
    BY <1>1, <1>2, <1>3, <1>4, <1>5, <1>6
    DEF Next, NoPlan, SortEnds, CreateSpecializedAgentFails, ExecuteTask,
        Handle, HasNext, GenerateFinalResponse

(* An order that is as long as the plan has every id of it; a shorter one  *)
(* is not used, and the order of the plan has them all.                    *)
LEMMA SortEndsOrdersAll ==
    ASSUME TypeOK, Brought, SortEnds
    PROVE  EveryIdIsOrdered'
<1> DEFINE n == Len(subTasks)
<1>1. /\ n \in Nat /\ DOMAIN subTasks = 1..n
      /\ DOMAIN orderedTaskIds = 1..Len(orderedTaskIds)
      /\ Len(orderedTaskIds) \in Nat /\ orderedTaskIds \in Seq(Known)
    BY LenProperties DEF TypeOK
<1>2. UNCHANGED subTasks /\ Known' = Known
    BY DEF SortEnds, Known
<1>3. CASE IsIncomplete
    <2>1. orderedSubTasks' = [i \in 1..n |-> i]
        BY <1>1, <1>3 DEF SortEnds, OriginalOrder
    <2> QED
        BY <1>1, <1>2, <2>1 DEF EveryIdIsOrdered, Known
<1>4. CASE ~IsIncomplete
    <2>1. Len(orderedTaskIds) = n
        BY <1>4 DEF IsIncomplete
    <2>2. orderedSubTasks' = [k \in 1..n |-> TaskMap(orderedTaskIds[k])]
        BY <1>1, <1>4, <2>1 DEF SortEnds
    <2>3. \A k \in 1..n :
            subTasks[orderedSubTasks'[k]].id = orderedTaskIds[k]
        BY <1>1, <2>1, <2>2, TaskMapIsTask, ElementOfSeq DEF TypeOK
    <2>4. Ranked = orderedTaskIds
        BY <1>1, ConcatEmptySeq DEF SortEnds, Ranked
    <2>5. PICK f \in [1..n -> 1..n] : BroughtBy(f)
        BY <1>1, <2>1, <2>4 DEF SortEnds, Brought
    <2>6. f \in Injection(1..n, 1..n)
        BY <1>1, <2>1, <2>4, <2>5 DEF BroughtBy, Injection, IsInjective
    <2>7. f \in Surjection(1..n, 1..n)
        BY <1>1, <2>6, FS_Interval, FS_Injection
    <2>8. ASSUME NEW id \in Known
          PROVE  \E k \in 1..n : orderedTaskIds[k] = id
        <3>1. PICK i \in 1..n : subTasks[i].id = id
            BY <1>1 DEF Known
        <3>2. PICK k \in 1..n : f[k] = i
            BY <2>7 DEF Surjection
        <3> QED
            BY <1>1, <2>1, <2>4, <2>5, <3>1, <3>2 DEF BroughtBy
    <2>9. DOMAIN orderedSubTasks' = 1..n
        BY <2>2
    <2> QED
        BY <1>2, <2>3, <2>8, <2>9 DEF EveryIdIsOrdered
<1> QED
    BY <1>3, <1>4

(* What is handled has a result from then on: none is ever taken back.     *)
LEMMA HandleGivesResult ==
    ASSUME TypeOK, HandledHaveResult, HasNext,
           NEW context \in SUBSET TaskIds,
           NEW outcome \in Outcomes \cup {"noAgent"}, NEW result \in Outcomes,
           Handle(context, outcome, result)
    PROVE  HandledHaveResult'
<1> DEFINE h == [task |-> nextTask, context |-> context, outcome |-> outcome]
           H == [task : DOMAIN subTasks, context : SUBSET TaskIds,
                 outcome : Outcomes \cup {"noAgent"}]
           new == Len(handled) + 1
<1>1. handled \in Seq(H) /\ h \in H
    BY NextTaskType DEF TypeOK
<1>2. /\ Len(handled) \in Nat /\ DOMAIN handled = 1..Len(handled)
      /\ DOMAIN handled' = 1..new
      /\ \A k \in 1..Len(handled) : handled'[k] = handled[k]
      /\ handled'[new] = h
    <2> HIDE DEF h, H
    <2>1. handled' = Append(handled, h)
        BY DEF Handle, h
    <2>2. handled' \in Seq(H) /\ Len(handled') = new
        BY <1>1, <2>1, AppendProperties
    <2> QED
        BY <1>1, <2>1, <2>2, AppendProperties, LenProperties
<1>3. /\ subTasks' = subTasks
      /\ subTaskResults' = [subTaskResults EXCEPT ![subTasks[nextTask].id] =
                                                      result]
      /\ subTaskResults \in [TaskIds -> Outcomes \cup {"none"}]
      /\ result # "none"
    BY DEF Handle, TypeOK, Outcomes
<1>4. subTasks[nextTask].id \in TaskIds
    BY NextTaskType DEF SubTask
<1>5. \A x \in TaskIds : subTaskResults[x] # "none" => subTaskResults'[x] # "none"
    BY <1>3
<1>6. \A k \in 1..Len(handled) : subTasks[handled[k].task].id \in TaskIds
    <2>1. \A k \in 1..Len(handled) : handled[k] \in H
        <3> HIDE DEF H
        <3> QED
            BY <1>1, ElementOfSeq
    <2>2. \A i \in DOMAIN subTasks : subTasks[i] \in SubTask
        BY ElementOfSeq, LenProperties DEF TypeOK
    <2> QED
        BY <2>1, <2>2 DEF SubTask
<1> SUFFICES ASSUME NEW k \in 1..new
             PROVE  subTaskResults'[subTasks[handled'[k].task].id] # "none"
    BY <1>2, <1>3 DEF HandledHaveResult
<1>7. CASE k = new
    BY <1>2, <1>3, <1>4, <1>7
<1>8. CASE k \in 1..Len(handled)
    BY <1>2, <1>5, <1>6, <1>8 DEF HandledHaveResult
<1> QED
    BY <1>2, <1>7, <1>8

(* Every step keeps the invariant of the results.                          *)
LEMMA ResultsStep ==
    ASSUME TypeOK, TypeOK', Phases, ResultsInv, [Next]_vars
    PROVE  ResultsInv'
<1>1. Brought'
    BY BroughtStep DEF ResultsInv
<1>2. EveryIdIsOrdered'
    <2>1. ASSUME SortEnds PROVE EveryIdIsOrdered'
        BY <2>1, SortEndsOrdersAll DEF ResultsInv
    <2>2. ASSUME UNCHANGED <<subTasks, orderedSubTasks>>,
                 (pc = "executing" \/ PlanIsExecuted)
                    \/ ~(pc' = "executing" \/ PlanIsExecuted')
          PROVE  EveryIdIsOrdered'
        <3>1. Known' = Known
            BY <2>2 DEF Known
        <3> QED
            BY <2>2, <3>1 DEF EveryIdIsOrdered, ResultsInv
    <2>3. ASSUME NEW w \in Answers, GenerateTaskPlan(w)
          PROVE  EveryIdIsOrdered'
        BY <2>3 DEF GenerateTaskPlan, EveryIdIsOrdered, PlanIsExecuted
    <2> QED
        BY <2>1, <2>2, <2>3
        DEF Next, vars, sortVars, PlanIsExecuted, NoPlan, QueueIfReady,
            Dequeue, VisitNeighbour, CreateSpecializedAgentFails, ExecuteTask,
            Handle, HasNext, GenerateFinalResponse
<1>3. HandledHaveResult'
    <2>1. ASSUME handled' = <<>> PROVE HandledHaveResult'
        BY <2>1 DEF HandledHaveResult
    <2>2. ASSUME UNCHANGED <<subTasks, handled, subTaskResults>>
          PROVE  HandledHaveResult'
        BY <2>2 DEF HandledHaveResult, ResultsInv
    <2>3. ASSUME NEW w \in Answers, GenerateTaskPlan(w)
          PROVE  handled' = <<>>
        BY <2>3 DEF GenerateTaskPlan, Phases
    <2>4. ASSUME NEW outcome \in Outcomes, ExecuteTask(outcome)
          PROVE  HandledHaveResult'
        <3>1. DependencyContext(nextTask) \in SUBSET TaskIds
            BY <2>4, NextTaskType DEF ExecuteTask, DependencyContext, SubTask
        <3> QED
            BY <2>4, <3>1, HandleGivesResult DEF ExecuteTask, ResultsInv
    <2>5. ASSUME CreateSpecializedAgentFails PROVE HandledHaveResult'
        BY <2>5, HandleGivesResult
        DEF CreateSpecializedAgentFails, ResultsInv, Outcomes
    <2> QED
        BY <2>1, <2>2, <2>3, <2>4, <2>5
        DEF Next, vars, sortVars, NoPlan, QueueIfReady, Dequeue,
            VisitNeighbour, SortEnds, GenerateFinalResponse
<1> QED
    BY <1>1, <1>2, <1>3 DEF ResultsInv

-----------------------------------------------------------------------------
(* The theorems.                                                           *)

(* The order is sound and the prompts are complete in every reachable      *)
(* state (auto-gen-orchestrator.js:415-540).                               *)
THEOREM OrchestrationInvariance == Spec => []IInv
<1>1. Init => IInv
    <2> SUFFICES ASSUME Init PROVE IInv
        OBVIOUS
    <2>1. Known = {} /\ handled = <<>>
        BY DEF Init, Known
    <2> QED
        BY <2>1
        DEF Init, IInv, TypeOK, Phases, TakenInOrder, SortInv,
            PromptsAreComplete, VisitedAll, PlanIsExecuted
<1>2. IInv /\ [Next]_vars => IInv'
    BY TypeStep, TakenStep, SortStep, PromptsStep DEF IInv
<1> QED
    BY <1>1, <1>2, PTL DEF Spec

(* Every variable has its type, whatever the LLM writes.                   *)
THEOREM OrchestrationTypeCorrect == Spec => []TypeOK
<1>1. IInv => TypeOK
    BY DEF IInv
<1> QED
    BY <1>1, OrchestrationInvariance, PTL

(* The prompt of a sub-task has the result of each of its dependencies, in *)
(* every plan of unique ids without a cycle (auto-gen-orchestrator.js:     *)
(* 509-523): Kahn's algorithm orders the plan, and leaves nothing out.     *)
THEOREM DependenciesReachPrompts == Spec => []PromptsAreComplete
<1>1. IInv => PromptsAreComplete
    BY DEF IInv
<1> QED
    BY <1>1, OrchestrationInvariance, PTL

(* Every sub-task of a plan of unique ids is taken once, with or without   *)
(* cycles (auto-gen-orchestrator.js:469-481).                              *)
THEOREM EveryTaskIsTakenOnce == Spec => []EachTaskOnce
<1>1. IInv => EachTaskOnce
    <2> SUFFICES ASSUME IInv, UniqueIds PROVE EachTaskOnce
        BY DEF EachTaskOnce
    <2> DEFINE D == DOMAIN subTasks
    <2>1. /\ Len(handled) \in Nat /\ Len(orderedSubTasks) \in Nat
          /\ Len(subTasks) \in Nat
          /\ DOMAIN handled = 1..Len(handled)
          /\ DOMAIN orderedSubTasks = 1..Len(orderedSubTasks)
          /\ D = 1..Len(subTasks)
          /\ orderedSubTasks \in [1..Len(orderedSubTasks) -> D]
        BY LenProperties DEF IInv, TypeOK
    <2>2. DOMAIN handled \subseteq DOMAIN orderedSubTasks
          /\ \A k \in DOMAIN handled : handled[k].task = orderedSubTasks[k]
        BY <2>1 DEF IInv, TakenInOrder
    <2>3. ASSUME NEW j \in DOMAIN handled, NEW k \in DOMAIN handled,
                 handled[j].task = handled[k].task
          PROVE  j = k
        <3>1. Ordered
            <4>1. handled # <<>>
                BY <2>1, <2>3
            <4>2. pc \in {"planning", "queueing", "sorting", "executing",
                           "done"}
                BY DEF IInv, TypeOK
            <4>3. pc = "executing" \/ PlanIsExecuted
                BY <4>1, <4>2 DEF IInv, Phases, PlanIsExecuted
            <4> QED
                BY <4>3 DEF IInv, SortInv
        <3> QED
            BY <2>2, <2>3, <3>1 DEF Ordered, Distinct
    <2>4. ASSUME PlanIsExecuted, NEW i \in D
          PROVE  \E k \in DOMAIN handled : handled[k].task = i
        <3>1. Ordered /\ Len(handled) = Len(orderedSubTasks)
            BY <2>4 DEF IInv, Phases, SortInv
        <3>2. orderedSubTasks \in Injection(D, D)
            BY <2>1, <3>1 DEF Ordered, Distinct, Injection, IsInjective
        <3>3. IsFiniteSet(D)
            BY <2>1, FS_Interval
        <3>4. orderedSubTasks \in Surjection(D, D)
            BY <3>2, <3>3, FS_Injection
        <3>5. PICK k \in D : orderedSubTasks[k] = i
            BY <2>4, <3>4 DEF Surjection
        <3> QED
            BY <2>1, <2>2, <3>1, <3>5 DEF Ordered
    <2> QED
        BY <2>3, <2>4 DEF EachTaskOnce
<1> QED
    BY <1>1, OrchestrationInvariance, PTL

(* Every id of the order was brought there by a sub-task, an order that is *)
(* used has every id of the plan, and what was taken has a result.         *)
THEOREM ResultsInvariance == Spec => []ResultsInv
<1>1. Init => ResultsInv
    <2> SUFFICES ASSUME Init PROVE ResultsInv
        OBVIOUS
    <2>1. handled = <<>> /\ pc = "planning"
        BY DEF Init
    <2> QED
        BY <2>1
        DEF ResultsInv, Brought, EveryIdIsOrdered, HandledHaveResult,
            PlanIsExecuted
<1>2. IInv /\ IInv' /\ ResultsInv /\ [Next]_vars => ResultsInv'
    BY ResultsStep DEF IInv
<1> QED
    BY <1>1, <1>2, OrchestrationInvariance, PTL DEF Spec

(* Every id of the plan has a result when the answer is made, whatever the *)
(* LLM wrote: ids that repeat and dependencies that form a cycle included  *)
(* (auto-gen-orchestrator.js:469-481, 582-592).                            *)
THEOREM ResultsComplete == Spec => []EveryIdHasResult
<1>1. IInv /\ ResultsInv => EveryIdHasResult
    <2> SUFFICES ASSUME IInv, ResultsInv, PlanIsExecuted, NEW id \in Known
                 PROVE  subTaskResults[id] # "none"
        BY DEF EveryIdHasResult
    <2>1. /\ DOMAIN handled = 1..Len(handled)
          /\ DOMAIN orderedSubTasks = 1..Len(orderedSubTasks)
          /\ Len(handled) = Len(orderedSubTasks)
        BY LenProperties DEF IInv, TypeOK, Phases
    <2>2. PICK k \in DOMAIN orderedSubTasks :
                subTasks[orderedSubTasks[k]].id = id
        BY DEF ResultsInv, EveryIdIsOrdered
    <2>3. k \in DOMAIN handled /\ handled[k].task = orderedSubTasks[k]
        BY <2>1, <2>2 DEF IInv, TakenInOrder
    <2> QED
        BY <2>2, <2>3 DEF ResultsInv, HandledHaveResult
<1> QED
    BY <1>1, OrchestrationInvariance, ResultsInvariance, PTL

-----------------------------------------------------------------------------
(* The end of an orchestration.                                            *)

(* The ids that joined the queue are not more than the plan has sub-tasks, *)
(* and as many sub-tasks are taken as the plan has.                        *)
OrderFits ==
    /\ pc \in {"queueing", "sorting"} =>
            Len(orderedTaskIds) + Len(queue) <= Len(subTasks)
    /\ pc = "executing" => Len(orderedSubTasks) = Len(subTasks)

(* How many steps are left at most: the rounds of the ordering loop, each  *)
(* of one visit per sub-task, then the sub-tasks still to be taken.        *)
Round == Len(subTasks) + 2

Left ==
    CASE pc = "queueing" -> Round * (Len(subTasks) + 1) + Round - visiting
      [] pc = "sorting" -> Round * (Len(subTasks) + 1 - Len(orderedTaskIds))
                                + Len(subTasks) + 1 - visiting
      [] pc = "executing" -> Len(subTasks) + 1 - Len(handled)
      [] OTHER -> 0

(* Once there is a plan, each step brings the answer nearer. *)
ComesToAnEnd == pc # "planning" => Left \in Nat /\ Left' \in Nat /\ Left' < Left

LEMMA BroughtFits ==
    ASSUME TypeOK, Brought, pc \in {"queueing", "sorting"}
    PROVE  Len(orderedTaskIds) + Len(queue) <= Len(subTasks)
<1> DEFINE n == Len(subTasks)
           k == Len(orderedTaskIds) + Len(queue)
<1>1. /\ n \in Nat /\ k \in Nat /\ DOMAIN subTasks = 1..n
      /\ DOMAIN Ranked = 1..k
    BY LenProperties, ConcatProperties DEF TypeOK, Ranked
<1>2. PICK f \in [1..k -> 1..n] : BroughtBy(f)
    BY <1>1 DEF Brought
<1>3. f \in Injection(1..k, 1..n)
    BY <1>1, <1>2 DEF BroughtBy, Injection, IsInjective
<1>4. \A m \in Nat : IsFiniteSet(1..m) /\ Cardinality(1..m) = m
    <2> TAKE m \in Nat
    <2>1. IsFiniteSet(1..m) /\ Cardinality(1..m) = IF 1 > m THEN 0 ELSE m - 1 + 1
        BY FS_Interval
    <2> QED
        BY <2>1
<1>5. Cardinality(1..k) <= Cardinality(1..n)
    BY <1>1, <1>3, <1>4, FS_Injection
<1> QED
    BY <1>1, <1>4, <1>5

LEMMA NextBroughtFits ==
    (TypeOK /\ Brought /\ pc \in {"queueing", "sorting"}
        => Len(orderedTaskIds) + Len(queue) <= Len(subTasks))'
<1>1. TypeOK /\ Brought /\ pc \in {"queueing", "sorting"}
        => Len(orderedTaskIds) + Len(queue) <= Len(subTasks)
    BY BroughtFits
<1> QED
    BY <1>1, PTL

(* An order is used when it has as many ids as the plan. *)
LEMMA FitsStep ==
    ASSUME TypeOK, Brought', TypeOK', OrderFits, Phases, [Next]_vars
    PROVE  OrderFits'
<1>1. ASSUME SortEnds PROVE Len(orderedSubTasks') = Len(subTasks')
    <2>1. /\ DOMAIN subTasks = 1..Len(subTasks) /\ Len(subTasks) \in Nat
          /\ DOMAIN orderedTaskIds = 1..Len(orderedTaskIds)
        BY LenProperties DEF TypeOK
    <2>2. DOMAIN orderedSubTasks' = 1..Len(subTasks) /\ subTasks' = subTasks
        BY <1>1, <2>1 DEF SortEnds, OriginalOrder, IsIncomplete
    <2>3. orderedSubTasks' \in Seq(DOMAIN subTasks')
        BY DEF TypeOK
    <2> QED
        BY <2>1, <2>2, <2>3, LenProperties
<1>2. ASSUME UNCHANGED <<subTasks, orderedSubTasks>>,
             pc = "executing" \/ pc' # "executing"
      PROVE  pc' = "executing" => Len(orderedSubTasks') = Len(subTasks')
    BY <1>2 DEF OrderFits
<1>3. ASSUME NEW w \in Answers, GenerateTaskPlan(w) PROVE pc' # "executing"
    BY <1>3 DEF GenerateTaskPlan
<1>4. pc' = "executing" => Len(orderedSubTasks') = Len(subTasks')
    BY <1>1, <1>2, <1>3
    DEF Next, vars, sortVars, NoPlan, QueueIfReady, Dequeue, VisitNeighbour,
        CreateSpecializedAgentFails, ExecuteTask, Handle, HasNext,
        GenerateFinalResponse
<1> QED
    BY <1>4, NextBroughtFits DEF OrderFits

LEMMA Multiples ==
    ASSUME NEW r \in Nat, NEW a \in Nat
    PROVE  r * a \in Nat /\ r * (a + 1) = r * a + r
OBVIOUS

LEMMA LeftType ==
    ASSUME TypeOK, Phases, TakenInOrder, OrderFits
    PROVE  Left \in Nat
<1> DEFINE n == Len(subTasks)
           k == Len(orderedTaskIds)
           r == Round
<1>1. n \in Nat /\ k \in Nat /\ Len(queue) \in Nat /\ Len(handled) \in Nat
    BY LenProperties DEF TypeOK
<1>2. r = n + 2 /\ visiting \in 1..(n + 1)
    BY DEF Round, TypeOK
<1>3. CASE pc = "queueing"
    <2>1. Left = r * (n + 1) + r - visiting
        BY <1>3 DEF Left
    <2>2. r * (n + 1) \in Nat
        BY <1>1, <1>2, Multiples
    <2> HIDE DEF n, r
    <2> QED
        BY <1>1, <1>2, <2>1, <2>2
<1>4. CASE pc = "sorting"
    <2>1. Left = r * (n + 1 - k) + n + 1 - visiting
        BY <1>4 DEF Left
    <2>2. n + 1 - k \in Nat
        BY <1>1, <1>4 DEF OrderFits
    <2>3. r * (n + 1 - k) \in Nat
        BY <1>1, <1>2, <2>2, Multiples
    <2> HIDE DEF n, r, k
    <2> QED
        BY <1>1, <1>2, <2>1, <2>3
<1>5. CASE pc = "executing"
    BY <1>1, <1>5 DEF Left, OrderFits, TakenInOrder
<1>6. CASE pc \notin {"queueing", "sorting", "executing"}
    BY <1>6 DEF Left
<1> QED
    BY <1>3, <1>4, <1>5, <1>6

LEMMA NextLeftType ==
    (TypeOK /\ Phases /\ TakenInOrder /\ OrderFits => Left \in Nat)'
<1>1. TypeOK /\ Phases /\ TakenInOrder /\ OrderFits => Left \in Nat
    BY LeftType
<1> QED
    BY <1>1, PTL

(* A step of the queueing loop, or one from it into the ordering loop.     *)
LEMMA QueueingGetsOn ==
    ASSUME TypeOK, Phases, QueueIfReady
    PROVE  Left' < Left
<1> DEFINE n == Len(subTasks)
           m == Round * (n + 1)
<1>1. n \in Nat /\ Round = n + 2 /\ visiting \in 1..n
    BY LenProperties DEF TypeOK, Phases, QueueIfReady, Round
<1>2. m \in Nat
    BY <1>1, Multiples
<1>3. pc = "queueing" /\ visiting' = visiting + 1
      /\ UNCHANGED <<subTasks, orderedTaskIds>>
      /\ pc' = IF visiting = n THEN "sorting" ELSE "queueing"
    BY DEF QueueIfReady
<1>4. Left = m + Round - visiting
    BY <1>3 DEF Left
<1>5. CASE visiting = n
    <2>1. Len(orderedTaskIds') = 0
        BY <1>3, EmptySeq DEF Phases
    <2>2. Left' = Round * (n + 1 - 0) + n + 1 - visiting'
        BY <1>3, <1>5, <2>1 DEF Left, Round
    <2>3. n + 1 - 0 = n + 1
        BY <1>1
    <2>4. Left' = m + n + 1 - (visiting + 1)
        BY <1>3, <2>2, <2>3
    <2> HIDE DEF m, n
    <2> QED
        BY <1>1, <1>2, <1>4, <2>4
<1>6. CASE visiting # n
    <2>1. Left' = m + Round - (visiting + 1)
        BY <1>3, <1>6 DEF Left, Round
    <2> HIDE DEF m, n
    <2> QED
        BY <1>1, <1>2, <1>4, <2>1
<1> QED
    BY <1>5, <1>6

(* A new round, a visit within a round, and the end of the loop.           *)
LEMMA SortingGetsOn ==
    ASSUME TypeOK, Phases, OrderFits, OrderFits',
           Dequeue \/ VisitNeighbour \/ SortEnds
    PROVE  Left' < Left
<1> DEFINE n == Len(subTasks)
           k == Len(orderedTaskIds)
<1>1. /\ n \in Nat /\ k \in Nat /\ Len(queue) \in Nat
      /\ Round = n + 2 /\ visiting \in 1..(n + 1)
    BY LenProperties DEF TypeOK, Round
<1>2. pc = "sorting" /\ subTasks' = subTasks
    BY DEF Dequeue, VisitNeighbour, SortEnds
<1>3. n - k \in Nat
    BY <1>1, <1>2 DEF OrderFits
<1> DEFINE m == Round * (n - k)
<1>4. m \in Nat /\ Round * ((n - k) + 1) = m + Round
    BY <1>1, <1>3, Multiples
<1>5. (n - k) + 1 = n + 1 - k
    BY <1>1
<1>6. Left = m + Round + n + 1 - visiting
    <2>1. Left = Round * (n + 1 - k) + n + 1 - visiting
        BY <1>2 DEF Left
    <2> QED
        BY <1>4, <1>5, <2>1
<1>7. CASE Dequeue
    <2>1. Len(orderedTaskIds') = k + 1 /\ pc' = "sorting" /\ visiting' = 1
        BY <1>2, <1>7, LenProperties, HeadTailProperties
        DEF Dequeue, TypeOK
    <2>2. Left' = Round * (n + 1 - (k + 1)) + n + 1 - 1
        BY <1>2, <2>1 DEF Left, Round
    <2>3. n + 1 - (k + 1) = n - k
        BY <1>1
    <2>4. Left' = m + n + 1 - 1
        BY <2>2, <2>3
    <2>5. visiting = n + 1
        BY <1>7 DEF Dequeue, VisitedAll
    <2> HIDE DEF m, n, k
    <2> QED
        BY <1>1, <1>4, <1>6, <2>4, <2>5
<1>8. CASE VisitNeighbour
    <2>1. Left' = Round * (n + 1 - k) + n + 1 - (visiting + 1)
        BY <1>2, <1>8 DEF VisitNeighbour, Left, Round
    <2>2. Left' = m + Round + n + 1 - (visiting + 1)
        BY <1>4, <1>5, <2>1
    <2> HIDE DEF m, n, k
    <2> QED
        BY <1>1, <1>4, <1>6, <2>2
<1>9. CASE SortEnds
    <2>1. Left' = n + 1 - 0
        BY <1>2, <1>9, EmptySeq DEF SortEnds, Left, Phases
    <2> HIDE DEF m, n, k
    <2> QED
        BY <1>1, <1>4, <1>6, <2>1
<1> QED
    BY <1>7, <1>8, <1>9

(* Each sub-task that is taken, and the answer.                            *)
LEMMA ExecutingGetsOn ==
    ASSUME TypeOK, TypeOK', Phases, TakenInOrder, OrderFits,
           \/ CreateSpecializedAgentFails
           \/ \E outcome \in Outcomes : ExecuteTask(outcome)
           \/ GenerateFinalResponse
    PROVE  Left' < Left
<1>1. pc = "executing" /\ subTasks' = subTasks
    BY DEF CreateSpecializedAgentFails, ExecuteTask, Handle, HasNext,
           GenerateFinalResponse
<1>2. Len(subTasks) \in Nat /\ Len(handled) \in Nat
    BY LenProperties DEF TypeOK
<1>3. Left = Len(subTasks) + 1 - Len(handled)
    BY <1>1 DEF Left
<1>4. ASSUME NEW e, handled' = Append(handled, e), pc' = pc
      PROVE  Left' < Left
    <2>1. Len(handled') = Len(handled) + 1
        BY <1>4 DEF TypeOK
    <2>2. Left' = Len(subTasks) + 1 - (Len(handled) + 1)
        BY <1>1, <1>4, <2>1 DEF Left
    <2> QED
        BY <1>2, <1>3, <2>2
<1>5. CASE GenerateFinalResponse
    <2>1. Left' = 0
        BY <1>5 DEF GenerateFinalResponse, Left
    <2>2. Len(handled) <= Len(subTasks)
        BY <1>1 DEF OrderFits, TakenInOrder
    <2> QED
        BY <1>2, <1>3, <2>1, <2>2
<1>6. CASE CreateSpecializedAgentFails
    BY <1>4, <1>6 DEF CreateSpecializedAgentFails, Handle
<1>7. ASSUME NEW outcome \in Outcomes, ExecuteTask(outcome)
      PROVE  Left' < Left
    BY <1>4, <1>7 DEF ExecuteTask, Handle
<1> QED
    BY <1>5, <1>6, <1>7

(* The ordering loop ends for every plan, with repeated ids and cycles     *)
(* (auto-gen-orchestrator.js:455-466), and the whole orchestration takes a *)
(* number of steps that is known when the plan is (415-540).               *)
THEOREM PlansComeToAnEnd == Spec => [][ComesToAnEnd]_vars
<1> DEFINE Inv == IInv /\ ResultsInv /\ OrderFits
<1>1. Init => OrderFits
    BY DEF Init, OrderFits
<1>2. IInv /\ IInv' /\ ResultsInv' /\ OrderFits /\ [Next]_vars => OrderFits'
    BY FitsStep DEF IInv, ResultsInv
<1>3. Inv /\ Inv' /\ [Next]_vars => [ComesToAnEnd]_vars
    <2> SUFFICES ASSUME Inv, Inv', Next, pc # "planning"
                 PROVE  Left \in Nat /\ Left' \in Nat /\ Left' < Left
        BY DEF ComesToAnEnd
    <2>1. Left \in Nat /\ Left' \in Nat
        BY LeftType, NextLeftType DEF IInv
    <2>2. ~NoPlan /\ \A w \in Answers : ~(pc = "planning" /\ GenerateTaskPlan(w))
        BY DEF NoPlan
    <2>3. CASE QueueIfReady
        BY <2>1, <2>3, QueueingGetsOn DEF IInv
    <2>4. CASE Dequeue \/ VisitNeighbour \/ SortEnds
        BY <2>1, <2>4, SortingGetsOn DEF IInv
    <2>5. CASE \/ CreateSpecializedAgentFails
               \/ \E outcome \in Outcomes : ExecuteTask(outcome)
               \/ GenerateFinalResponse
        BY <2>1, <2>5, ExecutingGetsOn DEF IInv
    <2> QED
        BY <2>1, <2>2, <2>3, <2>4, <2>5 DEF Next
<1> QED
    BY <1>1, <1>2, <1>3, OrchestrationInvariance, ResultsInvariance, PTL
    DEF Spec

=============================================================================
