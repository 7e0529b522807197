--------------------------- MODULE AgentTeam_proofs ---------------------------
(***************************************************************************)
(* Proofs about orchestrations over shared agents: whatever overlaps or    *)
(* nests, an agent works on the task of the call that engaged it, with the *)
(* results of the functions it has called for that task.  The argument is  *)
(* that an agent that has called an orchestrator does not go on before it  *)
(* has its reply, so that a caller is still at the step that made the call *)
(* when the reply is taken, and takes each reply once.                     *)
(***************************************************************************)
EXTENDS AgentTeam, FiniteSetTheorems, TLAPS

(* What the argument needs of the types; who the agents are it does not.   *)
Typed ==
    /\ orchestrator = [c \in Calls |-> orchestrator[c]]
    /\ caller \in [Calls -> [call : Calls, step : Nat] \cup {None}]
    /\ pc \in [Calls -> {"idle", "selecting", "asked", "synthesis", "done", "taken"}]
    /\ step \in [Calls -> Nat]
    /\ input \in [Calls -> Items \cup {None}]
    /\ prompt \in [Calls -> [task : Items \cup {None}, results : Seq(Items)]]
    /\ reply \in [Calls -> Items \cup {None}]

(* A call that selects agents is not a chain, and the agents of one that   *)
(* is not are given what it was called with.                               *)
InputOK ==
    \A c \in Calls :
        /\ pc[c] = "selecting" => ~IsChain(c)
        /\ pc[c] = "asked" => prompt[c].task = input[c] /\ input[c] \in Items

(* A call that is over returns something of its own. *)
RepliesOK ==
    \A c \in Calls : pc[c] = "done" => reply[c] \in Items /\ reply[c].by = c

(* A call that has not been taken has its caller waiting at the step that  *)
(* made it, and no call is its own caller.                                 *)
CallersOK ==
    \A d \in Calls : caller[d] # None /\ pc[d] # "taken" =>
        /\ pc[d] # "idle"
        /\ pc[caller[d].call] = "asked"
        /\ caller[d].step = step[caller[d].call]

OthersCall == \A d \in Calls : caller[d] # None => caller[d].call # d

(* Of the replies in a prompt each call has been taken. *)
ResultsTaken ==
    \A c \in Calls : pc[c] = "asked" =>
        \A i \in DOMAIN prompt[c].results :
            LET d == prompt[c].results[i].by IN
            d # c => pc[d] = "taken" /\ caller[d] # None

IInv ==
    /\ Typed /\ InputOK /\ RepliesOK /\ CallersOK /\ OthersCall /\ ResultsTaken
    /\ WorksOnOwnTask /\ ResultsAreOwn

-----------------------------------------------------------------------------
LEMMA TextsAreItems ==
  ASSUME NEW c \in Calls, NEW n \in Nat
  PROVE  /\ Text(c, n) \in Items /\ Text(c, n).by = c /\ Text(c, n).step = n
         /\ Error(c, n) \in Items /\ Error(c, n).by = c /\ Error(c, n).step = n
  BY DEF Items, Text, Error

LEMMA InitIInv == Init => IInv
  BY DEF Init, IInv, Typed, InputOK, RepliesOK, CallersOK, OthersCall,
         ResultsTaken, WorksOnOwnTask, ResultsAreOwn, NoPrompt, Items

(* What c may be after a step of its own: its caller, if it has one, waits *)
(* at the step that made it, and nobody waits for it but calls it has      *)
(* itself made, all of which have been taken.                              *)
OwnStep(c) ==
    /\ Typed'
    /\ \A d \in Calls : d # c => /\ caller'[d] = caller[d]
                                 /\ orchestrator'[d] = orchestrator[d]
    /\ pc[c] \notin {"taken", "done"}
    /\ caller'[c] # None => /\ caller'[c].call # c
                            /\ pc[caller'[c].call] = "asked"
                            /\ caller'[c].step = step[caller'[c].call]
    /\ \A d \in Callees(c) : pc[d] = "taken"

(* It gives its next agent something of its own to do, or its formatter    *)
(* throws and the call is over.                                            *)
Engages(c, n, in) ==
    /\ step' = [step EXCEPT ![c] = n]
    /\ input' = [input EXCEPT ![c] = in]
    /\ \/ /\ prompt' = [prompt EXCEPT ![c] = [task |-> in, results |-> << >>]]
          /\ pc' = [pc EXCEPT ![c] = "asked"]
          /\ UNCHANGED reply
       \/ /\ pc' = [pc EXCEPT ![c] = "done"]
          /\ reply' = [reply EXCEPT ![c] = Error(c, 0)]
          /\ UNCHANGED prompt

LEMMA EngagesTyped ==
  ASSUME Typed, NEW c \in Calls, NEW n \in Nat, NEW in \in Items,
         Engages(c, n, in),
         orchestrator' = [d \in Calls |-> orchestrator'[d]],
         caller' \in [Calls -> [call : Calls, step : Nat] \cup {None}]
  PROVE  Typed'
<1>1. Error(c, 0) \in Items
  BY TextsAreItems
<1>2. [task |-> in, results |-> << >>] \in [task : Items \cup {None}, results : Seq(Items)]
  OBVIOUS
<1>3. \A x \in [task : Items \cup {None}, results : Seq(Items)] :
         [prompt EXCEPT ![c] = x] \in [Calls -> [task : Items \cup {None}, results : Seq(Items)]]
  BY DEF Typed
<1>4. prompt' \in [Calls -> [task : Items \cup {None}, results : Seq(Items)]]
  BY <1>2, <1>3 DEF Engages, Typed
<1>5. reply' \in [Calls -> Items \cup {None}]
  BY <1>1 DEF Engages, Typed
<1>6. /\ step' \in [Calls -> Nat] /\ input' \in [Calls -> Items \cup {None}]
      /\ pc' \in [Calls -> {"idle", "selecting", "asked", "synthesis", "done", "taken"}]
  BY DEF Engages, Typed
<1> QED
  BY <1>4, <1>5, <1>6 DEF Typed

LEMMA MovesOn ==
  ASSUME IInv, NEW c \in Calls, NEW n \in Nat, NEW in \in Items,
         in.by = c, in.step = IF IsChain(c)' THEN n - 1 ELSE 0,
         OwnStep(c), Engages(c, n, in)
  PROVE  IInv'
<1> USE DEF IInv, OwnStep, Engages
<1>0. Error(c, 0) \in Items /\ Error(c, 0).by = c
  BY TextsAreItems
<1>1. \/ pc' = [pc EXCEPT ![c] = "asked"] /\ reply'[c] = reply[c]
         /\ prompt'[c] = [task |-> in, results |-> << >>]
      \/ pc' = [pc EXCEPT ![c] = "done"] /\ reply'[c] = Error(c, 0)
  BY DEF Typed
<1>2. \A d \in Calls : d # c =>
         /\ pc'[d] = pc[d] /\ reply'[d] = reply[d] /\ prompt'[d] = prompt[d]
         /\ step'[d] = step[d] /\ input'[d] = input[d]
         /\ caller'[d] = caller[d] /\ orchestrator'[d] = orchestrator[d]
         /\ IsChain(d)' = IsChain(d)
  BY DEF Typed, IsChain
<1>3. pc'[c] \in {"asked", "done"} /\ step'[c] = n /\ input'[c] = in
  BY <1>1 DEF Typed
<1>4. InputOK'
  <2>1. pc'[c] = "asked" => prompt'[c].task = in
    BY <1>1 DEF Typed
  <2> QED
    BY <1>2, <1>3, <2>1 DEF InputOK
<1>5. RepliesOK'
  <2>1. pc'[c] = "done" => reply'[c] = Error(c, 0)
    BY <1>1 DEF Typed
  <2> QED
    BY <1>0, <1>2, <2>1 DEF RepliesOK
<1>6. CallersOK'
  <2> SUFFICES ASSUME NEW d \in Calls, caller'[d] # None, pc'[d] # "taken"
               PROVE  /\ pc'[d] # "idle"
                      /\ pc'[caller'[d].call] = "asked"
                      /\ caller'[d].step = step'[caller'[d].call]
    BY DEF CallersOK
  <2>1. CASE d = c
    BY <1>2, <1>3, <2>1 DEF Typed
  <2>2. CASE d # c
    <3>1. caller[d].call # c
      BY <1>2, <2>2 DEF Callees
    <3> QED
      BY <1>2, <2>2, <3>1 DEF CallersOK, Typed
  <2> QED
    BY <2>1, <2>2
<1>7. OthersCall'
  <2> SUFFICES ASSUME NEW d \in Calls, caller'[d] # None
               PROVE  caller'[d].call # d
    BY DEF OthersCall
  <2>1. CASE d = c
    BY <2>1
  <2>2. CASE d # c
    BY <1>2, <2>2 DEF OthersCall
  <2> QED
    BY <2>1, <2>2
<1>8. \A d \in Calls : pc[d] = "taken" => d # c /\ pc'[d] = "taken" /\ caller'[d] = caller[d]
  BY <1>2
<1>9. \A e \in Calls : e # c /\ pc'[e] = "asked" =>
         /\ pc[e] = "asked" /\ prompt'[e] = prompt[e] /\ step'[e] = step[e]
  BY <1>2
<1>10. pc'[c] = "asked" => prompt'[c].results = << >> /\ prompt'[c].task = in
  BY <1>1 DEF Typed
<1>11. \A e \in Calls : pc[e] = "asked" =>
          \A i \in DOMAIN prompt[e].results : prompt[e].results[i].by \in Calls
  <2> TAKE e \in Calls
  <2>1. prompt[e].results \in Seq(Items)
    BY DEF Typed
  <2>2. \A i \in DOMAIN prompt[e].results : prompt[e].results[i] \in Items
    BY <2>1
  <2> QED
    BY <2>2 DEF Items
<1>12. ResultsTaken'
  BY <1>8, <1>9, <1>10, <1>11 DEF ResultsTaken
<1>13. WorksOnOwnTask'
  BY <1>2, <1>3, <1>9, <1>10 DEF WorksOnOwnTask
<1>14. ResultsAreOwn'
  BY <1>8, <1>9, <1>10, <1>11 DEF ResultsAreOwn, ResultsTaken
<1> QED
  BY <1>4, <1>5, <1>6, <1>7, <1>12, <1>13, <1>14

(* The same for a call whose agents do not go on: it asks an LLM, or ends. *)
Rests(c, p) ==
    /\ UNCHANGED <<step, input, prompt>>
    /\ pc' = [pc EXCEPT ![c] = p]
    /\ \A d \in Calls : d # c => reply'[d] = reply[d]
    /\ p = "selecting" => ~IsChain(c)'
    /\ p = "done" => reply'[c] \in Items /\ reply'[c].by = c

LEMMA Pauses ==
  ASSUME IInv, NEW c \in Calls, NEW p \in {"selecting", "synthesis", "done"},
         OwnStep(c), Rests(c, p)
  PROVE  IInv'
<1> USE DEF IInv, OwnStep, Rests
<1>1. pc'[c] = p
  BY DEF Typed
<1>2. \A d \in Calls : d # c =>
         /\ pc'[d] = pc[d] /\ reply'[d] = reply[d]
         /\ caller'[d] = caller[d] /\ orchestrator'[d] = orchestrator[d]
         /\ IsChain(d)' = IsChain(d)
  BY DEF Typed, IsChain
<1>3. InputOK'
  BY <1>1, <1>2 DEF InputOK
<1>4. RepliesOK'
  BY <1>1, <1>2 DEF RepliesOK
<1>5. CallersOK'
  <2> SUFFICES ASSUME NEW d \in Calls, caller'[d] # None, pc'[d] # "taken"
               PROVE  /\ pc'[d] # "idle"
                      /\ pc'[caller'[d].call] = "asked"
                      /\ caller'[d].step = step'[caller'[d].call]
    BY DEF CallersOK
  <2>1. CASE d = c
    BY <1>1, <1>2, <2>1 DEF Typed
  <2>2. CASE d # c
    <3>1. caller[d].call # c
      BY <1>2, <2>2 DEF Callees
    <3> QED
      BY <1>2, <2>2, <3>1 DEF CallersOK, Typed
  <2> QED
    BY <2>1, <2>2
<1>6. OthersCall'
  <2> SUFFICES ASSUME NEW d \in Calls, caller'[d] # None
               PROVE  caller'[d].call # d
    BY DEF OthersCall
  <2>1. CASE d = c
    BY <2>1
  <2>2. CASE d # c
    BY <1>2, <2>2 DEF OthersCall
  <2> QED
    BY <2>1, <2>2
<1>7. \A d \in Calls : pc[d] = "taken" => d # c /\ pc'[d] = "taken" /\ caller'[d] = caller[d]
  BY <1>2
<1>8. \A e \in Calls : pc'[e] = "asked" => e # c /\ pc[e] = "asked"
  BY <1>1, <1>2
<1>9. \A e \in Calls : \A i \in DOMAIN prompt[e].results : prompt[e].results[i].by \in Calls
  <2> TAKE e \in Calls
  <2>1. prompt[e].results \in Seq(Items)
    BY DEF Typed
  <2>2. \A i \in DOMAIN prompt[e].results : prompt[e].results[i] \in Items
    BY <2>1
  <2> QED
    BY <2>2 DEF Items
<1>10. ResultsTaken'
  BY <1>7, <1>8, <1>9 DEF ResultsTaken
<1>11. WorksOnOwnTask'
  BY <1>2, <1>8 DEF WorksOnOwnTask
<1>12. ResultsAreOwn'
  BY <1>7, <1>8, <1>9 DEF ResultsAreOwn, ResultsTaken
<1> QED
  BY <1>3, <1>4, <1>5, <1>6, <1>10, <1>11, <1>12

-----------------------------------------------------------------------------
(* A call that has not begun is nobody's caller.                           *)
LEMMA StartsStep ==
  ASSUME IInv, NEW d \in Calls, NEW o, NEW by,
         Orchestrate(d, o, by), Starts(d, o),
         \/ by = None
         \/ /\ by \in [call : Calls, step : Nat]
            /\ by.call # d /\ pc[by.call] = "asked" /\ by.step = step[by.call]
  PROVE  IInv'
<1> USE DEF IInv
<1>1. /\ pc[d] = "idle" /\ orchestrator' = [orchestrator EXCEPT ![d] = o]
      /\ caller' = [caller EXCEPT ![d] = by]
  BY DEF Orchestrate
<1>2. /\ \A e \in Calls :
            e = d \/ (caller'[e] = caller[e] /\ orchestrator'[e] = orchestrator[e])
      /\ caller'[d] = by /\ orchestrator'[d] = o
      /\ orchestrator' = [e \in Calls |-> orchestrator'[e]]
      /\ caller' \in [Calls -> [call : Calls, step : Nat] \cup {None}]
  BY <1>1 DEF Typed
<1>3. \A e \in Callees(d) : pc[e] = "taken"
  BY <1>1 DEF Callees, CallersOK
<1>4. Typed' => OwnStep(d)
  BY <1>1, <1>2, <1>3 DEF OwnStep
<1>5. CASE Type[o] = "chain" /\ Begin(d, Team[o], 1, Text(d, 0))
  <2>1. Text(d, 0) \in Items /\ Text(d, 0).by = d /\ Text(d, 0).step = 0
        /\ Error(d, 0) \in Items
    BY TextsAreItems
  <2>2. IsChain(d)'
    BY <1>2, <1>5 DEF IsChain
  <2>3. Engages(d, 1, Text(d, 0))
    BY <1>5 DEF Begin, Engages
  <2>4. Typed'
    BY <1>2, <2>1, <2>3, EngagesTyped
  <2> HIDE DEF IInv
  <2> QED
    BY <1>4, <2>1, <2>2, <2>3, <2>4, MovesOn
<1>6. CASE /\ Type[o] # "chain" /\ pc' = [pc EXCEPT ![d] = "selecting"]
           /\ UNCHANGED <<task, engaged, step, input, prompt, reply>>
  <2>1. Typed'
    BY <1>2, <1>6 DEF Typed
  <2>2. Rests(d, "selecting")
    BY <1>2, <1>6 DEF Rests, IsChain
  <2> HIDE DEF IInv
  <2> QED
    BY <1>4, <2>1, <2>2, Pauses
<1> QED
  BY <1>5, <1>6 DEF Starts

LEMMA CallStep ==
  ASSUME IInv, NEW c \in Calls, NEW d \in Calls, CallOrchestrator(c, d)
  PROVE  IInv'
<1> DEFINE by == [call |-> c, step |-> step[c]]
<1>1. /\ pc[c] = "asked" /\ pc[d] = "idle"
      /\ Orchestrate(d, Tool[Agent(c)], by) /\ Starts(d, Tool[Agent(c)])
  BY DEF CallOrchestrator, Asked, Orchestrate
<1>2. by \in [call : Calls, step : Nat] /\ by.call = c /\ by.step = step[c]
  BY DEF IInv, Typed
<1>3. c # d
  BY <1>1
<1> HIDE DEF by
<1> QED
  BY <1>1, <1>2, <1>3, StartsStep

(* A call that has made its own step and has not been called anew. *)
LEMMA OwnStepOf ==
  ASSUME IInv, Typed', NEW c \in Calls, pc[c] \in {"asked", "selecting", "synthesis"},
         UNCHANGED <<orchestrator, caller>>,
         \A d \in Callees(c) : pc[d] = "taken"
  PROVE  OwnStep(c)
  BY DEF OwnStep, IInv, CallersOK, OthersCall

(* Nobody but an agent at work has called somebody. *)
LEMMA NoCallees ==
  ASSUME IInv, NEW c \in Calls, pc[c] # "asked"
  PROVE  \A d \in Callees(c) : pc[d] = "taken"
  BY DEF Callees, IInv, CallersOK

(* An agent has returned: its output is given to the next agent of a chain,*)
(* what the call was given to that of another orchestration.               *)
LEMMA OutcomeStep ==
  ASSUME IInv, NEW c \in Calls, Asked(c), NEW output \in Items,
         output.by = c, output.step = step[c], Outcome(c, output)
  PROVE  IInv'
<1>1. /\ Typed /\ pc[c] = "asked" /\ \A d \in Callees(c) : pc[d] = "taken"
      /\ UNCHANGED <<orchestrator, caller>>
  BY DEF IInv, Asked, Outcome
<1>2. IsChain(c)' <=> IsChain(c)
  BY <1>1 DEF IsChain
<1>3. step[c] \in Nat /\ input[c] \in Items
  BY <1>1 DEF IInv, Typed, InputOK
<1>4. ~IsChain(c) => input[c].by = c /\ input[c].step = 0
  BY <1>1 DEF IInv, InputOK, WorksOnOwnTask
<1>5. PICK in : in = IF IsChain(c) THEN output ELSE input[c]
  OBVIOUS
<1>6. in \in Items /\ in.by = c
  BY <1>3, <1>4, <1>5
<1>7. in.step = IF IsChain(c)' THEN (step[c] + 1) - 1 ELSE 0
  BY <1>2, <1>3, <1>4, <1>5
<1>8. CASE Begin(c, engaged[c], step[c] + 1, IF IsChain(c) THEN output ELSE input[c])
  <2>1. PICK n \in Nat : n = step[c] + 1
    BY <1>3
  <2>2. Engages(c, n, in)
    BY <1>5, <1>8, <2>1 DEF Begin, Engages
  <2>3. in.step = IF IsChain(c)' THEN n - 1 ELSE 0
    BY <1>7, <2>1
  <2>4. Typed'
    BY <1>1, <1>6, <2>2, EngagesTyped DEF Typed
  <2>5. OwnStep(c)
    BY <1>1, <2>4, OwnStepOf
  <2> QED
    BY <1>6, <2>2, <2>3, <2>5, MovesOn
<1>9. CASE /\ step[c] = Len(engaged[c])
           /\ pc' = [pc EXCEPT ![c] = IF IsChain(c) THEN "done" ELSE "synthesis"]
           /\ reply' = IF IsChain(c) THEN [reply EXCEPT ![c] = output] ELSE reply
           /\ UNCHANGED <<task, engaged, step, input, prompt>>
  <2>1. PICK p \in {"synthesis", "done"} : p = IF IsChain(c) THEN "done" ELSE "synthesis"
    OBVIOUS
  <2>2. Typed'
    BY <1>1, <1>9 DEF Typed
  <2>3. Rests(c, p)
    BY <1>1, <1>9, <2>1 DEF Rests, Typed
  <2>4. OwnStep(c)
    BY <1>1, <2>2, OwnStepOf
  <2> QED
    BY <2>1, <2>3, <2>4, Pauses
<1> QED
  BY <1>8, <1>9 DEF Outcome

LEMMA ReturnsStep ==
  ASSUME IInv, NEW c \in Calls, AgentReturns(c)
  PROVE  IInv'
<1>1. step[c] \in Nat
  BY DEF IInv, Typed
<1>2. CASE Outcome(c, Text(c, step[c]))
  <2>1. PICK output \in Items : /\ output = Text(c, step[c])
                                /\ output.by = c /\ output.step = step[c]
    BY <1>1, TextsAreItems
  <2>2. Outcome(c, output)
    BY <1>2, <2>1
  <2> QED
    BY <2>1, <2>2, OutcomeStep DEF AgentReturns
<1>3. CASE Outcome(c, Error(c, step[c]))
  <2>1. PICK output \in Items : /\ output = Error(c, step[c])
                                /\ output.by = c /\ output.step = step[c]
    BY <1>1, TextsAreItems
  <2>2. Outcome(c, output)
    BY <1>3, <2>1
  <2> QED
    BY <2>1, <2>2, OutcomeStep DEF AgentReturns
<1> QED
  BY <1>2, <1>3 DEF AgentReturns

(* The agents are selected, or there is none to engage. *)
LEMMA DetermineStep ==
  ASSUME IInv, NEW c \in Calls, DetermineAgents(c)
  PROVE  IInv'
<1>1. /\ Typed /\ pc[c] = "selecting" /\ UNCHANGED <<orchestrator, caller>>
  BY DEF IInv, DetermineAgents
<1>2. \A d \in Callees(c) : pc[d] = "taken"
  BY <1>1, NoCallees
<1>3. Text(c, 0) \in Items /\ Text(c, 0).by = c /\ Text(c, 0).step = 0
  BY TextsAreItems
<1>4. ~IsChain(c)'
  BY <1>1 DEF IInv, InputOK, IsChain
<1>5. CASE \E agents : Begin(c, agents, 1, Text(c, 0))
  <2>1. Engages(c, 1, Text(c, 0))
    BY <1>5 DEF Begin, Engages
  <2>2. Typed'
    BY <1>1, <1>3, <2>1, EngagesTyped DEF Typed
  <2>3. OwnStep(c)
    BY <1>1, <1>2, <2>2, OwnStepOf
  <2> QED
    BY <1>3, <1>4, <2>1, <2>3, MovesOn
<1>6. CASE /\ pc' = [pc EXCEPT ![c] = "done"]
           /\ reply' = [reply EXCEPT ![c] = Text(c, 0)]
           /\ UNCHANGED <<task, engaged, step, input, prompt>>
  <2>1. Typed'
    BY <1>1, <1>3, <1>6 DEF Typed
  <2>2. Rests(c, "done")
    BY <1>1, <1>3, <1>6 DEF Rests, Typed
  <2>3. OwnStep(c)
    BY <1>1, <1>2, <2>1, OwnStepOf
  <2> QED
    BY <2>2, <2>3, Pauses
<1> QED
  BY <1>5, <1>6 DEF DetermineAgents

LEMMA FinalStep ==
  ASSUME IInv, NEW c \in Calls, GenerateFinalResponse(c)
  PROVE  IInv'
<1>1. /\ Typed /\ pc[c] = "synthesis" /\ UNCHANGED <<orchestrator, caller>>
      /\ pc' = [pc EXCEPT ![c] = "done"] /\ UNCHANGED <<step, input, prompt>>
  BY DEF IInv, GenerateFinalResponse
<1>2. PICK answer \in {Text(c, 0), Error(c, 0)} : reply' = [reply EXCEPT ![c] = answer]
  BY DEF GenerateFinalResponse
<1>3. answer \in Items /\ answer.by = c
  BY TextsAreItems
<1>4. Typed'
  BY <1>1, <1>2, <1>3 DEF Typed
<1>5. Rests(c, "done")
  BY <1>1, <1>2, <1>3 DEF Rests, Typed
<1>6. OwnStep(c)
  BY <1>1, <1>4, NoCallees, OwnStepOf
<1> QED
  BY <1>5, <1>6, Pauses

-----------------------------------------------------------------------------
(* The prompt of an agent at work is extended by a result of its own, or   *)
(* by the reply of a call it has made, which is taken by it.               *)
LEMMA ResultStep ==
  ASSUME IInv, NEW c \in Calls, pc[c] = "asked", NEW result \in Items,
         prompt' = [prompt EXCEPT ![c] = Extended(c, result)],
         UNCHANGED <<orchestrator, caller, step, input, reply>>,
         \/ /\ UNCHANGED pc
            /\ result.by = c /\ result.step = step[c]
         \/ /\ result.by \in Callees(c) /\ pc[result.by] = "done"
            /\ pc' = [pc EXCEPT ![result.by] = "taken"]
  PROVE  IInv'
<1> DEFINE results == prompt[c].results
<1>1. /\ Typed /\ results \in Seq(Items) /\ result.by \in Calls
      /\ prompt[c].task \in Items \cup {None}
  BY DEF IInv, Typed, Items
<1>2. /\ prompt'[c].task = prompt[c].task
      /\ prompt'[c].results = Append(results, result)
      /\ \A e \in Calls : e # c => prompt'[e] = prompt[e]
      /\ prompt' \in [Calls -> [task : Items \cup {None}, results : Seq(Items)]]
  <2>1. prompt[c] \in [task : Items \cup {None}, results : Seq(Items)]
    BY <1>1 DEF Typed
  <2>2. Append(results, result) \in Seq(Items)
    BY <1>1
  <2>3. /\ Extended(c, result) \in [task : Items \cup {None}, results : Seq(Items)]
        /\ Extended(c, result).task = prompt[c].task
        /\ Extended(c, result).results = Append(results, result)
    BY <2>1, <2>2 DEF Extended
  <2> QED
    BY <1>1, <2>3 DEF Typed
<1>3. result.by # c => /\ pc[result.by] = "done" /\ pc'[result.by] = "taken"
                       /\ caller[result.by] # None
                       /\ caller[result.by].call = c /\ caller[result.by].step = step[c]
  BY <1>1 DEF Callees, IInv, CallersOK, Typed
<1>4. result.by = c => UNCHANGED pc /\ result.step = step[c]
  BY DEF Callees, IInv, OthersCall
<1>5. \A e \in Calls :
         \/ pc'[e] = pc[e]
         \/ /\ e = result.by /\ pc[e] = "done"
            /\ pc'[e] = "taken"
  <2>1. CASE UNCHANGED pc
    BY <2>1
  <2>2. CASE /\ pc[result.by] = "done"
             /\ pc' = [pc EXCEPT ![result.by] = "taken"]
    <3>1. pc \in [Calls -> {"idle", "selecting", "asked", "synthesis", "done", "taken"}]
      BY <1>1 DEF Typed
    <3> QED
      BY <2>2, <3>1
  <2> QED
    BY <2>1, <2>2
<1>6. Typed'
  BY <1>1, <1>2, <1>5 DEF Typed
<1>7. \A e \in Calls : pc'[e] = "asked" => pc[e] = "asked"
  BY <1>5
<1>8. InputOK' /\ RepliesOK' /\ OthersCall'
  BY <1>1, <1>2, <1>5 DEF IInv, InputOK, RepliesOK, OthersCall, IsChain
<1>9. CallersOK'
  BY <1>1, <1>5 DEF IInv, CallersOK, Typed
<1>10. WorksOnOwnTask'
  BY <1>2, <1>7 DEF IInv, WorksOnOwnTask, IsChain
<1>11. /\ \A i \in DOMAIN prompt'[c].results :
             \/ i \in DOMAIN results /\ prompt'[c].results[i] = results[i]
             \/ i = Len(results) + 1 /\ prompt'[c].results[i] = result
       /\ Len(results) \in Nat /\ DOMAIN results = 1..Len(results)
  BY <1>1, <1>2
<1>12. \A i \in DOMAIN results :
          LET d == results[i].by IN
          /\ d \in Calls
          /\ d # c => pc[d] = "taken" /\ caller[d] # None /\ d # result.by
  <2> TAKE i \in DOMAIN results
  <2>1. results[i] \in Items
    BY <1>1
  <2>2. results[i].by \in Calls
    BY <2>1 DEF Items
  <2> QED
    BY <1>3, <2>2 DEF IInv, ResultsTaken
<1>13. \A e \in Calls : \A i \in DOMAIN prompt[e].results : prompt[e].results[i].by \in Calls
  <2> TAKE e \in Calls
  <2>1. prompt[e].results \in Seq(Items)
    BY <1>1 DEF Typed
  <2>2. \A i \in DOMAIN prompt[e].results : prompt[e].results[i] \in Items
    BY <2>1
  <2> QED
    BY <2>2 DEF Items
<1>14. ResultsTaken'
  <2> SUFFICES ASSUME NEW e \in Calls, pc'[e] = "asked",
                      NEW i \in DOMAIN prompt'[e].results,
                      prompt'[e].results[i].by # e
               PROVE  /\ pc'[prompt'[e].results[i].by] = "taken"
                      /\ caller[prompt'[e].results[i].by] # None
    BY DEF ResultsTaken
  <2>1. CASE e = c
    BY <1>3, <1>5, <1>11, <1>12, <2>1
  <2>2. CASE e # c
    BY <1>2, <1>5, <1>7, <1>13, <2>2 DEF IInv, ResultsTaken
  <2> QED
    BY <2>1, <2>2
<1>15. ResultsAreOwn'
  <2> SUFFICES ASSUME NEW e \in Calls, pc'[e] = "asked",
                      NEW i \in DOMAIN prompt'[e].results
               PROVE  LET d == prompt'[e].results[i].by IN
                      IF d = e THEN prompt'[e].results[i].step = step[e]
                      ELSE /\ caller[d] = [call |-> e, step |-> step[e]]
                           /\ \A j \in DOMAIN prompt'[e].results :
                                 prompt'[e].results[j].by = d => j = i
    BY DEF ResultsAreOwn
  <2>1. CASE e # c
    BY <1>2, <1>7, <2>1 DEF IInv, ResultsAreOwn
  <2>2. ASSUME result.by # c
        PROVE  caller[result.by] = [call |-> c, step |-> step[c]]
    BY <1>1, <1>3, <2>2 DEF Typed
  <2>3. CASE e = c
    BY <1>4, <1>11, <1>12, <2>2, <2>3 DEF IInv, ResultsAreOwn
  <2> QED
    BY <2>1, <2>3
<1> QED
  BY <1>6, <1>8, <1>9, <1>10, <1>14, <1>15 DEF IInv

LEMMA FunctionFailsStep ==
  ASSUME IInv, NEW c \in Calls, FunctionFails(c)
  PROVE  IInv'
<1>1. step[c] \in Nat /\ pc[c] = "asked"
  BY DEF IInv, Typed, FunctionFails, Asked
<1>2. PICK result \in Items : /\ result = Error(c, step[c])
                              /\ result.by = c /\ result.step = step[c]
  BY <1>1, TextsAreItems
<1>3. /\ prompt' = [prompt EXCEPT ![c] = Extended(c, result)]
      /\ UNCHANGED <<orchestrator, caller, step, input, reply, pc>>
  BY <1>2 DEF FunctionFails
<1> QED
  BY <1>1, <1>2, <1>3, ResultStep

LEMMA ToolReturnsStep ==
  ASSUME IInv, NEW c \in Calls, NEW d \in Calls, ToolReturns(c, d)
  PROVE  IInv'
<1>1. /\ d \in Callees(c) /\ pc[d] = "done" /\ pc' = [pc EXCEPT ![d] = "taken"]
      /\ prompt' = [prompt EXCEPT ![c] = Extended(c, reply[d])]
      /\ UNCHANGED <<orchestrator, caller, step, input, reply>>
  BY DEF ToolReturns
<1>2. pc[c] = "asked"
  BY <1>1 DEF Callees, IInv, CallersOK
<1>3. PICK result \in Items : result = reply[d] /\ result.by = d
  BY <1>1 DEF IInv, RepliesOK
<1>4. prompt' = [prompt EXCEPT ![c] = Extended(c, result)]
  BY <1>1, <1>3
<1> QED
  BY <1>1, <1>2, <1>3, <1>4, ResultStep

-----------------------------------------------------------------------------
LEMMA NextIInv == IInv /\ [Next]_vars => IInv'
<1> SUFFICES ASSUME IInv, [Next]_vars
             PROVE  IInv'
  OBVIOUS
<1>1. CASE UNCHANGED vars
  BY <1>1 DEF vars, IInv, Typed, InputOK, RepliesOK, CallersOK, OthersCall,
              ResultsTaken, WorksOnOwnTask, ResultsAreOwn, IsChain
<1>2. ASSUME NEW d \in Calls, NEW o \in Orchestrators, Run(d, o)
      PROVE  IInv'
  BY <1>2, StartsStep DEF Run
<1>3. CASE Next
  BY <1>2, <1>3, CallStep, ToolReturnsStep, ReturnsStep, FunctionFailsStep,
     DetermineStep, FinalStep DEF Next
<1> QED
  BY <1>1, <1>3

(* The inductive invariant, for every number of calls and of agents.       *)
THEOREM Invariance == Spec => []IInv
  BY InitIInv, NextIInv, PTL DEF Spec

(* Each request an agent makes for a call has the task the call has given  *)
(* it, whatever calls overlap or nest and write to its field task          *)
(* (agent.js:51, 73, 101).                                                 *)
THEOREM TaskIsOwn == Spec => []WorksOnOwnTask
<1>1. IInv => WorksOnOwnTask
  BY DEF IInv
<1> QED
  BY Invariance, <1>1, PTL

(* The results in a prompt are of functions its agent has called for the   *)
(* task at hand, each orchestration once, for any number of calls and any  *)
(* depth of nesting (agent.js:88-101, orchestrator-tool-factory.js:52).    *)
THEOREM OwnResults == Spec => []ResultsAreOwn
<1>1. IInv => ResultsAreOwn
  BY DEF IInv
<1> QED
  BY Invariance, <1>1, PTL

-----------------------------------------------------------------------------
(* The answers of an orchestration that selects, which are kept by role:   *)
(* each role has the answer of the last agent of that role so far.         *)

(* The responses of c after its first n agents have returned. *)
Answered(c, kept, agents, n) ==
    \A r \in Roles :
        IF kept[r] = None THEN \A i \in 1..n : Role[agents[i]] # r
        ELSE /\ kept[r].by = c
             /\ kept[r].step \in 1..n
             /\ Role[agents[kept[r].step]] = r
             /\ \A i \in 1..n : Role[agents[i]] = r => i <= kept[r].step

Keeps(c) ==
    /\ pc[c] \in {"idle", "selecting"} => responses[c] = NoResponses
    /\ pc[c] # "idle" => orchestrator[c] \in Orchestrators
    /\ pc[c] = "asked" => step[c] \in DOMAIN engaged[c]
    /\ pc[c] = "asked" /\ ~IsChain(c) =>
            Answered(c, responses[c], engaged[c], step[c] - 1)
    /\ pc[c] = "synthesis" =>
            Answered(c, responses[c], engaged[c], Len(engaged[c]))

TeamTyped ==
    /\ task \in [Agents -> Items \cup {None}]
    /\ orchestrator \in [Calls -> Orchestrators \cup {None}]
    /\ engaged \in [Calls -> Seq(Agents)]
    /\ responses \in [Calls -> [Roles -> Items \cup {None}]]

TeamInv == TeamTyped /\ \A c \in Calls : Keeps(c)

LEMMA KeepsFrame ==
  ASSUME NEW c \in Calls, Keeps(c),
         pc'[c] = pc[c], orchestrator'[c] = orchestrator[c],
         engaged'[c] = engaged[c], step'[c] = step[c],
         responses'[c] = responses[c]
  PROVE  Keeps(c)'
  BY DEF Keeps, Answered, IsChain

(* The agents selected are a sequence of agents of the team. *)
LEMMA SelectedType ==
  ASSUME NEW team \in Seq(Agents), NEW S \in SUBSET DOMAIN team, S # {},
         NEW at \in Enumerations(S)
  PROVE  /\ [k \in DOMAIN at |-> team[at[k]]] \in Seq(Agents)
         /\ 1 \in DOMAIN [k \in DOMAIN at |-> team[at[k]]]
<1>1. DOMAIN team = 1..Len(team) /\ Len(team) \in Nat
  OBVIOUS
<1>2. IsFiniteSet(S)
  <2>1. IsFiniteSet(1..Len(team))
    BY <1>1, FS_Interval
  <2> QED
    BY <1>1, <2>1, FS_Subset
<1>3. Cardinality(S) \in Nat /\ Cardinality(S) # 0
  BY <1>2, FS_CardinalityType, FS_EmptySet
<1>4. at \in [1..Cardinality(S) -> S] /\ DOMAIN at = 1..Cardinality(S)
  BY DEF Enumerations
<1>5. \A k \in 1..Cardinality(S) : team[at[k]] \in Agents
  BY <1>1, <1>4
<1>6. [k \in DOMAIN at |-> team[at[k]]] \in [1..Cardinality(S) -> Agents]
  BY <1>4, <1>5
<1> QED
  BY <1>3, <1>4, <1>6

(* What an agent that begins leaves of the types, and of the other calls. *)
LEMMA BeginTeam ==
  ASSUME TeamTyped, Typed, NEW c \in Calls, NEW agents \in Seq(Agents),
         NEW n \in DOMAIN agents, NEW in \in Items, Begin(c, agents, n, in)
  PROVE  /\ task' \in [Agents -> Items \cup {None}]
         /\ engaged' \in [Calls -> Seq(Agents)]
         /\ engaged'[c] = agents /\ step'[c] = n /\ pc'[c] \in {"asked", "done"}
         /\ \A e \in Calls : e # c => /\ pc'[e] = pc[e] /\ step'[e] = step[e]
                                      /\ engaged'[e] = engaged[e]
<1>1. /\ engaged' = [engaged EXCEPT ![c] = agents]
      /\ step' = [step EXCEPT ![c] = n]
      /\ pc' = [pc EXCEPT ![c] = "asked"] \/ pc' = [pc EXCEPT ![c] = "done"]
      /\ task' = [task EXCEPT ![agents[n]] = in] \/ task' = task
  BY DEF Begin
<1>2. task' \in [Agents -> Items \cup {None}]
  BY <1>1 DEF TeamTyped
<1>3. engaged' \in [Calls -> Seq(Agents)] /\ engaged'[c] = agents
      /\ \A e \in Calls : e # c => engaged'[e] = engaged[e]
  <2> DEFINE Teams == Seq(Agents)
  <2> HIDE DEF Teams
  <2>1. engaged \in [Calls -> Teams] /\ agents \in Teams
    BY DEF TeamTyped, Teams
  <2>2. engaged' \in [Calls -> Teams] /\ engaged'[c] = agents
        /\ \A e \in Calls : e # c => engaged'[e] = engaged[e]
    BY <1>1, <2>1
  <2> QED
    BY <2>2 DEF Teams
<1>4. step'[c] = n /\ \A e \in Calls : e # c => step'[e] = step[e]
  BY <1>1 DEF Typed
<1>5. pc'[c] \in {"asked", "done"} /\ \A e \in Calls : e # c => pc'[e] = pc[e]
  BY <1>1 DEF Typed
<1> QED
  BY <1>2, <1>3, <1>4, <1>5

(* An answer kept is that of the last agent of its role. *)
LEMMA KeptAnswers ==
  ASSUME TeamTyped, NEW c \in Calls, step[c] \in Nat,
         step[c] \in DOMAIN engaged[c],
         Answered(c, responses[c], engaged[c], step[c] - 1),
         NEW output \in Items, output.by = c, output.step = step[c]
  PROVE  /\ Kept(c, output) \in [Roles -> Items \cup {None}]
         /\ Answered(c, Kept(c, output), engaged[c], step[c])
<1> DEFINE n == step[c]
           kept == Kept(c, output)
<1>1. /\ responses[c] \in [Roles -> Items \cup {None}]
      /\ engaged[c] \in Seq(Agents) /\ n \in 1..Len(engaged[c])
      /\ n \in Nat \ {0}
  BY DEF TeamTyped
<1>2. kept = [responses[c] EXCEPT ![Role[engaged[c][n]]] = output]
  BY DEF Kept, Agent
<1>3. kept \in [Roles -> Items \cup {None}] /\ output # None
  BY <1>1, <1>2, TeamAssumption
<1> HIDE DEF kept
<1>4. ASSUME NEW r \in Roles
      PROVE  IF kept[r] = None THEN \A i \in 1..n : Role[engaged[c][i]] # r
             ELSE /\ kept[r].by = c
                  /\ kept[r].step \in 1..n
                  /\ Role[engaged[c][kept[r].step]] = r
                  /\ \A i \in 1..n : Role[engaged[c][i]] = r => i <= kept[r].step
  <2>1. CASE Role[engaged[c][n]] = r
    <3>1. kept[r] = output
      BY <1>1, <1>2, <2>1
    <3> QED
      BY <1>1, <1>3, <2>1, <3>1
  <2>2. CASE Role[engaged[c][n]] # r
    <3>1. kept[r] = responses[c][r]
      BY <1>1, <1>2, <2>2
    <3>2. \A i \in 1..n : Role[engaged[c][i]] = r => i \in 1..(n - 1)
      BY <1>1, <2>2
    <3>3. 1..(n - 1) \subseteq 1..n
      BY <1>1
    <3> QED
      BY <3>1, <3>2, <3>3 DEF Answered
  <2> QED
    BY <2>1, <2>2
<1> QED
  BY <1>3, <1>4 DEF Answered, kept

(* The agents of a call that starts, alone or for an agent, have answered  *)
(* nothing yet.                                                            *)
LEMMA StartsTeam ==
  ASSUME TeamInv, Typed, NEW d \in Calls, NEW o \in Orchestrators, NEW by,
         Orchestrate(d, o, by), Starts(d, o)
  PROVE  TeamInv'
<1> USE DEF TeamInv
<1>1. /\ orchestrator' \in [Calls -> Orchestrators \cup {None}]
      /\ orchestrator'[d] = o
      /\ \A e \in Calls : e # d => orchestrator'[e] = orchestrator[e]
      /\ UNCHANGED responses
      /\ responses[d] = NoResponses
  BY DEF Orchestrate, TeamTyped, Keeps
<1>2. CASE Type[o] = "chain" /\ Begin(d, Team[o], 1, Text(d, 0))
  <2>1. Text(d, 0) \in Items
    BY TextsAreItems
  <2>2. Team[o] \in Seq(Agents) /\ 1 \in DOMAIN Team[o]
    BY TeamAssumption
  <2>3. /\ task' \in [Agents -> Items \cup {None}]
        /\ engaged' \in [Calls -> Seq(Agents)]
        /\ engaged'[d] = Team[o] /\ step'[d] = 1 /\ pc'[d] \in {"asked", "done"}
        /\ \A e \in Calls : e # d => /\ pc'[e] = pc[e] /\ step'[e] = step[e]
                                     /\ engaged'[e] = engaged[e]
    BY <1>2, <2>1, <2>2, BeginTeam
  <2>4. Keeps(d)'
    BY <1>1, <1>2, <2>2, <2>3 DEF Keeps, IsChain
  <2>5. \A e \in Calls : e # d => Keeps(e)'
    BY <1>1, <2>3, KeepsFrame
  <2> QED
    BY <1>1, <2>3, <2>4, <2>5 DEF TeamTyped
<1>3. CASE /\ Type[o] # "chain" /\ pc' = [pc EXCEPT ![d] = "selecting"]
           /\ UNCHANGED <<task, engaged, step, input, prompt, reply>>
  <2>1. pc'[d] = "selecting" /\ \A e \in Calls : e # d => pc'[e] = pc[e]
    BY <1>3 DEF Typed
  <2>2. Keeps(d)'
    BY <1>1, <2>1 DEF Keeps
  <2>3. \A e \in Calls : e # d => Keeps(e)'
    BY <1>1, <1>3, <2>1, KeepsFrame
  <2> QED
    BY <1>1, <1>3, <2>2, <2>3 DEF TeamTyped
<1> QED
  BY <1>2, <1>3 DEF Starts

LEMMA CallTeam ==
  ASSUME TeamInv, Typed, NEW c \in Calls, NEW d \in Calls, CallOrchestrator(c, d)
  PROVE  TeamInv'
<1>1. /\ Orchestrate(d, Tool[Agent(c)], [call |-> c, step |-> step[c]])
      /\ Starts(d, Tool[Agent(c)]) /\ Tool[Agent(c)] # None /\ pc[c] = "asked"
  BY DEF CallOrchestrator, Asked
<1>2. Agent(c) \in Agents
  BY <1>1 DEF TeamInv, TeamTyped, Keeps, Agent
<1>3. Tool[Agent(c)] \in Orchestrators
  BY <1>1, <1>2, TeamAssumption
<1> QED
  BY <1>1, <1>3, StartsTeam

(* An answer is kept before the next agent begins, or the synthesis. *)
LEMMA OutcomeTeam ==
  ASSUME TeamInv, IInv, NEW c \in Calls, pc[c] = "asked", NEW output \in Items,
         output.by = c, output.step = step[c], Outcome(c, output)
  PROVE  TeamInv'
<1> USE DEF TeamInv
<1>1. /\ Typed /\ input[c] \in Items /\ step[c] \in Nat
      /\ UNCHANGED <<orchestrator, caller>>
      /\ engaged[c] \in Seq(Agents) /\ step[c] \in DOMAIN engaged[c]
      /\ orchestrator[c] \in Orchestrators
  BY DEF IInv, Typed, InputOK, Outcome, TeamTyped, Keeps
<1>2. IsChain(c)' <=> IsChain(c)
  BY <1>1 DEF IsChain
<1>3. /\ responses' \in [Calls -> [Roles -> Items \cup {None}]]
      /\ \A e \in Calls : e # c => responses'[e] = responses[e]
      /\ ~IsChain(c) => Answered(c, responses'[c], engaged[c], step[c])
  <2>1. CASE IsChain(c)
    BY <2>1 DEF Outcome, TeamTyped
  <2>2. CASE ~IsChain(c)
    <3>1. /\ Kept(c, output) \in [Roles -> Items \cup {None}]
          /\ Answered(c, Kept(c, output), engaged[c], step[c])
      BY <1>1, <2>2, KeptAnswers DEF Keeps
    <3>2. responses' = [responses EXCEPT ![c] = Kept(c, output)]
      BY <2>2 DEF Outcome
    <3>3. responses \in [Calls -> [Roles -> Items \cup {None}]]
      BY DEF TeamTyped
    <3>4. responses'[c] = Kept(c, output)
      BY <3>2, <3>3
    <3> QED
      BY <3>1, <3>2, <3>3, <3>4
  <2> QED
    BY <2>1, <2>2
<1>4. PICK in \in Items : in = IF IsChain(c) THEN output ELSE input[c]
  BY <1>1
<1>5. CASE /\ step[c] < Len(engaged[c])
           /\ Begin(c, engaged[c], step[c] + 1, IF IsChain(c) THEN output ELSE input[c])
  <2>1. Begin(c, engaged[c], step[c] + 1, in)
    BY <1>4, <1>5
  <2>2. step[c] + 1 \in DOMAIN engaged[c]
    BY <1>1, <1>5
  <2>3. /\ task' \in [Agents -> Items \cup {None}]
        /\ engaged' \in [Calls -> Seq(Agents)]
        /\ engaged'[c] = engaged[c] /\ step'[c] = step[c] + 1
        /\ pc'[c] \in {"asked", "done"}
        /\ \A e \in Calls : e # c => /\ pc'[e] = pc[e] /\ step'[e] = step[e]
                                     /\ engaged'[e] = engaged[e]
    BY <1>1, <2>1, <2>2, BeginTeam
  <2>4. step'[c] - 1 = step[c]
    BY <1>1, <2>3
  <2>5. Keeps(c)'
    BY <1>1, <1>2, <1>3, <2>2, <2>3, <2>4 DEF Keeps
  <2>6. \A e \in Calls : e # c => Keeps(e)'
    BY <1>1, <1>3, <2>3, KeepsFrame
  <2> QED
    BY <1>1, <1>3, <2>3, <2>5, <2>6 DEF TeamTyped
<1>6. CASE /\ step[c] = Len(engaged[c])
           /\ pc' = [pc EXCEPT ![c] = IF IsChain(c) THEN "done" ELSE "synthesis"]
           /\ reply' = IF IsChain(c) THEN [reply EXCEPT ![c] = output] ELSE reply
           /\ UNCHANGED <<task, engaged, step, input, prompt>>
  <2>1. /\ pc'[c] = IF IsChain(c) THEN "done" ELSE "synthesis"
        /\ \A e \in Calls : e # c => pc'[e] = pc[e]
    BY <1>1, <1>6 DEF Typed
  <2>2. Keeps(c)'
    BY <1>1, <1>2, <1>3, <1>6, <2>1 DEF Keeps
  <2>3. \A e \in Calls : e # c => Keeps(e)'
    BY <1>1, <1>3, <1>6, <2>1, KeepsFrame
  <2> QED
    BY <1>1, <1>3, <1>6, <2>2, <2>3 DEF TeamTyped
<1> QED
  BY <1>5, <1>6 DEF Outcome

LEMMA ReturnsTeam ==
  ASSUME TeamInv, IInv, NEW c \in Calls, AgentReturns(c)
  PROVE  TeamInv'
<1>1. step[c] \in Nat /\ pc[c] = "asked"
  BY DEF IInv, Typed, AgentReturns, Asked
<1>2. PICK output \in Items : /\ output.by = c /\ output.step = step[c]
                              /\ Outcome(c, output)
  BY <1>1, TextsAreItems DEF AgentReturns
<1> QED
  BY <1>1, <1>2, OutcomeTeam

(* The agents selected have not answered, and a call without any is over. *)
LEMMA DetermineTeam ==
  ASSUME TeamInv, Typed, NEW c \in Calls, DetermineAgents(c)
  PROVE  TeamInv'
<1> USE DEF TeamInv
<1>1. /\ pc[c] = "selecting" /\ UNCHANGED <<orchestrator, responses>>
      /\ responses[c] = NoResponses /\ orchestrator[c] \in Orchestrators
  BY DEF DetermineAgents, Keeps
<1>2. Team[orchestrator[c]] \in Seq(Agents)
  BY <1>1, TeamAssumption
<1>3. CASE \E agents \in Seq(Agents) :
              1 \in DOMAIN agents /\ Begin(c, agents, 1, Text(c, 0))
  <2>1. PICK agents \in Seq(Agents) :
            1 \in DOMAIN agents /\ Begin(c, agents, 1, Text(c, 0))
    BY <1>3
  <2>2. Text(c, 0) \in Items
    BY TextsAreItems
  <2>3. /\ task' \in [Agents -> Items \cup {None}]
        /\ engaged' \in [Calls -> Seq(Agents)]
        /\ engaged'[c] = agents /\ step'[c] = 1 /\ pc'[c] \in {"asked", "done"}
        /\ \A e \in Calls : e # c => /\ pc'[e] = pc[e] /\ step'[e] = step[e]
                                     /\ engaged'[e] = engaged[e]
    BY <2>1, <2>2, BeginTeam
  <2>4. \A kept : kept = NoResponses => Answered(c, kept, agents, 0)
    BY DEF Answered, NoResponses
  <2>5. Keeps(c)'
    BY <1>1, <2>1, <2>3, <2>4 DEF Keeps
  <2>6. \A e \in Calls : e # c => Keeps(e)'
    BY <1>1, <2>3, KeepsFrame
  <2> QED
    BY <1>1, <2>3, <2>5, <2>6 DEF TeamTyped
<1>4. CASE /\ pc' = [pc EXCEPT ![c] = "done"]
           /\ UNCHANGED <<task, engaged, step>>
  <2>1. pc'[c] = "done" /\ \A e \in Calls : e # c => pc'[e] = pc[e]
    BY <1>4 DEF Typed
  <2>2. Keeps(c)'
    BY <1>1, <2>1 DEF Keeps
  <2>3. \A e \in Calls : e # c => Keeps(e)'
    BY <1>1, <1>4, <2>1, KeepsFrame
  <2> QED
    BY <1>1, <1>4, <2>2, <2>3 DEF TeamTyped
<1>5. ASSUME NEW S \in SUBSET DOMAIN Team[orchestrator[c]], S # {},
             NEW at \in Enumerations(S),
             Begin(c, [k \in DOMAIN at |-> Team[orchestrator[c]][at[k]]], 1, Text(c, 0))
      PROVE  \E agents \in Seq(Agents) :
                1 \in DOMAIN agents /\ Begin(c, agents, 1, Text(c, 0))
  BY <1>2, <1>5, SelectedType
<1> QED
  BY <1>3, <1>4, <1>5 DEF DetermineAgents

(* A step that changes neither the agents of a call nor their responses. *)
LEMMA OthersTeam ==
  ASSUME TeamInv, UNCHANGED <<task, orchestrator, engaged, step, responses>>,
         \A e \in Calls : \/ pc'[e] = pc[e]
                          \/ pc[e] # "idle" /\ pc'[e] \in {"done", "taken"}
  PROVE  TeamInv'
<1>1. \A e \in Calls : Keeps(e)'
  <2> TAKE e \in Calls
  <2>1. Keeps(e)
    BY DEF TeamInv
  <2>2. CASE pc'[e] = pc[e]
    BY <2>1, <2>2, KeepsFrame
  <2>3. CASE pc[e] # "idle" /\ pc'[e] \in {"done", "taken"}
    BY <2>1, <2>3 DEF Keeps
  <2> QED
    BY <2>2, <2>3
<1> QED
  BY <1>1 DEF TeamInv, TeamTyped

LEMMA NextTeam == IInv /\ TeamInv /\ [Next]_vars => TeamInv'
<1> SUFFICES ASSUME IInv, TeamInv, [Next]_vars
             PROVE  TeamInv'
  OBVIOUS
<1>0. Typed
  BY DEF IInv
<1>1. CASE UNCHANGED vars
  BY <1>1, OthersTeam DEF vars
<1>2. ASSUME NEW d \in Calls, NEW o \in Orchestrators, Run(d, o)
      PROVE  TeamInv'
  BY <1>0, <1>2, StartsTeam DEF Run
<1>3. ASSUME NEW c \in Calls, FunctionFails(c)
      PROVE  TeamInv'
  BY <1>3, OthersTeam DEF FunctionFails
<1>4. ASSUME NEW c \in Calls, NEW d \in Calls, ToolReturns(c, d)
      PROVE  TeamInv'
  BY <1>0, <1>4, OthersTeam DEF ToolReturns, Typed
<1>5. ASSUME NEW c \in Calls, GenerateFinalResponse(c)
      PROVE  TeamInv'
  BY <1>0, <1>5, OthersTeam DEF GenerateFinalResponse, Typed
<1>6. CASE Next
  BY <1>0, <1>2, <1>3, <1>4, <1>5, <1>6, CallTeam, ReturnsTeam, DetermineTeam
  DEF Next
<1> QED
  BY <1>1, <1>6

LEMMA InitTeam == Init => TeamInv
  BY DEF Init, TeamInv, TeamTyped, Keeps, NoResponses

(* Every variable has its type, for any team. *)
THEOREM TypeCorrect == Spec => []TypeOK
<1>1. IInv /\ TeamInv => TypeOK
  BY DEF IInv, TeamInv, Typed, TeamTyped, TypeOK
<1> QED
  BY InitTeam, NextTeam, Invariance, <1>1, PTL DEF Spec

(* The final answer is made from an answer of every agent engaged, or of   *)
(* the last of those with one role, for any team and whatever the calls    *)
(* that overlap or nest (hierarchical-agent-orchestrator.js:92).           *)
THEOREM EveryAnswerIsKept == Spec => []SynthesisHasEveryAnswer
<1>1. IInv /\ TeamInv => SynthesisHasEveryAnswer
  <2> SUFFICES ASSUME IInv, TeamInv, NEW c \in Calls, pc[c] = "synthesis",
                      NEW r \in Roles
               PROVE  LET at == {i \in DOMAIN engaged[c] : Role[engaged[c][i]] = r}
                      IN  IF at = {} THEN responses[c][r] = None
                          ELSE /\ responses[c][r] # None
                               /\ responses[c][r].by = c
                               /\ responses[c][r].step = Max(at)
    BY DEF SynthesisHasEveryAnswer
  <2> DEFINE at == {i \in DOMAIN engaged[c] : Role[engaged[c][i]] = r}
             kept == responses[c][r]
  <2>1. /\ engaged[c] \in Seq(Agents)
        /\ Answered(c, responses[c], engaged[c], Len(engaged[c]))
    BY DEF TeamInv, TeamTyped, Keeps
  <2>2. DOMAIN engaged[c] = 1..Len(engaged[c]) /\ at \subseteq Nat
    BY <2>1
  <2>3. CASE kept = None
    BY <2>1, <2>2, <2>3 DEF Answered
  <2>4. CASE kept # None
    <3>1. kept.by = c /\ kept.step \in at /\ \A i \in at : i <= kept.step
      BY <2>1, <2>2, <2>4 DEF Answered
    <3>2. \A m \in at : (\A i \in at : m >= i) => m = kept.step
      BY <2>2, <3>1
    <3> HIDE DEF at
    <3>3. Max(at) = kept.step
      BY <2>2, <3>1, <3>2 DEF Max
    <3> QED
      BY <2>4, <3>1, <3>3 DEF at
  <2> QED
    BY <2>3, <2>4
<1> QED
  BY InitTeam, NextTeam, Invariance, <1>1, PTL DEF Spec
=============================================================================
