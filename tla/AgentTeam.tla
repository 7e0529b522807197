------------------------------ MODULE AgentTeam ------------------------------
(***************************************************************************)
(* Orchestrations over shared agents: SequentialAgentChain.run, orchestrate*)
(* of the two hierarchical orchestrators, Agent.executeTask with its       *)
(* function calls, and the tool that has an agent call an orchestrator of  *)
(* an OrchestratorRegistry (createOrchestratorTool), perhaps with the very *)
(* agents that are at work.                                                *)
(*                                                                         *)
(* An agent is one object with one field task, whoever calls it.  What an  *)
(* agent or an orchestration returns is told by the call and the step that *)
(* made it; step 0 of a call is what it was called with or returned.       *)
(***************************************************************************)
EXTENDS Naturals, Sequences, SequencesExt, FiniteSetsExt

CONSTANTS
    Agents,
    Roles,
    Role,           \* of each agent
    Orchestrators,  \* the names in the registry
    Type,           \* "chain", "hierarchical" or "thinking", of each
    Team,           \* its agents, a sequence
    Tool,           \* the orchestrator an agent has as a tool, or None
    Includes,       \* the roles that are part of the name of each role
    Formatters,     \* agents whose taskFormatter may throw
    Selections,     \* the answers of an LLM that selects: sets of lines
    Calls,
    None,
    MaxFunctionCalls \* bound: of an agent at one task

(* What an agent or an orchestration returns, or is called with. *)
Items == [by : Calls, step : Nat, is : {"text", "error"}]

ASSUME TeamAssumption ==
    /\ Role \in [Agents -> Roles]
    /\ Type \in [Orchestrators -> {"chain", "hierarchical", "thinking"}]
    /\ Team \in [Orchestrators -> Seq(Agents) \ {<< >>}]
    /\ Tool \in [Agents -> Orchestrators \cup {None}]
    /\ Includes \in [Roles -> SUBSET Roles]
    /\ \A r \in Roles : r \in Includes[r]
    /\ Formatters \subseteq Agents
    /\ MaxFunctionCalls \in Nat
    /\ None \notin Orchestrators \cup Calls \cup Items

VARIABLES
    task,           \* the field of each agent
    orchestrator,   \* the orchestrator a call is of
    caller,         \* the call and the step whose agent called it, or None
    pc,
    engaged,        \* the agents it has work, in their order
    step,           \* the position it has reached
    input,          \* what the agent at that position is given
    prompt,         \* its prompt: the task and the results of its functions
    responses,      \* expertResponses, by role
    reply           \* what the call returned

vars == <<task, orchestrator, caller, pc, engaged, step, input, prompt,
          responses, reply>>

Text(c, n) == [by |-> c, step |-> n, is |-> "text"]
Error(c, n) == [by |-> c, step |-> n, is |-> "error"]

NoPrompt == [task |-> None, results |-> << >>]
NoResponses == [r \in Roles |-> None]

Init ==
    /\ task = [a \in Agents |-> None]
    /\ orchestrator = [c \in Calls |-> None]
    /\ caller = [c \in Calls |-> None]
    /\ pc = [c \in Calls |-> "idle"]
    /\ engaged = [c \in Calls |-> << >>]
    /\ step = [c \in Calls |-> 0]
    /\ input = [c \in Calls |-> None]
    /\ prompt = [c \in Calls |-> NoPrompt]
    /\ responses = [c \in Calls |-> NoResponses]
    /\ reply = [c \in Calls |-> None]

Agent(c) == engaged[c][step[c]]

IsChain(c) == Type[orchestrator[c]] = "chain"

Callees(c) == {d \in Calls : caller[d] # None /\ caller[d].call = c}

(* Mutant: the tool does not await the orchestrator. *)
NotAwaiting(c) == pc[c] = "asked"

(* The agent of c waits for the LLM, not for an orchestrator it has called. *)
Asked(c) == pc[c] = "asked" /\ \A d \in Callees(c) : pc[d] = "taken"

-----------------------------------------------------------------------------
(* Agents at work, one after the other.                                    *)

(* The agent at position n is given what comes in: its task is set, and    *)
(* executeTask makes the prompt of it before anything is awaited.  Its     *)
(* taskFormatter may throw, outside of the try, and rejects the call.      *)
Begin(c, agents, n, in) ==
    /\ engaged' = [engaged EXCEPT ![c] = agents]
    /\ step' = [step EXCEPT ![c] = n]
    /\ input' = [input EXCEPT ![c] = in]
    /\ \/ /\ task' = [task EXCEPT ![agents[n]] = in]
          /\ prompt' = [prompt EXCEPT ![c] = [task |-> in, results |-> << >>]]
          /\ pc' = [pc EXCEPT ![c] = "asked"]
          /\ UNCHANGED reply
       \/ /\ agents[n] \in Formatters
          /\ pc' = [pc EXCEPT ![c] = "done"]
          /\ reply' = [reply EXCEPT ![c] = Error(c, 0)]
          /\ UNCHANGED <<task, prompt>>

(* Mutant: an error of an agent is not kept. *)
KeptUnlessError(c, output) ==
    IF output.is = "error" THEN responses[c]
    ELSE [responses[c] EXCEPT ![Role[Agent(c)]] = output]

(* expertResponses[agent.role] = response *)
Kept(c, output) == [responses[c] EXCEPT ![Role[Agent(c)]] = output]

(* The agent has returned, an error too as a text: the next one is given   *)
(* the output (chain) or the task, and after the last the output is the    *)
(* reply (chain) or the LLM is asked for one.                              *)
Outcome(c, output) ==
    /\ responses' = IF IsChain(c) THEN responses
                    ELSE [responses EXCEPT ![c] = Kept(c, output)]
    /\ \/ /\ step[c] < Len(engaged[c])
          /\ Begin(c, engaged[c], step[c] + 1, IF IsChain(c) THEN output ELSE input[c])
       \/ /\ step[c] = Len(engaged[c])
          /\ pc' = [pc EXCEPT ![c] = IF IsChain(c) THEN "done" ELSE "synthesis"]
          /\ reply' = IF IsChain(c) THEN [reply EXCEPT ![c] = output] ELSE reply
          /\ UNCHANGED <<task, engaged, step, input, prompt>>
    /\ UNCHANGED <<orchestrator, caller>>

(* The LLM answers with a text, or it throws and an error is returned. *)
AgentReturns(c) ==
    /\ Asked(c)
    /\ Outcome(c, Text(c, step[c])) \/ Outcome(c, Error(c, step[c]))

(* Mutant: the prompt is made anew from the field. *)
FromField(c, result) ==
    [task |-> task[Agent(c)], results |-> Append(prompt[c].results, result)]

(* prompt += ... *)
Extended(c, result) == [prompt[c] EXCEPT !.results = Append(@, result)]

(* A function call that fails: a name that is not one of the tools, an     *)
(* argument that is missing, an orchestrator that is not registered.       *)
FunctionFails(c) ==
    /\ Asked(c) /\ Len(prompt[c].results) < MaxFunctionCalls
    /\ prompt' = [prompt EXCEPT ![c] = Extended(c, Error(c, step[c]))]
    /\ UNCHANGED <<task, orchestrator, caller, pc, engaged, step, input,
                   responses, reply>>

-----------------------------------------------------------------------------
(* Orchestrations.                                                         *)

(* A new instance of the orchestrator is called: a chain sets its first    *)
(* agent to work, the others ask the LLM which agents to engage.           *)
Orchestrate(d, o, by) ==
    /\ pc[d] = "idle"
    /\ orchestrator' = [orchestrator EXCEPT ![d] = o]
    /\ caller' = [caller EXCEPT ![d] = by]
    /\ UNCHANGED responses

Starts(d, o) ==
    \/ Type[o] = "chain" /\ Begin(d, Team[o], 1, Text(d, 0))
    \/ /\ Type[o] # "chain"
       /\ pc' = [pc EXCEPT ![d] = "selecting"]
       /\ UNCHANGED <<task, engaged, step, input, prompt, reply>>

Run(d, o) == Orchestrate(d, o, None) /\ Starts(d, o)

(* An agent calls the orchestrator it has as a tool, and waits for it. *)
CallOrchestrator(c, d) ==
    /\ Asked(c) /\ Len(prompt[c].results) < MaxFunctionCalls
    /\ Tool[Agent(c)] # None
    /\ Orchestrate(d, Tool[Agent(c)], [call |-> c, step |-> step[c]])
    /\ Starts(d, Tool[Agent(c)])

(* The tool has the reply, of a rejected call an error. *)
ToolReturns(c, d) ==
    /\ d \in Callees(c) /\ pc[d] = "done"
    /\ pc' = [pc EXCEPT ![d] = "taken"]
    /\ prompt' = [prompt EXCEPT ![c] = Extended(c, reply[d])]
    /\ UNCHANGED <<task, orchestrator, caller, engaged, step, input, responses,
                   reply>>

(* The roles of a line: in a base orchestrator the line is the role, a     *)
(* thinking one takes the first agent whose role is in a line that has no  *)
(* marker, and if there is none, every role that is somewhere.             *)
Mentions(line) == UNION {Includes[r] : r \in line.roles}

FirstMentioned(team, line) ==
    LET at == {i \in DOMAIN team : Role[team[i]] \in Mentions(line)} IN
    IF at = {} \/ line.marked THEN {} ELSE {Role[team[Min(at)]]}

SelectedRoles(o, lines) ==
    IF Type[o] = "hierarchical"
    THEN UNION {line.roles : line \in {l \in lines : l.alone /\ ~l.marked}}
    ELSE LET first == UNION {FirstMentioned(Team[o], line) : line \in lines} IN
         IF first # {} THEN first ELSE UNION {Mentions(line) : line \in lines}

(* Positions of a team in their order: the one increasing enumeration. *)
Enumerations(S) ==
    {at \in [1..Cardinality(S) -> S] :
        \A i, j \in 1..Cardinality(S) : i < j => at[i] < at[j]}

(* determineAgentsForTask, whose failure selects nobody. *)
DetermineAgents(c) ==
    /\ pc[c] = "selecting"
    /\ \E lines \in Selections :
          LET team == Team[orchestrator[c]]
              selected == {i \in DOMAIN team :
                              Role[team[i]] \in SelectedRoles(orchestrator[c], lines)}
          IN  IF selected # {}
              THEN \E at \in Enumerations(selected) :
                      Begin(c, [k \in DOMAIN at |-> team[at[k]]], 1, Text(c, 0))
              ELSE /\ pc' = [pc EXCEPT ![c] = "done"]
                   /\ reply' = [reply EXCEPT ![c] = Text(c, 0)]
                   /\ UNCHANGED <<task, engaged, step, input, prompt>>
    /\ UNCHANGED <<orchestrator, caller, responses>>

(* generateFinalResponse, an error of which is a text too. *)
GenerateFinalResponse(c) ==
    /\ pc[c] = "synthesis"
    /\ pc' = [pc EXCEPT ![c] = "done"]
    /\ \E answer \in {Text(c, 0), Error(c, 0)} : reply' = [reply EXCEPT ![c] = answer]
    /\ UNCHANGED <<task, orchestrator, caller, engaged, step, input, prompt,
                   responses>>

Next ==
    \/ \E d \in Calls, o \in Orchestrators : Run(d, o)
    \/ \E c, d \in Calls : CallOrchestrator(c, d) \/ ToolReturns(c, d)
    \/ \E c \in Calls : \/ AgentReturns(c) \/ FunctionFails(c)
                       \/ DetermineAgents(c) \/ GenerateFinalResponse(c)

Spec == Init /\ [][Next]_vars

-----------------------------------------------------------------------------
(* Properties.                                                             *)

TypeOK ==
    /\ task \in [Agents -> Items \cup {None}]
    /\ orchestrator \in [Calls -> Orchestrators \cup {None}]
    /\ caller \in [Calls -> [call : Calls, step : Nat] \cup {None}]
    /\ pc \in [Calls -> {"idle", "selecting", "asked", "synthesis", "done", "taken"}]
    /\ engaged \in [Calls -> Seq(Agents)]
    /\ step \in [Calls -> Nat]
    /\ input \in [Calls -> Items \cup {None}]
    /\ prompt \in [Calls -> [task : Items \cup {None}, results : Seq(Items)]]
    /\ responses \in [Calls -> [Roles -> Items \cup {None}]]
    /\ reply \in [Calls -> Items \cup {None}]

(* Whatever other calls, nested ones too, have written to the field task   *)
(* of an agent meanwhile, each request it makes for a call has the task    *)
(* the call has given it: in a chain the output of the agent before, in a  *)
(* hierarchy the task of the call (agent.js:51, 73, 101).                  *)
WorksOnOwnTask ==
    \A c \in Calls : pc[c] = "asked" =>
        LET given == prompt[c].task IN
        given.by = c /\ given.step = IF IsChain(c) THEN step[c] - 1 ELSE 0

(* The results in a prompt are of functions its agent has called for the   *)
(* task at hand, each orchestration once and after its end.                *)
ResultsAreOwn ==
    \A c \in Calls : pc[c] = "asked" =>
        LET results == prompt[c].results IN
        \A i \in DOMAIN results :
            IF results[i].by = c THEN results[i].step = step[c]
            ELSE /\ caller[results[i].by] = [call |-> c, step |-> step[c]]
                 /\ \A j \in DOMAIN results : results[j].by = results[i].by => j = i

(* The final answer is made from an answer of every agent engaged, errors  *)
(* included, or of the last of those with one role (the results are kept   *)
(* by role, hierarchical-agent-orchestrator.js:92).                        *)
SynthesisHasEveryAnswer ==
    \A c \in Calls : pc[c] = "synthesis" =>
        \A r \in Roles :
            LET at == {i \in DOMAIN engaged[c] : Role[engaged[c][i]] = r} IN
            IF at = {} THEN responses[c][r] = None
            ELSE /\ responses[c][r] # None
                 /\ responses[c][r].by = c /\ responses[c][r].step = Max(at)
=============================================================================
