----------------------------- MODULE ChatAgent -----------------------------
(***************************************************************************)
(* The ChatAgents of one chat (lib/chat-agent.js) and the conversation     *)
(* memory they share.                                                      *)
(*                                                                         *)
(* Each agent keeps the conversation in an array, conversationHistory,     *)
(* which its constructor starts to load from the memory without waiting    *)
(* for the answer.  A turn (processUserMessage) pushes messages on the     *)
(* array at once and appends each of them to the memory, which it awaits;  *)
(* it asks the LLM, executes the function calls the LLM answers with, and  *)
(* returns the LLM's final text.  processFunctionResult begins a turn with *)
(* the result of a function the application has executed.  Every action is *)
(* the code between two awaits; the memory is the log that module          *)
(* ConversationMemory promises, the LLM, the tools and the specialists     *)
(* answer as they please.                                                  *)
(***************************************************************************)
EXTENDS Naturals, FiniteSets, Sequences, SequencesExt

CONSTANTS
    Agents,         \* ChatAgent objects with the chat's id and memory
    Turns,          \* calls of these
    Methods,        \* "processUserMessage", "processFunctionResult"
    None,
    MaxCalls,       \* bound: function calls the LLM makes in a turn
    MaxInFlight,    \* bound: turns in flight
    MaxRefusals,    \* bound: appends the memory refuses
    EarlyMessages,  \* may a message be sent before the load is done
    AgentsAlive,    \* "one": a new agent replaces the last; "many"
    Faults,         \* methods of the memory that may reject
    Clears,         \* agents whose clearHistory is called
    Delegation,     \* specialistDelegationEnabled
    AutoManage      \* autoManageFactMemory or autoManageSummaryMemory

ASSUME ConstantsAssumption ==
    /\ {MaxCalls, MaxInFlight, MaxRefusals} \subseteq Nat
    /\ {EarlyMessages, Delegation, AutoManage} \subseteq BOOLEAN
    /\ AgentsAlive \in {"one", "many"}
    /\ Methods \subseteq {"processUserMessage", "processFunctionResult"}
    /\ Clears \subseteq Agents
    /\ Faults \subseteq {"loadHistory", "appendMessage", "clearHistory"}
    /\ None \notin Agents \cup Turns

(* A message of the history: the user's message, the n-th function call of *)
(* a turn, its result, or the answer of the turn.                          *)
Messages ==
    [turn : Turns, kind : {"user", "call", "result", "answer"}, n : 0..MaxCalls]

VARIABLES
    log,        \* the persistent history
    status,     \* what became of each append
    life,       \* has the agent been constructed, and its load completed
    rows,       \* the history read by the load of each agent, on its way
    history,    \* conversationHistory
    task,       \* the turn whose message is this.task
    clearing,   \* the agent awaits the memory's clearHistory
    current,    \* the last agent constructed
    pc,         \* where each turn is
    agent,      \* the agent it runs on
    calls,      \* function calls so far
    tool,       \* lastToolResult
    seen,       \* history prepared for the request to the LLM, till it answers
    searched,   \* the message the semantic memory is being searched with
    outcome     \* what the turn returned

memoryVars == <<log, status>>
agentVars == <<life, rows, history, task, clearing, current>>
turnVars == <<pc, agent, calls, tool, seen, searched, outcome>>
vars == <<memoryVars, agentVars, turnVars>>

PCs == {"idle", "appendUser", "context", "search", "llm", "appendCall", "tool",
        "delegate", "appendResult", "appendSpecialist", "appendAnswer",
        "evaluate", "done"}

(* What a function returns, or the text of its error, and a signal object. *)
Results == {"null", "plain", "signal"}

Outcomes == {"none", "text", "signal", "empty", "specialist", "threw"}

TypeOK ==
    /\ log \in Seq(Messages)
    /\ status \in [Messages -> {"new", "asked", "stored", "refused"}]
    /\ life \in [Agents -> {"none", "loading", "read", "ready"}]
    /\ rows \in [Agents -> Seq(Messages)]
    /\ history \in [Agents -> Seq(Messages)]
    /\ task \in [Agents -> Turns \cup {None}]
    /\ clearing \in [Agents -> BOOLEAN]
    /\ current \in Agents \cup {None}
    /\ pc \in [Turns -> PCs]
    /\ agent \in [Turns -> Agents \cup {None}]
    /\ calls \in [Turns -> 0..MaxCalls]
    /\ tool \in [Turns -> Results]
    /\ seen \in [Turns -> Seq(Messages)]
    /\ searched \in [Turns -> Turns \cup {None}]
    /\ outcome \in [Turns -> Outcomes]

Memory == INSTANCE ConversationMemory

Init ==
    /\ Memory!Init
    /\ life = [a \in Agents |-> "none"]
    /\ rows = [a \in Agents |-> << >>]
    /\ history = [a \in Agents |-> << >>]
    /\ task = [a \in Agents |-> None]
    /\ clearing = [a \in Agents |-> FALSE]
    /\ current = None
    /\ pc = [t \in Turns |-> "idle"]
    /\ agent = [t \in Turns |-> None]
    /\ calls = [t \in Turns |-> 0]
    /\ tool = [t \in Turns |-> "null"]
    /\ seen = [t \in Turns |-> << >>]
    /\ searched = [t \in Turns |-> None]
    /\ outcome = [t \in Turns |-> "none"]

InFlight == {t \in Turns : pc[t] \notin {"idle", "done"}}

Become(t, p) == pc' = [pc EXCEPT ![t] = p]

(* Agents and turns are new objects: which one is next makes no difference. *)
Fresh(S) == CHOOSE x \in S : TRUE

Message(t, kind) == [turn |-> t, kind |-> kind, n |-> calls[t]]

-----------------------------------------------------------------------------
(* The constructor and the load it starts.                                 *)

Construct(a) ==
    /\ life[a] = "none" /\ a = Fresh({b \in Agents : life[b] = "none"})
    /\ AgentsAlive = "one" => InFlight = {} /\ \A b \in Agents : ~clearing[b]
    /\ life' = [life EXCEPT ![a] = "loading"]
    /\ current' = a
    /\ UNCHANGED <<memoryVars, rows, history, task, clearing, turnVars>>

(* The memory reads the history ... *)
LoadReads(a) ==
    /\ life[a] = "loading"
    /\ life' = [life EXCEPT ![a] = "read"]
    /\ rows' = [rows EXCEPT ![a] = log]
    /\ UNCHANGED <<memoryVars, history, task, clearing, current, turnVars>>

(* Mutant: the rows are put before what has been pushed meanwhile. *)
Prepended(read, pushed) == read \o pushed

(* The array after the load: what was pushed meanwhile is gone. *)
Loaded(read, pushed) == read

(* ... and the array is replaced by it, or emptied if the load failed. *)
LoadReplaces(a) ==
    /\ life[a] = "read"
    /\ life' = [life EXCEPT ![a] = "ready"]
    /\ history' = [history EXCEPT ![a] = Loaded(rows[a], @)]
    /\ rows' = [rows EXCEPT ![a] = << >>]
    /\ UNCHANGED <<memoryVars, task, clearing, current, turnVars>>

LoadFails(a) ==
    /\ life[a] = "loading" /\ "loadHistory" \in Faults
    /\ life' = [life EXCEPT ![a] = "ready"]
    /\ history' = [history EXCEPT ![a] = << >>]
    /\ UNCHANGED <<memoryVars, rows, task, clearing, current, turnVars>>

-----------------------------------------------------------------------------
(* _addToConversationHistory: the push, and the append it then awaits.     *)

(* Mutant: unshift for push. *)
Unshifted(a, m) ==
    /\ history' = [history EXCEPT ![a] = <<m>> \o @]
    /\ Memory!Append_Ask(m)

AddToHistory(a, m) ==
    /\ history' = [history EXCEPT ![a] = Append(@, m)]
    /\ Memory!Append_Ask(m)

(* Mutants: the append is not awaited; its rejection is not caught and the *)
(* turn never goes on.                                                     *)
NotAwaited(m) == status[m] # "new"
Uncaught(m) == status[m] = "stored"

(* The append has resolved, or its rejection has been caught. *)
Settled(m) == status[m] \in {"stored", "refused"}

MemoryStores(m) ==
    /\ Memory!Append_Store(m)
    /\ UNCHANGED <<agentVars, turnVars>>

MemoryRefuses(m) ==
    /\ "appendMessage" \in Faults
    /\ Memory!Append_Refuse(m)
    /\ Cardinality({r \in Messages : status[r] = "refused"}) < MaxRefusals
    /\ UNCHANGED <<agentVars, turnVars>>

(* Mutant: the memory is not cleared. *)
ClearArray(a) ==
    /\ a \in Clears /\ life[a] = "ready" /\ InFlight = {}
    /\ history' = [history EXCEPT ![a] = << >>]
    /\ UNCHANGED <<memoryVars, life, rows, task, clearing, current, turnVars>>

(* clearHistory: a new array at once, then the memory. *)
ClearHistory(a) ==
    /\ a \in Clears /\ life[a] # "none" /\ ~clearing[a]
    /\ AgentsAlive = "one" =>
          a = current /\ InFlight = {} /\ (EarlyMessages \/ life[a] = "ready")
    /\ history' = [history EXCEPT ![a] = << >>]
    /\ clearing' = [clearing EXCEPT ![a] = TRUE]
    /\ UNCHANGED <<memoryVars, life, rows, task, current, turnVars>>

MemoryClears(a) ==
    /\ clearing[a]
    /\ clearing' = [clearing EXCEPT ![a] = FALSE]
    /\ \/ Memory!Clear
       \/ "clearHistory" \in Faults /\ UNCHANGED memoryVars
    /\ UNCHANGED <<life, rows, history, task, current, turnVars>>

-----------------------------------------------------------------------------
(* processUserMessage.                                                     *)

(* Mutant: the task the agent already has stays. *)
KeepTask(t, a) == IF task[a] = None THEN [task EXCEPT ![a] = t] ELSE task

(* The message becomes the agent's task. *)
SetTask(t, a) == [task EXCEPT ![a] = t]

(* The application calls a method of an agent, which records a message.    *)
Call(t, a, kind) ==
    /\ pc[t] = "idle" /\ t = Fresh({u \in Turns : pc[u] = "idle"})
    /\ Cardinality(InFlight) < MaxInFlight
    /\ life[a] # "none"
    /\ EarlyMessages \/ life[a] = "ready"
    /\ AgentsAlive = "one" => a = current /\ ~clearing[a]
    /\ agent' = [agent EXCEPT ![t] = a]
    /\ AddToHistory(a, Message(t, kind))
    /\ UNCHANGED <<life, rows, clearing, current, calls, tool, seen, searched,
                   outcome>>

ProcessUserMessage(t, a) ==
    /\ "processUserMessage" \in Methods
    /\ Call(t, a, "user")
    /\ task' = SetTask(t, a)
    /\ Become(t, "appendUser")

(* The task stays the one the agent has. *)
ProcessFunctionResult(t, a) ==
    /\ "processFunctionResult" \in Methods
    /\ Call(t, a, "result")
    /\ Become(t, "appendResult")
    /\ UNCHANGED task

(* The turn began with a message of the user. *)
OfUser(t) == status[[turn |-> t, kind |-> "user", n |-> 0]] # "new"

(* Mutant: the history is taken before the message is added to it. *)
HistoryWithoutMessage(t) ==
    SelectSeq(history[agent[t]], LAMBDA m : m.turn # t)

(* prepareHistoryForLLM: a copy of the array as it is now. *)
HistoryForLLM(t) == history[agent[t]]

(* The user's message has been appended: the history for the LLM is taken, *)
(* and the context is prepared, from the facts first.                      *)
PrepareHistory(t) ==
    /\ pc[t] = "appendUser" /\ Settled(Message(t, "user"))
    /\ seen' = [seen EXCEPT ![t] = HistoryForLLM(t)]
    /\ Become(t, "context")
    /\ UNCHANGED <<memoryVars, agentVars, agent, calls, tool, searched,
                   outcome>>

(* The message the semantic memory is searched with: this.task. *)
TaskOf(t) == task[agent[t]]

(* After the facts, the semantic memory is searched. *)
SearchContext(t) ==
    /\ pc[t] = "context"
    /\ searched' = [searched EXCEPT ![t] = TaskOf(t)]
    /\ Become(t, "search")
    /\ UNCHANGED <<memoryVars, agentVars, agent, calls, tool, seen, outcome>>

(* After the search and the summary, the LLM is asked; after a result with *)
(* the history as it is now.                                               *)
AskLLM(t) ==
    /\ pc[t] = "search"
    /\ seen' = IF calls[t] = 0 /\ OfUser(t) THEN seen
               ELSE [seen EXCEPT ![t] = HistoryForLLM(t)]
    /\ searched' = [searched EXCEPT ![t] = None]
    /\ Become(t, "llm")
    /\ UNCHANGED <<memoryVars, agentVars, agent, calls, tool, outcome>>

(* The request has been answered. *)
LLMAnswers(t) ==
    /\ pc[t] = "llm"
    /\ seen' = [seen EXCEPT ![t] = << >>]

(* The LLM asks for a function. *)
FunctionCall(t) ==
    /\ LLMAnswers(t) /\ OfUser(t) /\ calls[t] < MaxCalls
    /\ calls' = [calls EXCEPT ![t] = @ + 1]
    /\ AddToHistory(agent[t], [turn |-> t, kind |-> "call", n |-> calls[t] + 1])
    /\ Become(t, "appendCall")
    /\ UNCHANGED <<life, rows, task, clearing, current, agent, tool, searched,
                   outcome>>

(* The function is one of the agent's tools, or the delegation to a known  *)
(* specialist.                                                             *)
ExecuteFunction(t) ==
    /\ pc[t] = "appendCall" /\ Settled(Message(t, "call"))
    /\ \/ Become(t, "tool")
       \/ Delegation /\ Become(t, "delegate")
    /\ UNCHANGED <<memoryVars, agentVars, agent, calls, tool, seen, searched,
                   outcome>>

(* A result, or the text of an error, is recorded for the LLM. *)
RecordResult(t, result) ==
    /\ tool' = [tool EXCEPT ![t] = result]
    /\ AddToHistory(agent[t], Message(t, "result"))
    /\ Become(t, "appendResult")
    /\ UNCHANGED <<life, rows, task, clearing, current, agent, calls, seen,
                   searched, outcome>>

(* The tool returned or threw; the function is unknown, or the arguments   *)
(* or the role of a delegation are invalid; the specialist had no text.    *)
ToolReturns(t) ==
    /\ pc[t] = "tool"
    /\ \E result \in Results \ {"null"} : RecordResult(t, result)

(* Mutant: the LLM is asked again, and the error is not recorded.          *)
FailureForgotten(t) ==
    /\ \/ pc[t] = "appendCall" /\ Settled(Message(t, "call"))
       \/ pc[t] = "delegate"
    /\ Become(t, "context")
    /\ UNCHANGED <<memoryVars, agentVars, agent, calls, tool, seen, searched,
                   outcome>>

FunctionFails(t) ==
    /\ \/ pc[t] = "appendCall" /\ Settled(Message(t, "call"))
       \/ pc[t] = "delegate"
    /\ RecordResult(t, "plain")

(* A result that JSON.stringify refuses: the turn rejects. *)
ResultNotSerializable(t) ==
    /\ pc[t] = "tool"
    /\ Become(t, "done")
    /\ outcome' = [outcome EXCEPT ![t] = "threw"]
    /\ UNCHANGED <<memoryVars, agentVars, agent, calls, tool, seen, searched>>

(* The result has been appended: the context is prepared again. *)
ContinueWithResult(t) ==
    /\ pc[t] = "appendResult" /\ Settled(Message(t, "result"))
    /\ Become(t, "context")
    /\ UNCHANGED <<memoryVars, agentVars, agent, calls, tool, seen, searched,
                   outcome>>

(* The specialist's text is recorded and returned as the answer. *)
SpecialistAnswers(t) ==
    /\ pc[t] = "delegate"
    /\ AddToHistory(agent[t], Message(t, "answer"))
    /\ Become(t, "appendSpecialist")
    /\ UNCHANGED <<life, rows, task, clearing, current, agent, calls, tool,
                   seen, searched, outcome>>

Finish(t, o) ==
    /\ Become(t, "done")
    /\ outcome' = [outcome EXCEPT ![t] = o]
    /\ UNCHANGED <<memoryVars, agentVars, agent, calls, tool, searched>>

ReturnSpecialist(t) ==
    /\ pc[t] = "appendSpecialist" /\ Settled(Message(t, "answer"))
    /\ Finish(t, "specialist")
    /\ UNCHANGED seen

(* The LLM answers with a text ... *)
Answer(t) ==
    /\ LLMAnswers(t)
    /\ AddToHistory(agent[t], Message(t, "answer"))
    /\ Become(t, "appendAnswer")
    /\ UNCHANGED <<life, rows, task, clearing, current, agent, calls, tool,
                   searched, outcome>>

(* ... or with an empty one, which is returned as it is; so is a function  *)
(* call if the turn began with a result.                                   *)
EmptyAnswer(t) ==
    /\ LLMAnswers(t)
    /\ Finish(t, "empty")

(* The text has been appended: the memories are managed, if they are, ...  *)
EvaluateMemories(t) ==
    /\ pc[t] = "appendAnswer" /\ Settled(Message(t, "answer"))
    /\ AutoManage /\ OfUser(t)
    /\ Become(t, "evaluate")
    /\ UNCHANGED <<memoryVars, agentVars, agent, calls, tool, seen, searched,
                   outcome>>

(* ... and the text is returned, with the signal if the last function      *)
(* returned one.                                                           *)
ReturnAnswer(t) ==
    /\ \/ /\ pc[t] = "appendAnswer" /\ Settled(Message(t, "answer"))
          /\ ~(AutoManage /\ OfUser(t))
       \/ pc[t] = "evaluate"
    /\ Finish(t, IF tool[t] = "signal" THEN "signal" ELSE "text")
    /\ UNCHANGED seen

-----------------------------------------------------------------------------
Load(a) ==
    Construct(a) \/ LoadReads(a) \/ LoadReplaces(a) \/ LoadFails(a)

Respond(t) ==
    \/ FunctionCall(t) \/ Answer(t) \/ EmptyAnswer(t)
    \/ ToolReturns(t) \/ ResultNotSerializable(t) \/ SpecialistAnswers(t)

Proceed(t) ==
    \/ PrepareHistory(t) \/ SearchContext(t) \/ AskLLM(t)
    \/ ExecuteFunction(t) \/ FunctionFails(t) \/ ContinueWithResult(t)
    \/ ReturnSpecialist(t) \/ EvaluateMemories(t) \/ ReturnAnswer(t)

Next ==
    \/ \E a \in Agents : Load(a) \/ ClearHistory(a) \/ MemoryClears(a)
    \/ \E m \in Messages : MemoryStores(m) \/ MemoryRefuses(m)
    \/ \E t \in Turns, a \in Agents :
          ProcessUserMessage(t, a) \/ ProcessFunctionResult(t, a)
    \/ \E t \in Turns : Respond(t) \/ Proceed(t)

Spec == Init /\ [][Next]_vars

(* What a turn awaits: its append, an answer, or its next continuation. *)
Advance(t) ==
    \/ \E m \in {m \in Messages : m.turn = t /\ status[m] = "asked"} :
          MemoryStores(m) \/ MemoryRefuses(m)
    \/ Respond(t) \/ Proceed(t)

(* The event loop runs every continuation; the memory, the LLM, the tools  *)
(* and the specialists settle every promise.                               *)
FairSpec == Spec /\ \A t \in Turns : WF_vars(Advance(t))

-----------------------------------------------------------------------------
(* Properties.                                                             *)

(* The elements of s are in t, in the same order. *)
InOrder(s, t) ==
    /\ ToSet(s) \subseteq ToSet(t)
    /\ \A i, j \in 1..Len(s) : i < j =>
          \E k, l \in 1..Len(t) : k < l /\ t[k] = s[i] /\ t[l] = s[j]

(* What a turn has said so far, and the order it says things in. *)
Said(t) == {m \in Messages : m.turn = t /\ status[m] # "new"}

Order(m) ==
    2 * m.n + [user |-> 0, call |-> 0, result |-> 1, answer |-> 2][m.kind]

SaidInOrder(s) ==
    \A i, j \in 1..Len(s) :
        i < j /\ s[i].turn = s[j].turn => Order(s[i]) < Order(s[j])

(* Agents of one chat that follow each other: between two turns the array  *)
(* of the agent in use (conversationHistory) is the history its memory     *)
(* holds and what the memory has refused (chat-agent.js:650-653), so that  *)
(* the next agent of the chat goes on where this one stopped               *)
(* (docs/chat-agent.md:548).                                               *)
HistoryIsLog ==
    \A a \in Agents :
        (a = current /\ life[a] = "ready" /\ InFlight = {} /\ ~clearing[a])
            => /\ InOrder(log, history[a])
               /\ ToSet(log) = {m \in ToSet(history[a]) : status[m] # "refused"}

(* In the history of the agent in use a function call is followed by its   *)
(* own result, or by the specialist's answer, whether the function         *)
(* returned, threw or does not exist (processUserMessage:459-538); only    *)
(* the call of a turn still in flight, or whose result could not be        *)
(* serialized or was refused by the memory, may have none.                 *)
ToolCallsAnswered ==
    \A a \in Agents : \A i \in 1..Len(history[a]) :
        LET m == history[a][i] IN
        (/\ a = current /\ m.kind = "call"
         /\ m.turn \notin InFlight
         /\ outcome[m.turn] # "threw"
         /\ \A k \in {"result", "answer"} : status[[m EXCEPT !.kind = k]] # "refused")
            => /\ i < Len(history[a])
               /\ history[a][i + 1].turn = m.turn
               /\ history[a][i + 1].n = m.n
               /\ history[a][i + 1].kind \in {"result", "answer"}

(* The semantic memory is searched with the message the turn answers       *)
(* ("a tarefa atual", chat-agent.js:432 and 325), or if it goes on with a  *)
(* result, with a message that was there before.                           *)
SearchedOwnMessage ==
    \A t \in Turns : searched[t] # None =>
        IF OfUser(t) THEN searched[t] = t ELSE OfUser(searched[t])

(* The history a request gives the LLM ends with what the turn has said so *)
(* far, in the order it said it, and holds, in order, all that the memory  *)
(* of the chat holds (chat-agent.js:439 and 548): the LLM answers in the   *)
(* conversation the user had.                                              *)
LLMSeesConversation ==
    \A t \in Turns : pc[t] = "llm"
        => /\ InOrder(log, seen[t])
           /\ SaidInOrder(seen[t])
           /\ \E k \in 0..Len(seen[t]) :
                 {seen[t][i] : i \in k+1..Len(seen[t])} = Said(t)

(* Whatever the order of loads, turns, clears and failures, no message is  *)
(* twice in the history of an agent or in the memory: a load replaces the  *)
(* array and does not join it with what was pushed meanwhile               *)
(* (_loadConversationHistory:270).                                         *)
NoDuplicates ==
    /\ IsInjective(log)
    /\ \A a \in Agents : IsInjective(history[a])

(* However turns interleave, the messages of each are stored in the order  *)
(* it said them: every append is awaited before the next message           *)
(* (_addToConversationHistory:649).                                        *)
TurnOrder ==
    /\ SaidInOrder(log)
    /\ \A a \in Agents : SaidInOrder(history[a])

(* Every turn ends: no refused append, failing function or refused load    *)
(* stops it, if the LLM asks for finitely many functions.                  *)
TurnEnds == \A t \in Turns : pc[t] # "idle" ~> pc[t] = "done"

-----------------------------------------------------------------------------
(* What the comments and the documents say and the code does not do.       *)

(* chat-agent.js:438: the history for the LLM includes the user's message. *)
(* A load that completes after the push has replaced the array (270).      *)
SeesOwnMessage ==
    \A t \in Turns : pc[t] = "llm" => \E m \in ToSet(seen[t]) : m.turn = t
=============================================================================
