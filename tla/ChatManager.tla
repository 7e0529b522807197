----------------------------- MODULE ChatManager -----------------------------
(***************************************************************************)
(* The session manager of lib/chat-manager.js, with the fact and summary   *)
(* memories its agents share and the way an agent uses them in a turn      *)
(* (lib/chat-agent.js): the facts and the last summary go into the context *)
(* of the request, and after its answer the LLM is asked what to remember. *)
(*                                                                         *)
(* An action is the code from one await to the next; the answer of the     *)
(* memory that was awaited is part of the action that goes on with it.     *)
(* All agents of a chat have its memories, so that an agent is represented *)
(* by its chatId; its array of messages and its function calls are those   *)
(* of module ChatAgent.  A fact, a summary or a message is the call that   *)
(* wrote it.                                                               *)
(***************************************************************************)
EXTENDS ContextMemories, Sequences

CONSTANTS
    Ids,            \* session ids as the application writes them, none blank
    Trim,           \* String.prototype.trim of each
    Evaluations,    \* what the LLM may find worth remembering in a turn: the
                    \* keys of its facts, and whether there is a summary
    AutoManage,     \* memories of the agents' autoManage... options
    Conditions,     \* how the memories may be configured
    Ops,            \* the methods the application calls
    MaxInFlight     \* bound: calls the application keeps in flight

Sessions == {Trim[i] : i \in Ids}

VARIABLES
    messages,   \* the calls with a message in the conversation of each chat
    sessions,   \* activeSessions: the chatId of the agent of each session
    clock,      \* new Date(), counted up where it is read
    op, id,     \* the method a call runs and its sessionId
    pc,         \* where it is
    context,    \* chatId of the agent it obtained, or the trimmed id
    todo,       \* what is left to store, to close or to delete
    time,       \* timestamp of the summary it stores
    known,      \* the facts in the context of its request to the LLM
    recent,     \* the summary in it
    accepted,   \* what it has stored, or cleared of the conversation
    reply,      \* what the call returned
    before      \* history variable: the calls that had returned when it began

managerVars == <<messages, sessions, clock>>
turnVars == <<time, known, recent>>
callVars == <<op, id, context, before>>
vars == <<memoryVars, managerVars, turnVars, callVars, pc, todo, accepted, reply>>

ASSUME CallsAssumption ==
    /\ None \notin Contexts
    /\ Contexts = Ids \cup Sessions
    /\ None \notin {"message", "clear", "delete", "shutdown"}
    /\ Ops \subseteq {"message", "clear", "delete", "shutdown"}
    /\ AutoManage \subseteq {"fact", "summary"}
    /\ FactKeys \cap MemoryTypes = {}
    /\ Conditions \subseteq
         [MemoryTypes -> {"absent", "unconnected", "open", "failing", "closed"}]
    /\ MaxInFlight \in Nat

ASSUME EvaluationsAssumption ==
    Evaluations \subseteq [facts : Seq(FactKeys), summary : BOOLEAN]

PCs == {"idle", "appendUser", "facts", "summary", "llm", "appendAnswer",
        "evaluate", "remember", "clearLog", "clearInactive", "clearFacts",
        "clearSummaries", "delete", "close", "done"}

Replies == {"none", "fulfilled", "rejected"}

Parts == FactKeys \cup MemoryTypes

TypeOK ==
    /\ MemoriesTypeOK
    /\ messages \in [Contexts -> SUBSET Calls]
    /\ sessions \in [Sessions -> Contexts \cup {None}]
    /\ clock \in Nat
    /\ op \in [Calls -> Ops \cup {None}]
    /\ id \in [Calls -> Ids \cup {None}]
    /\ pc \in [Calls -> PCs]
    /\ context \in [Calls -> Contexts \cup {None}]
    /\ todo \in [Calls -> Seq(Parts)]
    /\ time \in [Calls -> Nat]
    /\ \A c \in Calls : /\ DOMAIN known[c] \subseteq FactKeys
                        /\ \A k \in DOMAIN known[c] : known[c][k] \in Calls
    /\ recent \in [Calls -> Calls \cup {None}]
    /\ accepted \in [Calls -> SUBSET Parts]
    /\ reply \in [Calls -> Replies]
    /\ before \in [Calls -> SUBSET Calls]

Init ==
    /\ MemoriesInit
    /\ condition \in Conditions
    /\ messages = [x \in Contexts |-> {}]
    /\ sessions = [s \in Sessions |-> None]
    /\ clock = 0
    /\ op = [c \in Calls |-> None]
    /\ id = [c \in Calls |-> None]
    /\ pc = [c \in Calls |-> "idle"]
    /\ context = [c \in Calls |-> None]
    /\ todo = [c \in Calls |-> << >>]
    /\ time = [c \in Calls |-> 0]
    /\ known = [c \in Calls |-> << >>]
    /\ recent = [c \in Calls |-> None]
    /\ accepted = [c \in Calls |-> {}]
    /\ reply = [c \in Calls |-> "none"]
    /\ before = [c \in Calls |-> {}]

Become(c, p) == pc' = [pc EXCEPT ![c] = p]

Return(c, r) == Become(c, "done") /\ reply' = [reply EXCEPT ![c] = r]

Continue(c, p) == Become(c, p) /\ UNCHANGED reply

Accept(c, part) == accepted' = [accepted EXCEPT ![c] = @ \cup {part}]

(* The application calls a method; x is the chat it will work on.          *)
Invoke(c, o, i, x) ==
    /\ pc[c] = "idle" /\ o \in Ops
    /\ Cardinality({d \in Calls : pc[d] \notin {"idle", "done"}}) < MaxInFlight
    /\ op' = [op EXCEPT ![c] = o]
    /\ id' = [id EXCEPT ![c] = i]
    /\ context' = [context EXCEPT ![c] = x]
    /\ before' = [before EXCEPT ![c] = {d \in Calls : pc[d] = "done"}]

-----------------------------------------------------------------------------
(* Sessions.                                                               *)

(* Mutants: the id is not trimmed; the first agent serves every session.   *)
UntrimmedId(i) == i
AnyAgent(i) == IF \E s \in Sessions : sessions[s] # None
               THEN CHOOSE x \in Contexts : \E s \in Sessions : sessions[s] = x
               ELSE Trim[i]

(* The chatId of a new agent. *)
ChatId(i) == Trim[i]

(* The agent of a session, or a new one. *)
SessionAgent(i) ==
    IF sessions[Trim[i]] # None THEN sessions[Trim[i]] ELSE ChatId(i)

(* getOrCreateSession: the agent is there or is made, without an await. *)
OpenSession(i) ==
    /\ sessions' = [sessions EXCEPT ![Trim[i]] = SessionAgent(i)]
    /\ UNCHANGED <<memoryVars, messages, clock, turnVars, callVars, pc, todo,
                   accepted, reply>>

EndSession(s) ==
    /\ sessions[s] # None
    /\ sessions' = [sessions EXCEPT ![s] = None]
    /\ UNCHANGED <<memoryVars, messages, clock, turnVars, callVars, pc, todo,
                   accepted, reply>>

-----------------------------------------------------------------------------
(* processMessage: a turn of the session's agent.                          *)

ProcessMessage(c, i) ==
    /\ Invoke(c, "message", i, SessionAgent(i))
    /\ sessions' = [sessions EXCEPT ![Trim[i]] = SessionAgent(i)]
    /\ Continue(c, "appendUser")
    /\ UNCHANGED <<memoryVars, messages, clock, turnVars, todo, accepted>>

(* The agent appends a message, and goes on if it is refused. *)
AppendMessage(c) ==
    \/ /\ Works("conversation")
       /\ messages' = [messages EXCEPT ![context[c]] = @ \cup {c}]
       /\ UNCHANGED memoryVars
    \/ Refuses("conversation") /\ UNCHANGED messages
    \/ condition["conversation"] = "absent" /\ UNCHANGED <<memoryVars, messages>>

AppendUser(c) ==
    /\ pc[c] = "appendUser"
    /\ AppendMessage(c)
    /\ Continue(c, "facts")
    /\ UNCHANGED <<sessions, clock, turnVars, callVars, todo, accepted>>

(* getAllFacts: nothing if the memory refuses or there is none. *)
ReadFacts(c) ==
    /\ pc[c] = "facts"
    /\ \/ Works("fact") /\ known' = [known EXCEPT ![c] = AllFacts(context[c])]
       \/ condition["fact"] # "open" /\ UNCHANGED known
    /\ Continue(c, "summary")
    /\ UNCHANGED <<memoryVars, managerVars, time, recent, callVars, todo,
                   accepted>>

(* getLatestSummary, likewise; then the LLM is asked. *)
ReadSummary(c) ==
    /\ pc[c] = "summary"
    /\ \/ /\ Works("summary")
          /\ \/ \E w \in LatestSummary(context[c]) :
                   recent' = [recent EXCEPT ![c] = w]
             \/ summaries[context[c]] = {} /\ UNCHANGED recent
       \/ condition["summary"] # "open" /\ UNCHANGED recent
    /\ Continue(c, "llm")
    /\ UNCHANGED <<memoryVars, managerVars, time, known, callVars, todo,
                   accepted>>

(* The LLM answers with a text; with an empty one, or if the turn throws,  *)
(* processMessage returns at once.                                         *)
Answer(c) ==
    /\ pc[c] = "llm"
    /\ Continue(c, "appendAnswer") \/ Return(c, "fulfilled")
    /\ known' = [known EXCEPT ![c] = << >>]
    /\ recent' = [recent EXCEPT ![c] = None]
    /\ UNCHANGED <<memoryVars, managerVars, time, callVars, todo, accepted>>

(* The memories the LLM is asked about after a turn. *)
Managed == {m \in AutoManage : condition[m] # "absent"}

AppendAnswer(c) ==
    /\ pc[c] = "appendAnswer"
    /\ AppendMessage(c)
    /\ IF Managed = {} THEN Return(c, "fulfilled") ELSE Continue(c, "evaluate")
    /\ UNCHANGED <<sessions, clock, turnVars, callVars, todo, accepted>>

-----------------------------------------------------------------------------
(* _evaluateAndManageMemories.                                             *)

(* The next write, of a fact or of the summary, which takes its timestamp  *)
(* when addSummary is called; after the last the turn returns.             *)
Remember(c, rest) ==
    /\ todo' = [todo EXCEPT ![c] = rest]
    /\ IF rest = << >> THEN Return(c, "fulfilled") ELSE Continue(c, "remember")
    /\ IF rest = <<"summary">>
       THEN clock' = clock + 1 /\ time' = [time EXCEPT ![c] = clock + 1]
       ELSE UNCHANGED <<clock, time>>

MemoryOf(part) == IF part = "summary" THEN "summary" ELSE "fact"

(* What is stored of an evaluation: the facts first, then the summary.     *)
ToStore(e) ==
    (IF "fact" \in Managed THEN e.facts ELSE << >>)
        \o (IF "summary" \in Managed /\ e.summary THEN <<"summary">> ELSE << >>)

(* The LLM says what to remember; nothing if it fails or what it says      *)
(* cannot be read.                                                         *)
Evaluate(c) ==
    /\ pc[c] = "evaluate"
    /\ \/ Remember(c, << >>)
       \/ \E e \in Evaluations : Remember(c, ToStore(e))
    /\ UNCHANGED <<memoryVars, messages, sessions, known, recent, callVars,
                   accepted>>

(* Mutant: a write that is refused is not caught. *)
Uncaught(m) == FALSE

(* setFact and addSummary of the agent resolve to false. *)
RefusalIsCaught(m) == Refuses(m)

(* A write has resolved or its rejection has been caught: the next one.    *)
StoreNext(c) ==
    /\ pc[c] = "remember"
    /\ LET part == Head(todo[c]) IN
       \/ /\ IF part = "summary" THEN AddSummary(context[c], c, time[c])
             ELSE SetFact(context[c], part, c)
          /\ Accept(c, part)
       \/ RefusalIsCaught(MemoryOf(part)) /\ UNCHANGED accepted
    /\ Remember(c, Tail(todo[c]))
    /\ UNCHANGED <<messages, sessions, known, recent, callVars>>

-----------------------------------------------------------------------------
(* clearSessionHistory.                                                    *)

(* The session is active, or the shared memories are cleared directly.     *)
ClearSessionHistory(c, i) ==
    /\ LET active == sessions[Trim[i]] # None IN
       /\ Invoke(c, "clear", i, IF active THEN sessions[Trim[i]] ELSE Trim[i])
       /\ IF active THEN Continue(c, "clearLog")
          ELSE IF condition["conversation"] # "absent"
          THEN Continue(c, "clearInactive") ELSE Return(c, "rejected")
    /\ UNCHANGED <<memoryVars, managerVars, turnVars, todo, accepted>>

(* An agent's clearHistory swallows a refusal, the adapter's rejects. *)
ClearLog(c) ==
    /\ pc[c] \in {"clearLog", "clearInactive"}
    /\ \/ /\ Works("conversation")
          /\ messages' = [messages EXCEPT ![context[c]] = {}]
          /\ Accept(c, "conversation")
          /\ Continue(c, "clearFacts")
          /\ UNCHANGED memoryVars
       \/ /\ Refuses("conversation")
          /\ IF pc[c] = "clearLog" THEN Continue(c, "clearFacts")
             ELSE Return(c, "rejected")
          /\ UNCHANGED <<messages, accepted>>
       \/ /\ condition["conversation"] = "absent"
          /\ Continue(c, "clearFacts")
          /\ UNCHANGED <<memoryVars, messages, accepted>>
    /\ UNCHANGED <<sessions, clock, turnVars, callVars, todo>>

(* Mutant: nothing but the conversation is cleared. *)
FactsKept(x) == UNCHANGED memoryVars

ClearedFacts(x) == DeleteAllFacts(x)

ClearFacts(c) ==
    /\ pc[c] = "clearFacts"
    /\ \/ /\ ClearedFacts(context[c])
          /\ Continue(c, "clearSummaries")
       \/ Refuses("fact") /\ Return(c, "rejected")
       \/ /\ condition["fact"] = "absent"
          /\ Continue(c, "clearSummaries")
          /\ UNCHANGED memoryVars
    /\ UNCHANGED <<managerVars, turnVars, callVars, todo, accepted>>

ClearSummaries(c) ==
    /\ pc[c] = "clearSummaries"
    /\ \/ /\ DeleteAllSummaries(context[c])
          /\ Return(c, "fulfilled")
       \/ Refuses("summary") /\ Return(c, "rejected")
       \/ /\ condition["summary"] = "absent"
          /\ Return(c, "fulfilled")
          /\ UNCHANGED memoryVars
    /\ UNCHANGED <<managerVars, turnVars, callVars, todo, accepted>>

(* deleteFact, which only an application with the adapter calls.           *)
ForgetFact(c, i, k) ==
    /\ condition["fact"] # "absent"
    /\ Invoke(c, "delete", i, Trim[i])
    /\ Continue(c, "delete")
    /\ todo' = [todo EXCEPT ![c] = <<k>>]
    /\ UNCHANGED <<memoryVars, managerVars, turnVars, accepted>>

FactForgotten(c) ==
    /\ pc[c] = "delete"
    /\ \/ DeleteFact(context[c], Head(todo[c])) /\ Return(c, "fulfilled")
       \/ Refuses("fact") /\ Return(c, "rejected")
    /\ todo' = [todo EXCEPT ![c] = << >>]
    /\ UNCHANGED <<managerVars, turnVars, callVars, accepted>>

-----------------------------------------------------------------------------
(* shutdown.                                                               *)

Given(m) == IF condition[m] = "absent" THEN << >> ELSE <<m>>

(* The memories are closed one after the other, then the sessions go. *)
CloseRest(c, rest) ==
    /\ todo' = [todo EXCEPT ![c] = rest]
    /\ IF rest = << >>
       THEN Return(c, "fulfilled") /\ sessions' = [s \in Sessions |-> None]
       ELSE Continue(c, "close") /\ UNCHANGED sessions

Shutdown(c) ==
    /\ Invoke(c, "shutdown", None, None)
    /\ CloseRest(c, Given("conversation") \o Given("fact") \o Given("summary"))
    /\ UNCHANGED <<memoryVars, messages, clock, turnVars, accepted>>

(* Mutant: a close that fails ends the loop. *)
StopAtFailure(rest) == << >>

(* The loop goes on after a close that fails. *)
AfterFailure(rest) == rest

CloseNext(c) ==
    /\ pc[c] = "close"
    /\ LET m == Head(todo[c]) IN
       \/ /\ Works(m) \/ condition[m] = "unconnected"
          /\ Close(m)
          /\ CloseRest(c, Tail(todo[c]))
       \/ /\ condition[m] \in {"closed", "failing"}
          /\ CloseRest(c, AfterFailure(Tail(todo[c])))
          /\ UNCHANGED memoryVars
    /\ UNCHANGED <<messages, clock, turnVars, callVars, accepted>>

(* An application that has the adapters initializes a MongoDB one. *)
InitializeMemory(m) ==
    /\ Initialize(m)
    /\ UNCHANGED <<managerVars, turnVars, callVars, pc, todo, accepted, reply>>

-----------------------------------------------------------------------------
Call(c) ==
    \/ \E i \in Ids : ProcessMessage(c, i) \/ ClearSessionHistory(c, i)
    \/ \E i \in Ids, k \in FactKeys : ForgetFact(c, i, k)
    \/ Shutdown(c)

Resume(c) ==
    \/ AppendUser(c) \/ ReadFacts(c) \/ ReadSummary(c) \/ Answer(c)
    \/ AppendAnswer(c) \/ Evaluate(c) \/ StoreNext(c)
    \/ ClearLog(c) \/ ClearFacts(c) \/ ClearSummaries(c) \/ FactForgotten(c)
    \/ CloseNext(c)

Next ==
    \/ \E c \in Calls : Call(c) \/ Resume(c)
    \/ \E i \in Ids : OpenSession(i)
    \/ \E s \in Sessions : EndSession(s)
    \/ \E m \in MemoryTypes : InitializeMemory(m)

Spec == Init /\ [][Next]_vars

-----------------------------------------------------------------------------
(* Properties.                                                             *)

Turns == {c \in Calls : op[c] = "message"}

(* A memory that has answered all its calls so far.                        *)
Reliable(m) == condition[m] = "open"

(* A clear or a deletion for the chat of u that was not over when u began. *)
MayBeCleared(u) ==
    \E d \in Calls : /\ op[d] \in {"clear", "delete"}
                    /\ context[d] = context[u] /\ d \notin before[u]

(* Turns t and u of one user, u over before t began and nothing of it      *)
(* cleared since, where t asks the LLM.                                    *)
Follows(t, u) ==
    /\ {t, u} \subseteq Turns /\ u \in before[t] /\ Trim[id[t]] = Trim[id[u]]
    /\ pc[t] = "llm" /\ ~MayBeCleared(u)

(* A fact that a turn has stored is in the context of every later turn of  *)
(* the user, however the id is written and whether or not the session was  *)
(* ended meanwhile, unless a turn that was not over when that one began    *)
(* has replaced it (_evaluateAndManageMemories is awaited at 563; REPLACE, *)
(* sqlite-fact-memory-adapter.js:64).                                      *)
RemembersFacts ==
    Reliable("fact") =>
        \A t, u \in Turns : Follows(t, u) =>
            \A k \in accepted[u] \cap FactKeys :
                k \in DOMAIN known[t] /\ known[t][k] \notin before[u]

(* The summary in the context of a turn is none that is older than that of *)
(* a turn that was over before it began, whichever of two overlapping      *)
(* turns stored its summary first (getLatestSummary goes by the time of    *)
(* the call, sqlite-summary-memory-adapter.js:96).                         *)
RemembersLastSummary ==
    Reliable("summary") =>
        \A t, u \in Turns : Follows(t, u) /\ "summary" \in accepted[u] =>
            recent[t] # None /\ time[recent[t]] >= time[u]

(* What an agent knows of a user it has from messages of that user, though *)
(* all agents share the memories (sharedMemoryInstances).                  *)
KnowsOwnUser ==
    \A t \in Turns : \A u \in {known[t][k] : k \in DOMAIN known[t]} \cup {recent[t]} :
        u # None => Trim[id[u]] = Trim[id[t]]

(* After clearSessionHistory has resolved, no fact, no summary and, unless *)
(* the agent swallowed a refusal, no message is left of the turns that     *)
(* were over when it was called (chat-manager.js:286-302).                 *)
ClearIsComplete ==
    \A c \in Calls : op[c] = "clear" /\ reply[c] = "fulfilled" =>
        LET x == Trim[id[c]] IN
        /\ \A k \in FactKeys : facts[x][k] \notin before[c]
        /\ \A s \in summaries[x] : s.by \notin before[c]
        /\ "conversation" \in accepted[c] => messages[x] \cap before[c] = {}

(* When shutdown has resolved every memory whose close can succeed is      *)
(* closed, whatever the others answered and whatever other calls were in   *)
(* flight (chat-manager.js:316-326).                                       *)
ShutdownClosesAll ==
    \A c \in Calls : op[c] = "shutdown" /\ pc[c] = "done" =>
        \A m \in MemoryTypes : condition[m] \in {"absent", "closed", "failing"}

(* No call waits for ever, those neither that find a memory closed by a    *)
(* shutdown or never connected: its next step is always possible (promises *)
(* of the adapters always settle, and the agent catches the rejections of  *)
(* setFact, addSummary and getAllFacts).                                   *)
NoCallIsStuck ==
    \A c \in Calls : pc[c] \notin {"idle", "done"} => ENABLED Resume(c)
=============================================================================
