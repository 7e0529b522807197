------------------------- MODULE RoutingChatManager -------------------------
(***************************************************************************)
(* The message router of lib/routing-chat-manager.js, with the session     *)
(* lookup it inherits from lib/chat-manager.js.                            *)
(*                                                                         *)
(* A session has a coordinator (the primary ChatAgent) and one lazily      *)
(* created ChatAgent per specialist role.  processMessage sends a user     *)
(* message to the active agent and acts on the signal the agent's answer   *)
(* may carry: REQUEST_SUB_CONVERSATION activates a specialist and gives it *)
(* the same message at once, END_SUB_CONVERSATION gives control back to    *)
(* the coordinator together with the specialist's result.                  *)
(*                                                                         *)
(* JavaScript runs one piece of code at a time, from one await to the      *)
(* next: every action below is one such piece, so that calls in flight     *)
(* interleave exactly where the code awaits.  Objects are named by the     *)
(* call that creates them: coordinator c and session state c are the ones  *)
(* that call c made, and the result of call c is the result of the         *)
(* specialist whose sub-conversation call c ended.                         *)
(***************************************************************************)
EXTENDS Naturals, FiniteSets

CONSTANTS
    Calls,           \* invocations of the manager's asynchronous methods
    Keys,            \* session ids as the application writes them
    SessionIds,      \* session ids without surrounding blanks
    Trim,            \* Keys -> SessionIds, String.prototype.trim
    Roles,           \* roles an agent may ask for
    Registered,      \* roles the specialist registry knows
    PrimaryTools,    \* signalling tools the coordinator holds
    SpecialistTools, \* signalling tools the specialists hold
    Ops,             \* the methods the application uses
    MaxInFlight,     \* bound: calls the application keeps in flight
    Primary,         \* the coordinator, as the active agent
    None             \* null

ASSUME ConstantsAssumption ==
    /\ Trim \in [Keys -> SessionIds]
    /\ Registered \subseteq Roles
    /\ Primary \notin Roles
    /\ None \notin Calls \cup Roles \cup Keys \cup {Primary}
    /\ PrimaryTools \cup SpecialistTools \subseteq {"request", "end"}
    /\ Ops \subseteq {"process", "open", "clear", "endSession", "shutdown"}

VARIABLES
    sessionStates,   \* RoutingChatManager.sessionStates, by the key as given
    activeSessions,  \* ChatManager.activeSessions, by the trimmed id
    states,          \* the SessionState objects
    pc,              \* where each call is
    op,              \* the method each call runs
    key,             \* its sessionId argument
    coordinator,     \* the ChatAgent it obtained for a state it will create
    st,              \* the session state it works on
    agent,           \* the agent that processes its message
    note,            \* the result it handed to the coordinator in a SYSTEM_NOTE
    ended,           \* the result it took from the agent that signalled END
    reply            \* what it returned

vars == <<sessionStates, activeSessions, states, pc, op, key, coordinator,
          st, agent, note, ended, reply>>

callVars == <<op, key, coordinator>>
maps == <<sessionStates, activeSessions>>

Agents == Roles \cup {Primary}

SessionState ==
    [primary    : Calls \cup {None},          \* primaryAgent
     active     : Agents,                     \* activeAgent
     activeRole : Roles \cup {None},          \* activeSpecialistRole
     instances  : SUBSET Roles,               \* keys of specialistInstances
     briefings  : [Roles -> SUBSET Calls],    \* initial_contexts in each context
     pending    : Calls \cup {None}]          \* pendingSpecialistResult

Signals == {"none", "REQUEST", "END", "SIGNAL_ERROR"}

Outcomes == {"none", "answer", "threw", "noSpecialist", "noResult"}

Replies == [outcome : Outcomes, by : Agents \cup {None}, signal : Signals,
            role : Roles \cup {None}]

Results == [by : Agents \cup {None}, role : Roles \cup {None}]

PCs == {"idle", "creating", "ready", "turn", "started", "specialistTurn",
        "ended", "reporting", "endedByPrimary", "clearing", "closing", "done"}

TypeOK ==
    /\ sessionStates \in [Keys -> Calls \cup {None}]
    /\ activeSessions \in [SessionIds -> Calls \cup {None}]
    /\ states \in [Calls -> SessionState]
    /\ pc \in [Calls -> PCs]
    /\ op \in [Calls -> Ops \cup {"none"}]
    /\ key \in [Calls -> Keys \cup {None}]
    /\ coordinator \in [Calls -> Calls \cup {None}]
    /\ st \in [Calls -> Calls \cup {None}]
    /\ agent \in [Calls -> Agents \cup {None}]
    /\ note \in [Calls -> Calls \cup {None}]
    /\ ended \in [Calls -> Results]
    /\ reply \in [Calls -> Replies]

-----------------------------------------------------------------------------
NewState(p) ==
    [primary |-> p, active |-> Primary, activeRole |-> None, instances |-> {},
     briefings |-> [r \in Roles |-> {}], pending |-> None]

NoReply == [outcome |-> "none", by |-> None, signal |-> "none", role |-> None]

Init ==
    /\ sessionStates = [k \in Keys |-> None]
    /\ activeSessions = [i \in SessionIds |-> None]
    /\ states = [c \in Calls |-> NewState(None)]
    /\ pc = [c \in Calls |-> "idle"]
    /\ op = [c \in Calls |-> "none"]
    /\ key = [c \in Calls |-> None]
    /\ coordinator = [c \in Calls |-> None]
    /\ st = [c \in Calls |-> None]
    /\ agent = [c \in Calls |-> None]
    /\ note = [c \in Calls |-> None]
    /\ ended = [c \in Calls |-> [by |-> None, role |-> None]]
    /\ reply = [c \in Calls |-> NoReply]

Become(c, p) == pc' = [pc EXCEPT ![c] = p]

(* The application calls a method; MaxInFlight = 1 is an application that  *)
(* waits for each answer before the next call.                             *)
Invoke(c, o, k) ==
    /\ pc[c] = "idle" /\ o \in Ops
    /\ Cardinality({d \in Calls : pc[d] \notin {"idle", "done"}}) < MaxInFlight
    /\ op' = [op EXCEPT ![c] = o]
    /\ key' = [key EXCEPT ![c] = k]

Return(c, outcome, by, signal, role) ==
    /\ Become(c, "done")
    /\ reply' = [reply EXCEPT ![c] = [outcome |-> outcome, by |-> by,
                                      signal |-> signal, role |-> role]]

-----------------------------------------------------------------------------
(* getOrCreateSessionState, from processMessage and getOrCreateSession.    *)

(* The state exists: it is returned and the caller resumes after its await. *)
FindState(c, o, k) ==
    /\ o \in {"process", "open"}
    /\ sessionStates[k] # None
    /\ Invoke(c, o, k)
    /\ st' = [st EXCEPT ![c] = sessionStates[k]]
    /\ Become(c, "ready")
    /\ UNCHANGED <<maps, states, coordinator, agent, note, ended, reply>>

(* Mutant: the latest agent is kept in a field of the manager. *)
SharedAgent(id, c) ==
    IF \E i \in SessionIds : activeSessions[i] # None
    THEN activeSessions[CHOOSE i \in SessionIds : activeSessions[i] # None]
    ELSE c

(* ChatManager.getOrCreateSession called by c: the agent of the session, or *)
(* a new one.                                                              *)
SessionAgent(id, c) ==
    IF activeSessions[id] = None THEN c ELSE activeSessions[id]

(* The state does not exist: super.getOrCreateSession runs up to the await,  *)
(* finding the coordinator of the trimmed id or creating it.                 *)
GetCoordinator(c, o, k) ==
    /\ o \in {"process", "open"}
    /\ sessionStates[k] = None
    /\ Invoke(c, o, k)
    /\ LET id == Trim[k]
           primary == SessionAgent(id, c)
       IN  /\ activeSessions' = [activeSessions EXCEPT ![id] = primary]
           /\ coordinator' = [coordinator EXCEPT ![c] = primary]
    /\ Become(c, "creating")
    /\ UNCHANGED <<sessionStates, states, st, agent, note, ended, reply>>

(* After the await: the map is written without looking at it again. *)
CreateState(c) ==
    /\ pc[c] = "creating"
    /\ states' = [states EXCEPT ![c] = NewState(coordinator[c])]
    /\ sessionStates' = [sessionStates EXCEPT ![key[c]] = c]
    /\ st' = [st EXCEPT ![c] = c]
    /\ Become(c, "ready")
    /\ UNCHANGED <<activeSessions, callVars, agent, note, ended, reply>>

(* getOrCreateSession returns the coordinator. *)
ReturnSession(c) ==
    /\ pc[c] = "ready" /\ op[c] = "open"
    /\ Return(c, "answer", Primary, "none", None)
    /\ UNCHANGED <<maps, states, callVars, st, agent, note, ended>>

-----------------------------------------------------------------------------
(* processMessage, once it has its state.                                  *)

(* Mutant: the result is cleared only after the coordinator's turn. *)
ResultStaysPending(s) == s

(* The pending result is cleared in the same piece of code that reads it. *)
TakePending(s) == [s EXCEPT !.pending = None]

(* A result is pending: it is cleared and goes to the coordinator with the *)
(* user's message.                                                         *)
RouteWithResult(c) ==
    LET s == st[c] IN
    /\ pc[c] = "ready" /\ op[c] = "process"
    /\ states[s].pending # None
    /\ note' = [note EXCEPT ![c] = states[s].pending]
    /\ states' = [states EXCEPT ![s] = TakePending(@)]
    /\ agent' = [agent EXCEPT ![c] = Primary]
    /\ Become(c, "turn")
    /\ UNCHANGED <<maps, callVars, st, ended, reply>>

(* Otherwise the message goes to the active agent. *)
RouteToActive(c) ==
    LET s == st[c] IN
    /\ pc[c] = "ready" /\ op[c] = "process"
    /\ states[s].pending = None
    /\ agent' = [agent EXCEPT ![c] = states[s].active]
    /\ Become(c, "turn")
    /\ UNCHANGED <<maps, states, callVars, st, note, ended, reply>>

Tools(a) == IF a = Primary THEN PrimaryTools ELSE SpecialistTools

(* The signals an agent's tools can put in its answer (external: the model *)
(* chooses the tool and its arguments; tools/subconversation-tools.js      *)
(* builds the signal, or SIGNAL_ERROR when an argument is missing).        *)
Answers(a) ==
    {[signal |-> "none", role |-> None]}
    \cup {x \in {[signal |-> "SIGNAL_ERROR", role |-> None]} : Tools(a) # {}}
    \cup {x \in [signal : {"REQUEST"}, role : Roles] : "request" \in Tools(a)}
    \cup {x \in {[signal |-> "END", role |-> None]} : "end" \in Tools(a)}

(* The agent answered without a signal, or with SIGNAL_ERROR. *)
ReturnAnswer(c) ==
    /\ pc[c] = "turn"
    /\ \E x \in Answers(agent[c]) :
          /\ x.signal \in {"none", "SIGNAL_ERROR"}
          /\ Return(c, "answer", agent[c], x.signal, x.role)
    /\ UNCHANGED <<maps, states, callVars, st, agent, note, ended>>

(* processUserMessage rejected: the catch of processMessage answers. *)
TurnThrows(c) ==
    /\ pc[c] \in {"turn", "specialistTurn", "reporting"}
    /\ Return(c, "threw", agent[c], "none", None)
    /\ UNCHANGED <<maps, states, callVars, st, agent, note, ended>>

(* The context of the specialist for role grows by the initial context of c. *)
Briefed(briefings, role, c) ==
    [briefings EXCEPT ![role] = @ \cup {c}]

(* Mutants: the new specialist is not stored; an instance used again is not *)
(* briefed; an instance used again is not activated.                       *)
StartedUnstored(s, role, c) ==
    IF role \in s.instances \cup Registered
    THEN [s EXCEPT !.active = role, !.activeRole = role]
    ELSE [s EXCEPT !.active = Primary, !.activeRole = None]

BriefedWhenNew(s, role, c) ==
    IF role \in s.instances
    THEN [s EXCEPT !.active = role, !.activeRole = role]
    ELSE IF role \in Registered
    THEN [s EXCEPT !.instances = @ \cup {role},
                   !.briefings = Briefed(@, role, c),
                   !.active = role,
                   !.activeRole = role]
    ELSE s

ActivatedWhenNew(s, role, c) ==
    IF role \in Registered \ s.instances
    THEN [s EXCEPT !.instances = @ \cup {role},
                   !.active = role,
                   !.activeRole = role]
    ELSE s

(* _startSubConversation on state s for a request of call c: the instance  *)
(* is created on first use, its context grows by the initial context, and  *)
(* it becomes active; a role the registry does not know reverts control to *)
(* the coordinator.                                                        *)
Started(s, role, c) ==
    IF role \in s.instances \cup Registered
    THEN [s EXCEPT !.instances = @ \cup {role},
                   !.briefings = Briefed(@, role, c),
                   !.active = role,
                   !.activeRole = role]
    ELSE [s EXCEPT !.active = Primary, !.activeRole = None]

(* The details of the signal, kept while the call acts on it. *)
Asked(r, role) == [r EXCEPT !.signal = "REQUEST", !.role = role]

(* REQUEST_SUB_CONVERSATION, up to the await of _startSubConversation. *)
RequestSubConversation(c) ==
    LET s == st[c] IN
    /\ pc[c] = "turn"
    /\ \E x \in Answers(agent[c]) :
          /\ x.signal = "REQUEST"
          /\ states' = [states EXCEPT ![s] = Started(@, x.role, c)]
          /\ reply' = [reply EXCEPT ![c] = Asked(@, x.role)]
    /\ Become(c, "started")
    /\ UNCHANGED <<maps, callVars, st, agent, note, ended>>

(* After the await the active agent is read again and gets the original    *)
(* message; if it is the coordinator, the fallback branch fails on an      *)
(* undeclared variable and the catch answers.                              *)
HandOver(c) ==
    LET s == st[c] IN
    /\ pc[c] = "started"
    /\ states[s].active # Primary
    /\ agent' = [agent EXCEPT ![c] = states[s].active]
    /\ Become(c, "specialistTurn")
    /\ UNCHANGED <<maps, states, callVars, st, note, ended, reply>>

HandOverFails(c) ==
    /\ pc[c] = "started"
    /\ states[st[c]].active = Primary
    /\ Return(c, "noSpecialist", None, "REQUEST", reply[c].role)
    /\ UNCHANGED <<maps, states, callVars, st, agent, note, ended>>

(* Mutants: the role is read after it is reset; the result is not stored.  *)
RoleAfterReset(s) == None
EndedForgetting(s, c) == [s EXCEPT !.active = Primary, !.activeRole = None]

(* _endSubConversation on state s by call c: the role kept in the result,  *)
(* and the state afterwards.                                               *)
EndedRole(s) == s.activeRole


Ended(s, c) ==
    [s EXCEPT !.pending = c, !.active = Primary, !.activeRole = None]

(* END_SUB_CONVERSATION, up to the await of _endSubConversation.  The test  *)
(* is on the agent that answered: a specialist's result is reported at     *)
(* once, one of the coordinator's own waits for the next message.          *)
EndSubConversation(c) ==
    LET s == st[c] IN
    /\ pc[c] = "turn"
    /\ \E x \in Answers(agent[c]) : x.signal = "END"
    /\ ended' = [ended EXCEPT ![c] = [by |-> agent[c],
                                      role |-> EndedRole(states[s])]]
    /\ states' = [states EXCEPT ![s] = Ended(@, c)]
    /\ Become(c, IF agent[c] = Primary THEN "endedByPrimary" ELSE "ended")
    /\ UNCHANGED <<maps, callVars, st, agent, note, reply>>

(* After the await: the pending result is read, cleared and reported to    *)
(* the coordinator with the original message.                              *)
Report(c) ==
    LET s == st[c] IN
    /\ pc[c] = "ended"
    /\ states[s].pending # None
    /\ note' = [note EXCEPT ![c] = states[s].pending]
    /\ states' = [states EXCEPT ![s] = TakePending(@)]
    /\ agent' = [agent EXCEPT ![c] = Primary]
    /\ Become(c, "reporting")
    /\ UNCHANGED <<maps, callVars, st, ended, reply>>

ReportFails(c) ==
    /\ pc[c] = "ended"
    /\ states[st[c]].pending = None
    /\ Return(c, "noResult", None, "none", None)
    /\ UNCHANGED <<maps, states, callVars, st, agent, note, ended>>

(* The answer of the agent called in second place is returned as it is,    *)
(* whatever signal it carries; so is the coordinator's own END.            *)
ReturnSecondAnswer(c) ==
    /\ pc[c] \in {"specialistTurn", "reporting"}
    /\ \E x \in Answers(agent[c]) :
          Return(c, "answer", agent[c], x.signal, x.role)
    /\ UNCHANGED <<maps, states, callVars, st, agent, note, ended>>

ReturnPrimaryEnd(c) ==
    /\ pc[c] = "endedByPrimary"
    /\ Return(c, "answer", Primary, "END", None)
    /\ UNCHANGED <<maps, states, callVars, st, agent, note, ended>>

-----------------------------------------------------------------------------
(* The other methods.                                                      *)

(* clearSessionHistory clears the agents' histories one await after the    *)
(* other (their content is not part of this module), then the pending      *)
(* result; without a state it only touches the shared memories.            *)
ClearSessionHistory(c, k) ==
    /\ Invoke(c, "clear", k)
    /\ st' = [st EXCEPT ![c] = sessionStates[k]]
    /\ Become(c, "clearing")
    /\ UNCHANGED <<maps, states, coordinator, agent, note, ended, reply>>

HistoryCleared(c) ==
    /\ pc[c] = "clearing"
    /\ states' = IF st[c] = None THEN states
                 ELSE [states EXCEPT ![st[c]] = TakePending(@)]
    /\ Return(c, "answer", None, "none", None)
    /\ UNCHANGED <<maps, callVars, st, agent, note, ended>>

(* endSession is synchronous: the state goes by the key as given, the      *)
(* coordinator by the trimmed id.                                          *)
EndSession(k) ==
    /\ "endSession" \in Ops
    /\ Cardinality({d \in Calls : pc[d] \notin {"idle", "done"}}) < MaxInFlight
    /\ sessionStates' = [sessionStates EXCEPT ![k] = None]
    /\ activeSessions' = [activeSessions EXCEPT ![Trim[k]] = None]
    /\ UNCHANGED <<states, pc, callVars, st, agent, note, ended, reply>>

(* shutdown forgets the states, awaits the closing of the shared memories, *)
(* then forgets the coordinators.                                          *)
Shutdown(c) ==
    /\ Invoke(c, "shutdown", None)
    /\ sessionStates' = [k \in Keys |-> None]
    /\ Become(c, "closing")
    /\ UNCHANGED <<activeSessions, states, coordinator, st, agent, note,
                   ended, reply>>

MemoriesClosed(c) ==
    /\ pc[c] = "closing"
    /\ activeSessions' = [i \in SessionIds |-> None]
    /\ Return(c, "answer", None, "none", None)
    /\ UNCHANGED <<sessionStates, states, callVars, st, agent, note, ended>>

-----------------------------------------------------------------------------
Lookup(c) ==
    \/ \E o \in {"process", "open"}, k \in Keys :
          FindState(c, o, k) \/ GetCoordinator(c, o, k)
    \/ CreateState(c)
    \/ ReturnSession(c)

Process(c) ==
    \/ RouteWithResult(c)
    \/ RouteToActive(c)
    \/ ReturnAnswer(c)
    \/ TurnThrows(c)
    \/ RequestSubConversation(c)
    \/ HandOver(c)
    \/ HandOverFails(c)
    \/ EndSubConversation(c)
    \/ Report(c)
    \/ ReportFails(c)
    \/ ReturnSecondAnswer(c)
    \/ ReturnPrimaryEnd(c)

Maintain(c) ==
    \/ \E k \in Keys : ClearSessionHistory(c, k)
    \/ HistoryCleared(c)
    \/ Shutdown(c)
    \/ MemoriesClosed(c)

Next ==
    \/ \E c \in Calls : Lookup(c) \/ Process(c) \/ Maintain(c)
    \/ \E k \in Keys : EndSession(k)

Spec == Init /\ [][Next]_vars

(* The event loop runs every continuation of a call in flight, and every    *)
(* agent's turn settles; nothing makes the application call again.         *)
Continue(c) == pc[c] # "idle" /\ (Lookup(c) \/ Process(c))

FairSpec == Spec /\ \A c \in Calls : WF_vars(Continue(c))

-----------------------------------------------------------------------------
(* What holds however the calls interleave.                                *)

(* A specialist's result is handed to the coordinator at most once: the    *)
(* pending result is cleared before the first await after it is read, so   *)
(* neither a second call of the session nor the call that stored it can    *)
(* report it again.                                                        *)
ResultReportedOnce ==
    \A c, d \in Calls : c # d /\ note[c] = note[d] => note[c] = None

(* Sessions are isolated: a call works on a state, a coordinator and a     *)
(* specialist result that come from calls for its own session id.          *)
SessionIsolation ==
    \A c \in Calls : \A x \in {st[c], coordinator[c], note[c]} :
        x # None => Trim[key[x]] = Trim[key[c]]

(* The active agent is the coordinator or a specialist the session has     *)
(* instantiated, it is the one activeSpecialistRole names, and no message  *)
(* is ever given to a specialist that does not exist.                      *)
ActiveAgentExists ==
    /\ \A s \in Calls :
          /\ states[s].active \in states[s].instances \cup {Primary}
          /\ states[s].activeRole =
                (IF states[s].active = Primary THEN None ELSE states[s].active)
    /\ \A c \in Calls : agent[c] \in Roles =>
          st[c] # None /\ agent[c] \in states[st[c]].instances

(* The inductive strengthening of the three invariants above. *)

EndedPCs == {"ended", "reporting", "endedByPrimary", "done"}

(* A call that has its state has one, and a state somebody refers to has   *)
(* been created.                                                           *)
RefsOK ==
    /\ \A c \in Calls : pc[c] \in {"ready", "turn", "started", "specialistTurn",
                                   "ended", "reporting"} => st[c] # None
    /\ \A c \in Calls : st[c] # None => pc[st[c]] \notin {"idle", "creating"}
    /\ \A k \in Keys : sessionStates[k] # None =>
          pc[sessionStates[k]] \notin {"idle", "creating"}
    /\ \A c \in Calls : pc[c] = "creating" => coordinator[c] # None
    /\ \A c \in Calls : pc[c] \in {"idle", "creating"} =>
          states[c].pending = None

(* A pending or reported result belongs to a call that has ended one, a    *)
(* pending result has not been reported, and no two states hold it.        *)
ResultsOK ==
    /\ \A c \in Calls : note[c] # None => pc[note[c]] \in EndedPCs
    /\ \A s \in Calls : states[s].pending # None =>
          /\ pc[states[s].pending] \in EndedPCs
          /\ \A c \in Calls : note[c] # states[s].pending
    /\ \A s, t \in Calls :
          s # t /\ states[s].pending = states[t].pending
             => states[s].pending = None
    /\ ResultReportedOnce

(* What the maps and the states refer to was made for their session id. *)
OwnersOK ==
    /\ \A c \in Calls : pc[c] \in {"creating", "ready", "turn", "started"}
          => key[c] \in Keys
    /\ \A k \in Keys : sessionStates[k] # None =>
          Trim[key[sessionStates[k]]] = Trim[k]
    /\ \A i \in SessionIds : activeSessions[i] # None =>
          /\ pc[activeSessions[i]] # "idle"
          /\ Trim[key[activeSessions[i]]] = i
    /\ \A c \in Calls : coordinator[c] # None => pc[coordinator[c]] # "idle"
    /\ \A c \in Calls : pc[c] = "idle" => coordinator[c] = None
    /\ \A c \in Calls : pc[c] \in {"idle", "creating"} =>
          st[c] = None /\ note[c] = None
    /\ \A s \in Calls : states[s].pending # None =>
          Trim[key[states[s].pending]] = Trim[key[s]]
    /\ SessionIsolation

IInv == TypeOK /\ RefsOK /\ ResultsOK /\ OwnersOK /\ ActiveAgentExists

-----------------------------------------------------------------------------
(* What holds for an application that waits for each answer before its     *)
(* next call (MaxInFlight = 1) and clears no history.                      *)

(* No result is lost: one that was taken from an agent is on its way to    *)
(* the coordinator, pending, or reported.                                  *)
NoResultLost ==
    \A c \in Calls : ended[c].by # None =>
        \/ states[st[c]].pending = c
        \/ \E d \in Calls : note[d] = c

(* The result the coordinator is shown names the specialist that ended the *)
(* sub-conversation (activeSpecialistRole is read before it is reset).     *)
ResultNamesItsSpecialist ==
    \A c \in Calls : ended[c].by \in Roles => ended[c].role = ended[c].by

(* The specialist that gets the original message of a delegation is the    *)
(* one that was asked for, and has that delegation's initial context, the  *)
(* first time and when its instance is used again.                         *)
SpecialistIsBriefed ==
    \A c \in Calls : pc[c] = "specialistTurn" =>
        /\ agent[c] = reply[c].role
        /\ c \in states[st[c]].briefings[agent[c]]

(* The fallback branch of a delegation is reached only for a role the      *)
(* registry does not know, and END always finds the result it has stored.  *)
FailuresAreJustified ==
    \A c \in Calls :
        /\ reply[c].outcome = "noSpecialist" => reply[c].role \notin Registered
        /\ reply[c].outcome # "noResult"

(* Every result a specialist ends with does reach the coordinator.         *)
ResultReachesCoordinator ==
    \A c \in Calls : ended[c].by \in Roles ~> \E d \in Calls : note[d] = c

-----------------------------------------------------------------------------
(* What comments and documents say, and the code does not do.              *)

(* Comment at routing-chat-manager.js:191-192: an END in the first answer  *)
(* of a new specialist is handled at once or in the next call, so that     *)
(* specialist is not given the next message.                               *)
ImmediateEndIsHandled ==
    \A c, d \in Calls :
        (/\ pc[c] = "done" /\ reply[c].signal = "END" /\ reply[c].by \in Roles
         /\ pc[d] = "turn" /\ st[d] = st[c])
        => agent[d] # reply[c].by
=============================================================================
