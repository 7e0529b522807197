---------------------- MODULE RoutingChatManager_proofs ----------------------
(***************************************************************************)
(* Proofs about RoutingChatManager for every number of calls, session ids  *)
(* and roles: first whatever number of calls is in flight, then for an     *)
(* application that waits for each answer before its next call.            *)
(***************************************************************************)
EXTENDS RoutingChatManager, FiniteSetTheorems, TLAPS

(* A fresh session state, the state after a delegation, after its end and  *)
(* after its result was taken are session states.                          *)
LEMMA StateTypes ==
    ASSUME ConstantsAssumption, NEW s \in SessionState, NEW c \in Calls
    PROVE  /\ Ended(s, c) \in SessionState
           /\ TakePending(s) \in SessionState
           /\ EndedRole(s) \in Roles \cup {None}
<1>1. Ended(s, c) \in SessionState
  BY DEF Ended, SessionState, Agents
<1>2. TakePending(s) \in SessionState
  BY DEF TakePending, SessionState
<1>3. EndedRole(s) \in Roles \cup {None}
  BY DEF EndedRole, SessionState
<1>4. QED
  BY <1>1, <1>2, <1>3

LEMMA StartedType ==
    ASSUME ConstantsAssumption, NEW s \in SessionState, NEW c \in Calls,
           NEW role \in Roles
    PROVE  Started(s, role, c) \in SessionState
<1>1. Briefed(s.briefings, role, c) \in [Roles -> SUBSET Calls]
  BY DEF SessionState, Briefed
<1>2. QED
  BY <1>1 DEF Started, SessionState, Agents

(* The value a call returns is a reply. *)
LEMMA ReturnType ==
    ASSUME TypeOK, NEW c \in Calls, NEW outcome \in Outcomes,
           NEW by \in Agents \cup {None}, NEW signal \in Signals,
           NEW role \in Roles \cup {None},
           Return(c, outcome, by, signal, role)
    PROVE  /\ pc' \in [Calls -> PCs]
           /\ reply' \in [Calls -> Replies]
BY DEF TypeOK, Return, Become, PCs, Replies

LEMMA AskedType ==
    ASSUME NEW r \in Replies, NEW role \in Roles
    PROVE  Asked(r, role) \in Replies
BY DEF Asked, Replies, Signals

(* What an agent answers with. *)
LEMMA AnswerTypes ==
    ASSUME NEW a, NEW x \in Answers(a)
    PROVE  /\ x.signal \in Signals
           /\ x.role \in Roles \cup {None}
           /\ x.signal = "REQUEST" => x.role \in Roles
BY DEF Answers, Signals

-----------------------------------------------------------------------------
(* Type correctness. *)

LEMMA TypeInit == ConstantsAssumption /\ Init => TypeOK
<1> SUFFICES ASSUME ConstantsAssumption, Init PROVE TypeOK
  OBVIOUS
<1>1. NewState(None) \in SessionState
  BY DEF NewState, SessionState, Agents
<1>2. states \in [Calls -> SessionState]
  BY <1>1 DEF Init
<1>3. reply \in [Calls -> Replies]
  BY DEF Init, Replies, NoReply, Outcomes, Signals
<1>4. QED
  BY <1>2, <1>3 DEF Init, TypeOK, PCs, Results

(* The actions on one state s, seen from the type of the whole store. *)
LEMMA StateUpdateType ==
    ASSUME TypeOK, NEW s, NEW x \in SessionState
    PROVE  [states EXCEPT ![s] = x] \in [Calls -> SessionState]
BY DEF TypeOK

LEMMA TypeStep == ConstantsAssumption /\ TypeOK /\ RefsOK /\ [Next]_vars => TypeOK'
<1> SUFFICES ASSUME ConstantsAssumption, TypeOK, RefsOK, [Next]_vars
             PROVE  TypeOK'
  OBVIOUS
<1> USE DEF ConstantsAssumption
<1>1. ASSUME NEW c \in Calls, NEW o \in {"process", "open"}, NEW k \in Keys,
             FindState(c, o, k)
      PROVE  TypeOK'
  BY <1>1 DEF TypeOK, FindState, Invoke, Become, PCs, maps
<1>2. ASSUME NEW c \in Calls, NEW o \in {"process", "open"}, NEW k \in Keys,
             GetCoordinator(c, o, k)
      PROVE  TypeOK'
  <2>1. SessionAgent(Trim[k], c) \in Calls
    BY DEF TypeOK, SessionAgent
  <2>2. QED
    BY <1>2, <2>1 DEF TypeOK, GetCoordinator, Invoke, Become, PCs
<1>3. ASSUME NEW c \in Calls, CreateState(c) PROVE TypeOK'
  <2>1. NewState(coordinator[c]) \in SessionState
    BY DEF TypeOK, NewState, SessionState, Agents
  <2>2. states' \in [Calls -> SessionState]
    BY <1>3, <2>1, StateUpdateType DEF CreateState
  <2>3. QED
    BY <1>3, <2>2 DEF TypeOK, CreateState, Become, PCs, callVars
<1>4. ASSUME NEW c \in Calls, ReturnSession(c) PROVE TypeOK'
  <2>1. pc' \in [Calls -> PCs] /\ reply' \in [Calls -> Replies]
    BY <1>4, ReturnType DEF ReturnSession, Outcomes, Signals, Agents
  <2>2. QED
    BY <1>4, <2>1 DEF TypeOK, ReturnSession, maps, callVars
<1>5. ASSUME NEW c \in Calls, RouteWithResult(c) PROVE TypeOK'
  <2>1. st[c] \in Calls /\ states[st[c]] \in SessionState
    BY <1>5 DEF RouteWithResult, RefsOK, TypeOK
  <2>2. states' \in [Calls -> SessionState]
    BY <1>5, <2>1, StateTypes, StateUpdateType DEF RouteWithResult, TypeOK
  <2>3. states[st[c]].pending \in Calls \cup {None}
    BY <2>1 DEF SessionState
  <2>4. QED
    BY <1>5, <2>2, <2>3
    DEF TypeOK, RouteWithResult, Become, PCs, maps, callVars, Agents
<1>6. ASSUME NEW c \in Calls, RouteToActive(c) PROVE TypeOK'
  <2>1. st[c] \in Calls /\ states[st[c]].active \in Agents
    BY <1>6 DEF RouteToActive, RefsOK, TypeOK, SessionState
  <2>2. QED
    BY <1>6, <2>1 DEF TypeOK, RouteToActive, Become, PCs, maps, callVars
<1>7. ASSUME NEW c \in Calls, ReturnAnswer(c) PROVE TypeOK'
  <2>1. PICK x \in Answers(agent[c]) :
           Return(c, "answer", agent[c], x.signal, x.role)
    BY <1>7 DEF ReturnAnswer
  <2>2. pc' \in [Calls -> PCs] /\ reply' \in [Calls -> Replies]
    BY <2>1, ReturnType, AnswerTypes DEF Outcomes, TypeOK
  <2>3. QED
    BY <1>7, <2>2 DEF TypeOK, ReturnAnswer, maps, callVars
<1>8. ASSUME NEW c \in Calls, TurnThrows(c) PROVE TypeOK'
  <2>1. pc' \in [Calls -> PCs] /\ reply' \in [Calls -> Replies]
    BY <1>8, ReturnType DEF TurnThrows, Outcomes, Signals, TypeOK
  <2>2. QED
    BY <1>8, <2>1 DEF TypeOK, TurnThrows, maps, callVars
<1>9. ASSUME NEW c \in Calls, RequestSubConversation(c) PROVE TypeOK'
  <2>1. PICK x \in Answers(agent[c]) :
           /\ x.signal = "REQUEST"
           /\ states' = [states EXCEPT ![st[c]] = Started(@, x.role, c)]
           /\ reply' = [reply EXCEPT ![c] = Asked(@, x.role)]
    BY <1>9 DEF RequestSubConversation
  <2>2. x.role \in Roles
    BY <2>1, AnswerTypes
  <2>3. st[c] \in Calls /\ states[st[c]] \in SessionState
    BY <1>9 DEF RequestSubConversation, RefsOK, TypeOK
  <2>4. states' \in [Calls -> SessionState]
    BY <2>1, <2>2, <2>3, StartedType, StateUpdateType DEF TypeOK
  <2>5. reply' \in [Calls -> Replies]
    <3>1. Asked(reply[c], x.role) \in Replies
      BY <2>2, AskedType DEF TypeOK
    <3>2. QED
      BY <2>1, <3>1 DEF TypeOK
  <2>6. QED
    BY <1>9, <2>4, <2>5
    DEF TypeOK, RequestSubConversation, Become, PCs, maps, callVars
<1>10. ASSUME NEW c \in Calls, HandOver(c) PROVE TypeOK'
  <2>1. st[c] \in Calls /\ states[st[c]].active \in Agents
    BY <1>10 DEF HandOver, RefsOK, TypeOK, SessionState
  <2>2. QED
    BY <1>10, <2>1 DEF TypeOK, HandOver, Become, PCs, maps, callVars
<1>11. ASSUME NEW c \in Calls, HandOverFails(c) PROVE TypeOK'
  <2>1. reply[c].role \in Roles \cup {None}
    BY DEF TypeOK, Replies
  <2>2. pc' \in [Calls -> PCs] /\ reply' \in [Calls -> Replies]
    BY <1>11, <2>1, ReturnType DEF HandOverFails, Outcomes, Signals
  <2>3. QED
    BY <1>11, <2>2 DEF TypeOK, HandOverFails, maps, callVars
<1>12. ASSUME NEW c \in Calls, EndSubConversation(c) PROVE TypeOK'
  <2>1. st[c] \in Calls /\ states[st[c]] \in SessionState
    BY <1>12 DEF EndSubConversation, RefsOK, TypeOK
  <2>2. states' \in [Calls -> SessionState]
    BY <1>12, <2>1, StateTypes, StateUpdateType DEF EndSubConversation, TypeOK
  <2>3. EndedRole(states[st[c]]) \in Roles \cup {None}
    BY <2>1 DEF EndedRole, SessionState
  <2>4. ended' \in [Calls -> Results]
    BY <1>12, <2>3 DEF EndSubConversation, TypeOK, Results
  <2>5. QED
    BY <1>12, <2>2, <2>4
    DEF TypeOK, EndSubConversation, Become, PCs, maps, callVars
<1>13. ASSUME NEW c \in Calls, Report(c) PROVE TypeOK'
  <2>1. st[c] \in Calls /\ states[st[c]] \in SessionState
    BY <1>13 DEF Report, RefsOK, TypeOK
  <2>2. states' \in [Calls -> SessionState]
    BY <1>13, <2>1, StateTypes, StateUpdateType DEF Report, TypeOK
  <2>3. states[st[c]].pending \in Calls \cup {None}
    BY <2>1 DEF SessionState
  <2>4. QED
    BY <1>13, <2>2, <2>3
    DEF TypeOK, Report, Become, PCs, maps, callVars, Agents
<1>14. ASSUME NEW c \in Calls, ReportFails(c) PROVE TypeOK'
  <2>1. pc' \in [Calls -> PCs] /\ reply' \in [Calls -> Replies]
    BY <1>14, ReturnType DEF ReportFails, Outcomes, Signals
  <2>2. QED
    BY <1>14, <2>1 DEF TypeOK, ReportFails, maps, callVars
<1>15. ASSUME NEW c \in Calls, ReturnSecondAnswer(c) PROVE TypeOK'
  <2>1. PICK x \in Answers(agent[c]) :
           Return(c, "answer", agent[c], x.signal, x.role)
    BY <1>15 DEF ReturnSecondAnswer
  <2>2. pc' \in [Calls -> PCs] /\ reply' \in [Calls -> Replies]
    BY <2>1, ReturnType, AnswerTypes DEF Outcomes, TypeOK
  <2>3. QED
    BY <1>15, <2>2 DEF TypeOK, ReturnSecondAnswer, maps, callVars
<1>16. ASSUME NEW c \in Calls, ReturnPrimaryEnd(c) PROVE TypeOK'
  <2>1. pc' \in [Calls -> PCs] /\ reply' \in [Calls -> Replies]
    BY <1>16, ReturnType DEF ReturnPrimaryEnd, Outcomes, Signals, Agents
  <2>2. QED
    BY <1>16, <2>1 DEF TypeOK, ReturnPrimaryEnd, maps, callVars
<1>17. ASSUME NEW c \in Calls, NEW k \in Keys, ClearSessionHistory(c, k)
       PROVE  TypeOK'
  BY <1>17 DEF TypeOK, ClearSessionHistory, Invoke, Become, PCs, maps
<1>18. ASSUME NEW c \in Calls, HistoryCleared(c) PROVE TypeOK'
  <2>1. pc' \in [Calls -> PCs] /\ reply' \in [Calls -> Replies]
    BY <1>18, ReturnType DEF HistoryCleared, Outcomes, Signals
  <2>2. states' \in [Calls -> SessionState]
    BY <1>18, StateTypes, StateUpdateType DEF HistoryCleared, TypeOK
  <2>3. QED
    BY <1>18, <2>1, <2>2 DEF TypeOK, HistoryCleared, maps, callVars
<1>19. ASSUME NEW c \in Calls, Shutdown(c) PROVE TypeOK'
  BY <1>19 DEF TypeOK, Shutdown, Invoke, Become, PCs
<1>20. ASSUME NEW c \in Calls, MemoriesClosed(c) PROVE TypeOK'
  <2>1. pc' \in [Calls -> PCs] /\ reply' \in [Calls -> Replies]
    BY <1>20, ReturnType DEF MemoriesClosed, Outcomes, Signals
  <2>2. QED
    BY <1>20, <2>1 DEF TypeOK, MemoriesClosed, callVars
<1>21. ASSUME NEW k \in Keys, EndSession(k) PROVE TypeOK'
  BY <1>21 DEF TypeOK, EndSession, callVars
<1>22. CASE UNCHANGED vars
  BY <1>22 DEF TypeOK, vars
<1>23. QED
  BY <1>1, <1>2, <1>3, <1>4, <1>5, <1>6, <1>7, <1>8, <1>9, <1>10, <1>11,
     <1>12, <1>13, <1>14, <1>15, <1>16, <1>17, <1>18, <1>19, <1>20, <1>21,
     <1>22 DEF Next, Lookup, Process, Maintain

-----------------------------------------------------------------------------
(* References, results and control: the other parts of the invariant.      *)

(* What the operations on a session state do to its fields. *)
LEMMA StartedFields ==
    ASSUME ConstantsAssumption, NEW s \in SessionState, NEW c \in Calls,
           NEW role \in Roles
    PROVE  /\ Started(s, role, c).pending = s.pending
           /\ s.instances \subseteq Started(s, role, c).instances
           /\ \/ /\ Started(s, role, c).active = role
                 /\ Started(s, role, c).activeRole = role
                 /\ role \in Started(s, role, c).instances
              \/ /\ Started(s, role, c).active = Primary
                 /\ Started(s, role, c).activeRole = None
BY DEF Started, SessionState

LEMMA EndedFields ==
    ASSUME NEW s \in SessionState, NEW c \in Calls
    PROVE  /\ Ended(s, c).pending = c
           /\ Ended(s, c).active = Primary
           /\ Ended(s, c).activeRole = None
           /\ Ended(s, c).instances = s.instances
BY DEF Ended, SessionState

LEMMA TakenFields ==
    ASSUME NEW s \in SessionState
    PROVE  /\ TakePending(s).pending = None
           /\ TakePending(s).active = s.active
           /\ TakePending(s).activeRole = s.activeRole
           /\ TakePending(s).instances = s.instances
BY DEF TakePending, SessionState

(* The same, for the store: the pending result of state s is taken, ...     *)
LEMMA TakeEffect ==
    ASSUME ConstantsAssumption, TypeOK, NEW s \in Calls,
           states' = [states EXCEPT ![s] = TakePending(@)]
    PROVE  /\ states'[s].pending = None
           /\ \A t \in Calls \ {s} : states'[t].pending = states[t].pending
           /\ \A t \in Calls : /\ states'[t].active = states[t].active
                               /\ states'[t].activeRole = states[t].activeRole
                               /\ states'[t].instances = states[t].instances
<1>1. states[s] \in SessionState
  BY DEF TypeOK
<1>2. states'[s] = TakePending(states[s])
  BY DEF TypeOK
<1>3. \A t \in Calls \ {s} : states'[t] = states[t]
  BY DEF TypeOK
<1>4. QED
  BY <1>1, <1>2, <1>3, TakenFields

(* ... a delegation to role starts in s, ... *)
LEMMA StartEffect ==
    ASSUME ConstantsAssumption, TypeOK, NEW s \in Calls, NEW c \in Calls,
           NEW role \in Roles,
           states' = [states EXCEPT ![s] = Started(@, role, c)]
    PROVE  /\ \A t \in Calls : /\ states'[t].pending = states[t].pending
                               /\ states[t].instances \subseteq states'[t].instances
           /\ \A t \in Calls \ {s} : states'[t] = states[t]
           /\ \/ /\ states'[s].active = role
                 /\ states'[s].activeRole = role
                 /\ role \in states'[s].instances
              \/ /\ states'[s].active = Primary
                 /\ states'[s].activeRole = None
<1>1. states[s] \in SessionState
  BY DEF TypeOK
<1>2. states'[s] = Started(states[s], role, c)
  BY DEF TypeOK
<1>3. \A t \in Calls \ {s} : states'[t] = states[t]
  BY DEF TypeOK
<1>4. QED
  BY <1>1, <1>2, <1>3, StartedFields

(* ... call c ends the one of s, ... *)
LEMMA EndEffect ==
    ASSUME ConstantsAssumption, TypeOK, NEW s \in Calls, NEW c \in Calls,
           states' = [states EXCEPT ![s] = Ended(@, c)]
    PROVE  /\ states'[s].pending = c
           /\ states'[s].active = Primary
           /\ states'[s].activeRole = None
           /\ \A t \in Calls : states'[t].instances = states[t].instances
           /\ \A t \in Calls \ {s} : states'[t] = states[t]
<1>1. states[s] \in SessionState
  BY DEF TypeOK
<1>2. states'[s] = Ended(states[s], c)
  BY DEF TypeOK
<1>3. \A t \in Calls \ {s} : states'[t] = states[t]
  BY DEF TypeOK
<1>4. QED
  BY <1>1, <1>2, <1>3, EndedFields

(* ... or state c is created. *)
LEMMA CreateEffect ==
    ASSUME ConstantsAssumption, TypeOK, NEW c \in Calls,
           NEW p \in Calls \cup {None},
           states' = [states EXCEPT ![c] = NewState(p)]
    PROVE  /\ states'[c].pending = None
           /\ states'[c].active = Primary
           /\ states'[c].activeRole = None
           /\ \A t \in Calls \ {c} : states'[t] = states[t]
<1>1. states'[c] = NewState(p)
  BY DEF TypeOK
<1>2. \A t \in Calls \ {c} : states'[t] = states[t]
  BY DEF TypeOK
<1>3. QED
  BY <1>1, <1>2 DEF NewState

(* An idle call has made nothing anybody refers to. *)
LEMMA IdleUnreferenced ==
    ASSUME ConstantsAssumption, IInv, NEW c \in Calls, pc[c] = "idle"
    PROVE  /\ \A d \in Calls : /\ st[d] # c
                               /\ coordinator[d] # c
                               /\ note[d] # c
                               /\ states[d].pending # c
           /\ \A k \in Keys : sessionStates[k] # c
           /\ \A i \in SessionIds : activeSessions[i] # c
           /\ st[c] = None /\ coordinator[c] = None /\ note[c] = None
           /\ states[c].pending = None
           /\ agent[c] \notin Roles
<1>1. \A d \in Calls : st[d] # c /\ coordinator[d] # c
  BY DEF ConstantsAssumption, IInv, TypeOK, RefsOK, OwnersOK
<1>2. \A d \in Calls : note[d] # c /\ states[d].pending # c
  BY DEF ConstantsAssumption, IInv, TypeOK, ResultsOK, EndedPCs
<1>3. \A k \in Keys : sessionStates[k] # c
  BY DEF ConstantsAssumption, IInv, RefsOK
<1>4. \A i \in SessionIds : activeSessions[i] # c
  BY DEF ConstantsAssumption, IInv, OwnersOK
<1>5. QED
  BY <1>1, <1>2, <1>3, <1>4 DEF IInv, RefsOK, OwnersOK, ActiveAgentExists

(* Every state referred to exists. *)
LEMMA RefsStep ==
    ConstantsAssumption /\ IInv /\ [Next]_vars => RefsOK'
<1> SUFFICES ASSUME ConstantsAssumption, IInv, [Next]_vars PROVE RefsOK'
  OBVIOUS
<1> USE DEF ConstantsAssumption, IInv, Become, Return, Invoke
<1>1. ASSUME NEW c \in Calls, NEW o \in {"process", "open"}, NEW k \in Keys,
             FindState(c, o, k)
      PROVE  RefsOK'
  <2>1. pc[c] = "idle"
    BY <1>1 DEF FindState
  <2>2. QED
    BY <1>1, <2>1, IdleUnreferenced
    DEF TypeOK, RefsOK, FindState, maps, callVars
<1>2. ASSUME NEW c \in Calls, NEW o \in {"process", "open"}, NEW k \in Keys,
             GetCoordinator(c, o, k)
      PROVE  RefsOK'
  <2>1. pc[c] = "idle"
    BY <1>2 DEF GetCoordinator
  <2>2. SessionAgent(Trim[k], c) \in Calls
    BY DEF TypeOK, SessionAgent
  <2>3. QED
    BY <1>2, <2>1, <2>2, IdleUnreferenced
    DEF TypeOK, RefsOK, GetCoordinator, maps, callVars
<1>3. ASSUME NEW c \in Calls,
             CreateState(c)
      PROVE  RefsOK'
  <2>1. coordinator[c] \in Calls
    BY <1>3 DEF TypeOK, RefsOK, CreateState
  <2>2. /\ states'[c].pending = None
        /\ states'[c].active = Primary
        /\ states'[c].activeRole = None
        /\ \A t \in Calls \ {c} : states'[t] = states[t]
    BY <1>3, <2>1, CreateEffect DEF CreateState
  <2>3. QED
    BY <1>3, <2>1, <2>2
    DEF TypeOK, RefsOK, CreateState, maps, callVars
<1>4. ASSUME NEW c \in Calls,
             ReturnSession(c)
      PROVE  RefsOK'
  BY <1>4 DEF TypeOK, RefsOK, ReturnSession, maps, callVars
<1>5. ASSUME NEW c \in Calls,
             RouteWithResult(c)
      PROVE  RefsOK'
  <2>1. st[c] \in Calls
    BY <1>5 DEF TypeOK, RefsOK, RouteWithResult
  <2>2. /\ states'[st[c]].pending = None
        /\ \A t \in Calls \ {st[c]} : states'[t].pending = states[t].pending
        /\ \A t \in Calls : /\ states'[t].active = states[t].active
                            /\ states'[t].activeRole = states[t].activeRole
                            /\ states'[t].instances = states[t].instances
    BY <1>5, <2>1, TakeEffect DEF RouteWithResult
  <2>3. QED
    BY <1>5, <2>1, <2>2
    DEF TypeOK, RefsOK, RouteWithResult, maps, callVars
<1>6. ASSUME NEW c \in Calls,
             RouteToActive(c)
      PROVE  RefsOK'
  BY <1>6 DEF TypeOK, RefsOK, RouteToActive, maps, callVars
<1>7. ASSUME NEW c \in Calls,
             ReturnAnswer(c)
      PROVE  RefsOK'
  BY <1>7 DEF TypeOK, RefsOK, ReturnAnswer, maps, callVars
<1>8. ASSUME NEW c \in Calls,
             TurnThrows(c)
      PROVE  RefsOK'
  BY <1>8 DEF TypeOK, RefsOK, TurnThrows, maps, callVars
<1>9. ASSUME NEW c \in Calls,
             RequestSubConversation(c)
      PROVE  RefsOK'
  <2>1. st[c] \in Calls
    BY <1>9 DEF TypeOK, RefsOK, RequestSubConversation
  <2>2. PICK role \in Roles :
           states' = [states EXCEPT ![st[c]] = Started(@, role, c)]
    BY <1>9, AnswerTypes DEF RequestSubConversation
  <2>3. /\ \A t \in Calls : /\ states'[t].pending = states[t].pending
                            /\ states[t].instances \subseteq states'[t].instances
        /\ \A t \in Calls \ {st[c]} : states'[t] = states[t]
        /\ \/ /\ states'[st[c]].active = role
              /\ states'[st[c]].activeRole = role
              /\ role \in states'[st[c]].instances
           \/ /\ states'[st[c]].active = Primary
              /\ states'[st[c]].activeRole = None
    BY <2>1, <2>2, StartEffect
  <2>4. QED
    BY <1>9, <2>1, <2>2, <2>3
    DEF TypeOK, RefsOK, RequestSubConversation, maps, callVars
<1>10. ASSUME NEW c \in Calls,
             HandOver(c)
      PROVE  RefsOK'
  BY <1>10 DEF TypeOK, RefsOK, HandOver, maps, callVars
<1>11. ASSUME NEW c \in Calls,
             HandOverFails(c)
      PROVE  RefsOK'
  BY <1>11 DEF TypeOK, RefsOK, HandOverFails, maps, callVars
<1>12. ASSUME NEW c \in Calls,
             EndSubConversation(c)
      PROVE  RefsOK'
  <2>1. st[c] \in Calls
    BY <1>12 DEF TypeOK, RefsOK, EndSubConversation
  <2>2. /\ states'[st[c]].pending = c
        /\ states'[st[c]].active = Primary
        /\ states'[st[c]].activeRole = None
        /\ \A t \in Calls : states'[t].instances = states[t].instances
        /\ \A t \in Calls \ {st[c]} : states'[t] = states[t]
    BY <1>12, <2>1, EndEffect DEF EndSubConversation
  <2>3. QED
    BY <1>12, <2>1, <2>2
    DEF TypeOK, RefsOK, EndSubConversation, maps, callVars
<1>13. ASSUME NEW c \in Calls,
             Report(c)
      PROVE  RefsOK'
  <2>1. st[c] \in Calls
    BY <1>13 DEF TypeOK, RefsOK, Report
  <2>2. /\ states'[st[c]].pending = None
        /\ \A t \in Calls \ {st[c]} : states'[t].pending = states[t].pending
        /\ \A t \in Calls : /\ states'[t].active = states[t].active
                            /\ states'[t].activeRole = states[t].activeRole
                            /\ states'[t].instances = states[t].instances
    BY <1>13, <2>1, TakeEffect DEF Report
  <2>3. QED
    BY <1>13, <2>1, <2>2
    DEF TypeOK, RefsOK, Report, maps, callVars
<1>14. ASSUME NEW c \in Calls,
             ReportFails(c)
      PROVE  RefsOK'
  BY <1>14 DEF TypeOK, RefsOK, ReportFails, maps, callVars
<1>15. ASSUME NEW c \in Calls,
             ReturnSecondAnswer(c)
      PROVE  RefsOK'
  BY <1>15 DEF TypeOK, RefsOK, ReturnSecondAnswer, maps, callVars
<1>16. ASSUME NEW c \in Calls,
             ReturnPrimaryEnd(c)
      PROVE  RefsOK'
  BY <1>16 DEF TypeOK, RefsOK, ReturnPrimaryEnd, maps, callVars
<1>17. ASSUME NEW c \in Calls, NEW k \in Keys,
             ClearSessionHistory(c, k)
      PROVE  RefsOK'
  <2>1. pc[c] = "idle"
    BY <1>17 DEF ClearSessionHistory
  <2>2. QED
    BY <1>17, <2>1, IdleUnreferenced
    DEF TypeOK, RefsOK, ClearSessionHistory, maps, callVars
<1>18. ASSUME NEW c \in Calls,
             HistoryCleared(c)
      PROVE  RefsOK'
  <2>1. CASE st[c] = None
    BY <1>18, <2>1 DEF TypeOK, RefsOK, HistoryCleared, maps, callVars
  <2>2. CASE st[c] # None
    <3>1. st[c] \in Calls
      BY <2>2 DEF TypeOK
    <3>2. /\ states'[st[c]].pending = None
          /\ \A t \in Calls \ {st[c]} : states'[t].pending = states[t].pending
          /\ \A t \in Calls : /\ states'[t].active = states[t].active
                              /\ states'[t].activeRole = states[t].activeRole
                              /\ states'[t].instances = states[t].instances
      BY <1>18, <2>2, <3>1, TakeEffect DEF HistoryCleared
    <3>3. QED
      BY <1>18, <3>1, <3>2 DEF TypeOK, RefsOK, HistoryCleared, maps, callVars
  <2>3. QED
    BY <2>1, <2>2
<1>19. ASSUME NEW c \in Calls,
             Shutdown(c)
      PROVE  RefsOK'
  <2>1. pc[c] = "idle"
    BY <1>19 DEF Shutdown
  <2>2. QED
    BY <1>19, <2>1, IdleUnreferenced
    DEF TypeOK, RefsOK, Shutdown, maps, callVars
<1>20. ASSUME NEW c \in Calls,
             MemoriesClosed(c)
      PROVE  RefsOK'
  BY <1>20 DEF TypeOK, RefsOK, MemoriesClosed, maps, callVars
<1>21. ASSUME NEW k \in Keys,
             EndSession(k)
      PROVE  RefsOK'
  BY <1>21 DEF TypeOK, RefsOK, EndSession, maps, callVars
<1>22. CASE UNCHANGED vars
  BY <1>22 DEF RefsOK, vars
<1>23. QED
  BY <1>1, <1>2, <1>3, <1>4, <1>5, <1>6, <1>7, <1>8, <1>9, <1>10, <1>11, <1>12, <1>13, <1>14, <1>15, <1>16, <1>17, <1>18, <1>19, <1>20, <1>21, <1>22
  DEF Next, Lookup, Process, Maintain

(* Results are reported at most once. *)
LEMMA ResultsStep ==
    ConstantsAssumption /\ IInv /\ [Next]_vars => ResultsOK'
<1> SUFFICES ASSUME ConstantsAssumption, IInv, [Next]_vars PROVE ResultsOK'
  OBVIOUS
<1> USE DEF ConstantsAssumption, IInv, Become, Return, Invoke
<1>1. ASSUME NEW c \in Calls, NEW o \in {"process", "open"}, NEW k \in Keys,
             FindState(c, o, k)
      PROVE  ResultsOK'
  <2>1. pc[c] = "idle"
    BY <1>1 DEF FindState
  <2>2. QED
    BY <1>1, <2>1, IdleUnreferenced
    DEF TypeOK, RefsOK, ResultsOK, ResultReportedOnce, EndedPCs, FindState, maps, callVars
<1>2. ASSUME NEW c \in Calls, NEW o \in {"process", "open"}, NEW k \in Keys,
             GetCoordinator(c, o, k)
      PROVE  ResultsOK'
  <2>1. pc[c] = "idle"
    BY <1>2 DEF GetCoordinator
  <2>2. QED
    BY <1>2, <2>1, IdleUnreferenced
    DEF TypeOK, RefsOK, ResultsOK, ResultReportedOnce, EndedPCs, GetCoordinator, maps, callVars
<1>3. ASSUME NEW c \in Calls,
             CreateState(c)
      PROVE  ResultsOK'
  <2>1. coordinator[c] \in Calls
    BY <1>3 DEF TypeOK, RefsOK, CreateState
  <2>2. /\ states'[c].pending = None
        /\ states'[c].active = Primary
        /\ states'[c].activeRole = None
        /\ \A t \in Calls \ {c} : states'[t] = states[t]
    BY <1>3, <2>1, CreateEffect DEF CreateState
  <2>3. QED
    BY <1>3, <2>1, <2>2
    DEF TypeOK, RefsOK, ResultsOK, ResultReportedOnce, EndedPCs, CreateState, maps, callVars
<1>4. ASSUME NEW c \in Calls,
             ReturnSession(c)
      PROVE  ResultsOK'
  BY <1>4 DEF TypeOK, RefsOK, ResultsOK, ResultReportedOnce, EndedPCs, ReturnSession, maps, callVars
<1>5. ASSUME NEW c \in Calls,
             RouteWithResult(c)
      PROVE  ResultsOK'
  <2>1. st[c] \in Calls
    BY <1>5 DEF TypeOK, RefsOK, RouteWithResult
  <2>2. /\ states'[st[c]].pending = None
        /\ \A t \in Calls \ {st[c]} : states'[t].pending = states[t].pending
        /\ \A t \in Calls : /\ states'[t].active = states[t].active
                            /\ states'[t].activeRole = states[t].activeRole
                            /\ states'[t].instances = states[t].instances
    BY <1>5, <2>1, TakeEffect DEF RouteWithResult
  <2>3. QED
    BY <1>5, <2>1, <2>2
    DEF TypeOK, RefsOK, ResultsOK, ResultReportedOnce, EndedPCs, RouteWithResult, maps, callVars
<1>6. ASSUME NEW c \in Calls,
             RouteToActive(c)
      PROVE  ResultsOK'
  BY <1>6 DEF TypeOK, RefsOK, ResultsOK, ResultReportedOnce, EndedPCs, RouteToActive, maps, callVars
<1>7. ASSUME NEW c \in Calls,
             ReturnAnswer(c)
      PROVE  ResultsOK'
  BY <1>7 DEF TypeOK, RefsOK, ResultsOK, ResultReportedOnce, EndedPCs, ReturnAnswer, maps, callVars
<1>8. ASSUME NEW c \in Calls,
             TurnThrows(c)
      PROVE  ResultsOK'
  BY <1>8 DEF TypeOK, RefsOK, ResultsOK, ResultReportedOnce, EndedPCs, TurnThrows, maps, callVars
<1>9. ASSUME NEW c \in Calls,
             RequestSubConversation(c)
      PROVE  ResultsOK'
  <2>1. st[c] \in Calls
    BY <1>9 DEF TypeOK, RefsOK, RequestSubConversation
  <2>2. PICK role \in Roles :
           states' = [states EXCEPT ![st[c]] = Started(@, role, c)]
    BY <1>9, AnswerTypes DEF RequestSubConversation
  <2>3. /\ \A t \in Calls : /\ states'[t].pending = states[t].pending
                            /\ states[t].instances \subseteq states'[t].instances
        /\ \A t \in Calls \ {st[c]} : states'[t] = states[t]
        /\ \/ /\ states'[st[c]].active = role
              /\ states'[st[c]].activeRole = role
              /\ role \in states'[st[c]].instances
           \/ /\ states'[st[c]].active = Primary
              /\ states'[st[c]].activeRole = None
    BY <2>1, <2>2, StartEffect
  <2>4. QED
    BY <1>9, <2>1, <2>2, <2>3
    DEF TypeOK, RefsOK, ResultsOK, ResultReportedOnce, EndedPCs, RequestSubConversation, maps, callVars
<1>10. ASSUME NEW c \in Calls,
             HandOver(c)
      PROVE  ResultsOK'
  BY <1>10 DEF TypeOK, RefsOK, ResultsOK, ResultReportedOnce, EndedPCs, HandOver, maps, callVars
<1>11. ASSUME NEW c \in Calls,
             HandOverFails(c)
      PROVE  ResultsOK'
  BY <1>11 DEF TypeOK, RefsOK, ResultsOK, ResultReportedOnce, EndedPCs, HandOverFails, maps, callVars
<1>12. ASSUME NEW c \in Calls,
             EndSubConversation(c)
      PROVE  ResultsOK'
  <2>1. st[c] \in Calls
    BY <1>12 DEF TypeOK, RefsOK, EndSubConversation
  <2>2. /\ states'[st[c]].pending = c
        /\ states'[st[c]].active = Primary
        /\ states'[st[c]].activeRole = None
        /\ \A t \in Calls : states'[t].instances = states[t].instances
        /\ \A t \in Calls \ {st[c]} : states'[t] = states[t]
    BY <1>12, <2>1, EndEffect DEF EndSubConversation
  <2>3. \A d \in Calls : note[d] # c /\ states[d].pending # c
    BY <1>12 DEF TypeOK, ResultsOK, EndedPCs, EndSubConversation
  <2>4. pc' = [pc EXCEPT ![c] = pc'[c]] /\ pc'[c] \in EndedPCs
    BY <1>12 DEF TypeOK, EndSubConversation, EndedPCs
  <2>5. QED
    BY <1>12, <2>1, <2>2, <2>3, <2>4
    DEF TypeOK, RefsOK, ResultsOK, ResultReportedOnce, EndedPCs, EndSubConversation, maps, callVars
<1>13. ASSUME NEW c \in Calls,
             Report(c)
      PROVE  ResultsOK'
  <2>1. st[c] \in Calls
    BY <1>13 DEF TypeOK, RefsOK, Report
  <2>2. /\ states'[st[c]].pending = None
        /\ \A t \in Calls \ {st[c]} : states'[t].pending = states[t].pending
        /\ \A t \in Calls : /\ states'[t].active = states[t].active
                            /\ states'[t].activeRole = states[t].activeRole
                            /\ states'[t].instances = states[t].instances
    BY <1>13, <2>1, TakeEffect DEF Report
  <2>3. QED
    BY <1>13, <2>1, <2>2
    DEF TypeOK, RefsOK, ResultsOK, ResultReportedOnce, EndedPCs, Report, maps, callVars
<1>14. ASSUME NEW c \in Calls,
             ReportFails(c)
      PROVE  ResultsOK'
  BY <1>14 DEF TypeOK, RefsOK, ResultsOK, ResultReportedOnce, EndedPCs, ReportFails, maps, callVars
<1>15. ASSUME NEW c \in Calls,
             ReturnSecondAnswer(c)
      PROVE  ResultsOK'
  BY <1>15 DEF TypeOK, RefsOK, ResultsOK, ResultReportedOnce, EndedPCs, ReturnSecondAnswer, maps, callVars
<1>16. ASSUME NEW c \in Calls,
             ReturnPrimaryEnd(c)
      PROVE  ResultsOK'
  BY <1>16 DEF TypeOK, RefsOK, ResultsOK, ResultReportedOnce, EndedPCs, ReturnPrimaryEnd, maps, callVars
<1>17. ASSUME NEW c \in Calls, NEW k \in Keys,
             ClearSessionHistory(c, k)
      PROVE  ResultsOK'
  <2>1. pc[c] = "idle"
    BY <1>17 DEF ClearSessionHistory
  <2>2. QED
    BY <1>17, <2>1, IdleUnreferenced
    DEF TypeOK, RefsOK, ResultsOK, ResultReportedOnce, EndedPCs, ClearSessionHistory, maps, callVars
<1>18. ASSUME NEW c \in Calls,
             HistoryCleared(c)
      PROVE  ResultsOK'
  <2>1. CASE st[c] = None
    BY <1>18, <2>1 DEF TypeOK, RefsOK, ResultsOK, ResultReportedOnce, EndedPCs, HistoryCleared, maps, callVars
  <2>2. CASE st[c] # None
    <3>1. st[c] \in Calls
      BY <2>2 DEF TypeOK
    <3>2. /\ states'[st[c]].pending = None
          /\ \A t \in Calls \ {st[c]} : states'[t].pending = states[t].pending
          /\ \A t \in Calls : /\ states'[t].active = states[t].active
                              /\ states'[t].activeRole = states[t].activeRole
                              /\ states'[t].instances = states[t].instances
      BY <1>18, <2>2, <3>1, TakeEffect DEF HistoryCleared
    <3>3. QED
      BY <1>18, <3>1, <3>2 DEF TypeOK, RefsOK, ResultsOK, ResultReportedOnce, EndedPCs, HistoryCleared, maps, callVars
  <2>3. QED
    BY <2>1, <2>2
<1>19. ASSUME NEW c \in Calls,
             Shutdown(c)
      PROVE  ResultsOK'
  <2>1. pc[c] = "idle"
    BY <1>19 DEF Shutdown
  <2>2. QED
    BY <1>19, <2>1, IdleUnreferenced
    DEF TypeOK, RefsOK, ResultsOK, ResultReportedOnce, EndedPCs, Shutdown, maps, callVars
<1>20. ASSUME NEW c \in Calls,
             MemoriesClosed(c)
      PROVE  ResultsOK'
  BY <1>20 DEF TypeOK, RefsOK, ResultsOK, ResultReportedOnce, EndedPCs, MemoriesClosed, maps, callVars
<1>21. ASSUME NEW k \in Keys,
             EndSession(k)
      PROVE  ResultsOK'
  BY <1>21 DEF TypeOK, RefsOK, ResultsOK, ResultReportedOnce, EndedPCs, EndSession, maps, callVars
<1>22. CASE UNCHANGED vars
  BY <1>22 DEF RefsOK, ResultsOK, ResultReportedOnce, EndedPCs, vars
<1>23. QED
  BY <1>1, <1>2, <1>3, <1>4, <1>5, <1>6, <1>7, <1>8, <1>9, <1>10, <1>11, <1>12, <1>13, <1>14, <1>15, <1>16, <1>17, <1>18, <1>19, <1>20, <1>21, <1>22
  DEF Next, Lookup, Process, Maintain

(* Nothing crosses a session. *)
LEMMA OwnersStep ==
    ConstantsAssumption /\ IInv /\ [Next]_vars => OwnersOK'
<1> SUFFICES ASSUME ConstantsAssumption, IInv, [Next]_vars PROVE OwnersOK'
  OBVIOUS
<1> USE DEF ConstantsAssumption, IInv, Become, Return, Invoke
<1>1. ASSUME NEW c \in Calls, NEW o \in {"process", "open"}, NEW k \in Keys,
             FindState(c, o, k)
      PROVE  OwnersOK'
  <2>1. pc[c] = "idle"
    BY <1>1 DEF FindState
  <2>2. QED
    BY <1>1, <2>1, IdleUnreferenced
    DEF TypeOK, RefsOK, ResultsOK, OwnersOK, SessionIsolation, FindState, maps, callVars
<1>2. ASSUME NEW c \in Calls, NEW o \in {"process", "open"}, NEW k \in Keys,
             GetCoordinator(c, o, k)
      PROVE  OwnersOK'
  <2>1. pc[c] = "idle"
    BY <1>2 DEF GetCoordinator
  <2>2. /\ SessionAgent(Trim[k], c) \in Calls
        /\ SessionAgent(Trim[k], c) = c \/
              /\ SessionAgent(Trim[k], c) = activeSessions[Trim[k]]
              /\ pc[SessionAgent(Trim[k], c)] # "idle"
              /\ Trim[key[SessionAgent(Trim[k], c)]] = Trim[k]
    BY DEF TypeOK, SessionAgent, OwnersOK
  <2>3. QED
    BY <1>2, <2>1, <2>2, IdleUnreferenced
    DEF TypeOK, RefsOK, ResultsOK, OwnersOK, SessionIsolation, GetCoordinator, maps, callVars
<1>3. ASSUME NEW c \in Calls,
             CreateState(c)
      PROVE  OwnersOK'
  <2>1. coordinator[c] \in Calls
    BY <1>3 DEF TypeOK, RefsOK, CreateState
  <2>2. /\ states'[c].pending = None
        /\ states'[c].active = Primary
        /\ states'[c].activeRole = None
        /\ \A t \in Calls \ {c} : states'[t] = states[t]
    BY <1>3, <2>1, CreateEffect DEF CreateState
  <2>3. QED
    BY <1>3, <2>1, <2>2
    DEF TypeOK, RefsOK, ResultsOK, OwnersOK, SessionIsolation, CreateState, maps, callVars
<1>4. ASSUME NEW c \in Calls,
             ReturnSession(c)
      PROVE  OwnersOK'
  BY <1>4 DEF TypeOK, RefsOK, ResultsOK, OwnersOK, SessionIsolation, ReturnSession, maps, callVars
<1>5. ASSUME NEW c \in Calls,
             RouteWithResult(c)
      PROVE  OwnersOK'
  <2>1. st[c] \in Calls
    BY <1>5 DEF TypeOK, RefsOK, RouteWithResult
  <2>2. /\ states'[st[c]].pending = None
        /\ \A t \in Calls \ {st[c]} : states'[t].pending = states[t].pending
        /\ \A t \in Calls : /\ states'[t].active = states[t].active
                            /\ states'[t].activeRole = states[t].activeRole
                            /\ states'[t].instances = states[t].instances
    BY <1>5, <2>1, TakeEffect DEF RouteWithResult
  <2>3. /\ note' = [note EXCEPT ![c] = states[st[c]].pending]
        /\ states[st[c]].pending \in Calls
        /\ Trim[key[states[st[c]].pending]] = Trim[key[c]]
    BY <1>5, <2>1 DEF TypeOK, SessionState, OwnersOK, SessionIsolation, RouteWithResult
  <2>4. /\ UNCHANGED <<maps, callVars, st, ended>>
        /\ pc' = [pc EXCEPT ![c] = pc'[c]]
        /\ pc[c] \notin {"idle", "creating"} /\ pc'[c] \notin {"idle", "creating"}
        /\ pc'[c] \in {"ready", "turn", "started"} => pc[c] \in {"ready"}
    BY <1>5 DEF TypeOK, RouteWithResult
  <2>5. SessionIsolation'
    BY <2>3, <2>4 DEF TypeOK, OwnersOK, SessionIsolation, maps, callVars
  <2>6. QED
    BY <2>1, <2>2, <2>3, <2>4, <2>5 DEF TypeOK, OwnersOK, maps, callVars
<1>6. ASSUME NEW c \in Calls,
             RouteToActive(c)
      PROVE  OwnersOK'
  BY <1>6 DEF TypeOK, RefsOK, ResultsOK, OwnersOK, SessionIsolation, RouteToActive, maps, callVars
<1>7. ASSUME NEW c \in Calls,
             ReturnAnswer(c)
      PROVE  OwnersOK'
  BY <1>7 DEF TypeOK, RefsOK, ResultsOK, OwnersOK, SessionIsolation, ReturnAnswer, maps, callVars
<1>8. ASSUME NEW c \in Calls,
             TurnThrows(c)
      PROVE  OwnersOK'
  BY <1>8 DEF TypeOK, RefsOK, ResultsOK, OwnersOK, SessionIsolation, TurnThrows, maps, callVars
<1>9. ASSUME NEW c \in Calls,
             RequestSubConversation(c)
      PROVE  OwnersOK'
  <2>1. st[c] \in Calls
    BY <1>9 DEF TypeOK, RefsOK, RequestSubConversation
  <2>2. PICK role \in Roles :
           states' = [states EXCEPT ![st[c]] = Started(@, role, c)]
    BY <1>9, AnswerTypes DEF RequestSubConversation
  <2>3. /\ \A t \in Calls : /\ states'[t].pending = states[t].pending
                            /\ states[t].instances \subseteq states'[t].instances
        /\ \A t \in Calls \ {st[c]} : states'[t] = states[t]
        /\ \/ /\ states'[st[c]].active = role
              /\ states'[st[c]].activeRole = role
              /\ role \in states'[st[c]].instances
           \/ /\ states'[st[c]].active = Primary
              /\ states'[st[c]].activeRole = None
    BY <2>1, <2>2, StartEffect
  <2>4. QED
    BY <1>9, <2>1, <2>2, <2>3
    DEF TypeOK, RefsOK, ResultsOK, OwnersOK, SessionIsolation, RequestSubConversation, maps, callVars
<1>10. ASSUME NEW c \in Calls,
             HandOver(c)
      PROVE  OwnersOK'
  BY <1>10 DEF TypeOK, RefsOK, ResultsOK, OwnersOK, SessionIsolation, HandOver, maps, callVars
<1>11. ASSUME NEW c \in Calls,
             HandOverFails(c)
      PROVE  OwnersOK'
  BY <1>11 DEF TypeOK, RefsOK, ResultsOK, OwnersOK, SessionIsolation, HandOverFails, maps, callVars
<1>12. ASSUME NEW c \in Calls,
             EndSubConversation(c)
      PROVE  OwnersOK'
  <2>1. st[c] \in Calls
    BY <1>12 DEF TypeOK, RefsOK, EndSubConversation
  <2>2. /\ states'[st[c]].pending = c
        /\ states'[st[c]].active = Primary
        /\ states'[st[c]].activeRole = None
        /\ \A t \in Calls : states'[t].instances = states[t].instances
        /\ \A t \in Calls \ {st[c]} : states'[t] = states[t]
    BY <1>12, <2>1, EndEffect DEF EndSubConversation
  <2>3. QED
    BY <1>12, <2>1, <2>2
    DEF TypeOK, RefsOK, ResultsOK, OwnersOK, SessionIsolation, EndSubConversation, maps, callVars
<1>13. ASSUME NEW c \in Calls,
             Report(c)
      PROVE  OwnersOK'
  <2>1. st[c] \in Calls
    BY <1>13 DEF TypeOK, RefsOK, Report
  <2>2. /\ states'[st[c]].pending = None
        /\ \A t \in Calls \ {st[c]} : states'[t].pending = states[t].pending
        /\ \A t \in Calls : /\ states'[t].active = states[t].active
                            /\ states'[t].activeRole = states[t].activeRole
                            /\ states'[t].instances = states[t].instances
    BY <1>13, <2>1, TakeEffect DEF Report
  <2>3. /\ note' = [note EXCEPT ![c] = states[st[c]].pending]
        /\ states[st[c]].pending \in Calls
        /\ Trim[key[states[st[c]].pending]] = Trim[key[c]]
    <3>1. /\ note' = [note EXCEPT ![c] = states[st[c]].pending]
          /\ states[st[c]].pending # None
      BY <1>13 DEF Report
    <3>2. states[st[c]].pending \in Calls
      BY <2>1, <3>1 DEF TypeOK, SessionState
    <3>3. Trim[key[states[st[c]].pending]] = Trim[key[st[c]]]
      BY <2>1, <3>1 DEF OwnersOK
    <3>4. Trim[key[st[c]]] = Trim[key[c]]
      BY <2>1 DEF OwnersOK, SessionIsolation
    <3>5. QED
      BY <3>1, <3>2, <3>3, <3>4
  <2>4. /\ UNCHANGED <<maps, callVars, st, ended>>
        /\ pc' = [pc EXCEPT ![c] = pc'[c]]
        /\ pc[c] \notin {"idle", "creating"} /\ pc'[c] \notin {"idle", "creating"}
        /\ pc'[c] \in {"ready", "turn", "started"} => pc[c] \in {"ready"}
    BY <1>13 DEF TypeOK, Report
  <2>5. SessionIsolation'
    BY <2>3, <2>4 DEF TypeOK, OwnersOK, SessionIsolation, maps, callVars
  <2>6. QED
    BY <2>1, <2>2, <2>3, <2>4, <2>5 DEF TypeOK, OwnersOK, maps, callVars
<1>14. ASSUME NEW c \in Calls,
             ReportFails(c)
      PROVE  OwnersOK'
  BY <1>14 DEF TypeOK, RefsOK, ResultsOK, OwnersOK, SessionIsolation, ReportFails, maps, callVars
<1>15. ASSUME NEW c \in Calls,
             ReturnSecondAnswer(c)
      PROVE  OwnersOK'
  BY <1>15 DEF TypeOK, RefsOK, ResultsOK, OwnersOK, SessionIsolation, ReturnSecondAnswer, maps, callVars
<1>16. ASSUME NEW c \in Calls,
             ReturnPrimaryEnd(c)
      PROVE  OwnersOK'
  BY <1>16 DEF TypeOK, RefsOK, ResultsOK, OwnersOK, SessionIsolation, ReturnPrimaryEnd, maps, callVars
<1>17. ASSUME NEW c \in Calls, NEW k \in Keys,
             ClearSessionHistory(c, k)
      PROVE  OwnersOK'
  <2>1. pc[c] = "idle"
    BY <1>17 DEF ClearSessionHistory
  <2>2. QED
    BY <1>17, <2>1, IdleUnreferenced
    DEF TypeOK, RefsOK, ResultsOK, OwnersOK, SessionIsolation, ClearSessionHistory, maps, callVars
<1>18. ASSUME NEW c \in Calls,
             HistoryCleared(c)
      PROVE  OwnersOK'
  <2>1. CASE st[c] = None
    BY <1>18, <2>1 DEF TypeOK, RefsOK, ResultsOK, OwnersOK, SessionIsolation, HistoryCleared, maps, callVars
  <2>2. CASE st[c] # None
    <3>1. st[c] \in Calls
      BY <2>2 DEF TypeOK
    <3>2. /\ states'[st[c]].pending = None
          /\ \A t \in Calls \ {st[c]} : states'[t].pending = states[t].pending
          /\ \A t \in Calls : /\ states'[t].active = states[t].active
                              /\ states'[t].activeRole = states[t].activeRole
                              /\ states'[t].instances = states[t].instances
      BY <1>18, <2>2, <3>1, TakeEffect DEF HistoryCleared
    <3>3. QED
      BY <1>18, <3>1, <3>2 DEF TypeOK, RefsOK, ResultsOK, OwnersOK, SessionIsolation, HistoryCleared, maps, callVars
  <2>3. QED
    BY <2>1, <2>2
<1>19. ASSUME NEW c \in Calls,
             Shutdown(c)
      PROVE  OwnersOK'
  <2>1. pc[c] = "idle"
    BY <1>19 DEF Shutdown
  <2>2. QED
    BY <1>19, <2>1, IdleUnreferenced
    DEF TypeOK, RefsOK, ResultsOK, OwnersOK, SessionIsolation, Shutdown, maps, callVars
<1>20. ASSUME NEW c \in Calls,
             MemoriesClosed(c)
      PROVE  OwnersOK'
  BY <1>20 DEF TypeOK, RefsOK, ResultsOK, OwnersOK, SessionIsolation, MemoriesClosed, maps, callVars
<1>21. ASSUME NEW k \in Keys,
             EndSession(k)
      PROVE  OwnersOK'
  BY <1>21 DEF TypeOK, RefsOK, ResultsOK, OwnersOK, SessionIsolation, EndSession, maps, callVars
<1>22. CASE UNCHANGED vars
  BY <1>22 DEF RefsOK, ResultsOK, OwnersOK, SessionIsolation, vars
<1>23. QED
  BY <1>1, <1>2, <1>3, <1>4, <1>5, <1>6, <1>7, <1>8, <1>9, <1>10, <1>11, <1>12, <1>13, <1>14, <1>15, <1>16, <1>17, <1>18, <1>19, <1>20, <1>21, <1>22
  DEF Next, Lookup, Process, Maintain

(* The active agent exists. *)
LEMMA ControlStep ==
    ConstantsAssumption /\ IInv /\ [Next]_vars => ActiveAgentExists'
<1> SUFFICES ASSUME ConstantsAssumption, IInv, [Next]_vars PROVE ActiveAgentExists'
  OBVIOUS
<1> USE DEF ConstantsAssumption, IInv, Become, Return, Invoke
<1>1. ASSUME NEW c \in Calls, NEW o \in {"process", "open"}, NEW k \in Keys,
             FindState(c, o, k)
      PROVE  ActiveAgentExists'
  <2>1. pc[c] = "idle"
    BY <1>1 DEF FindState
  <2>2. QED
    BY <1>1, <2>1, IdleUnreferenced
    DEF TypeOK, RefsOK, ActiveAgentExists, FindState, maps, callVars
<1>2. ASSUME NEW c \in Calls, NEW o \in {"process", "open"}, NEW k \in Keys,
             GetCoordinator(c, o, k)
      PROVE  ActiveAgentExists'
  <2>1. pc[c] = "idle"
    BY <1>2 DEF GetCoordinator
  <2>2. QED
    BY <1>2, <2>1, IdleUnreferenced
    DEF TypeOK, RefsOK, ActiveAgentExists, GetCoordinator, maps, callVars
<1>3. ASSUME NEW c \in Calls,
             CreateState(c)
      PROVE  ActiveAgentExists'
  <2>1. coordinator[c] \in Calls
    BY <1>3 DEF TypeOK, RefsOK, CreateState
  <2>2. /\ states'[c].pending = None
        /\ states'[c].active = Primary
        /\ states'[c].activeRole = None
        /\ \A t \in Calls \ {c} : states'[t] = states[t]
    BY <1>3, <2>1, CreateEffect DEF CreateState
  <2>3. /\ agent[c] \notin Roles
        /\ \A d \in Calls : st[d] # c
    BY <1>3 DEF RefsOK, OwnersOK, ActiveAgentExists, CreateState
  <2>4. QED
    BY <1>3, <2>1, <2>2, <2>3
    DEF TypeOK, RefsOK, ActiveAgentExists, CreateState, maps, callVars
<1>4. ASSUME NEW c \in Calls,
             ReturnSession(c)
      PROVE  ActiveAgentExists'
  BY <1>4 DEF TypeOK, RefsOK, ActiveAgentExists, ReturnSession, maps, callVars
<1>5. ASSUME NEW c \in Calls,
             RouteWithResult(c)
      PROVE  ActiveAgentExists'
  <2>1. st[c] \in Calls
    BY <1>5 DEF TypeOK, RefsOK, RouteWithResult
  <2>2. /\ states'[st[c]].pending = None
        /\ \A t \in Calls \ {st[c]} : states'[t].pending = states[t].pending
        /\ \A t \in Calls : /\ states'[t].active = states[t].active
                            /\ states'[t].activeRole = states[t].activeRole
                            /\ states'[t].instances = states[t].instances
    BY <1>5, <2>1, TakeEffect DEF RouteWithResult
  <2>3. QED
    BY <1>5, <2>1, <2>2
    DEF TypeOK, RefsOK, ActiveAgentExists, RouteWithResult, maps, callVars
<1>6. ASSUME NEW c \in Calls,
             RouteToActive(c)
      PROVE  ActiveAgentExists'
  BY <1>6 DEF TypeOK, RefsOK, ActiveAgentExists, RouteToActive, maps, callVars
<1>7. ASSUME NEW c \in Calls,
             ReturnAnswer(c)
      PROVE  ActiveAgentExists'
  BY <1>7 DEF TypeOK, RefsOK, ActiveAgentExists, ReturnAnswer, maps, callVars
<1>8. ASSUME NEW c \in Calls,
             TurnThrows(c)
      PROVE  ActiveAgentExists'
  BY <1>8 DEF TypeOK, RefsOK, ActiveAgentExists, TurnThrows, maps, callVars
<1>9. ASSUME NEW c \in Calls,
             RequestSubConversation(c)
      PROVE  ActiveAgentExists'
  <2>1. st[c] \in Calls
    BY <1>9 DEF TypeOK, RefsOK, RequestSubConversation
  <2>2. PICK role \in Roles :
           states' = [states EXCEPT ![st[c]] = Started(@, role, c)]
    BY <1>9, AnswerTypes DEF RequestSubConversation
  <2>3. /\ \A t \in Calls : /\ states'[t].pending = states[t].pending
                            /\ states[t].instances \subseteq states'[t].instances
        /\ \A t \in Calls \ {st[c]} : states'[t] = states[t]
        /\ \/ /\ states'[st[c]].active = role
              /\ states'[st[c]].activeRole = role
              /\ role \in states'[st[c]].instances
           \/ /\ states'[st[c]].active = Primary
              /\ states'[st[c]].activeRole = None
    BY <2>1, <2>2, StartEffect
  <2>4. QED
    BY <1>9, <2>1, <2>2, <2>3
    DEF TypeOK, RefsOK, ActiveAgentExists, RequestSubConversation, maps, callVars
<1>10. ASSUME NEW c \in Calls,
             HandOver(c)
      PROVE  ActiveAgentExists'
  BY <1>10 DEF TypeOK, RefsOK, ActiveAgentExists, HandOver, maps, callVars
<1>11. ASSUME NEW c \in Calls,
             HandOverFails(c)
      PROVE  ActiveAgentExists'
  BY <1>11 DEF TypeOK, RefsOK, ActiveAgentExists, HandOverFails, maps, callVars
<1>12. ASSUME NEW c \in Calls,
             EndSubConversation(c)
      PROVE  ActiveAgentExists'
  <2>1. st[c] \in Calls
    BY <1>12 DEF TypeOK, RefsOK, EndSubConversation
  <2>2. /\ states'[st[c]].pending = c
        /\ states'[st[c]].active = Primary
        /\ states'[st[c]].activeRole = None
        /\ \A t \in Calls : states'[t].instances = states[t].instances
        /\ \A t \in Calls \ {st[c]} : states'[t] = states[t]
    BY <1>12, <2>1, EndEffect DEF EndSubConversation
  <2>3. QED
    BY <1>12, <2>1, <2>2
    DEF TypeOK, RefsOK, ActiveAgentExists, EndSubConversation, maps, callVars
<1>13. ASSUME NEW c \in Calls,
             Report(c)
      PROVE  ActiveAgentExists'
  <2>1. st[c] \in Calls
    BY <1>13 DEF TypeOK, RefsOK, Report
  <2>2. /\ states'[st[c]].pending = None
        /\ \A t \in Calls \ {st[c]} : states'[t].pending = states[t].pending
        /\ \A t \in Calls : /\ states'[t].active = states[t].active
                            /\ states'[t].activeRole = states[t].activeRole
                            /\ states'[t].instances = states[t].instances
    BY <1>13, <2>1, TakeEffect DEF Report
  <2>3. QED
    BY <1>13, <2>1, <2>2
    DEF TypeOK, RefsOK, ActiveAgentExists, Report, maps, callVars
<1>14. ASSUME NEW c \in Calls,
             ReportFails(c)
      PROVE  ActiveAgentExists'
  BY <1>14 DEF TypeOK, RefsOK, ActiveAgentExists, ReportFails, maps, callVars
<1>15. ASSUME NEW c \in Calls,
             ReturnSecondAnswer(c)
      PROVE  ActiveAgentExists'
  BY <1>15 DEF TypeOK, RefsOK, ActiveAgentExists, ReturnSecondAnswer, maps, callVars
<1>16. ASSUME NEW c \in Calls,
             ReturnPrimaryEnd(c)
      PROVE  ActiveAgentExists'
  BY <1>16 DEF TypeOK, RefsOK, ActiveAgentExists, ReturnPrimaryEnd, maps, callVars
<1>17. ASSUME NEW c \in Calls, NEW k \in Keys,
             ClearSessionHistory(c, k)
      PROVE  ActiveAgentExists'
  <2>1. pc[c] = "idle"
    BY <1>17 DEF ClearSessionHistory
  <2>2. QED
    BY <1>17, <2>1, IdleUnreferenced
    DEF TypeOK, RefsOK, ActiveAgentExists, ClearSessionHistory, maps, callVars
<1>18. ASSUME NEW c \in Calls,
             HistoryCleared(c)
      PROVE  ActiveAgentExists'
  <2>1. CASE st[c] = None
    BY <1>18, <2>1 DEF TypeOK, RefsOK, ActiveAgentExists, HistoryCleared, maps, callVars
  <2>2. CASE st[c] # None
    <3>1. st[c] \in Calls
      BY <2>2 DEF TypeOK
    <3>2. /\ states'[st[c]].pending = None
          /\ \A t \in Calls \ {st[c]} : states'[t].pending = states[t].pending
          /\ \A t \in Calls : /\ states'[t].active = states[t].active
                              /\ states'[t].activeRole = states[t].activeRole
                              /\ states'[t].instances = states[t].instances
      BY <1>18, <2>2, <3>1, TakeEffect DEF HistoryCleared
    <3>3. QED
      BY <1>18, <3>1, <3>2 DEF TypeOK, RefsOK, ActiveAgentExists, HistoryCleared, maps, callVars
  <2>3. QED
    BY <2>1, <2>2
<1>19. ASSUME NEW c \in Calls,
             Shutdown(c)
      PROVE  ActiveAgentExists'
  <2>1. pc[c] = "idle"
    BY <1>19 DEF Shutdown
  <2>2. QED
    BY <1>19, <2>1, IdleUnreferenced
    DEF TypeOK, RefsOK, ActiveAgentExists, Shutdown, maps, callVars
<1>20. ASSUME NEW c \in Calls,
             MemoriesClosed(c)
      PROVE  ActiveAgentExists'
  BY <1>20 DEF TypeOK, RefsOK, ActiveAgentExists, MemoriesClosed, maps, callVars
<1>21. ASSUME NEW k \in Keys,
             EndSession(k)
      PROVE  ActiveAgentExists'
  BY <1>21 DEF TypeOK, RefsOK, ActiveAgentExists, EndSession, maps, callVars
<1>22. CASE UNCHANGED vars
  BY <1>22 DEF RefsOK, ActiveAgentExists, vars
<1>23. QED
  BY <1>1, <1>2, <1>3, <1>4, <1>5, <1>6, <1>7, <1>8, <1>9, <1>10, <1>11, <1>12, <1>13, <1>14, <1>15, <1>16, <1>17, <1>18, <1>19, <1>20, <1>21, <1>22
  DEF Next, Lookup, Process, Maintain

-----------------------------------------------------------------------------
(* The theorems. *)

LEMMA IInvInit == ConstantsAssumption /\ Init => IInv
<1> SUFFICES ASSUME ConstantsAssumption, Init PROVE IInv
  OBVIOUS
<1>1. TypeOK
  BY TypeInit
<1>2. \A s \in Calls : /\ states[s].pending = None
                       /\ states[s].active = Primary
                       /\ states[s].activeRole = None
  BY DEF Init, NewState
<1>3. RefsOK
  BY <1>2 DEF Init, RefsOK
<1>4. ResultsOK
  BY <1>2 DEF Init, ResultsOK, ResultReportedOnce
<1>5. OwnersOK
  BY <1>2 DEF Init, OwnersOK, SessionIsolation
<1>6. ActiveAgentExists
  BY <1>2 DEF Init, ActiveAgentExists, ConstantsAssumption
<1>7. QED
  BY <1>1, <1>3, <1>4, <1>5, <1>6 DEF IInv

(* The strengthened invariant is inductive. *)
THEOREM Invariance == ConstantsAssumption => (Spec => []IInv)
<1> SUFFICES ASSUME ConstantsAssumption PROVE Spec => []IInv
  OBVIOUS
<1>1. Init => IInv
  BY IInvInit
<1>2. IInv /\ [Next]_vars => IInv'
  BY TypeStep, RefsStep, ResultsStep, OwnersStep, ControlStep DEF IInv
<1>3. QED
  BY <1>1, <1>2, PTL DEF Spec

(* The manager's state is well typed. *)
THEOREM TypeCorrect == Spec => []TypeOK
BY ConstantsAssumption, Invariance, PTL DEF IInv

(* However many calls are in flight and whatever they interleave with, no  *)
(* specialist result is handed to a coordinator twice.                     *)
THEOREM ReportedOnce == Spec => []ResultReportedOnce
<1>1. IInv => ResultReportedOnce
  BY DEF IInv, ResultsOK
<1>2. QED
  BY <1>1, ConstantsAssumption, Invariance, PTL

(* A call only ever meets states, coordinators and results of its own      *)
(* session id.                                                             *)
THEOREM Isolation == Spec => []SessionIsolation
<1>1. IInv => SessionIsolation
  BY DEF IInv, OwnersOK
<1>2. QED
  BY <1>1, ConstantsAssumption, Invariance, PTL

(* The active agent is one the session has, the one its role names, and    *)
(* messages only go to agents that exist.                                  *)
THEOREM ControlIsSound == Spec => []ActiveAgentExists
<1>1. IInv => ActiveAgentExists
  BY DEF IInv
<1>2. QED
  BY <1>1, ConstantsAssumption, Invariance, PTL

-----------------------------------------------------------------------------
(* One call at a time.                                                     *)
(*                                                                         *)
(* What a call finds in the session state after an await is then what it   *)
(* left there.  So the parts of the invariant speak of one call and the    *)
(* state it works on, and say nothing of a call that is not in flight but  *)
(* what it has ended with.                                                 *)

Resting(c) == pc[c] \in {"idle", "done"}

OneCall == \A c, d \in Calls : ~Resting(c) /\ ~Resting(d) => c = d

(* No result is pending while an agent answers, but the call's own when it *)
(* has ended a sub-conversation.                                           *)
PendingOK(c) ==
    /\ pc[c] \in {"turn", "started", "specialistTurn"} => states[st[c]].pending = None
    /\ pc[c] = "ended" => states[st[c]].pending = c

(* A specialist that answers is the active agent, and its call has not     *)
(* handed over a result.                                                   *)
TurnOK(c) ==
    /\ pc[c] \in {"idle", "creating", "ready", "ended"} => note[c] = None
    /\ pc[c] = "turn" => agent[c] \in Agents
    /\ pc[c] = "turn" /\ agent[c] # Primary =>
          note[c] = None /\ states[st[c]].active = agent[c]

(* The delegation the call has started is the one it asked for.            *)
DelegationOK(c) ==
    /\ pc[c] = "started" /\ states[st[c]].active # Primary =>
          /\ states[st[c]].active = reply[c].role
          /\ c \in states[st[c]].briefings[reply[c].role]
    /\ pc[c] = "started" /\ states[st[c]].active = Primary =>
          reply[c].role \notin Registered
    /\ pc[c] = "specialistTurn" =>
          /\ agent[c] = reply[c].role
          /\ c \in states[st[c]].briefings[agent[c]]

EndedOK(c) ==
    /\ ended[c].by # None => pc[c] \in EndedPCs /\ st[c] # None
    /\ ended[c].by \in Roles => ended[c].role = ended[c].by

FailuresOK(c) ==
    /\ reply[c].outcome = "noSpecialist" => reply[c].role \notin Registered
    /\ reply[c].outcome # "noResult"
    /\ pc[c] # "done" => reply[c].outcome = "none"
    /\ pc[c] = "clearing" => "clear" \in Ops

CallOK(c) ==
    PendingOK(c) /\ TurnOK(c) /\ DelegationOK(c) /\ EndedOK(c) /\ FailuresOK(c)

SequentialInv ==
    /\ OneCall
    /\ \A c \in Calls : CallOK(c)
    /\ "clear" \notin Ops => NoResultLost

(* A delegation makes the role it asks for active, and briefs it, or the   *)
(* registry does not know the role.                                        *)
LEMMA StartBriefs ==
    ASSUME ConstantsAssumption, TypeOK, NEW s \in Calls, NEW c \in Calls,
           NEW role \in Roles,
           states' = [states EXCEPT ![s] = Started(@, role, c)]
    PROVE  /\ states'[s].active # Primary =>
                 states'[s].active = role /\ c \in states'[s].briefings[role]
           /\ states'[s].active = Primary => role \notin Registered
<1>1. states[s] \in SessionState /\ states'[s] = Started(states[s], role, c)
  BY DEF TypeOK
<1>2. CASE role \in states[s].instances \cup Registered
  <2> DEFINE q == states[s]
  <2>1. Started(q, role, c) =
           [q EXCEPT !.instances = @ \cup {role}, !.briefings = Briefed(@, role, c),
                     !.active = role, !.activeRole = role]
    BY <1>2 DEF Started
  <2>2. /\ states'[s].active = role
        /\ states'[s].briefings = Briefed(q.briefings, role, c)
    BY <1>1, <2>1 DEF SessionState
  <2>3. c \in Briefed(states[s].briefings, role, c)[role]
    BY <1>1 DEF Briefed, SessionState
  <2> QED BY <2>2, <2>3 DEF ConstantsAssumption
<1>3. CASE role \notin states[s].instances \cup Registered
  <2>1. Started(states[s], role, c) =
           [states[s] EXCEPT !.active = Primary, !.activeRole = None]
    BY <1>3 DEF Started
  <2>2. states'[s].active = Primary
    BY <1>1, <2>1 DEF SessionState
  <2> QED BY <1>3, <2>2
<1> QED BY <1>2, <1>3

(* The calls that are not in flight are not concerned by a step of c.      *)
LEMMA OthersKeep ==
    ASSUME TypeOK, \A d \in Calls : CallOK(d), NEW c \in Calls, NEW p,
           \A d \in Calls \ {c} : Resting(d), Become(c, p),
           \A d \in Calls \ {c} :
              /\ note'[d] = note[d] /\ ended'[d] = ended[d]
              /\ reply'[d] = reply[d] /\ st'[d] = st[d],
           CallOK(c)'
    PROVE  OneCall' /\ \A d \in Calls : CallOK(d)'
<1>1. \A d \in Calls \ {c} : pc'[d] = pc[d]
  BY DEF TypeOK, Become
<1>2. \A d \in Calls \ {c} : Resting(d)' /\ CallOK(d)'
  BY <1>1 DEF Resting, CallOK, PendingOK, TurnOK, DelegationOK, EndedOK, FailuresOK
<1> QED BY <1>2 DEF OneCall

LEMMA OthersRest ==
    ASSUME OneCall, NEW c \in Calls, ~Resting(c)
    PROVE  \A d \in Calls \ {c} : Resting(d)
BY DEF OneCall

(* A result is not lost where nothing is taken away. *)
LEMMA LostKeeps ==
    ASSUME ConstantsAssumption, NoResultLost, UNCHANGED ended,
           \A d \in Calls : ended[d].by # None =>
              st'[d] = st[d] /\ states'[st[d]].pending = states[st[d]].pending,
           \A d \in Calls : note[d] # None => note'[d] = note[d]
    PROVE  NoResultLost'
<1> SUFFICES ASSUME NEW c \in Calls, ended[c].by # None
             PROVE  states'[st'[c]].pending = c \/ \E d \in Calls : note'[d] = c
  BY DEF NoResultLost
<1>1. CASE states[st[c]].pending = c
  BY <1>1
<1>2. CASE \E d \in Calls : note[d] = c
  BY <1>2 DEF ConstantsAssumption
<1> QED BY <1>1, <1>2 DEF NoResultLost

(* A method is called: no other call is in flight. *)
LEMMA InvokeKeeps ==
    ASSUME ConstantsAssumption, MaxInFlight = 1, IInv, SequentialInv,
           NEW c \in Calls, NEW o, NEW k, Invoke(c, o, k),
           NEW p \in {"ready", "creating", "clearing", "closing"}, Become(c, p),
           p = "clearing" => o = "clear",
           \A d \in Calls \ {c} : st'[d] = st[d],
           UNCHANGED <<states, note, ended, reply>>
    PROVE  SequentialInv'
<1>1. TypeOK /\ pc[c] = "idle" /\ OneCall /\ (\A d \in Calls : CallOK(d)) /\ o \in Ops
  BY DEF IInv, SequentialInv, Invoke
<1>2. pc'[c] = p
  BY <1>1 DEF Become, TypeOK
<1>3. \A d \in Calls : Resting(d)
  <2> DEFINE S == {d \in Calls : pc[d] \notin {"idle", "done"}}
  <2>1. Cardinality(S) < 1
    BY DEF Invoke
  <2>2. ASSUME NEW d \in Calls, ~Resting(d)
        PROVE  FALSE
    <3>1. S = {d}
      BY <1>1, <2>2 DEF OneCall, Resting
    <3>2. Cardinality({d}) = 1
      BY FS_Singleton
    <3> HIDE DEF S
    <3> QED BY <2>1, <3>1, <3>2
  <2> QED BY <2>2
<1>4. ended[c].by = None /\ note[c] = None
  BY <1>1 DEF CallOK, EndedOK, EndedPCs, TurnOK
<1>5. CallOK(c)'
  BY <1>1, <1>2, <1>4
     DEF CallOK, PendingOK, TurnOK, DelegationOK, EndedOK, FailuresOK, ConstantsAssumption
<1>6. OneCall' /\ \A d \in Calls : CallOK(d)'
  BY <1>1, <1>3, <1>5, OthersKeep
<1>7. ASSUME "clear" \notin Ops
      PROVE  NoResultLost'
  BY <1>4, <1>7, LostKeeps DEF SequentialInv
<1> QED BY <1>6, <1>7 DEF SequentialInv

(* A call returns. *)
LEMMA ReturnKeeps ==
    ASSUME ConstantsAssumption, IInv, SequentialInv, NEW c \in Calls, ~Resting(c),
           NEW outcome \in {"answer", "threw", "noSpecialist"},
           NEW by, NEW signal, NEW role, Return(c, outcome, by, signal, role),
           outcome = "noSpecialist" => role \notin Registered,
           UNCHANGED <<states, st, note, ended>>
    PROVE  SequentialInv'
<1>1. TypeOK /\ OneCall /\ (\A d \in Calls : CallOK(d)) /\ Become(c, "done")
  BY DEF IInv, SequentialInv, Return
<1>2. /\ pc'[c] = "done" /\ reply'[c].outcome = outcome /\ reply'[c].role = role
      /\ \A d \in Calls \ {c} : reply'[d] = reply[d]
  BY <1>1 DEF Return, Become, TypeOK
<1>3. CallOK(c)'
  BY <1>1, <1>2
     DEF CallOK, PendingOK, TurnOK, DelegationOK, EndedOK, EndedPCs, FailuresOK
<1>4. OneCall' /\ \A d \in Calls : CallOK(d)'
  BY <1>1, <1>2, <1>3, OthersRest, OthersKeep
<1>5. ASSUME "clear" \notin Ops
      PROVE  NoResultLost'
  BY <1>5, LostKeeps DEF SequentialInv
<1> QED BY <1>4, <1>5 DEF SequentialInv

(* The other steps of processMessage and of the session lookup. *)
LEMMA ProcessKeeps ==
    ASSUME ConstantsAssumption, IInv, SequentialInv, NEW c \in Calls,
           \/ CreateState(c) \/ RouteWithResult(c) \/ RouteToActive(c)
           \/ RequestSubConversation(c) \/ HandOver(c) \/ EndSubConversation(c)
           \/ Report(c)
    PROVE  SequentialInv'
<1>1. TypeOK /\ RefsOK /\ OneCall /\ (\A d \in Calls : CallOK(d)) /\ CallOK(c)
  BY DEF IInv, SequentialInv
<1>2. ~Resting(c)
  BY DEF Resting, CreateState, RouteWithResult, RouteToActive, RequestSubConversation,
         HandOver, EndSubConversation, Report
<1>3. \A d \in Calls \ {c} : Resting(d)
  BY <1>1, <1>2, OthersRest
<1>4. pc[c] # "creating" => st[c] \in Calls
  BY <1>1 DEF CreateState, RouteWithResult, RouteToActive, RequestSubConversation,
              HandOver, EndSubConversation, Report, RefsOK, TypeOK
<1> USE DEF CallOK, PendingOK, TurnOK, DelegationOK, EndedOK, FailuresOK, EndedPCs
<1>5. CASE CreateState(c)
  <2>1. /\ pc[c] = "creating" /\ Become(c, "ready") /\ UNCHANGED <<note, ended, reply>>
        /\ st' = [st EXCEPT ![c] = c]
        /\ states' = [states EXCEPT ![c] = NewState(coordinator[c])]
    BY <1>5 DEF CreateState
  <2>2. pc'[c] = "ready" /\ (\A d \in Calls \ {c} : st'[d] = st[d])
    BY <1>1, <2>1 DEF Become, TypeOK
  <2>3. CallOK(c)'
    BY <1>1, <2>1, <2>2
  <2>4. OneCall' /\ \A d \in Calls : CallOK(d)'
    BY <1>1, <1>3, <2>1, <2>2, <2>3, OthersKeep
  <2>5. ASSUME "clear" \notin Ops
        PROVE  NoResultLost'
    <3>1. \A d \in Calls : ended[d].by # None => d # c /\ st[d] \in Calls /\ st[d] # c
      BY <1>1, <2>1 DEF RefsOK, TypeOK
    <3>2. \A d \in Calls : d # c => states'[d] = states[d]
      BY <1>1, <2>1 DEF TypeOK
    <3>3. \A d \in Calls : ended[d].by # None =>
             st'[d] = st[d] /\ states'[st[d]].pending = states[st[d]].pending
      BY <2>2, <3>1, <3>2
    <3> QED BY <2>1, <2>5, <3>3, LostKeeps DEF SequentialInv
  <2> QED BY <2>4, <2>5 DEF SequentialInv
<1>6. CASE RouteToActive(c) \/ HandOver(c)
  <2>1. PICK p \in {"turn", "specialistTurn"} :
           /\ Become(c, p) /\ UNCHANGED <<states, st, note, ended, reply>>
           /\ agent' = [agent EXCEPT ![c] = states[st[c]].active]
           /\ p = "turn" => pc[c] = "ready" /\ states[st[c]].pending = None
           /\ p = "specialistTurn" => pc[c] = "started" /\ states[st[c]].active # Primary
    BY <1>6 DEF RouteToActive, HandOver
  <2>2. pc'[c] = p /\ agent'[c] = states[st[c]].active
    BY <1>1, <2>1 DEF Become, TypeOK
  <2>3. states[st[c]].active \in Agents
    BY <1>1, <1>4, <2>1 DEF TypeOK, SessionState
  <2>4. CallOK(c)'
    BY <1>1, <2>1, <2>2, <2>3
  <2>5. OneCall' /\ \A d \in Calls : CallOK(d)'
    BY <1>1, <1>3, <2>1, <2>4, OthersKeep
  <2>6. ASSUME "clear" \notin Ops
        PROVE  NoResultLost'
    BY <2>1, <2>6, LostKeeps DEF SequentialInv
  <2> QED BY <2>5, <2>6 DEF SequentialInv
<1>7. CASE RouteWithResult(c) \/ Report(c)
  <2>1. PICK p \in {"turn", "reporting"} :
           /\ Become(c, p) /\ UNCHANGED <<st, ended, reply>>
           /\ note' = [note EXCEPT ![c] = states[st[c]].pending]
           /\ states' = [states EXCEPT ![st[c]] = TakePending(@)]
           /\ agent' = [agent EXCEPT ![c] = Primary]
           /\ pc[c] \in {"ready", "ended"} /\ (p = "turn" => pc[c] = "ready")
    BY <1>7 DEF RouteWithResult, Report
  <2>2. /\ pc'[c] = p /\ agent'[c] = Primary /\ note'[c] = states[st[c]].pending
        /\ \A d \in Calls \ {c} : note'[d] = note[d]
    BY <1>1, <2>1 DEF Become, TypeOK
  <2>3. /\ st[c] \in Calls /\ states'[st[c]].pending = None
        /\ \A t \in Calls \ {st[c]} : states'[t].pending = states[t].pending
    BY <1>1, <1>4, <2>1, TakeEffect
  <2>4. CallOK(c)'
    BY <1>1, <2>1, <2>2, <2>3 DEF Agents
  <2>5. OneCall' /\ \A d \in Calls : CallOK(d)'
    BY <1>1, <1>3, <2>1, <2>2, <2>4, OthersKeep
  <2>6. ASSUME "clear" \notin Ops
        PROVE  NoResultLost'
    <3> SUFFICES ASSUME NEW d \in Calls, ended[d].by # None
                 PROVE  states'[st[d]].pending = d \/ \E e \in Calls : note'[e] = d
      BY <2>1 DEF NoResultLost
    <3>1. CASE states[st[d]].pending = d
      BY <1>1, <2>2, <2>3, <3>1 DEF TypeOK
    <3>2. CASE \E e \in Calls : note[e] = d
      <4>1. PICK e \in Calls : note[e] = d
        BY <3>2
      <4>2. e # c
        BY <1>1, <2>1, <4>1 DEF ConstantsAssumption
      <4> QED BY <2>2, <4>1, <4>2
    <3> QED BY <2>6, <3>1, <3>2 DEF SequentialInv, NoResultLost
  <2> QED BY <2>5, <2>6 DEF SequentialInv
<1>8. CASE RequestSubConversation(c)
  <2>1. PICK x \in Answers(agent[c]) :
           /\ x.signal = "REQUEST"
           /\ states' = [states EXCEPT ![st[c]] = Started(@, x.role, c)]
           /\ reply' = [reply EXCEPT ![c] = Asked(@, x.role)]
    BY <1>8 DEF RequestSubConversation
  <2>2. /\ pc[c] = "turn" /\ Become(c, "started") /\ UNCHANGED <<st, agent, note, ended>>
        /\ st[c] \in Calls /\ x.role \in Roles
    BY <1>4, <1>8, <2>1, AnswerTypes DEF RequestSubConversation
  <2>3. pc'[c] = "started" /\ (\A d \in Calls \ {c} : reply'[d] = reply[d])
    BY <1>1, <2>1, <2>2 DEF Become, TypeOK
  <2>4. reply'[c].role = x.role /\ reply'[c].outcome = reply[c].outcome
    BY <1>1, <2>1 DEF Asked, TypeOK, Replies
  <2>5. \A t \in Calls : states'[t].pending = states[t].pending
    BY <1>1, <2>1, <2>2, StartEffect
  <2>6. /\ states'[st[c]].active # Primary =>
              states'[st[c]].active = x.role /\ c \in states'[st[c]].briefings[x.role]
        /\ states'[st[c]].active = Primary => x.role \notin Registered
    BY <1>1, <2>1, <2>2, StartBriefs
  <2>7. reply[c].outcome # "noSpecialist"
    BY <1>1, <2>2
  <2>8. CallOK(c)'
    BY <1>1, <2>2, <2>3, <2>4, <2>5, <2>6, <2>7
  <2>9. OneCall' /\ \A d \in Calls : CallOK(d)'
    BY <1>1, <1>3, <2>2, <2>3, <2>8, OthersKeep
  <2>10. ASSUME "clear" \notin Ops
         PROVE  NoResultLost'
    BY <1>1, <2>2, <2>5, <2>10, LostKeeps DEF SequentialInv, TypeOK
  <2> QED BY <2>9, <2>10 DEF SequentialInv
<1>9. CASE EndSubConversation(c)
  <2>1. PICK p \in {"ended", "endedByPrimary"} :
           /\ pc[c] = "turn" /\ Become(c, p) /\ (p = "ended" => agent[c] # Primary)
           /\ ended' = [ended EXCEPT ![c] = [by |-> agent[c],
                                             role |-> states[st[c]].activeRole]]
           /\ states' = [states EXCEPT ![st[c]] = Ended(@, c)]
           /\ UNCHANGED <<st, agent, note, reply>> /\ st[c] \in Calls
    BY <1>4, <1>9 DEF EndSubConversation, EndedRole
  <2>2. /\ pc'[c] = p /\ ended'[c].by = agent[c] /\ ended'[c].role = states[st[c]].activeRole
        /\ \A d \in Calls \ {c} : ended'[d] = ended[d]
    BY <1>1, <2>1 DEF Become, TypeOK
  <2>3. /\ states'[st[c]].pending = c
        /\ \A t \in Calls \ {st[c]} : states'[t] = states[t]
    <3>1. TypeOK /\ st[c] \in Calls /\ states' = [states EXCEPT ![st[c]] = Ended(@, c)]
      BY <1>1, <2>1
    <3> QED BY <3>1, EndEffect
  <2>4. agent[c] \in Roles => states[st[c]].activeRole = agent[c]
    BY <1>1, <2>1 DEF IInv, ActiveAgentExists, ConstantsAssumption
  <2>5. CallOK(c)'
    BY <1>1, <2>1, <2>2, <2>3, <2>4 DEF ConstantsAssumption
  <2>6. OneCall' /\ \A d \in Calls : CallOK(d)'
    BY <1>1, <1>3, <2>1, <2>2, <2>5, OthersKeep
  <2>7. ASSUME "clear" \notin Ops
        PROVE  NoResultLost'
    <3> SUFFICES ASSUME NEW d \in Calls, ended'[d].by # None
                 PROVE  states'[st[d]].pending = d \/ \E e \in Calls : note[e] = d
      BY <2>1 DEF NoResultLost
    <3>1. CASE d = c
      BY <2>3, <3>1
    <3>2. CASE d # c
      <4>1. ended[d].by # None /\ st[d] \in Calls
        BY <1>1, <2>2, <3>2 DEF TypeOK
      <4>2. states[st[c]].pending = None
        BY <1>1, <2>1
      <4>3. states[st[d]].pending = d => st[d] # st[c]
        BY <4>2 DEF ConstantsAssumption
      <4> QED BY <2>3, <2>7, <4>1, <4>3 DEF SequentialInv, NoResultLost
    <3> QED BY <3>1, <3>2
  <2> QED BY <2>6, <2>7 DEF SequentialInv
<1> QED BY <1>5, <1>6, <1>7, <1>8, <1>9

LEMMA ClearKeeps ==
    ASSUME ConstantsAssumption, IInv, SequentialInv, NEW c \in Calls, HistoryCleared(c)
    PROVE  SequentialInv'
<1>1. TypeOK /\ OneCall /\ (\A d \in Calls : CallOK(d)) /\ pc[c] = "clearing"
  BY DEF IInv, SequentialInv, HistoryCleared
<1>2. /\ Become(c, "done") /\ pc'[c] = "done" /\ reply'[c].outcome = "answer"
      /\ \A d \in Calls \ {c} : reply'[d] = reply[d]
      /\ UNCHANGED <<st, note, ended>>
  BY <1>1 DEF HistoryCleared, Return, Become, TypeOK
<1>3. CallOK(c)'
  BY <1>1, <1>2 DEF CallOK, PendingOK, TurnOK, DelegationOK, EndedOK, EndedPCs, FailuresOK
<1>4. OneCall' /\ \A d \in Calls : CallOK(d)'
  <2>1. ~Resting(c)
    BY <1>1 DEF Resting
  <2> QED BY <1>1, <1>2, <1>3, <2>1, OthersRest, OthersKeep
<1>5. "clear" \in Ops
  BY <1>1 DEF CallOK, FailuresOK
<1> QED BY <1>4, <1>5 DEF SequentialInv

LEMMA SequentialInit == ConstantsAssumption /\ Init => SequentialInv
<1> SUFFICES ASSUME ConstantsAssumption, Init PROVE SequentialInv
  OBVIOUS
<1>1. \A c \in Calls : /\ pc[c] = "idle" /\ note[c] = None /\ ended[c].by = None
                       /\ reply[c].outcome = "none"
  BY DEF Init, NoReply
<1>2. OneCall
  BY <1>1 DEF OneCall, Resting
<1>3. \A c \in Calls : CallOK(c)
  BY <1>1 DEF CallOK, PendingOK, TurnOK, DelegationOK, EndedOK, FailuresOK,
              ConstantsAssumption
<1>4. NoResultLost
  BY <1>1 DEF NoResultLost
<1> QED BY <1>2, <1>3, <1>4 DEF SequentialInv

LEMMA SequentialStep ==
    ASSUME ConstantsAssumption, MaxInFlight = 1
    PROVE  IInv /\ SequentialInv /\ [Next]_vars => SequentialInv'
<1> SUFFICES ASSUME IInv, SequentialInv, [Next]_vars PROVE SequentialInv'
  OBVIOUS
<1>1. ASSUME NEW c \in Calls, Lookup(c) PROVE SequentialInv'
  <2>1. ASSUME NEW o \in {"process", "open"}, NEW k \in Keys,
               FindState(c, o, k) \/ GetCoordinator(c, o, k)
        PROVE  SequentialInv'
    <3>1. PICK p \in {"ready", "creating"} :
             /\ Invoke(c, o, k) /\ Become(c, p) /\ UNCHANGED <<states, note, ended, reply>>
             /\ \A d \in Calls \ {c} : st'[d] = st[d]
      BY <2>1 DEF FindState, GetCoordinator, IInv, TypeOK
    <3> QED BY <3>1, InvokeKeeps
  <2>2. CASE CreateState(c)
    BY <2>2, ProcessKeeps
  <2>3. CASE ReturnSession(c)
    <3>1. ~Resting(c) /\ UNCHANGED <<states, st, note, ended>>
          /\ Return(c, "answer", Primary, "none", None)
      BY <2>3 DEF ReturnSession, Resting
    <3> QED BY <3>1, ReturnKeeps
  <2> QED BY <1>1, <2>1, <2>2, <2>3 DEF Lookup
<1>2. ASSUME NEW c \in Calls, Process(c) PROVE SequentialInv'
  <2>1. CASE \/ RouteWithResult(c) \/ RouteToActive(c) \/ RequestSubConversation(c)
             \/ HandOver(c) \/ EndSubConversation(c) \/ Report(c)
    BY <2>1, ProcessKeeps
  <2>2. CASE ReturnAnswer(c) \/ ReturnSecondAnswer(c)
    <3>1. PICK x \in Answers(agent[c]) : Return(c, "answer", agent[c], x.signal, x.role)
      BY <2>2 DEF ReturnAnswer, ReturnSecondAnswer
    <3>2. ~Resting(c) /\ UNCHANGED <<states, st, note, ended>>
      BY <2>2 DEF ReturnAnswer, ReturnSecondAnswer, Resting
    <3> QED BY <3>1, <3>2, ReturnKeeps
  <2>3. CASE TurnThrows(c)
    <3>1. ~Resting(c) /\ UNCHANGED <<states, st, note, ended>>
          /\ Return(c, "threw", agent[c], "none", None)
      BY <2>3 DEF TurnThrows, Resting
    <3> QED BY <3>1, ReturnKeeps
  <2>4. CASE ReturnPrimaryEnd(c)
    <3>1. ~Resting(c) /\ UNCHANGED <<states, st, note, ended>>
          /\ Return(c, "answer", Primary, "END", None)
      BY <2>4 DEF ReturnPrimaryEnd, Resting
    <3> QED BY <3>1, ReturnKeeps
  <2>5. CASE HandOverFails(c)
    <3>1. /\ ~Resting(c) /\ UNCHANGED <<states, st, note, ended>>
          /\ Return(c, "noSpecialist", None, "REQUEST", reply[c].role)
          /\ reply[c].role \notin Registered
      BY <2>5 DEF HandOverFails, Resting, SequentialInv, CallOK, DelegationOK
    <3> QED BY <3>1, ReturnKeeps
  <2>6. CASE ReportFails(c)
    BY <2>6 DEF ReportFails, SequentialInv, CallOK, PendingOK, ConstantsAssumption
  <2> QED BY <1>2, <2>1, <2>2, <2>3, <2>4, <2>5, <2>6 DEF Process
<1>3. ASSUME NEW c \in Calls, Maintain(c) PROVE SequentialInv'
  <2>1. CASE \E k \in Keys : ClearSessionHistory(c, k)
    <3>1. PICK k \in Keys :
             /\ Invoke(c, "clear", k) /\ Become(c, "clearing")
             /\ UNCHANGED <<states, note, ended, reply>>
             /\ \A d \in Calls \ {c} : st'[d] = st[d]
      BY <2>1 DEF ClearSessionHistory, IInv, TypeOK
    <3> QED BY <3>1, InvokeKeeps
  <2>2. CASE HistoryCleared(c)
    BY <2>2, ClearKeeps
  <2>3. CASE Shutdown(c)
    <3>1. /\ Invoke(c, "shutdown", None) /\ Become(c, "closing")
          /\ UNCHANGED <<states, note, ended, reply>> /\ UNCHANGED st
      BY <2>3 DEF Shutdown
    <3> QED BY <3>1, InvokeKeeps
  <2>4. CASE MemoriesClosed(c)
    <3>1. ~Resting(c) /\ UNCHANGED <<states, st, note, ended>>
          /\ Return(c, "answer", None, "none", None)
      BY <2>4 DEF MemoriesClosed, Resting
    <3> QED BY <3>1, ReturnKeeps
  <2> QED BY <1>3, <2>1, <2>2, <2>3, <2>4 DEF Maintain
<1>4. ASSUME UNCHANGED <<states, pc, st, agent, note, ended, reply>>
      PROVE  SequentialInv'
  BY <1>4 DEF SequentialInv, OneCall, Resting, CallOK, PendingOK, TurnOK, DelegationOK,
              EndedOK, FailuresOK, NoResultLost
<1>5. CASE \E k \in Keys : EndSession(k)
  BY <1>4, <1>5 DEF EndSession
<1>6. CASE UNCHANGED vars
  BY <1>4, <1>6 DEF vars
<1> QED BY <1>1, <1>2, <1>3, <1>5, <1>6 DEF Next

(* The invariant of one call at a time, over that of any number of calls.  *)
THEOREM SequentialInvariance ==
    ASSUME MaxInFlight = 1
    PROVE  Spec => []SequentialInv
<1>1. ConstantsAssumption
  BY ConstantsAssumption
<1>2. Init => SequentialInv
  BY <1>1, SequentialInit
<1>3. IInv /\ SequentialInv /\ [Next]_vars => SequentialInv'
  BY <1>1, SequentialStep
<1>4. Spec => []IInv
  BY <1>1, Invariance
<1> QED BY <1>2, <1>3, <1>4, PTL DEF Spec

(* No result of a specialist is lost, whatever sessions end, fail or start *)
(* again: it is pending or has been shown to the coordinator               *)
(* (_endSubConversation:346), if no history is cleared with it.            *)
THEOREM ResultsKept ==
    ASSUME MaxInFlight = 1, "clear" \notin Ops
    PROVE  Spec => []NoResultLost
<1>1. SequentialInv => NoResultLost
  BY DEF SequentialInv
<1> QED BY <1>1, SequentialInvariance, PTL

(* The result names the specialist that ended the sub-conversation.        *)
THEOREM ResultsNamed ==
    ASSUME MaxInFlight = 1
    PROVE  Spec => []ResultNamesItsSpecialist
<1>1. SequentialInv => ResultNamesItsSpecialist
  BY DEF SequentialInv, CallOK, EndedOK, ResultNamesItsSpecialist
<1> QED BY <1>1, SequentialInvariance, PTL

(* The specialist that answers the original message of a delegation is the *)
(* one asked for, and knows the context of that delegation.                *)
THEOREM SpecialistsBriefed ==
    ASSUME MaxInFlight = 1
    PROVE  Spec => []SpecialistIsBriefed
<1>1. SequentialInv => SpecialistIsBriefed
  BY DEF SequentialInv, CallOK, DelegationOK, SpecialistIsBriefed
<1> QED BY <1>1, SequentialInvariance, PTL

(* A delegation fails only for a role the registry does not know, and an   *)
(* END always finds the result it has stored.                              *)
THEOREM FailuresJustified ==
    ASSUME MaxInFlight = 1
    PROVE  Spec => []FailuresAreJustified
<1>1. SequentialInv => FailuresAreJustified
  BY DEF SequentialInv, CallOK, FailuresOK, FailuresAreJustified
<1> QED BY <1>1, SequentialInvariance, PTL
=============================================================================
