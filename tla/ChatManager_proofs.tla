------------------------- MODULE ChatManager_proofs -------------------------
(***************************************************************************)
(* Proofs about the session manager and the memories its agents share.     *)
(*                                                                         *)
(* StepOK says what one step may do to the memories and to the calls in    *)
(* flight; that every step obeys it is proved action by action.  The       *)
(* invariants are then proved of any step that obeys it.                   *)
(***************************************************************************)
EXTENDS ChatManager, WellFoundedInduction, TLAPS

MessagePCs == {"appendUser", "facts", "summary", "llm", "appendAnswer",
               "evaluate", "remember"}
ClearPCs == {"clearLog", "clearInactive", "clearFacts", "clearSummaries"}

Running(c) == pc[c] \notin {"idle", "done"}

UserOps == {"message", "clear", "delete"}

ManagerTyped ==
    /\ messages \in [Contexts -> SUBSET Calls]
    /\ sessions \in [Sessions -> Contexts \cup {None}]
    /\ clock \in Nat /\ time \in [Calls -> Nat]

InvocationsTyped ==
    /\ op \in [Calls -> Ops \cup {None}]
    /\ id \in [Calls -> Ids \cup {None}]
    /\ context \in [Calls -> Contexts \cup {None}]
    /\ before \in [Calls -> SUBSET Calls]

CallsTyped ==
    /\ pc \in [Calls -> PCs]
    /\ DOMAIN known = Calls
    /\ recent \in [Calls -> Calls \cup {None}]
    /\ DOMAIN accepted = Calls
    /\ reply \in [Calls -> Replies]

Typed == MemoriesTypeOK /\ ManagerTyped /\ InvocationsTyped /\ CallsTyped

(* The agent of a session has its id as chatId, and every call works on    *)
(* the chat of the trimmed id.                                             *)
OwnContext ==
    /\ \A s \in Sessions : sessions[s] \in {s, None}
    /\ \A c \in Calls : pc[c] # "idle" /\ op[c] \in UserOps =>
          id[c] \in Ids /\ context[c] = Trim[id[c]]

(* Where a call is tells which method it runs. *)
Methods ==
    \A c \in Calls :
        /\ pc[c] \in MessagePCs => op[c] = "message"
        /\ pc[c] \in ClearPCs => op[c] = "clear"
        /\ pc[c] = "delete" => op[c] = "delete"
        /\ pc[c] = "close" => op[c] = "shutdown"
        /\ pc[c] = "idle" => accepted[c] = {} /\ op[c] = None /\ reply[c] = "none"

(* The calls before a call are over. *)
BeforeIsOver == \A c \in Calls : \A d \in before[c] : pc[d] = "done"

(* A memory that is not there holds nothing. *)
AbsentIsEmpty ==
    /\ condition["fact"] = "absent" =>
          \A x \in Contexts, k \in FactKeys : facts[x][k] = None
    /\ condition["summary"] = "absent" =>
          \A x \in Contexts : summaries[x] = {}

(* What the memories hold of a chat was written by calls of its user. *)
Owned(w, x) == w \in Calls /\ pc[w] # "idle" /\ op[w] = "message" /\ Trim[id[w]] = x

WrittenByOwner ==
    \A x \in Contexts :
        /\ \A k \in FactKeys : facts[x][k] # None => Owned(facts[x][k], x)
        /\ \A s \in summaries[x] : Owned(s.by, x)

KnownIsOwn ==
    \A t \in Calls :
        /\ \A k \in DOMAIN known[t] : /\ pc[t] # "idle" /\ op[t] = "message"
                                      /\ Owned(known[t][k], Trim[id[t]])
        /\ recent[t] # None => /\ pc[t] # "idle" /\ op[t] = "message"
                               /\ Owned(recent[t], Trim[id[t]])

(* What a clear has removed so far.                                        *)
Cleared ==
    \A c \in Calls : op[c] = "clear" =>
        LET x == Trim[id[c]] IN
        /\ "conversation" \in accepted[c] => messages[x] \cap before[c] = {}
        /\ pc[c] = "clearSummaries" \/ reply[c] = "fulfilled" =>
              \A k \in FactKeys : facts[x][k] \notin before[c]
        /\ reply[c] = "fulfilled" =>
              pc[c] = "done" /\ \A s \in summaries[x] : s.by \notin before[c]

(* A fact that was stored is still there or was replaced or cleared by a   *)
(* call that was not over when that of the fact began.                     *)
Stored ==
    \A u \in Calls : op[u] = "message" =>
        \A k \in accepted[u] \cap FactKeys :
            /\ condition["fact"] \notin {"absent", "unconnected"}
            /\ MayBeCleared(u) \/ (facts[context[u]][k] \in Calls \ before[u])

(* It is known to a later turn once that has read the facts.               *)
Known ==
    \A t, u \in Calls :
        /\ op[t] = "message" /\ op[u] = "message" /\ u \in before[t]
        /\ Trim[id[t]] = Trim[id[u]] /\ pc[t] \in {"summary", "llm"}
        /\ condition["fact"] = "open" /\ ~MayBeCleared(u)
        => \A k \in accepted[u] \cap FactKeys :
              k \in DOMAIN known[t] /\ known[t][k] \notin before[u]

IInv ==
    /\ Typed /\ OwnContext /\ Methods /\ BeforeIsOver /\ AbsentIsEmpty
    /\ WrittenByOwner /\ KnownIsOwn /\ Cleared /\ Stored /\ Known

-----------------------------------------------------------------------------
(* What a step may do.                                                     *)

(* A call keeps what it was called with, and its outcome once it is over.  *)
CallsKeep ==
    \A c \in Calls :
        /\ pc[c] # "idle" => /\ pc'[c] # "idle"
                             /\ op'[c] = op[c] /\ id'[c] = id[c]
                             /\ context'[c] = context[c] /\ before'[c] = before[c]
        /\ pc[c] = "done" => /\ pc'[c] = "done"
                             /\ accepted'[c] = accepted[c] /\ reply'[c] = reply[c]

(* How a call begins, and that it stays in its method.                     *)
CallsBegin ==
    \A c \in Calls : pc[c] = "idle" =>
        /\ accepted'[c] = accepted[c]
        /\ \/ /\ pc'[c] = "idle" /\ reply'[c] = reply[c]
              /\ op'[c] = op[c] /\ before'[c] = before[c]
           \/ /\ pc'[c] # "idle" /\ before'[c] = {d \in Calls : pc[d] = "done"}
              /\ op'[c] \in UserOps => id'[c] \in Ids /\ context'[c] = Trim[id'[c]]
              /\ \/ op'[c] = "message" /\ pc'[c] = "appendUser"
                 \/ /\ op'[c] = "clear" /\ reply'[c] # "fulfilled"
                    /\ pc'[c] \in {"clearLog", "clearInactive", "done"}
                 \/ op'[c] = "delete" /\ pc'[c] = "delete"
                 \/ op'[c] = "shutdown" /\ pc'[c] \in {"close", "done"}

CallsStay ==
    \A c \in Calls :
        /\ pc[c] \in MessagePCs => pc'[c] \in MessagePCs \cup {"done"}
        /\ pc[c] \in ClearPCs => pc'[c] \in ClearPCs \cup {"done"}
        /\ pc[c] = "delete" => pc'[c] \in {"delete", "done"}
        /\ pc[c] = "close" => pc'[c] \in {"close", "done"}

(* Who writes what where. *)
FactsWritten ==
    \A x \in Contexts, k \in FactKeys :
        \/ facts'[x][k] = facts[x][k]
        \/ /\ facts'[x][k] \in Calls /\ pc[facts'[x][k]] = "remember"
           /\ context[facts'[x][k]] = x /\ condition["fact"] # "absent"
        \/ /\ facts'[x][k] = None
           /\ \E d \in Calls : pc[d] \in {"clearFacts", "delete"} /\ context[d] = x

SummariesWritten ==
    \A x \in Contexts : \A s \in summaries'[x] :
        \/ s \in summaries[x]
        \/ /\ s.by \in Calls /\ pc[s.by] = "remember" /\ context[s.by] = x
           /\ condition["summary"] # "absent"

MessagesWritten ==
    \A x \in Contexts : \A m \in messages'[x] :
        m \in messages[x] \/ (m \in Calls /\ pc[m] \in MessagePCs)

ConditionsChange ==
    \A m \in MemoryTypes :
        \/ condition'[m] = condition[m]
        \/ condition[m] = "unconnected" /\ condition'[m] = "open"
        \/ condition[m] # "absent" /\ condition'[m] = "closed"

SessionsChange ==
    \A s \in Sessions : sessions'[s] \in {sessions[s], s, None}

(* What a call reports as stored or cleared it has stored or cleared. *)
Accepts ==
    \A c \in Calls :
        /\ \A k \in accepted'[c] \cap FactKeys :
              \/ k \in accepted[c]
              \/ /\ pc[c] = "remember" /\ facts'[context[c]][k] = c
                 /\ condition["fact"] \in {"open", "failing"}
        /\ op[c] = "clear" /\ "conversation" \in accepted'[c] =>
              "conversation" \in accepted[c] \/ messages'[context[c]] = {}

Clears ==
    \A c \in Calls : op[c] = "clear" =>
        /\ pc'[c] = "clearSummaries" =>
              \/ pc[c] = "clearSummaries"
              \/ \A k \in FactKeys : facts'[context[c]][k] = None
        /\ reply'[c] = "fulfilled" =>
              \/ reply[c] = "fulfilled"
              \/ /\ pc[c] = "clearSummaries" /\ pc'[c] = "done"
                 /\ summaries'[context[c]] = {}

(* What a turn learns it has from the memories. *)
Learns ==
    \A t \in Calls :
        /\ \/ known'[t] = known[t] \/ known'[t] = << >>
           \/ pc[t] = "facts" /\ known'[t] = AllFacts(context[t])
        /\ \/ recent'[t] = recent[t] \/ recent'[t] = None
           \/ pc[t] = "summary" /\ \E s \in summaries[context[t]] : recent'[t] = s.by
        /\ pc'[t] \in {"summary", "llm"} =>
              \/ pc[t] \in {"summary", "llm"} /\ known'[t] = known[t]
              \/ /\ pc[t] = "facts" /\ UNCHANGED memoryVars
                 /\ known'[t] = AllFacts(context[t]) \/ condition["fact"] # "open"

StepOK ==
    /\ CallsKeep /\ CallsBegin /\ CallsStay
    /\ FactsWritten /\ SummariesWritten /\ MessagesWritten
    /\ ConditionsChange /\ SessionsChange /\ Accepts /\ Clears /\ Learns

-----------------------------------------------------------------------------
LEMMA TrimmedIds == \A i \in Ids : Trim[i] \in Sessions /\ Trim[i] \in Contexts
BY CallsAssumption DEF Sessions

LEMMA OpenSessionStep ==
  ASSUME IInv, NEW i \in Ids, OpenSession(i)
  PROVE  Typed' /\ StepOK
<1> USE DEF OpenSession, SessionAgent, ChatId,
      Become, Return, Continue, memoryVars, managerVars, turnVars, callVars
<1>0. /\ Typed /\ OwnContext /\ Methods /\ AbsentIsEmpty
      /\ MemoriesTypeOK /\ ManagerTyped /\ InvocationsTyped /\ CallsTyped
  BY DEF IInv, Typed
<1>1. Typed'
  <2>1. MemoriesTypeOK'
    BY <1>0 DEF MemoriesTypeOK, Summaries, MemoryTypes
  <2>2. ManagerTyped'
    BY <1>0, TrimmedIds DEF ManagerTyped
  <2>3. InvocationsTyped'
    BY <1>0, TrimmedIds DEF InvocationsTyped, ManagerTyped
  <2>4. CallsTyped'
    BY <1>0 DEF CallsTyped, PCs, Replies
  <2> QED
    BY <2>1, <2>2, <2>3, <2>4 DEF Typed
<1>2. /\ CallsKeep /\ CallsBegin /\ CallsStay /\ FactsWritten /\ SummariesWritten
      /\ MessagesWritten /\ ConditionsChange /\ SessionsChange /\ Accepts /\ Clears
      /\ Learns
  BY DEF CallsKeep, CallsBegin, CallsStay, FactsWritten, SummariesWritten,
         MessagesWritten, ConditionsChange, SessionsChange, Accepts, Clears, Learns
<1> QED
  BY <1>1, <1>2 DEF StepOK

LEMMA EndSessionStep ==
  ASSUME IInv, NEW s \in Sessions, EndSession(s)
  PROVE  Typed' /\ StepOK
<1> USE DEF EndSession,
      Become, Return, Continue, memoryVars, managerVars, turnVars, callVars
<1>0. /\ Typed /\ OwnContext /\ Methods /\ AbsentIsEmpty
      /\ MemoriesTypeOK /\ ManagerTyped /\ InvocationsTyped /\ CallsTyped
  BY DEF IInv, Typed
<1>1. Typed'
  <2>1. MemoriesTypeOK'
    BY <1>0 DEF MemoriesTypeOK, Summaries, MemoryTypes
  <2>2. ManagerTyped'
    BY <1>0, TrimmedIds DEF ManagerTyped
  <2>3. InvocationsTyped'
    BY <1>0, TrimmedIds DEF InvocationsTyped, ManagerTyped
  <2>4. CallsTyped'
    BY <1>0 DEF CallsTyped, PCs, Replies
  <2> QED
    BY <2>1, <2>2, <2>3, <2>4 DEF Typed
<1>2. /\ CallsKeep /\ CallsBegin /\ CallsStay /\ FactsWritten /\ SummariesWritten
      /\ MessagesWritten /\ ConditionsChange /\ SessionsChange /\ Accepts /\ Clears
      /\ Learns
  BY DEF CallsKeep, CallsBegin, CallsStay, FactsWritten, SummariesWritten,
         MessagesWritten, ConditionsChange, SessionsChange, Accepts, Clears, Learns
<1> QED
  BY <1>1, <1>2 DEF StepOK

LEMMA InitializeMemoryStep ==
  ASSUME IInv, NEW m \in MemoryTypes, InitializeMemory(m)
  PROVE  Typed' /\ StepOK
<1> USE DEF InitializeMemory, Initialize,
      Become, Return, Continue, memoryVars, managerVars, turnVars, callVars
<1>0. /\ Typed /\ OwnContext /\ Methods /\ AbsentIsEmpty
      /\ MemoriesTypeOK /\ ManagerTyped /\ InvocationsTyped /\ CallsTyped
  BY DEF IInv, Typed
<1>1. Typed'
  <2>1. MemoriesTypeOK'
    BY <1>0 DEF MemoriesTypeOK, Summaries, MemoryTypes
  <2>2. ManagerTyped'
    BY <1>0, TrimmedIds DEF ManagerTyped
  <2>3. InvocationsTyped'
    BY <1>0, TrimmedIds DEF InvocationsTyped, ManagerTyped
  <2>4. CallsTyped'
    BY <1>0 DEF CallsTyped, PCs, Replies
  <2> QED
    BY <2>1, <2>2, <2>3, <2>4 DEF Typed
<1>2. /\ CallsKeep /\ CallsBegin /\ CallsStay /\ FactsWritten /\ SummariesWritten
      /\ MessagesWritten /\ ConditionsChange /\ SessionsChange /\ Accepts /\ Clears
      /\ Learns
  BY DEF CallsKeep, CallsBegin, CallsStay, FactsWritten, SummariesWritten,
         MessagesWritten, ConditionsChange, SessionsChange, Accepts, Clears, Learns
<1> QED
  BY <1>1, <1>2 DEF StepOK

LEMMA ProcessMessageStep ==
  ASSUME IInv, NEW c \in Calls, NEW i \in Ids, ProcessMessage(c, i)
  PROVE  Typed' /\ StepOK
<1> USE DEF ProcessMessage, Invoke, SessionAgent, ChatId,
      Become, Return, Continue, memoryVars, managerVars, turnVars, callVars
<1>0. /\ Typed /\ OwnContext /\ Methods /\ AbsentIsEmpty
      /\ MemoriesTypeOK /\ ManagerTyped /\ InvocationsTyped /\ CallsTyped
  BY TrimmedIds DEF IInv, Typed, OwnContext, Methods, UserOps, MessagePCs, ClearPCs
<1>1. Typed'
  <2>1. MemoriesTypeOK'
    BY <1>0 DEF MemoriesTypeOK, Summaries, MemoryTypes
  <2>2. ManagerTyped'
    BY <1>0, TrimmedIds DEF ManagerTyped
  <2>3. InvocationsTyped'
    BY <1>0, TrimmedIds DEF InvocationsTyped, ManagerTyped
  <2>4. CallsTyped'
    BY <1>0 DEF CallsTyped, PCs, Replies
  <2> QED
    BY <2>1, <2>2, <2>3, <2>4 DEF Typed
<1>2. /\ CallsKeep /\ FactsWritten /\ SummariesWritten /\ MessagesWritten /\ ConditionsChange
      /\ SessionsChange /\ Accepts /\ Clears /\ Learns
  BY DEF CallsKeep, FactsWritten, SummariesWritten, MessagesWritten, ConditionsChange,
         SessionsChange, Accepts, Clears, Learns
<1>3. CallsBegin
  BY <1>0, CallsAssumption, TrimmedIds DEF CallsBegin, MemoriesTypeOK, ManagerTyped,
         InvocationsTyped, CallsTyped, OwnContext, Methods, UserOps
<1>4. CallsStay
  BY <1>0 DEF CallsStay, CallsTyped, Methods, MessagePCs, ClearPCs
<1> QED
  BY <1>1, <1>2, <1>3, <1>4 DEF StepOK

LEMMA ClearSessionHistoryStep ==
  ASSUME IInv, NEW c \in Calls, NEW i \in Ids, ClearSessionHistory(c, i)
  PROVE  Typed' /\ StepOK
<1> USE DEF ClearSessionHistory, Invoke,
      Become, Return, Continue, memoryVars, managerVars, turnVars, callVars
<1>0. /\ Typed /\ OwnContext /\ Methods /\ AbsentIsEmpty
      /\ MemoriesTypeOK /\ ManagerTyped /\ InvocationsTyped /\ CallsTyped
  BY TrimmedIds DEF IInv, Typed, OwnContext, Methods, UserOps, MessagePCs, ClearPCs
<1>1. Typed'
  <2>1. MemoriesTypeOK'
    BY <1>0 DEF MemoriesTypeOK, Summaries, MemoryTypes
  <2>2. ManagerTyped'
    BY <1>0, TrimmedIds DEF ManagerTyped
  <2>3. InvocationsTyped'
    BY <1>0, TrimmedIds DEF InvocationsTyped, ManagerTyped
  <2>4. CallsTyped'
    BY <1>0 DEF CallsTyped, PCs, Replies
  <2> QED
    BY <2>1, <2>2, <2>3, <2>4 DEF Typed
<1>2. /\ FactsWritten /\ SummariesWritten /\ MessagesWritten /\ ConditionsChange /\ SessionsChange
      /\ Accepts
  BY DEF FactsWritten, SummariesWritten, MessagesWritten, ConditionsChange,
         SessionsChange, Accepts
<1>3. CallsKeep
  BY <1>0 DEF CallsKeep, CallsTyped
<1>4. CallsBegin
  BY <1>0, CallsAssumption, TrimmedIds DEF CallsBegin, MemoriesTypeOK, ManagerTyped,
         InvocationsTyped, CallsTyped, OwnContext, Methods, UserOps
<1>5. CallsStay
  BY <1>0 DEF CallsStay, CallsTyped, Methods, MessagePCs, ClearPCs
<1>6. Clears
  BY <1>0 DEF Clears, CallsTyped
<1>7. Learns
  BY <1>0 DEF Learns, CallsTyped
<1> QED
  BY <1>1, <1>2, <1>3, <1>4, <1>5, <1>6, <1>7 DEF StepOK

LEMMA ForgetFactStep ==
  ASSUME IInv, NEW c \in Calls, NEW i \in Ids, NEW k \in FactKeys, ForgetFact(c, i, k)
  PROVE  Typed' /\ StepOK
<1> USE DEF ForgetFact, Invoke,
      Become, Return, Continue, memoryVars, managerVars, turnVars, callVars
<1>0. /\ Typed /\ OwnContext /\ Methods /\ AbsentIsEmpty
      /\ MemoriesTypeOK /\ ManagerTyped /\ InvocationsTyped /\ CallsTyped
  BY TrimmedIds DEF IInv, Typed, OwnContext, Methods, UserOps, MessagePCs, ClearPCs
<1>1. Typed'
  <2>1. MemoriesTypeOK'
    BY <1>0 DEF MemoriesTypeOK, Summaries, MemoryTypes
  <2>2. ManagerTyped'
    BY <1>0, TrimmedIds DEF ManagerTyped
  <2>3. InvocationsTyped'
    BY <1>0, TrimmedIds DEF InvocationsTyped, ManagerTyped
  <2>4. CallsTyped'
    BY <1>0 DEF CallsTyped, PCs, Replies
  <2> QED
    BY <2>1, <2>2, <2>3, <2>4 DEF Typed
<1>2. /\ CallsKeep /\ FactsWritten /\ SummariesWritten /\ MessagesWritten /\ ConditionsChange
      /\ SessionsChange /\ Accepts /\ Clears /\ Learns
  BY DEF CallsKeep, FactsWritten, SummariesWritten, MessagesWritten, ConditionsChange,
         SessionsChange, Accepts, Clears, Learns
<1>3. CallsBegin
  BY <1>0 DEF CallsBegin, CallsTyped, InvocationsTyped
<1>4. CallsStay
  BY <1>0 DEF CallsStay, CallsTyped, Methods, MessagePCs, ClearPCs
<1> QED
  BY <1>1, <1>2, <1>3, <1>4 DEF StepOK

LEMMA ShutdownStep ==
  ASSUME IInv, NEW c \in Calls, Shutdown(c)
  PROVE  Typed' /\ StepOK
<1> USE DEF Shutdown, Invoke, CloseRest,
      Become, Return, Continue, memoryVars, managerVars, turnVars, callVars
<1>0. /\ Typed /\ OwnContext /\ Methods /\ AbsentIsEmpty
      /\ MemoriesTypeOK /\ ManagerTyped /\ InvocationsTyped /\ CallsTyped
  BY TrimmedIds DEF IInv, Typed, OwnContext, Methods, UserOps, MessagePCs, ClearPCs
<1>1. Typed'
  <2>1. MemoriesTypeOK'
    BY <1>0 DEF MemoriesTypeOK, Summaries, MemoryTypes
  <2>2. ManagerTyped'
    BY <1>0, TrimmedIds DEF ManagerTyped
  <2>3. InvocationsTyped'
    BY <1>0, TrimmedIds DEF InvocationsTyped, ManagerTyped
  <2>4. CallsTyped'
    BY <1>0 DEF CallsTyped, PCs, Replies
  <2> QED
    BY <2>1, <2>2, <2>3, <2>4 DEF Typed
<1>2. /\ FactsWritten /\ SummariesWritten /\ MessagesWritten /\ ConditionsChange /\ SessionsChange
      /\ Accepts
  BY DEF FactsWritten, SummariesWritten, MessagesWritten, ConditionsChange,
         SessionsChange, Accepts
<1>3. CallsKeep
  BY <1>0 DEF CallsKeep, CallsTyped
<1>4. CallsBegin
  BY <1>0 DEF CallsBegin, CallsTyped, InvocationsTyped, ManagerTyped, OwnContext, Methods,
         UserOps
<1>5. CallsStay
  BY <1>0 DEF CallsStay, CallsTyped, Methods, MessagePCs, ClearPCs
<1>6. Clears
  BY <1>0, CallsAssumption DEF Clears, CallsTyped, Methods, MessagePCs, ClearPCs
<1>7. Learns
  BY <1>0 DEF Learns, CallsTyped
<1> QED
  BY <1>1, <1>2, <1>3, <1>4, <1>5, <1>6, <1>7 DEF StepOK

LEMMA AppendUserStep ==
  ASSUME IInv, NEW c \in Calls, AppendUser(c)
  PROVE  Typed' /\ StepOK
<1> USE DEF AppendUser, AppendMessage, Works, Refuses,
      Become, Return, Continue, memoryVars, managerVars, turnVars, callVars
<1>0. /\ Typed /\ OwnContext /\ Methods /\ AbsentIsEmpty
      /\ MemoriesTypeOK /\ ManagerTyped /\ InvocationsTyped /\ CallsTyped
      /\ context[c] \in Contexts
  BY TrimmedIds DEF IInv, Typed, OwnContext, Methods, UserOps, MessagePCs, ClearPCs
<1>1. Typed'
  <2>1. MemoriesTypeOK'
    BY <1>0 DEF MemoriesTypeOK, Summaries, MemoryTypes
  <2>2. ManagerTyped'
    BY <1>0, TrimmedIds DEF ManagerTyped
  <2>3. InvocationsTyped'
    BY <1>0, TrimmedIds DEF InvocationsTyped, ManagerTyped
  <2>4. CallsTyped'
    BY <1>0 DEF CallsTyped, PCs, Replies
  <2> QED
    BY <2>1, <2>2, <2>3, <2>4 DEF Typed
<1>2. /\ CallsKeep /\ CallsBegin /\ FactsWritten /\ SummariesWritten /\ ConditionsChange
      /\ SessionsChange /\ Accepts /\ Clears /\ Learns
  BY DEF CallsKeep, CallsBegin, FactsWritten, SummariesWritten, ConditionsChange,
         SessionsChange, Accepts, Clears, Learns
<1>3. CallsStay
  BY <1>0 DEF CallsStay, CallsTyped, Methods, MessagePCs, ClearPCs
<1>4. MessagesWritten
  <2>1. \/ messages' = [messages EXCEPT ![context[c]] = @ \cup {c}]
        \/ messages' = messages
    OBVIOUS
  <2>2. pc[c] \in MessagePCs
    BY DEF MessagePCs
  <2> QED
    BY <1>0, <2>1, <2>2 DEF MessagesWritten, ManagerTyped
<1> QED
  BY <1>1, <1>2, <1>3, <1>4 DEF StepOK

LEMMA ReadFactsStep ==
  ASSUME IInv, NEW c \in Calls, ReadFacts(c)
  PROVE  Typed' /\ StepOK
<1> USE DEF ReadFacts,
      Become, Return, Continue, memoryVars, managerVars, turnVars, callVars
<1>0. /\ Typed /\ OwnContext /\ Methods /\ AbsentIsEmpty
      /\ MemoriesTypeOK /\ ManagerTyped /\ InvocationsTyped /\ CallsTyped
      /\ context[c] \in Contexts
  BY TrimmedIds DEF IInv, Typed, OwnContext, Methods, UserOps, MessagePCs, ClearPCs
<1>1. Typed'
  <2>1. MemoriesTypeOK'
    BY <1>0 DEF MemoriesTypeOK, Summaries, MemoryTypes
  <2>2. ManagerTyped'
    BY <1>0, TrimmedIds DEF ManagerTyped
  <2>3. InvocationsTyped'
    BY <1>0, TrimmedIds DEF InvocationsTyped, ManagerTyped
  <2>4. CallsTyped'
    BY <1>0 DEF CallsTyped, PCs, Replies
  <2> QED
    BY <2>1, <2>2, <2>3, <2>4 DEF Typed
<1>2. /\ CallsKeep /\ CallsBegin /\ FactsWritten /\ SummariesWritten /\ MessagesWritten
      /\ ConditionsChange /\ SessionsChange /\ Accepts /\ Clears
  BY DEF CallsKeep, CallsBegin, FactsWritten, SummariesWritten, MessagesWritten,
         ConditionsChange, SessionsChange, Accepts, Clears
<1>3. CallsStay
  BY <1>0 DEF CallsStay, CallsTyped, Methods, MessagePCs, ClearPCs
<1>4. Learns
  BY <1>0 DEF Learns, CallsTyped
<1> QED
  BY <1>1, <1>2, <1>3, <1>4 DEF StepOK

LEMMA ReadSummaryStep ==
  ASSUME IInv, NEW c \in Calls, ReadSummary(c)
  PROVE  Typed' /\ StepOK
<1> USE DEF ReadSummary, LatestSummary, Works,
      Become, Return, Continue, memoryVars, managerVars, turnVars, callVars
<1>0. /\ Typed /\ OwnContext /\ Methods /\ AbsentIsEmpty
      /\ MemoriesTypeOK /\ ManagerTyped /\ InvocationsTyped /\ CallsTyped
      /\ context[c] \in Contexts
  BY TrimmedIds DEF IInv, Typed, OwnContext, Methods, UserOps, MessagePCs, ClearPCs
<1>1. Typed'
  <2>1. MemoriesTypeOK'
    BY <1>0 DEF MemoriesTypeOK, Summaries, MemoryTypes
  <2>2. ManagerTyped'
    BY <1>0, TrimmedIds DEF ManagerTyped
  <2>3. InvocationsTyped'
    BY <1>0, TrimmedIds DEF InvocationsTyped, ManagerTyped
  <2>4. CallsTyped'
    BY <1>0 DEF CallsTyped, PCs, Replies, MemoriesTypeOK, Summaries
  <2> QED
    BY <2>1, <2>2, <2>3, <2>4 DEF Typed
<1>2. /\ CallsKeep /\ CallsBegin /\ FactsWritten /\ SummariesWritten /\ MessagesWritten
      /\ ConditionsChange /\ SessionsChange /\ Accepts /\ Clears
  BY DEF CallsKeep, CallsBegin, FactsWritten, SummariesWritten, MessagesWritten,
         ConditionsChange, SessionsChange, Accepts, Clears
<1>3. CallsStay
  BY <1>0 DEF CallsStay, CallsTyped, Methods, MessagePCs, ClearPCs
<1>4. Learns
  BY <1>0 DEF Learns, CallsTyped
<1> QED
  BY <1>1, <1>2, <1>3, <1>4 DEF StepOK

LEMMA AnswerStep ==
  ASSUME IInv, NEW c \in Calls, Answer(c)
  PROVE  Typed' /\ StepOK
<1> USE DEF Answer,
      Become, Return, Continue, memoryVars, managerVars, turnVars, callVars
<1>0. /\ Typed /\ OwnContext /\ Methods /\ AbsentIsEmpty
      /\ MemoriesTypeOK /\ ManagerTyped /\ InvocationsTyped /\ CallsTyped
      /\ context[c] \in Contexts
  BY TrimmedIds DEF IInv, Typed, OwnContext, Methods, UserOps, MessagePCs, ClearPCs
<1>1. Typed'
  <2>1. MemoriesTypeOK'
    BY <1>0 DEF MemoriesTypeOK, Summaries, MemoryTypes
  <2>2. ManagerTyped'
    BY <1>0, TrimmedIds DEF ManagerTyped
  <2>3. InvocationsTyped'
    BY <1>0, TrimmedIds DEF InvocationsTyped, ManagerTyped
  <2>4. CallsTyped'
    BY <1>0 DEF CallsTyped, PCs, Replies
  <2> QED
    BY <2>1, <2>2, <2>3, <2>4 DEF Typed
<1>2. /\ FactsWritten /\ SummariesWritten /\ MessagesWritten /\ ConditionsChange /\ SessionsChange
      /\ Accepts
  BY DEF FactsWritten, SummariesWritten, MessagesWritten, ConditionsChange,
         SessionsChange, Accepts
<1>3. CallsKeep
  BY <1>0 DEF CallsKeep, CallsTyped
<1>4. CallsBegin
  BY <1>0 DEF CallsBegin, CallsTyped
<1>5. CallsStay
  BY <1>0 DEF CallsStay, CallsTyped, Methods, MessagePCs, ClearPCs
<1>6. Clears
  BY <1>0 DEF Clears, CallsTyped, Methods, MessagePCs, ClearPCs, UserOps
<1>7. Learns
  BY <1>0 DEF Learns, CallsTyped
<1> QED
  BY <1>1, <1>2, <1>3, <1>4, <1>5, <1>6, <1>7 DEF StepOK

LEMMA AppendAnswerStep ==
  ASSUME IInv, NEW c \in Calls, AppendAnswer(c)
  PROVE  Typed' /\ StepOK
<1> USE DEF AppendAnswer, AppendMessage, Works, Refuses,
      Become, Return, Continue, memoryVars, managerVars, turnVars, callVars
<1>0. /\ Typed /\ OwnContext /\ Methods /\ AbsentIsEmpty
      /\ MemoriesTypeOK /\ ManagerTyped /\ InvocationsTyped /\ CallsTyped
      /\ context[c] \in Contexts
  BY TrimmedIds DEF IInv, Typed, OwnContext, Methods, UserOps, MessagePCs, ClearPCs
<1>1. Typed'
  <2>1. MemoriesTypeOK'
    BY <1>0 DEF MemoriesTypeOK, Summaries, MemoryTypes
  <2>2. ManagerTyped'
    BY <1>0, TrimmedIds DEF ManagerTyped
  <2>3. InvocationsTyped'
    BY <1>0, TrimmedIds DEF InvocationsTyped, ManagerTyped
  <2>4. CallsTyped'
    BY <1>0 DEF CallsTyped, PCs, Replies
  <2> QED
    BY <2>1, <2>2, <2>3, <2>4 DEF Typed
<1>2. FactsWritten /\ SummariesWritten /\ ConditionsChange /\ SessionsChange /\ Accepts
  BY DEF FactsWritten, SummariesWritten, ConditionsChange, SessionsChange, Accepts
<1>3. CallsKeep
  BY <1>0 DEF CallsKeep, CallsTyped
<1>4. CallsBegin
  BY <1>0 DEF CallsBegin, CallsTyped
<1>5. CallsStay
  BY <1>0 DEF CallsStay, CallsTyped, Methods, MessagePCs, ClearPCs
<1>6. MessagesWritten
  <2>1. \/ messages' = [messages EXCEPT ![context[c]] = @ \cup {c}]
        \/ messages' = messages
    OBVIOUS
  <2>2. pc[c] \in MessagePCs
    BY DEF MessagePCs
  <2> QED
    BY <1>0, <2>1, <2>2 DEF MessagesWritten, ManagerTyped
<1>7. Clears
  BY <1>0 DEF Clears, CallsTyped, Methods, MessagePCs, ClearPCs, UserOps
<1>8. Learns
  BY <1>0 DEF Learns, CallsTyped
<1> QED
  BY <1>1, <1>2, <1>3, <1>4, <1>5, <1>6, <1>7, <1>8 DEF StepOK

LEMMA EvaluateStep ==
  ASSUME IInv, NEW c \in Calls, Evaluate(c)
  PROVE  Typed' /\ StepOK
<1> USE DEF Evaluate, Remember,
      Become, Return, Continue, memoryVars, managerVars, turnVars, callVars
<1>0. /\ Typed /\ OwnContext /\ Methods /\ AbsentIsEmpty
      /\ MemoriesTypeOK /\ ManagerTyped /\ InvocationsTyped /\ CallsTyped
      /\ context[c] \in Contexts
  BY TrimmedIds DEF IInv, Typed, OwnContext, Methods, UserOps, MessagePCs, ClearPCs
<1>1. Typed'
  <2>1. MemoriesTypeOK'
    BY <1>0 DEF MemoriesTypeOK, Summaries, MemoryTypes
  <2>2. ManagerTyped'
    <3>1. \/ clock' = clock /\ time' = time
          \/ clock' = clock + 1 /\ time' = [time EXCEPT ![c] = clock + 1]
      OBVIOUS
    <3>2. clock \in Nat /\ clock + 1 \in Nat
      BY <1>0 DEF ManagerTyped
    <3> QED
      BY <1>0, <3>1, <3>2 DEF ManagerTyped
  <2>3. InvocationsTyped'
    BY <1>0, TrimmedIds DEF InvocationsTyped, ManagerTyped
  <2>4. CallsTyped'
    BY <1>0 DEF CallsTyped, PCs, Replies
  <2> QED
    BY <2>1, <2>2, <2>3, <2>4 DEF Typed
<1>2. /\ FactsWritten /\ SummariesWritten /\ MessagesWritten /\ ConditionsChange /\ SessionsChange
      /\ Accepts
  BY DEF FactsWritten, SummariesWritten, MessagesWritten, ConditionsChange,
         SessionsChange, Accepts
<1>3. CallsKeep
  BY <1>0 DEF CallsKeep, CallsTyped
<1>4. CallsBegin
  BY <1>0 DEF CallsBegin, CallsTyped
<1>5. CallsStay
  BY <1>0 DEF CallsStay, CallsTyped, Methods, MessagePCs, ClearPCs
<1>6. Clears
  BY <1>0 DEF Clears, CallsTyped, Methods, MessagePCs, ClearPCs, UserOps
<1>7. Learns
  BY <1>0 DEF Learns, CallsTyped
<1> QED
  BY <1>1, <1>2, <1>3, <1>4, <1>5, <1>6, <1>7 DEF StepOK

LEMMA StoreNextStep ==
  ASSUME IInv, NEW c \in Calls, StoreNext(c)
  PROVE  Typed' /\ StepOK
<1> USE DEF StoreNext, Remember, Works, Refuses, RefusalIsCaught, AddSummary, SetFact, Accept,
      Become, Return, Continue, memoryVars, managerVars, turnVars, callVars
<1>0. /\ Typed /\ OwnContext /\ Methods /\ AbsentIsEmpty
      /\ MemoriesTypeOK /\ ManagerTyped /\ InvocationsTyped /\ CallsTyped
      /\ context[c] \in Contexts
  BY TrimmedIds DEF IInv, Typed, OwnContext, Methods, UserOps, MessagePCs, ClearPCs
<1> DEFINE part == Head(todo[c])
<1>a. \/ /\ part # "summary" /\ condition["fact"] \in {"open", "failing"}
         /\ facts' = [facts EXCEPT ![context[c]][part] = c]
         /\ UNCHANGED <<condition, summaries>>
         /\ accepted' = [accepted EXCEPT ![c] = @ \cup {part}]
      \/ /\ part = "summary" /\ condition["summary"] \in {"open", "failing"}
         /\ summaries' = [summaries EXCEPT ![context[c]] =
                            @ \cup {[by |-> c, timestamp |-> time[c]]}]
         /\ UNCHANGED <<condition, facts>>
         /\ accepted' = [accepted EXCEPT ![c] = @ \cup {part}]
      \/ UNCHANGED <<condition, facts, summaries, accepted>>
  OBVIOUS
<1>b. /\ pc[c] = "remember" /\ op[c] = "message"
      /\ UNCHANGED messages
      /\ time[c] \in Nat /\ facts[context[c]] \in [FactKeys -> Calls \cup {None}]
  BY <1>0 DEF Methods, MessagePCs, ManagerTyped, MemoriesTypeOK
<1> HIDE DEF part
<1>1. Typed'
  <2>1. MemoriesTypeOK'
    <3> HIDE DEF StoreNext
    <3>1. CASE part # "summary" /\ UNCHANGED <<condition, summaries>>
               /\ facts' = [facts EXCEPT ![context[c]][part] = c]
      BY <1>0, <1>b, <3>1 DEF MemoriesTypeOK
    <3>2. CASE /\ summaries' = [summaries EXCEPT ![context[c]] =
                            @ \cup {[by |-> c, timestamp |-> time[c]]}]
               /\ UNCHANGED <<condition, facts>>
      <4>1. [by |-> c, timestamp |-> time[c]] \in Summaries
        BY <1>b DEF Summaries
      <4> QED
        BY <1>0, <3>2, <4>1 DEF MemoriesTypeOK
    <3>3. CASE UNCHANGED <<condition, facts, summaries>>
      BY <1>0, <3>3 DEF MemoriesTypeOK
    <3> QED
      BY <1>a, <3>1, <3>2, <3>3
  <2>2. ManagerTyped'
    <3>1. \/ clock' = clock /\ time' = time
          \/ clock' = clock + 1 /\ time' = [time EXCEPT ![c] = clock + 1]
      OBVIOUS
    <3>2. clock \in Nat /\ clock + 1 \in Nat
      BY <1>0 DEF ManagerTyped
    <3> QED
      BY <1>0, <3>1, <3>2 DEF ManagerTyped
  <2>3. InvocationsTyped'
    BY <1>0, TrimmedIds DEF InvocationsTyped, ManagerTyped
  <2>4. CallsTyped'
    BY <1>0 DEF CallsTyped, PCs, Replies
  <2> QED
    BY <2>1, <2>2, <2>3, <2>4 DEF Typed
<1>2. MessagesWritten /\ ConditionsChange /\ SessionsChange
  BY DEF MessagesWritten, ConditionsChange, SessionsChange
<1>3. CallsKeep
  BY <1>0 DEF CallsKeep, CallsTyped
<1>4. CallsBegin
  BY <1>0 DEF CallsBegin, CallsTyped
<1>5. CallsStay
  BY <1>0 DEF CallsStay, CallsTyped
<1>6. FactsWritten
  <2> HIDE DEF StoreNext
  <2>1. \/ /\ facts' = [facts EXCEPT ![context[c]][part] = c]
           /\ condition["fact"] \in {"open", "failing"}
        \/ facts' = facts
    BY <1>a
  <2>2. \A x \in Contexts, k \in FactKeys :
           \/ facts'[x][k] = facts[x][k]
           \/ /\ facts'[x][k] = c /\ x = context[c]
              /\ condition["fact"] \in {"open", "failing"}
    BY <1>0, <2>1 DEF MemoriesTypeOK
  <2> QED
    BY <1>b, <2>2 DEF FactsWritten
<1>7. SummariesWritten
  <2> HIDE DEF StoreNext
  <2>1. \/ summaries' = [summaries EXCEPT ![context[c]] =
                            @ \cup {[by |-> c, timestamp |-> time[c]]}]
           /\ condition["summary"] \in {"open", "failing"}
        \/ summaries' = summaries
    BY <1>a
  <2> QED
    BY <1>0, <1>b, <2>1 DEF SummariesWritten, MemoriesTypeOK
<1>8. Accepts
  <2> HIDE DEF StoreNext
  <2>1. \A d \in Calls : d # c => accepted'[d] = accepted[d]
    BY <1>a, <1>0 DEF CallsTyped
  <2>2. \A k \in accepted'[c] \cap FactKeys :
           \/ k \in accepted[c]
           \/ facts'[context[c]][k] = c /\ condition["fact"] \in {"open", "failing"}
    <3>1. "summary" \notin FactKeys
      BY CallsAssumption DEF MemoryTypes
    <3> QED
      BY <1>a, <1>0, <1>b, <3>1 DEF CallsTyped, MemoriesTypeOK
  <2>3. op[c] # "clear"
    BY <1>b
  <2> QED
    BY <1>b, <2>1, <2>2, <2>3 DEF Accepts
<1>9. Clears
  BY <1>0 DEF Clears, CallsTyped, Methods, MessagePCs, ClearPCs, UserOps
<1>10. Learns
  BY <1>0 DEF Learns, CallsTyped
<1> QED
  BY <1>1, <1>2, <1>3, <1>4, <1>5, <1>6, <1>7, <1>8, <1>9, <1>10 DEF StepOK

LEMMA ClearLogStep ==
  ASSUME IInv, NEW c \in Calls, ClearLog(c)
  PROVE  Typed' /\ StepOK
<1> USE DEF ClearLog, Works, Refuses, Accept,
      Become, Return, Continue, memoryVars, managerVars, turnVars, callVars
<1>0. /\ Typed /\ OwnContext /\ Methods /\ AbsentIsEmpty
      /\ MemoriesTypeOK /\ ManagerTyped /\ InvocationsTyped /\ CallsTyped
      /\ context[c] \in Contexts
  BY TrimmedIds DEF IInv, Typed, OwnContext, Methods, UserOps, MessagePCs, ClearPCs
<1>1. Typed'
  <2>1. MemoriesTypeOK'
    BY <1>0 DEF MemoriesTypeOK, Summaries, MemoryTypes
  <2>2. ManagerTyped'
    BY <1>0, TrimmedIds DEF ManagerTyped
  <2>3. InvocationsTyped'
    BY <1>0, TrimmedIds DEF InvocationsTyped, ManagerTyped
  <2>4. CallsTyped'
    BY <1>0 DEF CallsTyped, PCs, Replies
  <2> QED
    BY <2>1, <2>2, <2>3, <2>4 DEF Typed
<1>2. FactsWritten /\ SummariesWritten /\ ConditionsChange /\ SessionsChange
  BY DEF FactsWritten, SummariesWritten, ConditionsChange, SessionsChange
<1>3. CallsKeep
  BY <1>0 DEF CallsKeep, CallsTyped
<1>4. CallsBegin
  BY <1>0 DEF CallsBegin, CallsTyped
<1>5. CallsStay
  BY <1>0 DEF CallsStay, CallsTyped, Methods, MessagePCs, ClearPCs
<1>6. MessagesWritten
  BY <1>0 DEF MessagesWritten, ManagerTyped, MessagePCs
<1>7. Accepts
  BY <1>0, CallsAssumption, TrimmedIds DEF Accepts, MemoriesTypeOK, ManagerTyped,
         InvocationsTyped, CallsTyped, OwnContext, Methods, MemoryTypes
<1>8. Clears
  BY <1>0 DEF Clears, CallsTyped
<1>9. Learns
  BY <1>0 DEF Learns, CallsTyped
<1> QED
  BY <1>1, <1>2, <1>3, <1>4, <1>5, <1>6, <1>7, <1>8, <1>9 DEF StepOK

LEMMA ClearFactsStep ==
  ASSUME IInv, NEW c \in Calls, ClearFacts(c)
  PROVE  Typed' /\ StepOK
<1> USE DEF ClearFacts, ClearedFacts, DeleteAllFacts, NoFacts, Works, Refuses,
      Become, Return, Continue, memoryVars, managerVars, turnVars, callVars
<1>0. /\ Typed /\ OwnContext /\ Methods /\ AbsentIsEmpty
      /\ MemoriesTypeOK /\ ManagerTyped /\ InvocationsTyped /\ CallsTyped
      /\ context[c] \in Contexts
  BY TrimmedIds DEF IInv, Typed, OwnContext, Methods, UserOps, MessagePCs, ClearPCs
<1>1. Typed'
  <2>1. MemoriesTypeOK'
    BY <1>0 DEF MemoriesTypeOK, Summaries, MemoryTypes
  <2>2. ManagerTyped'
    BY <1>0, TrimmedIds DEF ManagerTyped
  <2>3. InvocationsTyped'
    BY <1>0, TrimmedIds DEF InvocationsTyped, ManagerTyped
  <2>4. CallsTyped'
    BY <1>0 DEF CallsTyped, PCs, Replies
  <2> QED
    BY <2>1, <2>2, <2>3, <2>4 DEF Typed
<1>2. SummariesWritten /\ MessagesWritten /\ ConditionsChange /\ SessionsChange /\ Accepts
  BY DEF SummariesWritten, MessagesWritten, ConditionsChange, SessionsChange, Accepts
<1>3. CallsKeep
  BY <1>0 DEF CallsKeep, CallsTyped
<1>4. CallsBegin
  BY <1>0 DEF CallsBegin, CallsTyped
<1>5. CallsStay
  BY <1>0 DEF CallsStay, CallsTyped, Methods, MessagePCs, ClearPCs
<1>6. FactsWritten
  <2>1. facts' = [facts EXCEPT ![context[c]] = NoFacts] \/ facts' = facts
    OBVIOUS
  <2>2. \A x \in Contexts, k \in FactKeys :
           facts'[x][k] = facts[x][k] \/ (facts'[x][k] = None /\ x = context[c])
    BY <1>0, <2>1 DEF MemoriesTypeOK
  <2>3. pc[c] = "clearFacts"
    OBVIOUS
  <2> QED
    BY <1>0, <2>2, <2>3 DEF FactsWritten
<1>7. Clears
  BY <1>0 DEF Clears, AbsentIsEmpty, MemoriesTypeOK, CallsTyped, Methods, MessagePCs,
         ClearPCs, UserOps
<1>8. Learns
  BY <1>0 DEF Learns, CallsTyped
<1> QED
  BY <1>1, <1>2, <1>3, <1>4, <1>5, <1>6, <1>7, <1>8 DEF StepOK

LEMMA ClearSummariesStep ==
  ASSUME IInv, NEW c \in Calls, ClearSummaries(c)
  PROVE  Typed' /\ StepOK
<1> USE DEF ClearSummaries, DeleteAllSummaries, Works, Refuses,
      Become, Return, Continue, memoryVars, managerVars, turnVars, callVars
<1>0. /\ Typed /\ OwnContext /\ Methods /\ AbsentIsEmpty
      /\ MemoriesTypeOK /\ ManagerTyped /\ InvocationsTyped /\ CallsTyped
      /\ context[c] \in Contexts
  BY TrimmedIds DEF IInv, Typed, OwnContext, Methods, UserOps, MessagePCs, ClearPCs
<1>1. Typed'
  <2>1. MemoriesTypeOK'
    BY <1>0 DEF MemoriesTypeOK, Summaries, MemoryTypes
  <2>2. ManagerTyped'
    BY <1>0, TrimmedIds DEF ManagerTyped
  <2>3. InvocationsTyped'
    BY <1>0, TrimmedIds DEF InvocationsTyped, ManagerTyped
  <2>4. CallsTyped'
    BY <1>0 DEF CallsTyped, PCs, Replies
  <2> QED
    BY <2>1, <2>2, <2>3, <2>4 DEF Typed
<1>2. FactsWritten /\ MessagesWritten /\ ConditionsChange /\ SessionsChange /\ Accepts
  BY DEF FactsWritten, MessagesWritten, ConditionsChange, SessionsChange, Accepts
<1>3. CallsKeep
  BY <1>0 DEF CallsKeep, CallsTyped
<1>4. CallsBegin
  BY <1>0 DEF CallsBegin, CallsTyped
<1>5. CallsStay
  BY <1>0 DEF CallsStay, CallsTyped
<1>6. SummariesWritten
  <2>1. summaries' = [summaries EXCEPT ![context[c]] = {}] \/ summaries' = summaries
    OBVIOUS
  <2> QED
    BY <1>0, <2>1 DEF SummariesWritten, MemoriesTypeOK
<1>7. Clears
  BY <1>0 DEF Clears, AbsentIsEmpty, MemoriesTypeOK, CallsTyped, Methods, MessagePCs,
         ClearPCs, UserOps
<1>8. Learns
  BY <1>0 DEF Learns, CallsTyped
<1> QED
  BY <1>1, <1>2, <1>3, <1>4, <1>5, <1>6, <1>7, <1>8 DEF StepOK

LEMMA FactForgottenStep ==
  ASSUME IInv, NEW c \in Calls, FactForgotten(c)
  PROVE  Typed' /\ StepOK
<1> USE DEF FactForgotten, DeleteFact, Works, Refuses,
      Become, Return, Continue, memoryVars, managerVars, turnVars, callVars
<1>0. /\ Typed /\ OwnContext /\ Methods /\ AbsentIsEmpty
      /\ MemoriesTypeOK /\ ManagerTyped /\ InvocationsTyped /\ CallsTyped
      /\ context[c] \in Contexts
  BY TrimmedIds DEF IInv, Typed, OwnContext, Methods, UserOps, MessagePCs, ClearPCs
<1>1. Typed'
  <2>1. MemoriesTypeOK'
    BY <1>0 DEF MemoriesTypeOK, Summaries, MemoryTypes
  <2>2. ManagerTyped'
    BY <1>0, TrimmedIds DEF ManagerTyped
  <2>3. InvocationsTyped'
    BY <1>0, TrimmedIds DEF InvocationsTyped, ManagerTyped
  <2>4. CallsTyped'
    BY <1>0 DEF CallsTyped, PCs, Replies
  <2> QED
    BY <2>1, <2>2, <2>3, <2>4 DEF Typed
<1>2. SummariesWritten /\ MessagesWritten /\ ConditionsChange /\ SessionsChange /\ Accepts
  BY DEF SummariesWritten, MessagesWritten, ConditionsChange, SessionsChange, Accepts
<1>3. CallsKeep
  BY <1>0 DEF CallsKeep, CallsTyped
<1>4. CallsBegin
  BY <1>0 DEF CallsBegin, CallsTyped
<1>5. CallsStay
  BY <1>0 DEF CallsStay, CallsTyped
<1>6. FactsWritten
  <2>1. \/ facts' = [facts EXCEPT ![context[c]][Head(todo[c])] = None]
        \/ facts' = facts
    OBVIOUS
  <2>2. \A x \in Contexts, k \in FactKeys :
           facts'[x][k] = facts[x][k] \/ (facts'[x][k] = None /\ x = context[c])
    BY <1>0, <2>1 DEF MemoriesTypeOK
  <2>3. pc[c] = "delete"
    OBVIOUS
  <2> QED
    BY <1>0, <2>2, <2>3 DEF FactsWritten
<1>7. Clears
  BY <1>0 DEF Clears, CallsTyped, Methods, MessagePCs, ClearPCs, UserOps
<1>8. Learns
  BY <1>0 DEF Learns, CallsTyped
<1> QED
  BY <1>1, <1>2, <1>3, <1>4, <1>5, <1>6, <1>7, <1>8 DEF StepOK

LEMMA CloseNextStep ==
  ASSUME IInv, NEW c \in Calls, CloseNext(c)
  PROVE  Typed' /\ StepOK
<1> USE DEF CloseNext, Close, CloseRest, Works,
      Become, Return, Continue, memoryVars, managerVars, turnVars, callVars
<1>0. /\ Typed /\ OwnContext /\ Methods /\ AbsentIsEmpty
      /\ MemoriesTypeOK /\ ManagerTyped /\ InvocationsTyped /\ CallsTyped
  BY TrimmedIds DEF IInv, Typed, OwnContext, Methods, UserOps, MessagePCs, ClearPCs
<1>1. Typed'
  <2>1. MemoriesTypeOK'
    BY <1>0 DEF MemoriesTypeOK, Summaries, MemoryTypes
  <2>2. ManagerTyped'
    BY <1>0, TrimmedIds DEF ManagerTyped
  <2>3. InvocationsTyped'
    BY <1>0, TrimmedIds DEF InvocationsTyped, ManagerTyped
  <2>4. CallsTyped'
    BY <1>0 DEF CallsTyped, PCs, Replies
  <2> QED
    BY <2>1, <2>2, <2>3, <2>4 DEF Typed
<1>2. FactsWritten /\ SummariesWritten /\ MessagesWritten /\ SessionsChange /\ Accepts
  BY DEF FactsWritten, SummariesWritten, MessagesWritten, SessionsChange, Accepts
<1>3. CallsKeep
  BY <1>0 DEF CallsKeep, CallsTyped
<1>4. CallsBegin
  BY <1>0 DEF CallsBegin, CallsTyped
<1>5. CallsStay
  BY <1>0 DEF CallsStay, CallsTyped
<1>6. ConditionsChange
  BY <1>0 DEF ConditionsChange, MemoriesTypeOK, MemoryTypes
<1>7. Clears
  BY <1>0 DEF Clears, CallsTyped, Methods, MessagePCs, ClearPCs, UserOps
<1>8. Learns
  BY <1>0 DEF Learns, CallsTyped
<1> QED
  BY <1>1, <1>2, <1>3, <1>4, <1>5, <1>6, <1>7, <1>8 DEF StepOK

-----------------------------------------------------------------------------
(* Every step obeys StepOK. *)
LEMMA Steps ==
  ASSUME IInv, [Next]_vars
  PROVE  Typed' /\ StepOK
<1>1. CASE UNCHANGED vars
  <2>1. Typed'
    BY <1>1 DEF vars, memoryVars, managerVars, turnVars, callVars, IInv, Typed, MemoriesTypeOK,
                ManagerTyped, InvocationsTyped, CallsTyped
  <2>2. CallsKeep /\ CallsBegin /\ CallsStay
    BY <1>1 DEF vars, callVars, CallsKeep, CallsBegin, CallsStay
  <2>3. FactsWritten /\ SummariesWritten /\ MessagesWritten /\ ConditionsChange /\ SessionsChange
    BY <1>1 DEF vars, memoryVars, managerVars, FactsWritten, SummariesWritten, MessagesWritten,
                ConditionsChange, SessionsChange
  <2>4. Accepts /\ Clears /\ Learns
    BY <1>1 DEF vars, memoryVars, turnVars, Accepts, Clears, Learns
  <2> QED
    BY <2>1, <2>2, <2>3, <2>4 DEF StepOK
<1>2. ASSUME NEW c \in Calls, Call(c)
      PROVE  Typed' /\ StepOK
  BY <1>2, ProcessMessageStep, ClearSessionHistoryStep, ForgetFactStep, ShutdownStep DEF Call
<1>3. ASSUME NEW c \in Calls, Resume(c)
      PROVE  Typed' /\ StepOK
  BY <1>3, AppendUserStep, ReadFactsStep, ReadSummaryStep, AnswerStep, AppendAnswerStep,
     EvaluateStep, StoreNextStep, ClearLogStep, ClearFactsStep, ClearSummariesStep,
     FactForgottenStep, CloseNextStep DEF Resume
<1> QED
  BY <1>1, <1>2, <1>3, OpenSessionStep, EndSessionStep, InitializeMemoryStep DEF Next

LEMMA OwnContextKept ==
  ASSUME IInv, StepOK
  PROVE  OwnContext'
<1>1. \A s \in Sessions : sessions'[s] \in {s, None}
  BY DEF IInv, OwnContext, StepOK, SessionsChange
<1>2. ASSUME NEW c \in Calls, pc'[c] # "idle", op'[c] \in UserOps
      PROVE  id'[c] \in Ids /\ context'[c] = Trim[id'[c]]
  <2>1. CASE pc[c] = "idle"
    BY <1>2, <2>1 DEF StepOK, CallsBegin
  <2>2. CASE pc[c] # "idle"
    BY <1>2, <2>2 DEF IInv, OwnContext, StepOK, CallsKeep
  <2> QED
    BY <2>1, <2>2
<1> QED
  BY <1>1, <1>2 DEF OwnContext

LEMMA MethodsKept ==
  ASSUME IInv, StepOK, Typed'
  PROVE  Methods'
<1> SUFFICES ASSUME NEW c \in Calls
             PROVE  /\ pc'[c] \in MessagePCs => op'[c] = "message"
                    /\ pc'[c] \in ClearPCs => op'[c] = "clear"
                    /\ pc'[c] = "delete" => op'[c] = "delete"
                    /\ pc'[c] = "close" => op'[c] = "shutdown"
                    /\ pc'[c] = "idle" => /\ accepted'[c] = {} /\ op'[c] = None
                                          /\ reply'[c] = "none"
  BY DEF Methods
<1>1. CASE pc[c] = "idle"
  BY <1>1 DEF IInv, Methods, StepOK, CallsBegin, MessagePCs, ClearPCs
<1>2. CASE pc[c] # "idle"
  <2>1. pc[c] \in MessagePCs \cup ClearPCs \cup {"delete", "close", "done"}
    BY <1>2 DEF IInv, Typed, CallsTyped, PCs, MessagePCs, ClearPCs
  <2>2. op'[c] = op[c] /\ pc'[c] # "idle" /\ (pc[c] = "done" => pc'[c] = "done")
    BY <1>2 DEF StepOK, CallsKeep
  <2> QED
    BY <1>2, <2>1, <2>2 DEF IInv, Methods, StepOK, CallsStay, MessagePCs, ClearPCs
<1> QED
  BY <1>1, <1>2

LEMMA BeforeIsOverKept ==
  ASSUME IInv, StepOK
  PROVE  BeforeIsOver'
<1> SUFFICES ASSUME NEW c \in Calls, NEW d \in before'[c]
             PROVE  pc'[d] = "done"
  BY DEF BeforeIsOver
<1>1. d \in Calls /\ pc[d] = "done"
  <2>1. CASE before'[c] = before[c]
    BY <2>1 DEF IInv, BeforeIsOver, Typed, InvocationsTyped
  <2>2. CASE before'[c] = {e \in Calls : pc[e] = "done"}
    BY <2>2
  <2> QED
    BY <2>1, <2>2 DEF StepOK, CallsKeep, CallsBegin
<1> QED
  BY <1>1 DEF StepOK, CallsKeep

LEMMA AbsentIsEmptyKept ==
  ASSUME IInv, StepOK
  PROVE  AbsentIsEmpty'
<1>1. \A m \in MemoryTypes : condition'[m] = "absent" => condition[m] = "absent"
  BY DEF StepOK, ConditionsChange
<1>2. "fact" \in MemoryTypes /\ "summary" \in MemoryTypes
  BY DEF MemoryTypes
<1>3. ASSUME condition["fact"] = "absent", NEW x \in Contexts, NEW k \in FactKeys
      PROVE  facts'[x][k] = None
  BY <1>3 DEF IInv, AbsentIsEmpty, StepOK, FactsWritten
<1>4. ASSUME condition["summary"] = "absent", NEW x \in Contexts
      PROVE  summaries'[x] = {}
  <2>1. \A s \in summaries'[x] : FALSE
    BY <1>4 DEF IInv, AbsentIsEmpty, StepOK, SummariesWritten
  <2> QED
    BY <2>1
<1> QED
  BY <1>1, <1>2, <1>3, <1>4 DEF AbsentIsEmpty

(* A call that is about to write writes to the chat of its own user. *)
LEMMA WriterOwns ==
  ASSUME IInv, NEW w \in Calls, pc[w] = "remember"
  PROVE  Owned(w, context[w])
BY DEF IInv, Methods, OwnContext, MessagePCs, UserOps, Owned

LEMMA OwnedKept ==
  ASSUME StepOK, NEW w, NEW x, Owned(w, x)
  PROVE  Owned(w, x)'
BY DEF StepOK, CallsKeep, Owned

LEMMA WrittenByOwnerKept ==
  ASSUME IInv, StepOK
  PROVE  WrittenByOwner'
<1>1. ASSUME NEW x \in Contexts, NEW k \in FactKeys, facts'[x][k] # None
      PROVE  Owned(facts'[x][k], x)
  <2>1. CASE facts'[x][k] = facts[x][k]
    BY <1>1, <2>1 DEF IInv, WrittenByOwner
  <2>2. CASE /\ facts'[x][k] \in Calls /\ pc[facts'[x][k]] = "remember"
             /\ context[facts'[x][k]] = x
    BY <2>2, WriterOwns
  <2> QED
    BY <1>1, <2>1, <2>2 DEF StepOK, FactsWritten
<1>2. ASSUME NEW x \in Contexts, NEW s \in summaries'[x]
      PROVE  Owned(s.by, x)
  <2>1. CASE s \in summaries[x]
    BY <2>1 DEF IInv, WrittenByOwner
  <2>2. CASE s.by \in Calls /\ pc[s.by] = "remember" /\ context[s.by] = x
    BY <2>2, WriterOwns
  <2> QED
    BY <2>1, <2>2 DEF StepOK, SummariesWritten
<1> QED
  BY <1>1, <1>2, OwnedKept DEF WrittenByOwner, Owned

LEMMA KnownIsOwnKept ==
  ASSUME IInv, StepOK
  PROVE  KnownIsOwn'
<1> SUFFICES ASSUME NEW t \in Calls
             PROVE  /\ \A k \in DOMAIN known'[t] :
                          /\ pc'[t] # "idle" /\ op'[t] = "message"
                          /\ Owned(known[t][k], Trim[id[t]])'
                    /\ recent'[t] # None =>
                          /\ pc'[t] # "idle" /\ op'[t] = "message"
                          /\ Owned(recent[t], Trim[id[t]])'
  BY DEF KnownIsOwn
<1>1. \/ known'[t] = known[t] \/ known'[t] = << >>
      \/ pc[t] = "facts" /\ known'[t] = AllFacts(context[t])
  BY DEF StepOK, Learns
<1>2. \/ recent'[t] = recent[t] \/ recent'[t] = None
      \/ pc[t] = "summary" /\ \E s \in summaries[context[t]] : recent'[t] = s.by
  BY DEF StepOK, Learns
<1>3. pc[t] \in {"facts", "summary"} =>
         op[t] = "message" /\ context[t] = Trim[id[t]] /\ context[t] \in Contexts
  BY TrimmedIds DEF IInv, Methods, OwnContext, MessagePCs, UserOps
<1>4. ASSUME NEW k \in DOMAIN known'[t]
      PROVE  pc[t] # "idle" /\ op[t] = "message" /\ Owned(known'[t][k], Trim[id[t]])
  <2>1. CASE known'[t] = known[t]
    BY <1>4, <2>1 DEF IInv, KnownIsOwn
  <2>2. CASE known'[t] = << >>
    BY <1>4, <2>2
  <2>3. CASE pc[t] = "facts" /\ known'[t] = AllFacts(context[t])
    <3>1. k \in FactKeys /\ known'[t][k] = facts[context[t]][k] /\ facts[context[t]][k] # None
      BY <1>4, <2>3 DEF AllFacts
    <3> QED
      BY <1>3, <2>3, <3>1 DEF IInv, WrittenByOwner
  <2> QED
    BY <1>1, <2>1, <2>2, <2>3
<1>5. recent'[t] # None =>
         pc[t] # "idle" /\ op[t] = "message" /\ Owned(recent'[t], Trim[id[t]])
  BY <1>2, <1>3 DEF IInv, KnownIsOwn, WrittenByOwner
<1>6. pc[t] # "idle" => pc'[t] # "idle" /\ op'[t] = op[t] /\ id'[t] = id[t]
  BY DEF StepOK, CallsKeep
<1> QED
  BY <1>4, <1>5, <1>6, OwnedKept DEF StepOK, CallsKeep, Owned

(* Nothing a step writes was written by a call that was over.              *)
LEMMA ClearedKept ==
  ASSUME IInv, StepOK, OwnContext', Methods'
  PROVE  Cleared'
<1> SUFFICES ASSUME NEW c \in Calls, op'[c] = "clear", NEW x, x = Trim[id'[c]]
             PROVE  /\ "conversation" \in accepted'[c] =>
                          messages'[x] \cap before'[c] = {}
                    /\ pc'[c] = "clearSummaries" \/ reply'[c] = "fulfilled" =>
                          \A k \in FactKeys : facts'[x][k] \notin before'[c]
                    /\ reply'[c] = "fulfilled" =>
                          /\ pc'[c] = "done"
                          /\ \A s \in summaries'[x] : s.by \notin before'[c]
  BY DEF Cleared
<1>1. CASE pc[c] = "idle"
  BY <1>1, CallsAssumption DEF IInv, Methods, StepOK, CallsBegin
<1>2. CASE pc[c] # "idle"
  <2>1. /\ op[c] = "clear" /\ x = Trim[id[c]] /\ x = context[c] /\ x \in Contexts
        /\ before'[c] = before[c] /\ before[c] \subseteq Calls
        /\ \A d \in before[c] : pc[d] = "done"
    BY <1>2, TrimmedIds DEF IInv, OwnContext, StepOK, CallsKeep, BeforeIsOver, UserOps,
                            Typed, InvocationsTyped
  <2>2. \A k \in FactKeys : facts[x][k] \notin before[c] => facts'[x][k] \notin before[c]
    BY <2>1, MemoriesAssumption DEF StepOK, FactsWritten
  <2>3. (\A s \in summaries[x] : s.by \notin before[c])
          => \A s \in summaries'[x] : s.by \notin before[c]
    BY <2>1 DEF StepOK, SummariesWritten
  <2>4. messages[x] \cap before[c] = {} => messages'[x] \cap before[c] = {}
    BY <2>1 DEF StepOK, MessagesWritten, MessagePCs
  <2>5. "conversation" \in accepted'[c] =>
           "conversation" \in accepted[c] \/ messages'[x] = {}
    BY <2>1 DEF StepOK, Accepts
  <2>6. /\ pc'[c] = "clearSummaries" => pc[c] = "clearSummaries"
                                      \/ \A k \in FactKeys : facts'[x][k] = None
        /\ reply'[c] = "fulfilled" =>
              \/ reply[c] = "fulfilled"
              \/ /\ pc[c] = "clearSummaries" /\ pc'[c] = "done" /\ summaries'[x] = {}
    BY <2>1 DEF StepOK, Clears
  <2>7. reply[c] = "fulfilled" => pc[c] = "done" /\ pc'[c] = "done"
    BY <2>1 DEF IInv, Cleared, StepOK, CallsKeep
  <2> QED
    BY <2>1, <2>2, <2>3, <2>4, <2>5, <2>6, <2>7, MemoriesAssumption DEF IInv, Cleared
<1> QED
  BY <1>1, <1>2

(* A chat that may have been cleared stays one. *)
LEMMA MayBeClearedKept ==
  ASSUME IInv, StepOK, NEW u \in Calls, pc[u] # "idle", MayBeCleared(u)
  PROVE  MayBeCleared(u)'
<1>1. PICK d \in Calls : /\ op[d] \in {"clear", "delete"}
                         /\ context[d] = context[u] /\ d \notin before[u]
  BY DEF MayBeCleared
<1>2. pc[d] # "idle"
  BY <1>1, CallsAssumption DEF IInv, Methods
<1>3. /\ op'[d] = op[d] /\ context'[d] = context[d]
      /\ context'[u] = context[u] /\ before'[u] = before[u]
  BY <1>2 DEF StepOK, CallsKeep
<1> QED
  BY <1>1, <1>3 DEF MayBeCleared

LEMMA StoredKept ==
  ASSUME IInv, StepOK
  PROVE  Stored'
<1> SUFFICES ASSUME NEW u \in Calls, op'[u] = "message", NEW k \in accepted'[u] \cap FactKeys
             PROVE  /\ condition'["fact"] \notin {"absent", "unconnected"}
                    /\ \/ MayBeCleared(u)'
                       \/ facts'[context'[u]][k] \in Calls \ before'[u]
  BY DEF Stored
<1>1. pc[u] # "idle"
  BY DEF IInv, Methods, StepOK, CallsBegin
<1>2. /\ op[u] = "message" /\ context'[u] = context[u] /\ before'[u] = before[u]
      /\ context[u] \in Contexts /\ before[u] \subseteq Calls
  BY <1>1, TrimmedIds DEF IInv, StepOK, CallsKeep, OwnContext, UserOps, Typed, InvocationsTyped
<1>3. \A d \in Calls : pc[d] # "done" => d \notin before[u]
  BY DEF IInv, BeforeIsOver
<1>4. condition["fact"] \notin {"absent", "unconnected"}
  BY <1>2 DEF IInv, Stored, StepOK, Accepts
<1>5. condition'["fact"] \notin {"absent", "unconnected"}
  BY <1>4 DEF StepOK, ConditionsChange, MemoryTypes
<1>6. CASE k \notin accepted[u]
  <2>1. pc[u] = "remember" /\ facts'[context[u]][k] = u
    BY <1>6 DEF StepOK, Accepts
  <2> QED
    BY <1>2, <1>3, <1>5, <2>1
<1>7. CASE k \in accepted[u] /\ MayBeCleared(u)
  BY <1>1, <1>5, <1>7, MayBeClearedKept
<1>8. CASE k \in accepted[u] /\ facts[context[u]][k] \in Calls \ before[u]
  <2>1. \/ facts'[context[u]][k] = facts[context[u]][k]
        \/ /\ facts'[context[u]][k] \in Calls
           /\ pc[facts'[context[u]][k]] = "remember"
        \/ \E d \in Calls : pc[d] \in {"clearFacts", "delete"} /\ context[d] = context[u]
    BY <1>2 DEF StepOK, FactsWritten
  <2>2. ASSUME NEW d \in Calls, pc[d] \in {"clearFacts", "delete"}, context[d] = context[u]
        PROVE  MayBeCleared(u)
    BY <1>3, <2>2 DEF IInv, Methods, ClearPCs, MayBeCleared
  <2> QED
    BY <1>1, <1>2, <1>3, <1>5, <1>8, <2>1, <2>2, MayBeClearedKept
<1> QED
  BY <1>2, <1>6, <1>7, <1>8 DEF IInv, Stored

LEMMA KnownKept ==
  ASSUME IInv, StepOK
  PROVE  Known'
<1> SUFFICES ASSUME NEW t \in Calls, NEW u \in Calls,
                    op'[t] = "message", op'[u] = "message", u \in before'[t],
                    Trim[id'[t]] = Trim[id'[u]], pc'[t] \in {"summary", "llm"},
                    condition'["fact"] = "open", ~MayBeCleared(u)',
                    NEW k \in accepted'[u] \cap FactKeys
             PROVE  k \in DOMAIN known'[t] /\ known'[t][k] \notin before'[u]
  BY DEF Known
<1>1. pc[t] # "idle"
  BY CallsAssumption DEF IInv, Methods, StepOK, CallsBegin
<1>2. /\ op[t] = "message" /\ id'[t] = id[t] /\ before'[t] = before[t]
      /\ context[t] = Trim[id[t]] /\ context[t] \in Contexts
  BY <1>1, TrimmedIds DEF IInv, StepOK, CallsKeep, OwnContext, UserOps
<1>3. pc[u] = "done"
  BY <1>2 DEF IInv, BeforeIsOver
<1>4. /\ op[u] = "message" /\ id'[u] = id[u] /\ before'[u] = before[u]
      /\ context[u] = Trim[id[u]] /\ k \in accepted[u]
  BY <1>3 DEF IInv, StepOK, CallsKeep, OwnContext, UserOps
<1>5. ~MayBeCleared(u)
  BY <1>3, MayBeClearedKept
<1>6. /\ condition["fact"] \notin {"absent", "unconnected"}
      /\ facts[context[u]][k] \in Calls \ before[u]
  BY <1>4, <1>5 DEF IInv, Stored
<1>7. condition["fact"] = "open"
  BY <1>6 DEF StepOK, ConditionsChange, MemoryTypes
<1>8. CASE pc[t] \in {"summary", "llm"} /\ known'[t] = known[t]
  BY <1>2, <1>4, <1>5, <1>7, <1>8 DEF IInv, Known
<1>9. CASE known'[t] = AllFacts(context[t])
  BY <1>2, <1>4, <1>6, <1>9, MemoriesAssumption DEF AllFacts
<1> QED
  BY <1>7, <1>8, <1>9 DEF StepOK, Learns

-----------------------------------------------------------------------------
LEMMA InitOK == Init => IInv
<1> SUFFICES ASSUME Init PROVE IInv
  OBVIOUS
<1>1. Typed
  BY CallsAssumption DEF Init, MemoriesInit, NoFacts, Typed, MemoriesTypeOK, ManagerTyped,
     InvocationsTyped, CallsTyped, PCs, Replies
<1>2. OwnContext /\ Methods /\ BeforeIsOver /\ AbsentIsEmpty /\ WrittenByOwner
  BY DEF Init, MemoriesInit, NoFacts, OwnContext, Methods, MessagePCs, ClearPCs, BeforeIsOver,
         AbsentIsEmpty, WrittenByOwner
<1>3. KnownIsOwn
  BY DEF Init, KnownIsOwn
<1>4. Cleared /\ Stored /\ Known
  BY CallsAssumption DEF Init, Cleared, Stored, Known
<1> QED
  BY <1>1, <1>2, <1>3, <1>4 DEF IInv

(* The inductive invariant. *)
THEOREM Invariance == Spec => []IInv
<1>1. IInv /\ [Next]_vars => IInv'
  BY Steps, OwnContextKept, MethodsKept, BeforeIsOverKept, AbsentIsEmptyKept,
     WrittenByOwnerKept, KnownIsOwnKept, ClearedKept, StoredKept, KnownKept DEF IInv
<1> QED
  BY InitOK, <1>1, PTL DEF Spec

(* For any users, calls, facts and configuration of the memories: the      *)
(* facts and the summary an agent puts into a request come from turns of   *)
(* its own user.                                                           *)
THEOREM OwnUser == Spec => []KnowsOwnUser
<1>1. IInv => KnowsOwnUser
  BY DEF IInv, KnownIsOwn, Owned, KnowsOwnUser, Turns
<1> QED
  BY Invariance, <1>1, PTL

(* A clear that has resolved has removed all the turns before it left.     *)
THEOREM ClearComplete == Spec => []ClearIsComplete
<1>1. IInv => ClearIsComplete
  BY DEF IInv, Cleared, ClearIsComplete
<1> QED
  BY Invariance, <1>1, PTL

(* Every stored fact is known to the later turns of its user.              *)
THEOREM FactsRemembered == Spec => []RemembersFacts
<1>1. IInv => RemembersFacts
  BY DEF IInv, Known, RemembersFacts, Reliable, Turns, Follows
<1> QED
  BY Invariance, <1>1, PTL

-----------------------------------------------------------------------------
(* Summaries and shutdown: what a call has still to do.                    *)

(* What a turn still has to store: the summary, if at all, comes last. *)
Stores(q) ==
    /\ q # << >> /\ q \in Seq(FactKeys \cup {"summary"})
    /\ \A i \in 1..Len(q) : q[i] = "summary" => i = Len(q)

(* A summary in the memory is that of a turn that is over, with the time   *)
(* at which it was added.                                                  *)
SummariesAreOver ==
    /\ \A c \in Calls : pc[c] = "remember" => Stores(todo[c])
    /\ \A x \in Contexts : \A s \in summaries[x] :
          pc[s.by] = "done" /\ s.timestamp = time[s.by]

(* A summary that was stored is still there, or was cleared by a call that *)
(* was not over when that of the summary began.                            *)
SummaryStored ==
    \A u \in Calls : op[u] = "message" /\ "summary" \in accepted[u] =>
        /\ pc[u] = "done" /\ condition["summary"] \notin {"absent", "unconnected"}
        /\ \/ MayBeCleared(u)
           \/ [by |-> u, timestamp |-> time[u]] \in summaries[context[u]]

(* A later turn that has read the summaries knows it or a newer one.       *)
SummaryKnown ==
    \A t, u \in Calls :
        /\ op[t] = "message" /\ op[u] = "message" /\ u \in before[t]
        /\ Trim[id[t]] = Trim[id[u]] /\ pc[t] = "llm"
        /\ condition["summary"] = "open" /\ ~MayBeCleared(u)
        /\ "summary" \in accepted[u]
        => /\ recent[t] \in Calls /\ pc[recent[t]] = "done"
           /\ time[recent[t]] >= time[u]

(* What a shutdown has not closed it has still to do.                      *)
Closing ==
    \A c \in Calls :
        /\ op[c] = "shutdown" => pc[c] \in {"close", "done"}
        /\ pc[c] = "close" => todo[c] # << >> /\ todo[c] \in Seq(MemoryTypes)
        /\ op[c] = "shutdown" => \A m \in MemoryTypes :
              \/ condition[m] \in {"absent", "closed", "failing"}
              \/ pc[c] = "close" /\ \E i \in 1..Len(todo[c]) : todo[c][i] = m

TodoInv == DOMAIN todo = Calls /\ SummariesAreOver /\ SummaryStored /\ SummaryKnown /\ Closing

(* What a step may do to that.                                             *)
TodoChanges ==
    /\ DOMAIN todo' = Calls
    /\ \A c \in Calls :
          /\ pc'[c] = "remember" =>
                \/ pc[c] = "remember" /\ todo'[c] = todo[c]
                \/ Stores(todo'[c])
          /\ time'[c] = time[c] \/ pc[c] \in {"evaluate", "remember"}

SummariesChange ==
    \A x \in Contexts :
        /\ \A s \in summaries'[x] :
              \/ s \in summaries[x]
              \/ /\ s.by \in Calls /\ pc[s.by] = "remember" /\ pc'[s.by] = "done"
                 /\ s.timestamp = time'[s.by]
        /\ \A s \in summaries[x] :
              \/ s \in summaries'[x]
              \/ \E d \in Calls : pc[d] = "clearSummaries" /\ context[d] = x

SummariesAccepted ==
    \A c \in Calls : op'[c] = "message" /\ "summary" \in accepted'[c] =>
        \/ "summary" \in accepted[c]
        \/ /\ pc[c] = "remember" /\ pc'[c] = "done"
           /\ [by |-> c, timestamp |-> time'[c]] \in summaries'[context[c]]
           /\ condition["summary"] \in {"open", "failing"}

SummariesLearnt ==
    \A t \in Calls : pc'[t] = "llm" =>
        \/ pc[t] = "llm" /\ recent'[t] = recent[t]
        \/ /\ pc[t] = "summary" /\ UNCHANGED <<memoryVars, time, accepted>>
           /\ \/ condition["summary"] # "open"
              \/ recent'[t] \in LatestSummary(context[t])
              \/ summaries[context[t]] = {}

(* What a shutdown has not closed it has still to do. *)
ClosesRest(c) ==
    /\ pc[c] \in {"close", "done"}
    /\ pc[c] = "close" => todo[c] # << >> /\ todo[c] \in Seq(MemoryTypes)
    /\ \A m \in MemoryTypes :
          \/ condition[m] \in {"absent", "closed", "failing"}
          \/ pc[c] = "close" /\ \E i \in 1..Len(todo[c]) : todo[c][i] = m

ClosingGoesOn ==
    \A c \in Calls : op'[c] = "shutdown" =>
        \/ ClosesRest(c)'
        \/ pc[c] = "close" /\ pc'[c] = "close" /\ todo'[c] = todo[c]
        \/ pc[c] = "done" /\ pc'[c] = "done"

TodoOK ==
    /\ TodoChanges /\ SummariesChange /\ SummariesAccepted /\ SummariesLearnt
    /\ ClosingGoesOn

(* Most steps leave it all alone. *)
Quiet ==
    /\ DOMAIN todo' = Calls /\ time' = time /\ summaries' = summaries
    /\ \A c \in Calls :
          /\ "summary" \in accepted'[c] => "summary" \in accepted[c]
          /\ pc'[c] \in {"remember", "close", "llm"} =>
                pc'[c] = pc[c] /\ todo'[c] = todo[c] /\ recent'[c] = recent[c]
          /\ pc[c] = "close" => pc'[c] = "close"
          /\ op'[c] = "shutdown" => op[c] = "shutdown"

LEMMA QuietIsOK ==
  ASSUME IInv, TodoInv, StepOK, Quiet
  PROVE  TodoOK
<1>1. ASSUME NEW c \in Calls, op'[c] = "shutdown"
      PROVE  \/ pc[c] = "close" /\ pc'[c] = "close" /\ todo'[c] = todo[c]
             \/ pc[c] = "done" /\ pc'[c] = "done"
  BY <1>1 DEF Quiet, TodoInv, Closing, StepOK, CallsKeep
<1> QED
  BY <1>1 DEF Quiet, TodoOK, TodoChanges, SummariesChange, SummariesAccepted,
              SummariesLearnt, ClosingGoesOn

LEMMA OpenSessionIsQuiet ==
  ASSUME IInv, TodoInv, NEW i \in Ids, OpenSession(i)
  PROVE  Quiet
BY DEF OpenSession, Become, Return, Continue, Quiet, TodoInv, IInv, Typed,
       CallsTyped, InvocationsTyped, memoryVars, managerVars, turnVars, callVars

LEMMA EndSessionIsQuiet ==
  ASSUME IInv, TodoInv, NEW s \in Sessions, EndSession(s)
  PROVE  Quiet
BY DEF EndSession, Become, Return, Continue, Quiet, TodoInv, IInv, Typed,
       CallsTyped, InvocationsTyped, memoryVars, managerVars, turnVars, callVars

LEMMA InitializeIsQuiet ==
  ASSUME IInv, TodoInv, NEW m \in MemoryTypes, InitializeMemory(m)
  PROVE  Quiet
BY DEF InitializeMemory, Initialize, Become, Return, Continue, Quiet, TodoInv, IInv, Typed,
       CallsTyped, InvocationsTyped, memoryVars, managerVars, turnVars, callVars

LEMMA ProcessMessageIsQuiet ==
  ASSUME IInv, TodoInv, NEW c \in Calls, NEW i \in Ids, ProcessMessage(c, i)
  PROVE  Quiet
BY DEF ProcessMessage, Invoke, Become, Return, Continue, Quiet, TodoInv, IInv, Typed,
       CallsTyped, InvocationsTyped, memoryVars, managerVars, turnVars, callVars

LEMMA ClearHistoryIsQuiet ==
  ASSUME IInv, TodoInv, NEW c \in Calls, NEW i \in Ids, ClearSessionHistory(c, i)
  PROVE  Quiet
BY DEF ClearSessionHistory, Invoke, Become, Return, Continue, Quiet, TodoInv, IInv, Typed,
       CallsTyped, InvocationsTyped, memoryVars, managerVars, turnVars, callVars

LEMMA ForgetFactIsQuiet ==
  ASSUME IInv, TodoInv, NEW c \in Calls, NEW i \in Ids, NEW k \in FactKeys, ForgetFact(c, i, k)
  PROVE  Quiet
BY DEF ForgetFact, Invoke, Become, Return, Continue, Quiet, TodoInv, IInv, Typed,
       CallsTyped, InvocationsTyped, memoryVars, managerVars, turnVars, callVars

LEMMA FactForgottenIsQuiet ==
  ASSUME IInv, TodoInv, NEW c \in Calls, FactForgotten(c)
  PROVE  Quiet
BY DEF FactForgotten, DeleteFact, Refuses, Become, Return, Continue, Quiet, TodoInv, IInv, Typed,
       CallsTyped, InvocationsTyped, memoryVars, managerVars, turnVars, callVars

LEMMA AppendUserIsQuiet ==
  ASSUME IInv, TodoInv, NEW c \in Calls, AppendUser(c)
  PROVE  Quiet
BY DEF AppendUser, AppendMessage, Refuses, Become, Return, Continue, Quiet, TodoInv, IInv, Typed,
       CallsTyped, InvocationsTyped, memoryVars, managerVars, turnVars, callVars

LEMMA ReadFactsIsQuiet ==
  ASSUME IInv, TodoInv, NEW c \in Calls, ReadFacts(c)
  PROVE  Quiet
BY DEF ReadFacts, Become, Return, Continue, Quiet, TodoInv, IInv, Typed,
       CallsTyped, InvocationsTyped, memoryVars, managerVars, turnVars, callVars

LEMMA AnswerIsQuiet ==
  ASSUME IInv, TodoInv, NEW c \in Calls, Answer(c)
  PROVE  Quiet
BY DEF Answer, Become, Return, Continue, Quiet, TodoInv, IInv, Typed,
       CallsTyped, InvocationsTyped, memoryVars, managerVars, turnVars, callVars

LEMMA AppendAnswerIsQuiet ==
  ASSUME IInv, TodoInv, NEW c \in Calls, AppendAnswer(c)
  PROVE  Quiet
BY DEF AppendAnswer, AppendMessage, Refuses, Become, Return, Continue, Quiet, TodoInv, IInv, Typed,
       CallsTyped, InvocationsTyped, memoryVars, managerVars, turnVars, callVars

LEMMA ClearLogIsQuiet ==
  ASSUME IInv, TodoInv, NEW c \in Calls, ClearLog(c)
  PROVE  Quiet
BY DEF ClearLog, Accept, Refuses, Become, Return, Continue, Quiet, TodoInv, IInv, Typed,
       CallsTyped, InvocationsTyped, memoryVars, managerVars, turnVars, callVars

LEMMA ClearFactsIsQuiet ==
  ASSUME IInv, TodoInv, NEW c \in Calls, ClearFacts(c)
  PROVE  Quiet
BY DEF ClearFacts, ClearedFacts, DeleteAllFacts, Refuses, Become, Return, Continue, Quiet, TodoInv, IInv, Typed,
       CallsTyped, InvocationsTyped, memoryVars, managerVars, turnVars, callVars

LEMMA ReadSummaryIsOK ==
  ASSUME IInv, TodoInv, NEW c \in Calls, ReadSummary(c)
  PROVE  TodoOK
<1>1. /\ pc[c] = "summary" /\ pc' = [pc EXCEPT ![c] = "llm"]
      /\ UNCHANGED <<memoryVars, time, op, todo, accepted>>
      /\ \/ condition["summary"] # "open"
         \/ recent'[c] \in LatestSummary(context[c])
         \/ summaries[context[c]] = {}
      /\ \A t \in Calls : t # c => recent'[t] = recent[t]
  BY DEF ReadSummary, Continue, Become, managerVars, callVars, IInv, Typed, CallsTyped
<1>2. pc \in [Calls -> PCs]
  BY DEF IInv, Typed, CallsTyped
<1>3. TodoChanges /\ SummariesChange /\ SummariesAccepted
  BY <1>1, <1>2 DEF TodoInv, TodoChanges, SummariesChange, SummariesAccepted, memoryVars
<1>4. SummariesLearnt
  BY <1>1, <1>2 DEF SummariesLearnt
<1>5. ClosingGoesOn
  BY <1>1, <1>2 DEF ClosingGoesOn, TodoInv, Closing
<1> QED
  BY <1>3, <1>4, <1>5 DEF TodoOK

(* The facts come first, then at most one summary. *)
LEMMA StoredInOrder ==
  ASSUME NEW e \in Evaluations, ToStore(e) # << >>
  PROVE  Stores(ToStore(e))
<1> DEFINE f == IF "fact" \in Managed THEN e.facts ELSE << >>
           g == IF "summary" \in Managed /\ e.summary THEN <<"summary">> ELSE << >>
<1>1. f \in Seq(FactKeys) /\ (g = << >> \/ g = <<"summary">>)
  BY EvaluationsAssumption
<1>2. "summary" \notin FactKeys
  BY CallsAssumption DEF MemoryTypes
<1>3. ToStore(e) = f \o g
  BY DEF ToStore
<1> HIDE DEF f, g
<1>4. CASE g = << >>
  <2>1. ToStore(e) = f
    BY <1>1, <1>3, <1>4
  <2> QED
    BY <1>1, <1>2, <2>1 DEF Stores
<1>5. CASE g = <<"summary">>
  <2>1. ToStore(e) = Append(f, "summary")
    BY <1>1, <1>3, <1>5
  <2> QED
    BY <1>1, <1>2, <2>1 DEF Stores
<1> QED
  BY <1>1, <1>4, <1>5

LEMMA EvaluateIsOK ==
  ASSUME IInv, TodoInv, NEW c \in Calls, Evaluate(c)
  PROVE  TodoOK
<1>1. PICK rest : Remember(c, rest) /\ (rest = << >> \/ Stores(rest))
  <2>1. CASE Remember(c, << >>)
    BY <2>1
  <2>2. ASSUME NEW e \in Evaluations, Remember(c, ToStore(e))
        PROVE  Remember(c, ToStore(e)) /\ (ToStore(e) = << >> \/ Stores(ToStore(e)))
    BY <2>2, StoredInOrder
  <2> QED
    BY <2>1, <2>2 DEF Evaluate
<1>2. /\ pc[c] = "evaluate" /\ todo' = [todo EXCEPT ![c] = rest]
      /\ pc' = [pc EXCEPT ![c] = IF rest = << >> THEN "done" ELSE "remember"]
      /\ UNCHANGED <<memoryVars, recent, op, accepted>>
      /\ \A d \in Calls : d # c => time'[d] = time[d]
  BY <1>1 DEF Evaluate, Remember, Return, Continue, Become, callVars, IInv, Typed, ManagerTyped
<1>3. pc \in [Calls -> PCs]
  BY DEF IInv, Typed, CallsTyped
<1>4. TodoChanges
  BY <1>1, <1>2, <1>3 DEF TodoInv, TodoChanges
<1>5. SummariesChange /\ SummariesAccepted /\ SummariesLearnt
  BY <1>2, <1>3 DEF SummariesChange, SummariesAccepted, SummariesLearnt, memoryVars
<1>6. ClosingGoesOn
  BY <1>2, <1>3 DEF ClosingGoesOn, TodoInv, Closing
<1> QED
  BY <1>4, <1>5, <1>6 DEF TodoOK

LEMMA StoreNextIsOK ==
  ASSUME IInv, TodoInv, NEW c \in Calls, StoreNext(c)
  PROVE  TodoOK
<1> DEFINE rest == Tail(todo[c])
<1>1. /\ pc[c] = "remember" /\ todo' = [todo EXCEPT ![c] = rest]
      /\ pc' = [pc EXCEPT ![c] = IF rest = << >> THEN "done" ELSE "remember"]
      /\ UNCHANGED <<recent, op, context>>
      /\ \A d \in Calls : d # c => time'[d] = time[d]
      /\ rest # <<"summary">> => time' = time
  BY DEF StoreNext, Remember, Return, Continue, Become, callVars, IInv, Typed, ManagerTyped
<1>2. pc \in [Calls -> PCs]
  BY DEF IInv, Typed, CallsTyped
<1>3. Stores(todo[c])
  BY <1>1 DEF TodoInv, SummariesAreOver
<1>4. rest # << >> => Stores(rest)
  BY <1>3 DEF Stores
<1>5. Head(todo[c]) = "summary" => rest = << >>
  BY <1>3 DEF Stores
<1>6. TodoChanges
  BY <1>1, <1>2, <1>4 DEF TodoInv, TodoChanges
<1>7. context[c] \in Contexts
  BY <1>1, TrimmedIds DEF IInv, OwnContext, Methods, MessagePCs, UserOps
<1>8. \/ /\ Head(todo[c]) = "summary" /\ condition["summary"] \in {"open", "failing"}
         /\ summaries' = [summaries EXCEPT ![context[c]] =
                             @ \cup {[by |-> c, timestamp |-> time[c]]}]
         /\ accepted' = [accepted EXCEPT ![c] = @ \cup {"summary"}]
      \/ /\ summaries' = summaries
         /\ \A d \in Calls : "summary" \in accepted'[d] => "summary" \in accepted[d]
  <2>1. CASE /\ Head(todo[c]) = "summary" /\ AddSummary(context[c], c, time[c])
             /\ Accept(c, Head(todo[c]))
    BY <2>1 DEF AddSummary, Accept, Works
  <2>2. CASE /\ Head(todo[c]) # "summary" /\ SetFact(context[c], Head(todo[c]), c)
             /\ Accept(c, Head(todo[c]))
    BY <2>2 DEF SetFact, Accept, IInv, Typed, CallsTyped
  <2>3. CASE RefusalIsCaught(MemoryOf(Head(todo[c]))) /\ UNCHANGED accepted
    BY <2>3 DEF RefusalIsCaught, Refuses, memoryVars
  <2> QED
    BY <2>1, <2>2, <2>3 DEF StoreNext
<1>9. SummariesChange
  <2>1. \A x \in Contexts : \A s \in summaries[x] : s \in summaries'[x]
    BY <1>8 DEF IInv, Typed, MemoriesTypeOK
  <2>2. ASSUME NEW x \in Contexts, NEW s \in summaries'[x], s \notin summaries[x]
        PROVE  /\ s.by = c /\ pc'[c] = "done" /\ s.timestamp = time'[c]
    <3>1. /\ Head(todo[c]) = "summary"
          /\ s = [by |-> c, timestamp |-> time[c]]
      BY <1>8, <2>2 DEF IInv, Typed, MemoriesTypeOK
    <3> QED
      BY <1>1, <1>2, <1>5, <3>1
  <2> QED
    BY <1>1, <2>1, <2>2 DEF SummariesChange
<1>10. SummariesAccepted
  <2> SUFFICES ASSUME NEW d \in Calls, "summary" \in accepted'[d], "summary" \notin accepted[d]
               PROVE  /\ pc[d] = "remember" /\ pc'[d] = "done"
                      /\ [by |-> d, timestamp |-> time'[d]] \in summaries'[context[d]]
                      /\ condition["summary"] \in {"open", "failing"}
    BY DEF SummariesAccepted
  <2>1. /\ d = c /\ Head(todo[c]) = "summary" /\ condition["summary"] \in {"open", "failing"}
        /\ summaries' = [summaries EXCEPT ![context[c]] =
                             @ \cup {[by |-> c, timestamp |-> time[c]]}]
    BY <1>8 DEF IInv, Typed, CallsTyped
  <2>2. pc'[c] = "done" /\ time' = time
    BY <1>1, <1>2, <1>5, <2>1
  <2> QED
    BY <1>1, <1>7, <2>1, <2>2 DEF IInv, Typed, MemoriesTypeOK
<1>11. SummariesLearnt
  BY <1>1, <1>2 DEF SummariesLearnt
<1>12. ClosingGoesOn
  BY <1>1, <1>2 DEF ClosingGoesOn, TodoInv, Closing
<1> QED
  BY <1>6, <1>9, <1>10, <1>11, <1>12 DEF TodoOK

LEMMA ClearSummariesIsOK ==
  ASSUME IInv, TodoInv, NEW c \in Calls, ClearSummaries(c)
  PROVE  TodoOK
<1>1. /\ pc[c] = "clearSummaries" /\ pc' = [pc EXCEPT ![c] = "done"]
      /\ UNCHANGED <<recent, op, todo, time, accepted>>
      /\ \/ summaries' = summaries
         \/ summaries' = [summaries EXCEPT ![context[c]] = {}]
  BY DEF ClearSummaries, DeleteAllSummaries, Refuses, Return, Become, memoryVars, turnVars,
         callVars
<1>2. pc \in [Calls -> PCs] /\ summaries \in [Contexts -> SUBSET Summaries]
  BY DEF IInv, Typed, CallsTyped, MemoriesTypeOK
<1>3. TodoChanges /\ SummariesAccepted /\ SummariesLearnt
  BY <1>1, <1>2 DEF TodoInv, TodoChanges, SummariesAccepted, SummariesLearnt
<1>4. SummariesChange
  BY <1>1, <1>2 DEF SummariesChange
<1>5. ClosingGoesOn
  BY <1>1, <1>2 DEF ClosingGoesOn, TodoInv, Closing
<1> QED
  BY <1>3, <1>4, <1>5 DEF TodoOK

(* A memory that is to be closed, or that nothing can close any more. *)
Within(m, q) == \E i \in 1..Len(q) : q[i] = m

LEMMA WithinBoth ==
  ASSUME NEW S, NEW q \in Seq(S), NEW r \in Seq(S)
  PROVE  /\ q \o r \in Seq(S)
         /\ \A m : Within(m, q) \/ Within(m, r) => Within(m, q \o r)
<1>1. ASSUME NEW m, NEW i \in 1..Len(q), q[i] = m
      PROVE  Within(m, q \o r)
  <2>1. i \in 1..Len(q \o r) /\ (q \o r)[i] = m
    BY <1>1
  <2> QED
    BY <2>1 DEF Within
<1>2. ASSUME NEW m, NEW i \in 1..Len(r), r[i] = m
      PROVE  Within(m, q \o r)
  <2>1. Len(q) + i \in 1..Len(q \o r) /\ (q \o r)[Len(q) + i] = m
    BY <1>2
  <2> QED
    BY <2>1 DEF Within
<1> QED
  BY <1>1, <1>2 DEF Within

LEMMA CloseRestCloses ==
  ASSUME IInv, DOMAIN todo = Calls, NEW c \in Calls, NEW rest \in Seq(MemoryTypes),
         CloseRest(c, rest),
         \A m \in MemoryTypes :
            condition'[m] \in {"absent", "closed", "failing"} \/ Within(m, rest)
  PROVE  /\ ClosesRest(c)' /\ DOMAIN todo' = Calls
         /\ \A d \in Calls : d # c => pc'[d] = pc[d] /\ todo'[d] = todo[d]
         /\ pc'[c] \in {"close", "done"}
<1>1. /\ todo' = [todo EXCEPT ![c] = rest]
      /\ pc' = [pc EXCEPT ![c] = IF rest = << >> THEN "done" ELSE "close"]
  BY DEF CloseRest, Return, Continue, Become
<1>2. pc \in [Calls -> PCs]
  BY DEF IInv, Typed, CallsTyped
<1>3. /\ DOMAIN todo' = Calls /\ todo'[c] = rest
      /\ \A d \in Calls : d # c => pc'[d] = pc[d] /\ todo'[d] = todo[d]
      /\ pc'[c] = IF rest = << >> THEN "done" ELSE "close"
  BY <1>1, <1>2
<1>4. rest = << >> => \A m : ~ Within(m, rest)
  BY DEF Within
<1>5. \A m \in MemoryTypes :
         \/ condition'[m] \in {"absent", "closed", "failing"}
         \/ pc'[c] = "close" /\ \E i \in 1..Len(todo'[c]) : todo'[c][i] = m
  BY <1>3, <1>4 DEF Within
<1> QED
  BY <1>3, <1>5 DEF ClosesRest

LEMMA ShutdownIsOK ==
  ASSUME IInv, TodoInv, NEW c \in Calls, Shutdown(c)
  PROVE  TodoOK
<1> DEFINE rest == Given("conversation") \o Given("fact") \o Given("summary")
<1>1. \A m \in MemoryTypes :
         /\ Given(m) \in Seq(MemoryTypes)
         /\ condition[m] = "absent" \/ Within(m, Given(m))
  BY DEF Given, Within
<1>2. /\ rest \in Seq(MemoryTypes)
      /\ \A m \in MemoryTypes : (condition[m] = "absent" \/ Within(m, rest))
  <2> HIDE DEF rest
  <2>0. /\ Given("conversation") \in Seq(MemoryTypes)
        /\ Given("fact") \in Seq(MemoryTypes) /\ Given("summary") \in Seq(MemoryTypes)
    <3>1. {"conversation", "fact", "summary"} \subseteq MemoryTypes
      BY DEF MemoryTypes
    <3> QED
      BY <1>1, <3>1
  <2>1. /\ Given("conversation") \o Given("fact") \in Seq(MemoryTypes)
        /\ \A m : Within(m, Given("conversation")) \/ Within(m, Given("fact"))
                  => Within(m, Given("conversation") \o Given("fact"))
    BY <2>0, WithinBoth
  <2>2. rest \in Seq(MemoryTypes)
        /\ \A m : \/ Within(m, Given("conversation") \o Given("fact"))
                  \/ Within(m, Given("summary"))
                  => Within(m, rest)
    BY <2>0, <2>1, WithinBoth DEF rest
  <2>3. \A m \in MemoryTypes : m \in {"conversation", "fact", "summary"}
    BY DEF MemoryTypes
  <2> QED
    BY <1>1, <2>1, <2>2, <2>3
<1> HIDE DEF rest
<1>3. /\ pc[c] = "idle" /\ CloseRest(c, rest)
      /\ op' = [op EXCEPT ![c] = "shutdown"]
      /\ UNCHANGED <<memoryVars, time, recent, accepted>>
  BY DEF Shutdown, Invoke, turnVars, rest
<1>4. /\ ClosesRest(c)' /\ DOMAIN todo' = Calls
      /\ \A d \in Calls : d # c => pc'[d] = pc[d] /\ todo'[d] = todo[d]
      /\ pc'[c] \in {"close", "done"}
  BY <1>2, <1>3, CloseRestCloses DEF TodoInv, memoryVars
<1>5. \A d \in Calls : d # c => op'[d] = op[d]
  BY <1>3 DEF IInv, Typed, InvocationsTyped
<1>6. TodoChanges /\ SummariesChange /\ SummariesAccepted /\ SummariesLearnt
  BY <1>3, <1>4 DEF TodoChanges, SummariesChange, SummariesAccepted, SummariesLearnt, memoryVars
<1>7. ClosingGoesOn
  BY <1>4, <1>5 DEF ClosingGoesOn, TodoInv, Closing
<1> QED
  BY <1>6, <1>7 DEF TodoOK

LEMMA CloseNextIsOK ==
  ASSUME IInv, TodoInv, NEW c \in Calls, CloseNext(c)
  PROVE  TodoOK
<1> DEFINE m == Head(todo[c])
           rest == Tail(todo[c])
<1>1. /\ pc[c] = "close" /\ CloseRest(c, rest)
      /\ UNCHANGED <<summaries, time, recent, accepted, op>>
      /\ \/ condition' = [condition EXCEPT ![m] = "closed"]
         \/ condition' = condition /\ condition[m] \in {"closed", "failing"}
  BY DEF CloseNext, Close, AfterFailure, turnVars, callVars, memoryVars
<1>2. /\ todo[c] # << >> /\ todo[c] \in Seq(MemoryTypes)
      /\ rest \in Seq(MemoryTypes) /\ m \in MemoryTypes
  BY <1>1 DEF TodoInv, Closing
<1>3. op[c] = "shutdown"
  BY <1>1 DEF IInv, Methods
<1>4. ASSUME NEW k \in MemoryTypes
      PROVE  condition'[k] \in {"absent", "closed", "failing"} \/ Within(k, rest)
  <2>1. condition \in [MemoryTypes ->
                          {"absent", "unconnected", "open", "failing", "closed"}]
    BY DEF IInv, Typed, MemoriesTypeOK
  <2>2. CASE k = m
    BY <1>1, <1>2, <2>1, <2>2
  <2>3. CASE k # m
    <3>1. condition'[k] = condition[k]
      BY <1>1, <2>1, <2>3
    <3>2. CASE condition[k] \in {"absent", "closed", "failing"}
      BY <3>1, <3>2
    <3>3. ASSUME NEW i \in 1..Len(todo[c]), todo[c][i] = k
          PROVE  Within(k, rest)
      <4>1. i # 1
        BY <1>2, <2>3, <3>3
      <4>2. i - 1 \in 1..Len(rest) /\ rest[i - 1] = k
        BY <1>2, <3>3, <4>1
      <4> QED
        BY <4>2 DEF Within
    <3> QED
      BY <1>1, <1>3, <3>1, <3>2, <3>3 DEF TodoInv, Closing
  <2> QED
    BY <2>2, <2>3
<1> HIDE DEF rest
<1>5. /\ ClosesRest(c)' /\ DOMAIN todo' = Calls
      /\ \A d \in Calls : d # c => pc'[d] = pc[d] /\ todo'[d] = todo[d]
      /\ pc'[c] \in {"close", "done"}
  BY <1>1, <1>2, <1>4, CloseRestCloses DEF TodoInv
<1>6. TodoChanges /\ SummariesChange /\ SummariesAccepted /\ SummariesLearnt
  BY <1>1, <1>5 DEF TodoChanges, SummariesChange, SummariesAccepted, SummariesLearnt
<1>7. ClosingGoesOn
  BY <1>1, <1>5 DEF ClosingGoesOn, TodoInv, Closing
<1> QED
  BY <1>6, <1>7 DEF TodoOK

LEMMA TodoSteps ==
  ASSUME IInv, TodoInv, [Next]_vars
  PROVE  TodoOK
<1>1. StepOK
  BY Steps
<1>2. CASE UNCHANGED vars
  <2>1. Quiet
    BY <1>2 DEF vars, memoryVars, managerVars, turnVars, callVars, Quiet, TodoInv
  <2> QED
    BY <1>1, <2>1, QuietIsOK
<1>3. ASSUME NEW c \in Calls, Call(c)
      PROVE  TodoOK
  BY <1>1, <1>3, ProcessMessageIsQuiet, ClearHistoryIsQuiet, ForgetFactIsQuiet, QuietIsOK,
     ShutdownIsOK DEF Call
<1>4. ASSUME NEW c \in Calls, Resume(c)
      PROVE  TodoOK
  BY <1>1, <1>4, AppendUserIsQuiet, ReadFactsIsQuiet, AnswerIsQuiet, AppendAnswerIsQuiet,
     ClearLogIsQuiet, ClearFactsIsQuiet, FactForgottenIsQuiet, QuietIsOK, ReadSummaryIsOK,
     EvaluateIsOK, StoreNextIsOK, ClearSummariesIsOK, CloseNextIsOK DEF Resume
<1> QED
  BY <1>1, <1>2, <1>3, <1>4, OpenSessionIsQuiet, EndSessionIsQuiet, InitializeIsQuiet,
     QuietIsOK DEF Next

LEMMA SummariesAreOverKept ==
  ASSUME IInv, TodoInv, StepOK, TodoOK
  PROVE  SummariesAreOver'
<1>1. ASSUME NEW c \in Calls, pc'[c] = "remember"
      PROVE  Stores(todo'[c])
  BY <1>1 DEF TodoInv, SummariesAreOver, TodoOK, TodoChanges
<1>2. ASSUME NEW x \in Contexts, NEW s \in summaries'[x]
      PROVE  pc'[s.by] = "done" /\ s.timestamp = time'[s.by]
  <2>1. CASE s \in summaries[x]
    <3>1. pc[s.by] = "done" /\ s.timestamp = time[s.by] /\ s.by \in Calls
      BY <2>1 DEF TodoInv, SummariesAreOver, IInv, WrittenByOwner, Owned
    <3> QED
      BY <3>1 DEF StepOK, CallsKeep, TodoOK, TodoChanges
  <2>2. CASE s \notin summaries[x]
    BY <2>2 DEF TodoOK, SummariesChange
  <2> QED
    BY <2>1, <2>2
<1>3. \A c \in Calls : pc'[c] = "remember" => Stores(todo[c])'
  BY <1>1 DEF Stores
<1> QED
  BY <1>2, <1>3 DEF SummariesAreOver

LEMMA SummaryStoredKept ==
  ASSUME IInv, TodoInv, StepOK, TodoOK
  PROVE  SummaryStored'
<1> SUFFICES ASSUME NEW u \in Calls, op'[u] = "message", "summary" \in accepted'[u]
             PROVE  /\ pc'[u] = "done"
                    /\ condition'["summary"] \notin {"absent", "unconnected"}
                    /\ \/ MayBeCleared(u)'
                       \/ [by |-> u, timestamp |-> time'[u]] \in summaries'[context'[u]]
  BY DEF SummaryStored
<1>1. CASE "summary" \notin accepted[u]
  <2>1. /\ pc[u] = "remember" /\ pc'[u] = "done"
        /\ [by |-> u, timestamp |-> time'[u]] \in summaries'[context[u]]
        /\ condition["summary"] \in {"open", "failing"}
    BY <1>1 DEF TodoOK, SummariesAccepted
  <2> QED
    BY <2>1 DEF StepOK, CallsKeep, ConditionsChange, MemoryTypes
<1>2. CASE "summary" \in accepted[u]
  <2>1. pc[u] # "idle"
    BY <1>2 DEF IInv, Methods
  <2>2. /\ op[u] = "message" /\ context'[u] = context[u] /\ before'[u] = before[u]
        /\ context[u] \in Contexts
    BY <2>1, TrimmedIds DEF IInv, StepOK, CallsKeep, OwnContext, UserOps
  <2>3. pc[u] = "done" /\ condition["summary"] \notin {"absent", "unconnected"}
    BY <1>2, <2>2 DEF TodoInv, SummaryStored
  <2>4. /\ pc'[u] = "done" /\ time'[u] = time[u]
        /\ condition'["summary"] \notin {"absent", "unconnected"}
    BY <2>3 DEF StepOK, CallsKeep, ConditionsChange, MemoryTypes, TodoOK, TodoChanges
  <2>5. CASE MayBeCleared(u)
    BY <2>1, <2>4, <2>5, MayBeClearedKept
  <2>6. CASE ~ MayBeCleared(u)
    <3>1. [by |-> u, timestamp |-> time[u]] \in summaries[context[u]]
      BY <1>2, <2>2, <2>6 DEF TodoInv, SummaryStored
    <3>2. ASSUME NEW d \in Calls, pc[d] = "clearSummaries", context[d] = context[u]
          PROVE  FALSE
      <4>1. op[d] = "clear" /\ d \notin before[u]
        BY <3>2 DEF IInv, Methods, ClearPCs, BeforeIsOver
      <4> QED
        BY <2>6, <3>2, <4>1 DEF MayBeCleared
    <3> QED
      BY <2>2, <2>4, <3>1, <3>2 DEF TodoOK, SummariesChange
  <2> QED
    BY <2>5, <2>6
<1> QED
  BY <1>1, <1>2

LEMMA SummaryKnownKept ==
  ASSUME IInv, TodoInv, StepOK, TodoOK
  PROVE  SummaryKnown'
<1> SUFFICES ASSUME NEW t \in Calls, NEW u \in Calls,
                    op'[t] = "message", op'[u] = "message", u \in before'[t],
                    Trim[id'[t]] = Trim[id'[u]], pc'[t] = "llm",
                    condition'["summary"] = "open", ~MayBeCleared(u)',
                    "summary" \in accepted'[u]
             PROVE  /\ recent'[t] \in Calls /\ pc'[recent'[t]] = "done"
                    /\ time'[recent'[t]] >= time'[u]
  BY DEF SummaryKnown
<1>1. pc[t] # "idle"
  BY DEF TodoOK, SummariesLearnt
<1>2. /\ op[t] = "message" /\ id'[t] = id[t] /\ before'[t] = before[t]
      /\ context[t] = Trim[id[t]] /\ context[t] \in Contexts
  BY <1>1, TrimmedIds DEF IInv, StepOK, CallsKeep, OwnContext, UserOps
<1>3. pc[u] = "done"
  BY <1>2 DEF IInv, BeforeIsOver
<1>4. /\ op[u] = "message" /\ id'[u] = id[u] /\ context[u] = Trim[id[u]]
      /\ "summary" \in accepted[u]
  BY <1>3 DEF IInv, StepOK, CallsKeep, OwnContext, UserOps
<1>5. ~MayBeCleared(u)
  BY <1>3, MayBeClearedKept
<1>6. /\ condition["summary"] \notin {"absent", "unconnected"}
      /\ [by |-> u, timestamp |-> time[u]] \in summaries[context[u]]
  BY <1>4, <1>5 DEF TodoInv, SummaryStored
<1>7. condition["summary"] = "open"
  BY <1>6 DEF StepOK, ConditionsChange, MemoryTypes
<1>8. /\ recent'[t] \in Calls /\ pc[recent'[t]] = "done"
      /\ time[recent'[t]] >= time[u]
  <2>1. CASE pc[t] = "llm" /\ recent'[t] = recent[t]
    BY <1>2, <1>4, <1>5, <1>7, <2>1 DEF TodoInv, SummaryKnown
  <2>2. CASE recent'[t] \in LatestSummary(context[t])
    <3>1. PICK s \in summaries[context[t]] :
             /\ recent'[t] = s.by
             /\ \A q \in summaries[context[t]] : q.timestamp <= s.timestamp
      BY <2>2 DEF LatestSummary
    <3>2. /\ s.by \in Calls /\ pc[s.by] = "done" /\ s.timestamp = time[s.by]
      BY <1>2, <3>1 DEF TodoInv, SummariesAreOver, IInv, WrittenByOwner, Owned
    <3>3. time[u] <= s.timestamp
      BY <1>2, <1>4, <1>6, <3>1
    <3>4. time[u] \in Nat /\ time[s.by] \in Nat
      BY <3>2 DEF IInv, Typed, ManagerTyped
    <3> QED
      BY <3>1, <3>2, <3>3, <3>4
  <2> QED
    BY <1>2, <1>4, <1>6, <1>7, <2>1, <2>2 DEF TodoOK, SummariesLearnt
<1>9. pc'[recent'[t]] = "done" /\ time'[recent'[t]] = time[recent'[t]] /\ time'[u] = time[u]
  BY <1>3, <1>8 DEF StepOK, CallsKeep, TodoOK, TodoChanges
<1> QED
  BY <1>8, <1>9

LEMMA ClosingKept ==
  ASSUME IInv, TodoInv, StepOK, TodoOK, Methods'
  PROVE  Closing'
<1>1. ASSUME NEW c \in Calls, op'[c] = "shutdown"
      PROVE  ClosesRest(c)'
  <2>1. CASE pc[c] = "close" /\ pc'[c] = "close" /\ todo'[c] = todo[c]
    <3>1. op[c] = "shutdown"
      BY <2>1 DEF IInv, Methods
    <3> QED
      BY <2>1, <3>1 DEF TodoInv, Closing, ClosesRest, StepOK, ConditionsChange
  <2>2. CASE pc[c] = "done" /\ pc'[c] = "done"
    <3>1. op[c] = "shutdown"
      BY <1>1, <2>2 DEF StepOK, CallsKeep
    <3> QED
      BY <2>2, <3>1 DEF TodoInv, Closing, ClosesRest, StepOK, ConditionsChange
  <2> QED
    BY <1>1, <2>1, <2>2 DEF TodoOK, ClosingGoesOn
<1>2. \A c \in Calls : pc'[c] = "close" => op'[c] = "shutdown"
  BY DEF Methods
<1> QED
  BY <1>1, <1>2 DEF Closing, ClosesRest

(* The invariant of what calls have still to do. *)
THEOREM TodoInvariance == Spec => []TodoInv
<1>1. Init => TodoInv
  BY CallsAssumption DEF Init, MemoriesInit, TodoInv, SummariesAreOver, SummaryStored, SummaryKnown, Closing
<1>2. IInv /\ TodoInv /\ IInv' /\ [Next]_vars => TodoInv'
  <2> SUFFICES ASSUME IInv, TodoInv, IInv', [Next]_vars
               PROVE  TodoInv'
    OBVIOUS
  <2>1. StepOK /\ TodoOK /\ Methods'
    BY Steps, TodoSteps DEF IInv
  <2>2. DOMAIN todo' = Calls
    BY <2>1 DEF TodoOK, TodoChanges
  <2> QED
    BY <2>1, <2>2, SummariesAreOverKept, SummaryStoredKept, SummaryKnownKept, ClosingKept
       DEF TodoInv
<1> QED
  BY <1>1, <1>2, Invariance, PTL DEF Spec

(* Every later turn of the user knows the last summary or a newer one,     *)
(* whichever of two overlapping turns stored its summary first.            *)
THEOREM LastSummaryRemembered == Spec => []RemembersLastSummary
<1>1. IInv /\ TodoInv => RemembersLastSummary
  <2> SUFFICES ASSUME TodoInv, Reliable("summary"), NEW t \in Turns, NEW u \in Turns,
                      Follows(t, u), "summary" \in accepted[u]
               PROVE  recent[t] # None /\ time[recent[t]] >= time[u]
    BY DEF RemembersLastSummary
  <2>1. recent[t] \in Calls /\ time[recent[t]] >= time[u]
    BY DEF TodoInv, SummaryKnown, Reliable, Turns, Follows
  <2> QED
    BY <2>1, MemoriesAssumption
<1> QED
  BY <1>1, Invariance, TodoInvariance, PTL

(* A shutdown that has resolved has closed every memory whose close can    *)
(* succeed, whatever the others answered and whatever calls it overlapped. *)
THEOREM AllClosed == Spec => []ShutdownClosesAll
<1>1. TodoInv => ShutdownClosesAll
  BY DEF TodoInv, Closing, ShutdownClosesAll
<1> QED
  BY <1>1, TodoInvariance, PTL

-----------------------------------------------------------------------------
(* No call waits for ever: the guards of its next step.                    *)

(* The promise of a statement of a memory can reject. *)
Rejects(m) == condition[m] \in {"unconnected", "closed", "failing"}

(* Resume(c) without what it does to the variables: whether the step that  *)
(* goes on after the await c is at can be taken.                           *)
CanResume(c) ==
    \/ /\ pc[c] \in {"appendUser", "appendAnswer", "clearLog", "clearInactive"}
       /\ \/ Works("conversation") \/ Rejects("conversation")
          \/ condition["conversation"] = "absent"
    \/ pc[c] = "facts" /\ (Works("fact") \/ condition["fact"] # "open")
    \/ /\ pc[c] = "summary"
       /\ \/ Works("summary") /\ LatestSummary(context[c]) # {}
          \/ Works("summary") /\ summaries[context[c]] = {}
          \/ condition["summary"] # "open"
    \/ pc[c] \in {"llm", "evaluate"}
    \/ /\ pc[c] = "remember" /\ todo[c] # << >>
       /\ LET m == MemoryOf(Head(todo[c])) IN Works(m) \/ Rejects(m)
    \/ /\ pc[c] = "clearFacts"
       /\ Works("fact") \/ Rejects("fact") \/ condition["fact"] = "absent"
    \/ /\ pc[c] = "clearSummaries"
       /\ Works("summary") \/ Rejects("summary") \/ condition["summary"] = "absent"
    \/ pc[c] = "delete" /\ (Works("fact") \/ Rejects("fact"))
    \/ /\ pc[c] = "close" /\ todo[c] # << >>
       /\ LET m == Head(todo[c]) IN
          Works(m) \/ condition[m] \in {"unconnected", "closed", "failing"}

EveryCallCanResume == \A c \in Calls : Running(c) => CanResume(c)

(* What a call has still to store, to delete or to close is in a memory    *)
(* that is there.                                                          *)
PartsHaveMemory ==
    \A c \in Calls :
        /\ pc[c] = "remember" => \A i \in 1..Len(todo[c]) :
              condition[MemoryOf(todo[c][i])] # "absent"
        /\ pc[c] = "delete" => condition["fact"] # "absent"
        /\ pc[c] = "close" => \A i \in 1..Len(todo[c]) :
              condition[todo[c][i]] # "absent"

TimesPassed == \A c \in Calls : time[c] <= clock

ResumeInv == PartsHaveMemory /\ TimesPassed

(* What a step may do to that: a call that begins or goes on has no part   *)
(* for a memory that is not there.                                         *)
PartsGoOn ==
    \A c \in Calls :
        /\ pc'[c] = "remember" =>
              \/ pc[c] = "remember" /\ todo'[c] = todo[c]
              \/ \A i \in 1..Len(todo'[c]) : condition[MemoryOf(todo'[c][i])] # "absent"
        /\ pc'[c] = "delete" => pc[c] = "delete" \/ condition["fact"] # "absent"
        /\ pc'[c] = "close" =>
              \/ pc[c] = "close" /\ todo'[c] = todo[c]
              \/ \A i \in 1..Len(todo'[c]) : condition[todo'[c][i]] # "absent"

TimesGoOn ==
    /\ clock' \in Nat /\ clock <= clock'
    /\ \A c \in Calls : time'[c] = time[c] \/ time'[c] = clock'

ResumeOK == PartsGoOn /\ TimesGoOn

(* Most steps read no clock and give no call anything to do. *)
Idle ==
    /\ UNCHANGED <<clock, time>>
    /\ \A c \in Calls :
          /\ pc'[c] \in {"remember", "close"} => pc'[c] = pc[c] /\ todo'[c] = todo[c]
          /\ pc'[c] = "delete" => pc[c] = "delete" \/ condition["fact"] # "absent"

LEMMA IdleIsOK ==
  ASSUME IInv, Idle
  PROVE  ResumeOK
BY DEF Idle, ResumeOK, PartsGoOn, TimesGoOn, IInv, Typed, ManagerTyped

LEMMA CallsAreIdle ==
  ASSUME IInv, NEW c \in Calls, NEW i \in Ids,
         \/ ProcessMessage(c, i) \/ ClearSessionHistory(c, i)
         \/ \E k \in FactKeys : ForgetFact(c, i, k)
  PROVE  Idle
<1> USE DEF Idle, Become, Return, Continue, managerVars, turnVars, IInv, Typed, CallsTyped
<1>1. CASE ProcessMessage(c, i)
  BY <1>1 DEF ProcessMessage
<1>2. CASE ClearSessionHistory(c, i)
  BY <1>2 DEF ClearSessionHistory
<1>3. ASSUME NEW k \in FactKeys, ForgetFact(c, i, k)
      PROVE  Idle
  <2>1. /\ pc' = [pc EXCEPT ![c] = "delete"] /\ condition["fact"] # "absent"
        /\ UNCHANGED <<clock, time>> /\ \A d \in Calls : d # c => todo'[d] = todo[d]
    BY <1>3 DEF ForgetFact
  <2> QED
    BY <2>1
<1> QED
  BY <1>1, <1>2, <1>3

LEMMA TurnsAreIdle ==
  ASSUME IInv, NEW c \in Calls,
         \/ AppendUser(c) \/ ReadFacts(c) \/ ReadSummary(c) \/ Answer(c)
         \/ AppendAnswer(c)
  PROVE  Idle
<1> USE DEF Idle, Become, Return, Continue, managerVars, turnVars, IInv, Typed, CallsTyped
<1>1. CASE AppendUser(c)
  BY <1>1 DEF AppendUser
<1>2. CASE ReadFacts(c)
  BY <1>2 DEF ReadFacts
<1>3. CASE ReadSummary(c)
  BY <1>3 DEF ReadSummary
<1>4. CASE Answer(c)
  BY <1>4 DEF Answer
<1>5. CASE AppendAnswer(c)
  BY <1>5 DEF AppendAnswer
<1> QED
  BY <1>1, <1>2, <1>3, <1>4, <1>5

LEMMA ClearsAreIdle ==
  ASSUME IInv, DOMAIN todo = Calls, NEW c \in Calls,
         ClearLog(c) \/ ClearFacts(c) \/ ClearSummaries(c) \/ FactForgotten(c)
  PROVE  Idle
<1> USE DEF Idle, Become, Return, Continue, managerVars, turnVars, IInv, Typed, CallsTyped
<1>1. CASE ClearLog(c)
  BY <1>1 DEF ClearLog
<1>2. CASE ClearFacts(c)
  BY <1>2 DEF ClearFacts
<1>3. CASE ClearSummaries(c)
  BY <1>3 DEF ClearSummaries
<1>4. CASE FactForgotten(c)
  BY <1>4 DEF FactForgotten
<1> QED
  BY <1>1, <1>2, <1>3, <1>4

(* What remains to be stored takes its timestamp from the clock.           *)
LEMMA RemembersInTime ==
  ASSUME IInv, DOMAIN todo = Calls, NEW c \in Calls, NEW rest, Remember(c, rest),
         rest # << >> =>
            \A i \in 1..Len(rest) : condition[MemoryOf(rest[i])] # "absent"
  PROVE  ResumeOK
<1>1. /\ todo' = [todo EXCEPT ![c] = rest]
      /\ pc' = [pc EXCEPT ![c] = IF rest = << >> THEN "done" ELSE "remember"]
      /\ \/ clock' = clock /\ time' = time
         \/ clock' = clock + 1 /\ time' = [time EXCEPT ![c] = clock + 1]
  BY DEF Remember, Return, Continue, Become
<1>2. pc \in [Calls -> PCs] /\ clock \in Nat /\ time \in [Calls -> Nat]
  BY DEF IInv, Typed, CallsTyped, ManagerTyped
<1>3. PartsGoOn
  BY <1>1, <1>2 DEF PartsGoOn
<1>4. TimesGoOn
  BY <1>1, <1>2 DEF TimesGoOn
<1> QED
  BY <1>3, <1>4 DEF ResumeOK

(* Only memories the agent has are asked about. *)
LEMMA StoresWhereItCan ==
  ASSUME NEW e \in Evaluations, NEW i \in 1..Len(ToStore(e))
  PROVE  condition[MemoryOf(ToStore(e)[i])] # "absent"
<1> DEFINE f == IF "fact" \in Managed THEN e.facts ELSE << >>
           g == IF "summary" \in Managed /\ e.summary THEN <<"summary">> ELSE << >>
<1>1. /\ f \in Seq(FactKeys) /\ "summary" \notin FactKeys
      /\ g = << >> \/ (g = <<"summary">> /\ "summary" \in Managed)
      /\ f = << >> \/ "fact" \in Managed
  BY EvaluationsAssumption, CallsAssumption DEF MemoryTypes
<1>2. ToStore(e) = f \o g
  BY DEF ToStore
<1> HIDE DEF f, g
<1>3. CASE i <= Len(f)
  <2>1. ToStore(e)[i] \in FactKeys /\ "fact" \in Managed
    BY <1>1, <1>2, <1>3
  <2> QED
    BY <1>1, <2>1 DEF MemoryOf, Managed
<1>4. CASE i > Len(f)
  <2>1. ToStore(e)[i] = "summary" /\ "summary" \in Managed
    BY <1>1, <1>2, <1>4
  <2> QED
    BY <2>1 DEF MemoryOf, Managed
<1> QED
  BY <1>1, <1>3, <1>4

LEMMA EvaluateGoesOn ==
  ASSUME IInv, TodoInv, NEW c \in Calls, Evaluate(c)
  PROVE  ResumeOK
<1>1. CASE Remember(c, << >>)
  BY <1>1, RemembersInTime DEF TodoInv
<1>2. ASSUME NEW e \in Evaluations, Remember(c, ToStore(e))
      PROVE  ResumeOK
  BY <1>2, StoresWhereItCan, RemembersInTime DEF TodoInv
<1> QED
  BY <1>1, <1>2 DEF Evaluate

LEMMA StoreNextGoesOn ==
  ASSUME IInv, TodoInv, ResumeInv, NEW c \in Calls, StoreNext(c)
  PROVE  ResumeOK
<1>1. pc[c] = "remember" /\ Remember(c, Tail(todo[c]))
  BY DEF StoreNext
<1>2. todo[c] \in Seq(FactKeys \cup {"summary"}) /\ todo[c] # << >>
  BY <1>1 DEF TodoInv, SummariesAreOver, Stores
<1>3. ASSUME NEW i \in 1..Len(Tail(todo[c]))
      PROVE  condition[MemoryOf(Tail(todo[c])[i])] # "absent"
  <2>1. i + 1 \in 1..Len(todo[c]) /\ Tail(todo[c])[i] = todo[c][i + 1]
    BY <1>2
  <2> QED
    BY <1>1, <2>1 DEF ResumeInv, PartsHaveMemory
<1> QED
  BY <1>1, <1>3, RemembersInTime DEF TodoInv

(* A shutdown closes only memories that are there.                         *)
LEMMA ClosesThoseThere ==
  ASSUME IInv, DOMAIN todo = Calls, NEW c \in Calls, NEW rest \in Seq(MemoryTypes),
         CloseRest(c, rest), UNCHANGED <<clock, time>>,
         \A i \in 1..Len(rest) : condition[rest[i]] # "absent"
  PROVE  ResumeOK
<1>1. /\ todo' = [todo EXCEPT ![c] = rest]
      /\ pc' = [pc EXCEPT ![c] = IF rest = << >> THEN "done" ELSE "close"]
  BY DEF CloseRest, Return, Continue, Become
<1>2. pc \in [Calls -> PCs] /\ clock \in Nat
  BY DEF IInv, Typed, CallsTyped, ManagerTyped
<1>3. PartsGoOn
  BY <1>1, <1>2 DEF PartsGoOn
<1> QED
  BY <1>2, <1>3 DEF ResumeOK, TimesGoOn

LEMMA ShutdownGoesOn ==
  ASSUME IInv, TodoInv, NEW c \in Calls, Shutdown(c)
  PROVE  ResumeOK
<1> DEFINE There(q) == q \in Seq(MemoryTypes) /\ \A i \in 1..Len(q) : condition[q[i]] # "absent"
           a == Given("conversation")
           b == Given("fact")
           d == Given("summary")
<1>1. There(a) /\ There(b) /\ There(d)
  <2>1. ASSUME NEW m \in MemoryTypes
        PROVE  There(Given(m))
    <3>1. CASE condition[m] = "absent"
      BY <3>1 DEF Given
    <3>2. CASE condition[m] # "absent"
      BY <3>2 DEF Given
    <3> QED
      BY <3>1, <3>2
  <2>2. {"conversation", "fact", "summary"} \subseteq MemoryTypes
    BY DEF MemoryTypes
  <2> HIDE DEF There
  <2> QED
    BY <2>1, <2>2
<1>2. ASSUME NEW p, NEW q, There(p), There(q)
      PROVE  There(p \o q)
  <2>1. p \o q \in Seq(MemoryTypes)
    BY <1>2
  <2>2. ASSUME NEW i \in 1..Len(p \o q)
        PROVE  condition[(p \o q)[i]] # "absent"
    <3>1. CASE i <= Len(p)
      <4>1. i \in 1..Len(p) /\ (p \o q)[i] = p[i]
        BY <1>2, <3>1
      <4> QED
        BY <1>2, <4>1
    <3>2. CASE i > Len(p)
      <4>1. i - Len(p) \in 1..Len(q) /\ (p \o q)[i] = q[i - Len(p)]
        BY <1>2, <3>2
      <4> QED
        BY <1>2, <4>1
    <3> QED
      BY <1>2, <3>1, <3>2
  <2> QED
    BY <2>1, <2>2
<1>3. CloseRest(c, (a \o b) \o d) /\ UNCHANGED <<clock, time>>
  BY DEF Shutdown, turnVars
<1> HIDE DEF a, b, d
<1>4. There((a \o b) \o d)
  <2>1. There(a \o b)
    BY <1>1, <1>2
  <2> HIDE DEF There
  <2> QED
    BY <1>1, <1>2, <2>1
<1> QED
  BY <1>3, <1>4, ClosesThoseThere DEF TodoInv

LEMMA CloseNextGoesOn ==
  ASSUME IInv, TodoInv, ResumeInv, NEW c \in Calls, CloseNext(c)
  PROVE  ResumeOK
<1>1. /\ pc[c] = "close" /\ CloseRest(c, Tail(todo[c]))
      /\ UNCHANGED <<clock, time>>
  BY DEF CloseNext, AfterFailure, turnVars
<1>2. todo[c] \in Seq(MemoryTypes) /\ todo[c] # << >>
  BY <1>1 DEF TodoInv, Closing
<1>3. ASSUME NEW i \in 1..Len(Tail(todo[c]))
      PROVE  condition[Tail(todo[c])[i]] # "absent"
  <2>1. i + 1 \in 1..Len(todo[c]) /\ Tail(todo[c])[i] = todo[c][i + 1]
    BY <1>2
  <2> QED
    BY <1>1, <2>1 DEF ResumeInv, PartsHaveMemory
<1>4. Tail(todo[c]) \in Seq(MemoryTypes)
  BY <1>2
<1> QED
  BY <1>1, <1>3, <1>4, ClosesThoseThere DEF TodoInv

LEMMA ResumeSteps ==
  ASSUME IInv, TodoInv, ResumeInv, [Next]_vars
  PROVE  ResumeOK
<1>1. CASE UNCHANGED vars
  <2>1. Idle
    BY <1>1 DEF vars, managerVars, turnVars, Idle
  <2> QED
    BY <2>1, IdleIsOK
<1>2. ASSUME NEW c \in Calls, Call(c)
      PROVE  ResumeOK
  BY <1>2, CallsAreIdle, IdleIsOK, ShutdownGoesOn DEF Call
<1>3. ASSUME NEW c \in Calls, Resume(c)
      PROVE  ResumeOK
  BY <1>3, TurnsAreIdle, ClearsAreIdle, IdleIsOK, EvaluateGoesOn, StoreNextGoesOn,
     CloseNextGoesOn DEF Resume, TodoInv
<1>4. ASSUME NEW i \in Ids, OpenSession(i)
      PROVE  Idle
  BY <1>4 DEF OpenSession, turnVars, Idle
<1>5. ASSUME NEW s \in Sessions, EndSession(s)
      PROVE  Idle
  BY <1>5 DEF EndSession, turnVars, Idle
<1>6. ASSUME NEW m \in MemoryTypes, InitializeMemory(m)
      PROVE  Idle
  BY <1>6 DEF InitializeMemory, managerVars, turnVars, Idle
<1> QED
  BY <1>1, <1>2, <1>3, <1>4, <1>5, <1>6, IdleIsOK DEF Next

LEMMA ResumeKept ==
  ASSUME IInv, TodoInv, ResumeInv, StepOK, ResumeOK, IInv', TodoInv'
  PROVE  ResumeInv'
<1>1. TimesPassed'
  BY DEF ResumeInv, TimesPassed, ResumeOK, TimesGoOn, IInv, Typed, ManagerTyped
<1>2. \A m \in MemoryTypes : condition[m] # "absent" => condition'[m] # "absent"
  BY DEF StepOK, ConditionsChange
<1>3. ASSUME NEW c \in Calls, pc'[c] = "remember", NEW i \in 1..Len(todo'[c])
      PROVE  condition'[MemoryOf(todo'[c][i])] # "absent"
  <2>1. condition[MemoryOf(todo'[c][i])] # "absent"
    BY <1>3 DEF ResumeInv, PartsHaveMemory, ResumeOK, PartsGoOn
  <2> QED
    BY <1>2, <2>1 DEF MemoryOf, MemoryTypes
<1>4. ASSUME NEW c \in Calls, pc'[c] = "delete"
      PROVE  condition'["fact"] # "absent"
  BY <1>2, <1>4 DEF ResumeInv, PartsHaveMemory, ResumeOK, PartsGoOn, MemoryTypes
<1>5. ASSUME NEW c \in Calls, pc'[c] = "close", NEW i \in 1..Len(todo'[c])
      PROVE  condition'[todo'[c][i]] # "absent"
  <2>1. condition[todo'[c][i]] # "absent"
    BY <1>5 DEF ResumeInv, PartsHaveMemory, ResumeOK, PartsGoOn
  <2>2. todo'[c] \in Seq(MemoryTypes)
    BY <1>5 DEF TodoInv, Closing
  <2>3. todo'[c][i] \in MemoryTypes
    BY <2>2
  <2> QED
    BY <1>2, <2>1, <2>3
<1>6. \A c \in Calls : MemoryOf(todo[c])' = MemoryOf(todo'[c])
  BY DEF MemoryOf
<1> QED
  BY <1>1, <1>3, <1>4, <1>5 DEF ResumeInv, PartsHaveMemory, MemoryOf

(* The invariant of what a call that waits is waiting for. *)
THEOREM ResumeInvariance == Spec => []ResumeInv
<1>1. Init => ResumeInv
  BY DEF Init, ResumeInv, PartsHaveMemory, TimesPassed
<1>2. IInv /\ TodoInv /\ ResumeInv /\ IInv' /\ TodoInv' /\ [Next]_vars => ResumeInv'
  BY Steps, ResumeSteps, ResumeKept
<1> QED
  BY <1>1, <1>2, Invariance, TodoInvariance, PTL DEF Spec

(* A chat with summaries has a latest one: their timestamps are bounded by *)
(* the clock.                                                              *)
LEMMA SomeSummaryIsLatest ==
  ASSUME IInv, TodoInv, ResumeInv, NEW x \in Contexts, summaries[x] # {}
  PROVE  LatestSummary(x) # {}
<1> DEFINE T == {n \in Nat : \E s \in summaries[x] : s.timestamp + n = clock}
<1>1. \A s \in summaries[x] : s.timestamp \in Nat /\ s.timestamp <= clock
  <2> SUFFICES ASSUME NEW s \in summaries[x]
               PROVE  s.timestamp \in Nat /\ s.timestamp <= clock
    OBVIOUS
  <2>1. s \in Summaries
    BY DEF IInv, Typed, MemoriesTypeOK
  <2>2. s.timestamp = time[s.by]
    BY DEF TodoInv, SummariesAreOver
  <2> QED
    BY <2>1, <2>2 DEF Summaries, ResumeInv, TimesPassed
<1>2. clock \in Nat
  BY DEF IInv, Typed, ManagerTyped
<1>3. T \subseteq Nat /\ T # {}
  <2>1. PICK s \in summaries[x] : TRUE
    OBVIOUS
  <2>2. clock - s.timestamp \in T
    BY <1>1, <1>2
  <2> QED
    BY <2>2
<1>4. PICK n \in T : \A k \in T : ~(<<k, n>> \in OpToRel(<, Nat))
  <2>1. IsWellFoundedOn(OpToRel(<, Nat), Nat)
    BY NatLessThanWellFounded
  <2> QED
    BY <1>3, <2>1, WFMin
<1>5. \A k \in T : ~(k < n)
  BY <1>4 DEF OpToRel
<1>6. PICK s \in summaries[x] : s.timestamp + n = clock
  OBVIOUS
<1>7. ASSUME NEW q \in summaries[x]
      PROVE  q.timestamp <= s.timestamp
  <2>1. clock - q.timestamp \in T
    BY <1>1, <1>2, <1>7
  <2>2. ~(clock - q.timestamp < n) /\ n \in Nat
    BY <1>5, <2>1
  <2> QED
    BY <1>1, <1>2, <1>6, <1>7, <2>2
<1>8. s.by \in LatestSummary(x)
  BY <1>6, <1>7 DEF LatestSummary
<1> QED
  BY <1>8

(* No call that is in flight waits for ever: wherever it is, the memory it *)
(* waits for is there and answers or rejects, and a call with something to *)
(* store or to close has a next part (chat-agent.js:563, where the writes  *)
(* are awaited, and chat-manager.js:316, where a close that fails is       *)
(* passed over).                                                           *)
THEOREM NobodyIsStuck == Spec => []EveryCallCanResume
<1>1. IInv /\ TodoInv /\ ResumeInv => EveryCallCanResume
  <2> SUFFICES ASSUME IInv, TodoInv, ResumeInv, NEW c \in Calls, Running(c)
               PROVE  CanResume(c)
    BY DEF EveryCallCanResume
  <2>1. \A m \in MemoryTypes : condition[m] = "absent" \/ Works(m) \/ Rejects(m)
    BY DEF IInv, Typed, MemoriesTypeOK, Works, Rejects
  <2>2. pc[c] \in PCs \ {"idle", "done"}
    BY DEF IInv, Typed, CallsTyped, Running
  <2>3. CASE pc[c] = "summary"
    <3>1. op[c] = "message" /\ context[c] \in Contexts
      BY <2>3, TrimmedIds DEF IInv, Methods, MessagePCs, OwnContext, UserOps
    <3> QED
      BY <2>3, <3>1, SomeSummaryIsLatest DEF CanResume, Works
  <2>4. CASE pc[c] = "remember"
    <3>1. todo[c] # << >> /\ todo[c] \in Seq(FactKeys \cup {"summary"})
      BY <2>4 DEF TodoInv, SummariesAreOver, Stores
    <3>2. 1 \in 1..Len(todo[c]) /\ Head(todo[c]) = todo[c][1]
      BY <3>1
    <3>3. condition[MemoryOf(Head(todo[c]))] # "absent"
      BY <2>4, <3>2 DEF ResumeInv, PartsHaveMemory
    <3>4. MemoryOf(Head(todo[c])) \in MemoryTypes
      BY DEF MemoryOf, MemoryTypes
    <3> QED
      BY <2>1, <2>4, <3>1, <3>3, <3>4 DEF CanResume
  <2>5. CASE pc[c] = "close"
    <3>1. todo[c] # << >> /\ todo[c] \in Seq(MemoryTypes)
      BY <2>5 DEF TodoInv, Closing
    <3>2. 1 \in 1..Len(todo[c]) /\ Head(todo[c]) = todo[c][1]
          /\ Head(todo[c]) \in MemoryTypes
      BY <3>1
    <3>3. condition[Head(todo[c])] # "absent"
      BY <2>5, <3>2 DEF ResumeInv, PartsHaveMemory
    <3> QED
      BY <2>1, <2>5, <3>1, <3>2, <3>3 DEF CanResume, Rejects
  <2>6. CASE pc[c] = "delete"
    BY <2>1, <2>6 DEF CanResume, ResumeInv, PartsHaveMemory, MemoryTypes
  <2>7. CASE pc[c] = "facts"
    BY <2>7 DEF CanResume, Works
  <2>8. CASE pc[c] \in {"appendUser", "appendAnswer", "clearLog", "clearInactive",
                        "clearFacts", "clearSummaries", "llm", "evaluate"}
    BY <2>1, <2>8 DEF CanResume, MemoryTypes
  <2> QED
    BY <2>2, <2>3, <2>4, <2>5, <2>6, <2>7, <2>8 DEF PCs
<1> QED
  BY <1>1, Invariance, TodoInvariance, ResumeInvariance, PTL

=============================================================================
