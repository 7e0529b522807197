-------------------------- MODULE ChatAgent_proofs --------------------------
(***************************************************************************)
(* Proofs about the ChatAgents of a chat.                                  *)
(*                                                                         *)
(* However agents, turns, loads and clears interleave, what keeps the      *)
(* messages of a turn in order is that a turn has one append in flight     *)
(* (OneAppend) and that its messages have orders that only grow            *)
(* (SaidSoFar).  Both are told by where the turn is, so that IInv bounds   *)
(* what a turn has said by its pc.                                         *)
(***************************************************************************)
EXTENDS ChatAgent, FiniteSetTheorems, TLAPS

(* The append a turn awaits at p is that of a message of this kind. *)
Awaits(p, kind) ==
    \/ p = "appendUser" /\ kind = "user"
    \/ p = "appendCall" /\ kind = "call"
    \/ p = "appendResult" /\ kind = "result"
    \/ p \in {"appendSpecialist", "appendAnswer"} /\ kind = "answer"

(* The order of the last message of a turn that is at p after n calls. *)
Top(p, n) ==
    IF p \in {"appendUser", "appendCall", "tool", "delegate"} THEN 2 * n
    ELSE IF p \in {"context", "search", "llm", "appendResult"} THEN 2 * n + 1
    ELSE 2 * n + 2

IdleHasNoCalls == \A t \in Turns : pc[t] = "idle" => calls[t] = 0

SaidSoFar ==
    \A m \in Messages : status[m] # "new" =>
        pc[m.turn] # "idle" /\ Order(m) <= Top(pc[m.turn], calls[m.turn])

OneAppend ==
    \A m \in Messages : status[m] = "asked" =>
        Awaits(pc[m.turn], m.kind) /\ m.n = calls[m.turn]

OrdersDiffer ==
    \A m, k \in Messages :
        /\ status[m] # "new" /\ status[k] # "new"
        /\ m.turn = k.turn /\ Order(m) = Order(k)
        => m = k

(* The turns' part of the invariant. *)
TurnsInv == IdleHasNoCalls /\ SaidSoFar /\ OneAppend /\ OrdersDiffer

(* A sequence of messages that have been said, each turn's in its order. *)
Recorded(s) ==
    /\ \A i \in 1..Len(s) : status[s[i]] # "new"
    /\ SaidInOrder(s)

LogInv ==
    /\ \A i \in 1..Len(log) : status[log[i]] = "stored"
    /\ SaidInOrder(log)

ArraysInv == \A a \in Agents : Recorded(history[a]) /\ Recorded(rows[a])

RecordsInv == TypeOK /\ TurnsInv /\ LogInv /\ ArraysInv

(* A turn that has begun runs on an agent. *)
TurnsHaveAgents == \A t \in Turns : pc[t] # "idle" => agent[t] \in Agents

IInv == RecordsInv /\ TurnsHaveAgents
-----------------------------------------------------------------------------
(* Messages and sequences of them.                                         *)

LEMMA MessageType ==
    ASSUME NEW t \in Turns, NEW n \in 0..MaxCalls,
           NEW kind \in {"user", "call", "result", "answer"}
    PROVE  /\ [turn |-> t, kind |-> kind, n |-> n] \in Messages
           /\ [turn |-> t, kind |-> kind, n |-> n].turn = t
           /\ [turn |-> t, kind |-> kind, n |-> n].kind = kind
           /\ [turn |-> t, kind |-> kind, n |-> n].n = n
BY DEF Messages

LEMMA MessageParts ==
    ASSUME NEW m \in Messages
    PROVE  /\ m.turn \in Turns /\ m.n \in 0..MaxCalls
           /\ m.kind \in {"user", "call", "result", "answer"}
           /\ m = [turn |-> m.turn, kind |-> m.kind, n |-> m.n]
BY DEF Messages

LEMMA OrderOf ==
    ASSUME NEW m \in Messages
    PROVE  /\ Order(m) \in Nat
           /\ m.kind \in {"user", "call"} => Order(m) = 2 * m.n
           /\ m.kind = "result" => Order(m) = 2 * m.n + 1
           /\ m.kind = "answer" => Order(m) = 2 * m.n + 2
<1>1. m.n \in Nat /\ m.kind \in {"user", "call", "result", "answer"}
  BY MessageParts, ConstantsAssumption
<1>2. CASE m.kind = "user"
  BY <1>1, <1>2 DEF Order
<1>3. CASE m.kind = "call"
  BY <1>1, <1>3 DEF Order
<1>4. CASE m.kind = "result"
  BY <1>1, <1>4 DEF Order
<1>5. CASE m.kind = "answer"
  BY <1>1, <1>5 DEF Order
<1> QED BY <1>1, <1>2, <1>3, <1>4, <1>5

LEMMA TopType ==
    ASSUME NEW p \in PCs, NEW n \in 0..MaxCalls
    PROVE  Top(p, n) \in Nat
BY ConstantsAssumption DEF Top

(* Pushing a message that follows those of its turn keeps the order.       *)
LEMMA AppendInOrder ==
    ASSUME NEW s \in Seq(Messages), NEW m \in Messages, SaidInOrder(s),
           \A i \in 1..Len(s) : s[i].turn = m.turn => Order(s[i]) < Order(m)
    PROVE  SaidInOrder(Append(s, m))
<1> SUFFICES ASSUME NEW i \in 1..Len(Append(s, m)),
                    NEW j \in 1..Len(Append(s, m)),
                    i < j, Append(s, m)[i].turn = Append(s, m)[j].turn
             PROVE  Order(Append(s, m)[i]) < Order(Append(s, m)[j])
  BY DEF SaidInOrder
<1>1. i \in 1..Len(s) /\ Append(s, m)[i] = s[i]
  OBVIOUS
<1>2. CASE j = Len(s) + 1
  BY <1>1, <1>2
<1>3. CASE j \in 1..Len(s)
  BY <1>1, <1>3 DEF SaidInOrder
<1> QED BY <1>2, <1>3

-----------------------------------------------------------------------------
(* The turns' part of IInv.                                                *)

(* A turn that awaits no append goes on and says nothing. *)
LEMMA TurnMoves ==
    ASSUME TypeOK, TurnsInv, NEW t \in Turns, NEW p \in PCs \ {"idle"},
           pc[t] # "idle", Top(pc[t], calls[t]) <= Top(p, calls[t]),
           \A m \in Messages : m.turn = t => status[m] # "asked",
           pc' = [pc EXCEPT ![t] = p], UNCHANGED <<status, calls>>
    PROVE  TurnsInv'
<1> USE DEF TypeOK, TurnsInv
<1>1. IdleHasNoCalls'
  BY DEF IdleHasNoCalls
<1>2. SaidSoFar'
  <2> SUFFICES ASSUME NEW m \in Messages, status[m] # "new"
               PROVE  pc'[m.turn] # "idle" /\ Order(m) <= Top(pc'[m.turn], calls[m.turn])
    BY DEF SaidSoFar
  <2>1. m.turn \in Turns /\ calls[m.turn] \in 0..MaxCalls /\ Order(m) \in Nat
    BY MessageParts, OrderOf
  <2>2. CASE m.turn = t
    <3>1. Order(m) <= Top(pc[t], calls[t])
      BY <2>2 DEF SaidSoFar
    <3>2. Top(pc[t], calls[t]) \in Nat /\ Top(p, calls[t]) \in Nat
      BY TopType, <2>1, <2>2
    <3> QED BY <3>1, <3>2, <2>1, <2>2
  <2>3. CASE m.turn # t
    BY <2>1, <2>3 DEF SaidSoFar
  <2> QED BY <2>2, <2>3
<1>3. OneAppend'
  BY MessageParts DEF OneAppend
<1>4. OrdersDiffer'
  BY DEF OrdersDiffer
<1> QED BY <1>1, <1>2, <1>3, <1>4

(* A turn that awaits no append says something new. *)
LEMMA TurnSays ==
    ASSUME TypeOK, TurnsInv, NEW t \in Turns, NEW m \in Messages, m.turn = t,
           NEW p \in PCs \ {"idle"}, Awaits(p, m.kind), Order(m) = Top(p, m.n),
           pc[t] = "idle" \/ Top(pc[t], calls[t]) < Order(m),
           \A k \in Messages : k.turn = t => status[k] # "asked",
           status[m] = "new", status' = [status EXCEPT ![m] = "asked"],
           pc' = [pc EXCEPT ![t] = p], calls' = [calls EXCEPT ![t] = m.n]
    PROVE  /\ TurnsInv'
           /\ \A k \in Messages : k.turn = t /\ status[k] # "new" => Order(k) < Order(m)
<1> USE DEF TypeOK, TurnsInv
<1>1. ASSUME NEW k \in Messages, k.turn = t, status[k] # "new"
      PROVE  Order(k) < Order(m)
  <2>1. pc[t] # "idle" /\ Order(k) <= Top(pc[t], calls[t])
    BY <1>1 DEF SaidSoFar
  <2>2. Order(k) \in Nat /\ Order(m) \in Nat /\ Top(pc[t], calls[t]) \in Nat
    BY OrderOf, TopType
  <2> QED BY <2>1, <2>2
<1>2. m.n \in 0..MaxCalls
  BY MessageParts
<1>3. IdleHasNoCalls'
  BY DEF IdleHasNoCalls
<1>4. SaidSoFar'
  <2> SUFFICES ASSUME NEW k \in Messages, status'[k] # "new"
               PROVE  pc'[k.turn] # "idle" /\ Order(k) <= Top(pc'[k.turn], calls'[k.turn])
    BY DEF SaidSoFar
  <2>1. k.turn \in Turns /\ Order(k) \in Nat /\ Order(m) \in Nat
    BY MessageParts, OrderOf
  <2>2. CASE k.turn = t
    <3>1. Order(k) <= Order(m)
      BY <1>1, <2>1, <2>2
    <3> QED BY <3>1, <2>2
  <2>3. CASE k.turn # t
    BY <2>1, <2>3 DEF SaidSoFar
  <2> QED BY <2>2, <2>3
<1>5. OneAppend'
  <2> SUFFICES ASSUME NEW k \in Messages, status'[k] = "asked"
               PROVE  Awaits(pc'[k.turn], k.kind) /\ k.n = calls'[k.turn]
    BY DEF OneAppend
  <2>1. CASE k = m
    BY <2>1
  <2>2. CASE k # m
    <3>1. k.turn \in Turns /\ k.turn # t /\ status[k] = "asked"
      BY <2>2, MessageParts
    <3> QED BY <3>1 DEF OneAppend
  <2> QED BY <2>1, <2>2
<1>6. OrdersDiffer'
  <2> SUFFICES ASSUME NEW j \in Messages, NEW k \in Messages,
                      status'[j] # "new", status'[k] # "new",
                      j.turn = k.turn, Order(j) = Order(k)
               PROVE  j = k
    BY DEF OrdersDiffer
  <2>1. Order(j) \in Nat /\ Order(k) \in Nat /\ Order(m) \in Nat
    BY OrderOf
  <2>2. CASE j # m /\ k # m
    BY <2>2 DEF OrdersDiffer
  <2>3. CASE j = m /\ k # m
    BY <1>1, <2>1, <2>3
  <2>4. CASE j # m /\ k = m
    BY <1>1, <2>1, <2>4
  <2> QED BY <2>2, <2>3, <2>4
<1> QED BY <1>1, <1>3, <1>4, <1>5, <1>6

(* The memory answers an append. *)
LEMMA AppendSettles ==
    ASSUME TypeOK, TurnsInv, NEW m \in Messages, status[m] = "asked",
           NEW o \in {"stored", "refused"}, status' = [status EXCEPT ![m] = o],
           UNCHANGED <<pc, calls>>
    PROVE  TurnsInv'
<1> USE DEF TypeOK, TurnsInv
<1>1. \A k \in Messages : (status'[k] # "new") = (status[k] # "new")
  OBVIOUS
<1>2. \A k \in Messages : status'[k] = "asked" => status[k] = "asked"
  OBVIOUS
<1>3. IdleHasNoCalls'
  BY DEF IdleHasNoCalls
<1>4. SaidSoFar'
  BY <1>1 DEF SaidSoFar
<1>5. OneAppend'
  BY <1>2 DEF OneAppend
<1>6. OrdersDiffer'
  BY <1>1 DEF OrdersDiffer
<1> QED BY <1>3, <1>4, <1>5, <1>6

LEMMA TurnsStutter ==
    ASSUME TurnsInv, UNCHANGED <<status, pc, calls>>
    PROVE  TurnsInv'
BY DEF TurnsInv, IdleHasNoCalls, SaidSoFar, OneAppend, OrdersDiffer

-----------------------------------------------------------------------------
(* The part about the log and the arrays.                                  *)

LEMMA ArraysSay ==
    ASSUME TypeOK, ArraysInv, NEW a \in Agents, NEW m \in Messages,
           status[m] = "new", status' = [status EXCEPT ![m] = "asked"],
           \A k \in Messages :
              k.turn = m.turn /\ status[k] # "new" => Order(k) < Order(m),
           history' = [history EXCEPT ![a] = Append(@, m)], UNCHANGED rows
    PROVE  ArraysInv'
<1> USE DEF TypeOK
<1> SUFFICES ASSUME NEW b \in Agents
             PROVE  Recorded(history[b])' /\ Recorded(rows[b])'
  BY DEF ArraysInv
<1>1. Recorded(history[b]) /\ Recorded(rows[b])
  BY DEF ArraysInv
<1>2. Recorded(rows[b])'
  BY <1>1 DEF Recorded
<1>3. CASE b # a
  BY <1>1, <1>2, <1>3 DEF Recorded
<1>4. CASE b = a
  <2>1. history[a] \in Seq(Messages) /\ history'[a] = Append(history[a], m)
    OBVIOUS
  <2>2. \A i \in 1..Len(history[a]) : history[a][i].turn = m.turn =>
           Order(history[a][i]) < Order(m)
    BY <1>1, <1>4, <2>1 DEF Recorded
  <2>3. SaidInOrder(history'[a])
    BY <1>1, <1>4, <2>1, <2>2, AppendInOrder DEF Recorded
  <2>4. \A i \in 1..Len(history'[a]) : status'[history'[a][i]] # "new"
    BY <1>1, <1>4, <2>1 DEF Recorded
  <2> QED BY <1>2, <1>4, <2>3, <2>4 DEF Recorded
<1> QED BY <1>3, <1>4

(* Nothing an array records becomes new again. *)
LEMMA ArraysKeep ==
    ASSUME TypeOK, ArraysInv, UNCHANGED <<history, rows>>,
           \A m \in Messages : status[m] # "new" => status'[m] # "new"
    PROVE  ArraysInv'
BY DEF TypeOK, ArraysInv, Recorded

LEMMA LogKeeps ==
    ASSUME TypeOK, LogInv, UNCHANGED log,
           \A m \in Messages : status[m] = "stored" => status'[m] = "stored"
    PROVE  LogInv'
<1>1. \A i \in 1..Len(log) : log[i] \in Messages
  BY DEF TypeOK
<1> QED BY <1>1 DEF LogInv, SaidInOrder

LEMMA LogStores ==
    ASSUME TypeOK, TurnsInv, LogInv, NEW m \in Messages, Memory!Append_Store(m)
    PROVE  LogInv'
<1> USE DEF TypeOK, TurnsInv, LogInv
<1>1. /\ status[m] = "asked" /\ log' = Append(log, m)
      /\ status' = [status EXCEPT ![m] = "stored"]
  BY DEF Memory!Append_Store
<1>2. ASSUME NEW k \in Messages, k.turn = m.turn, status[k] = "stored"
      PROVE  Order(k) < Order(m)
  <2>1. Awaits(pc[m.turn], m.kind) /\ m.n = calls[m.turn]
    BY <1>1 DEF OneAppend
  <2>2. Order(m) = Top(pc[m.turn], calls[m.turn])
    BY <2>1, OrderOf DEF Awaits, Top
  <2>3. Order(k) <= Order(m) /\ Order(k) # Order(m)
    BY <1>1, <1>2, <2>2 DEF SaidSoFar, OrdersDiffer
  <2> QED BY <2>3, OrderOf
<1>3. \A i \in 1..Len(log) : log[i] \in Messages /\ status[log[i]] = "stored"
  OBVIOUS
<1>4. SaidInOrder(log')
  BY <1>1, <1>2, <1>3, AppendInOrder
<1>5. \A i \in 1..Len(log') : status'[log'[i]] = "stored"
  BY <1>1, <1>3
<1> QED BY <1>4, <1>5 DEF SaidInOrder

-----------------------------------------------------------------------------
(* The steps.                                                              *)

(* Where a turn awaits no append, none of its messages is on its way ...   *)
LEMMA AwaitsNoAppend ==
    ASSUME TypeOK, OneAppend, NEW t \in Turns,
           pc[t] \in {"idle", "context", "search", "llm", "tool", "delegate",
                     "evaluate", "done"}
    PROVE  \A m \in Messages : m.turn = t => status[m] # "asked"
BY MessageParts DEF OneAppend, Awaits

(* ... nor when the append it awaits has been answered. *)
LEMMA AppendIsSettled ==
    ASSUME TypeOK, OneAppend, NEW t \in Turns,
           NEW kind \in {"user", "call", "result", "answer"},
           Awaits(pc[t], kind), Settled(Message(t, kind))
    PROVE  \A m \in Messages : m.turn = t => status[m] # "asked"
<1> SUFFICES ASSUME NEW m \in Messages, m.turn = t, status[m] = "asked"
             PROVE  FALSE
  OBVIOUS
<1>1. Awaits(pc[t], m.kind) /\ m.n = calls[t]
  BY DEF OneAppend
<1>2. m.kind = kind
  BY <1>1 DEF Awaits
<1>3. m = Message(t, kind)
  BY <1>1, <1>2, MessageParts DEF Message
<1> QED BY <1>3 DEF Settled

LEMMA TurnSpeaks ==
    ASSUME RecordsInv, NEW t \in Turns, NEW a \in Agents,
           NEW m \in Messages, m.turn = t,
           NEW p \in PCs \ {"idle"}, Awaits(p, m.kind), Order(m) = Top(p, m.n),
           pc[t] = "idle" \/ Top(pc[t], calls[t]) < Order(m),
           \A k \in Messages : k.turn = t => status[k] # "asked",
           AddToHistory(a, m), Become(t, p),
           calls' = [calls EXCEPT ![t] = m.n], UNCHANGED rows
    PROVE  /\ TurnsInv' /\ LogInv' /\ ArraysInv'
           /\ status' \in [Messages -> {"new", "asked", "stored", "refused"}]
           /\ log' \in Seq(Messages)
           /\ history' \in [Agents -> Seq(Messages)]
           /\ pc' \in [Turns -> PCs] /\ calls' \in [Turns -> 0..MaxCalls]
<1>1. /\ status[m] = "new" /\ status' = [status EXCEPT ![m] = "asked"]
      /\ log' = log /\ pc' = [pc EXCEPT ![t] = p]
      /\ history' = [history EXCEPT ![a] = Append(@, m)]
  BY DEF AddToHistory, Memory!Append_Ask, Become
<1>2. TypeOK /\ TurnsInv /\ LogInv /\ ArraysInv
  BY DEF RecordsInv
<1>3. /\ TurnsInv'
      /\ \A k \in Messages : k.turn = t /\ status[k] # "new" => Order(k) < Order(m)
  BY <1>1, <1>2, TurnSays
<1>4. ArraysInv'
  BY <1>1, <1>2, <1>3, ArraysSay
<1>5. LogInv'
  BY <1>1, <1>2, LogKeeps DEF TypeOK
<1>6. m.n \in 0..MaxCalls
  BY MessageParts
<1> QED BY <1>1, <1>2, <1>3, <1>4, <1>5, <1>6 DEF TypeOK

LEMMA TurnGoesOn ==
    ASSUME RecordsInv, NEW t \in Turns, NEW p \in PCs \ {"idle"},
           pc[t] # "idle", Top(pc[t], calls[t]) <= Top(p, calls[t]),
           \A m \in Messages : m.turn = t => status[m] # "asked",
           Become(t, p), UNCHANGED <<memoryVars, history, rows, calls>>
    PROVE  /\ TurnsInv' /\ LogInv' /\ ArraysInv'
           /\ pc' \in [Turns -> PCs]
<1>1. TypeOK /\ TurnsInv /\ LogInv /\ ArraysInv
  BY DEF RecordsInv
<1>2. /\ pc' = [pc EXCEPT ![t] = p]
      /\ UNCHANGED <<log, status, history, rows, calls>>
  BY DEF Become, memoryVars
<1>3. TurnsInv'
  BY <1>1, <1>2, TurnMoves
<1>4. LogInv' /\ ArraysInv'
  BY <1>1, <1>2, LogKeeps, ArraysKeep
<1> QED BY <1>1, <1>2, <1>3, <1>4 DEF TypeOK

LEMMA InitInv == Init => RecordsInv
<1> SUFFICES ASSUME Init PROVE RecordsInv
  OBVIOUS
<1>1. /\ log = << >> /\ status = [m \in Messages |-> "new"]
  BY DEF Init, Memory!Init
<1>2. TypeOK
  BY <1>1, ConstantsAssumption DEF Init, TypeOK, PCs, Results, Outcomes
<1>3. TurnsInv
  BY <1>1 DEF Init, TurnsInv, IdleHasNoCalls, SaidSoFar, OneAppend, OrdersDiffer
<1>4. LogInv /\ ArraysInv
  BY <1>1 DEF Init, LogInv, ArraysInv, Recorded, SaidInOrder
<1> QED BY <1>2, <1>3, <1>4 DEF RecordsInv

(* The constructor and the load. *)
LEMMA LoadKeepsInv ==
    ASSUME RecordsInv, NEW a \in Agents, Load(a)
    PROVE  RecordsInv'
<1>1. TypeOK /\ TurnsInv /\ LogInv /\ ArraysInv
  BY DEF RecordsInv
<1>2. UNCHANGED <<log, status, pc, calls>>
  BY DEF Load, Construct, LoadReads, LoadReplaces, LoadFails, memoryVars, turnVars
<1>3. TurnsInv' /\ LogInv'
  BY <1>1, <1>2, TurnsStutter, LogKeeps
<1>4. CASE Construct(a)
  <2>1. ArraysInv'
    BY <1>1, <1>2, <1>4, ArraysKeep DEF Construct
  <2>2. TypeOK'
    BY <1>1, <1>4 DEF TypeOK, Construct, memoryVars, turnVars
  <2> QED BY <1>3, <2>1, <2>2 DEF RecordsInv
<1>5. CASE LoadReads(a)
  <2>1. ArraysInv'
    <3>1. Recorded(log)
      BY <1>1 DEF TypeOK, LogInv, Recorded
    <3> QED BY <1>1, <1>2, <1>5, <3>1 DEF LoadReads, TypeOK, ArraysInv, Recorded
  <2>2. TypeOK'
    BY <1>1, <1>5 DEF TypeOK, LoadReads, memoryVars, turnVars
  <2> QED BY <1>3, <2>1, <2>2 DEF RecordsInv
<1>6. CASE LoadReplaces(a)
  <2>1. ArraysInv'
    <3> SUFFICES ASSUME NEW b \in Agents
                 PROVE  Recorded(history[b])' /\ Recorded(rows[b])'
      BY DEF ArraysInv
    <3>1. /\ history'[b] \in {history[b], rows[b]}
          /\ rows'[b] \in {rows[b], << >>}
      BY <1>1, <1>6 DEF LoadReplaces, Loaded, TypeOK
    <3>2. Recorded(history[b]) /\ Recorded(rows[b]) /\ Recorded(<< >>)
      BY <1>1 DEF ArraysInv, Recorded, SaidInOrder
    <3> QED BY <1>2, <3>1, <3>2 DEF Recorded, SaidInOrder
  <2>2. TypeOK'
    BY <1>1, <1>6 DEF TypeOK, LoadReplaces, Loaded, memoryVars, turnVars
  <2> QED BY <1>3, <2>1, <2>2 DEF RecordsInv
<1>7. CASE LoadFails(a)
  <2>1. ArraysInv'
    BY <1>1, <1>2, <1>7 DEF LoadFails, TypeOK, ArraysInv, Recorded, SaidInOrder
  <2>2. TypeOK'
    BY <1>1, <1>7 DEF TypeOK, LoadFails, memoryVars, turnVars
  <2> QED BY <1>3, <2>1, <2>2 DEF RecordsInv
<1> QED BY <1>4, <1>5, <1>6, <1>7 DEF Load

(* clearHistory, and the memory's part of it. *)
LEMMA ClearKeepsInv ==
    ASSUME RecordsInv, NEW a \in Agents, ClearHistory(a) \/ MemoryClears(a)
    PROVE  RecordsInv'
<1>1. TypeOK /\ TurnsInv /\ LogInv /\ ArraysInv
  BY DEF RecordsInv
<1>2. UNCHANGED <<status, rows, pc, calls>>
  BY DEF ClearHistory, MemoryClears, Memory!Clear, memoryVars, turnVars
<1>3. TurnsInv'
  BY <1>1, <1>2, TurnsStutter
<1>4. CASE ClearHistory(a)
  <2>1. LogInv'
    BY <1>1, <1>2, <1>4, LogKeeps DEF ClearHistory, memoryVars
  <2>2. ArraysInv'
    BY <1>1, <1>2, <1>4 DEF ClearHistory, TypeOK, ArraysInv, Recorded, SaidInOrder
  <2>3. TypeOK'
    BY <1>1, <1>4 DEF TypeOK, ClearHistory, memoryVars, turnVars
  <2> QED BY <1>3, <2>1, <2>2, <2>3 DEF RecordsInv
<1>5. CASE MemoryClears(a)
  <2>1. log' = << >> \/ log' = log
    BY <1>5 DEF MemoryClears, Memory!Clear, memoryVars
  <2>2. LogInv'
    <3>1. CASE log' = << >>
      BY <3>1 DEF LogInv, SaidInOrder
    <3>2. CASE log' = log
      BY <1>1, <1>2, <3>2, LogKeeps
    <3> QED BY <2>1, <3>1, <3>2
  <2>3. ArraysInv'
    BY <1>1, <1>2, <1>5, ArraysKeep DEF MemoryClears
  <2>4. TypeOK'
    <3>1. log' \in Seq(Messages)
      <4>1. << >> \in Seq(Messages) /\ log \in Seq(Messages)
        BY <1>1 DEF TypeOK
      <4> QED BY <2>1, <4>1
    <3> QED BY <1>1, <1>2, <1>5, <3>1 DEF TypeOK, MemoryClears, turnVars
  <2> QED BY <1>3, <2>2, <2>3, <2>4 DEF RecordsInv
<1> QED BY <1>4, <1>5

(* The memory's answers. *)
LEMMA MemoryKeepsInv ==
    ASSUME RecordsInv, NEW m \in Messages, MemoryStores(m) \/ MemoryRefuses(m)
    PROVE  RecordsInv'
<1>1. TypeOK /\ TurnsInv /\ LogInv /\ ArraysInv
  BY DEF RecordsInv
<1>2. UNCHANGED <<agentVars, turnVars>>
  BY DEF MemoryStores, MemoryRefuses
<1>3. /\ status[m] = "asked"
      /\ \E o \in {"stored", "refused"} : status' = [status EXCEPT ![m] = o]
  BY DEF MemoryStores, MemoryRefuses, Memory!Append_Store, Memory!Append_Refuse
<1>4. TurnsInv'
  BY <1>1, <1>2, <1>3, AppendSettles DEF turnVars
<1>5. ArraysInv'
  BY <1>1, <1>2, <1>3, ArraysKeep DEF TypeOK, agentVars
<1>6. LogInv' /\ log' \in Seq(Messages)
  <2>1. CASE MemoryStores(m)
    <3>1. Memory!Append_Store(m)
      BY <2>1 DEF MemoryStores
    <3>2. log' = Append(log, m) /\ log \in Seq(Messages)
      BY <1>1, <3>1 DEF Memory!Append_Store, TypeOK
    <3> QED BY <1>1, <3>1, <3>2, LogStores
  <2>2. CASE MemoryRefuses(m)
    BY <1>1, <1>3, <2>2, LogKeeps DEF MemoryRefuses, Memory!Append_Refuse, TypeOK
  <2> QED BY <2>1, <2>2
<1>7. TypeOK'
  BY <1>1, <1>2, <1>3, <1>6 DEF TypeOK, agentVars, turnVars
<1> QED BY <1>4, <1>5, <1>6, <1>7 DEF RecordsInv

(* A call of one of the methods. *)
LEMMA CallKeepsInv ==
    ASSUME RecordsInv, NEW t \in Turns, NEW a \in Agents,
           ProcessUserMessage(t, a) \/ ProcessFunctionResult(t, a)
    PROVE  RecordsInv'
<1>1. TypeOK /\ TurnsInv
  BY DEF RecordsInv
<1>2. pc[t] = "idle" /\ calls[t] = 0
  BY <1>1 DEF ProcessUserMessage, ProcessFunctionResult, Call, TurnsInv, IdleHasNoCalls
<1>3. \A k \in Messages : k.turn = t => status[k] # "asked"
  BY <1>1, <1>2, AwaitsNoAppend DEF TurnsInv
<1>4. PICK kind \in {"user", "result"}, p \in {"appendUser", "appendResult"} :
         /\ Call(t, a, kind) /\ Become(t, p) /\ Awaits(p, kind)
         /\ task' \in {SetTask(t, a), task}
  BY DEF ProcessUserMessage, ProcessFunctionResult, Awaits
<1> DEFINE m == Message(t, kind)
<1>5. m \in Messages /\ m.turn = t /\ m.kind = kind /\ m.n = 0
  <2>1. 0 \in 0..MaxCalls
    BY ConstantsAssumption
  <2> QED BY <1>2, <2>1, MessageType DEF Message
<1>6. Order(m) = Top(p, m.n)
  BY <1>4, <1>5, OrderOf DEF Awaits, Top
<1>7. /\ AddToHistory(a, m) /\ UNCHANGED <<rows, calls>>
      /\ agent' = [agent EXCEPT ![t] = a]
      /\ UNCHANGED <<life, clearing, tool, seen, searched, outcome, current>>
  BY <1>4 DEF Call
<1>8. calls' = [calls EXCEPT ![t] = m.n]
  BY <1>1, <1>2, <1>5, <1>7 DEF TypeOK
<1>9. p \in PCs \ {"idle"} /\ Awaits(p, m.kind)
  BY <1>4, <1>5 DEF PCs
<1> HIDE DEF m
<1>10. /\ TurnsInv' /\ LogInv' /\ ArraysInv'
       /\ status' \in [Messages -> {"new", "asked", "stored", "refused"}]
       /\ log' \in Seq(Messages)
       /\ history' \in [Agents -> Seq(Messages)]
       /\ pc' \in [Turns -> PCs] /\ calls' \in [Turns -> 0..MaxCalls]
  BY <1>2, <1>3, <1>4, <1>5, <1>6, <1>7, <1>8, <1>9, TurnSpeaks
<1>11. task' \in [Agents -> Turns \cup {None}]
  BY <1>1, <1>4 DEF SetTask, TypeOK
<1>12. TypeOK'
  BY <1>1, <1>7, <1>10, <1>11 DEF TypeOK
<1> QED BY <1>10, <1>12 DEF RecordsInv

(* A message is recorded in the middle of a turn: of the LLM's function    *)
(* calls each has a message of its own; the result and the answer come     *)
(* after the call.                                                         *)
LEMMA SpeakKeepsInv ==
    ASSUME RecordsInv, NEW t \in Turns,
           \/ FunctionCall(t) \/ Answer(t) \/ SpecialistAnswers(t)
           \/ \E r \in Results : RecordResult(t, r) /\ (ToolReturns(t) \/ FunctionFails(t)),
           agent[t] \in Agents
    PROVE  RecordsInv'
<1>1. TypeOK /\ TurnsInv /\ calls[t] \in 0..MaxCalls
  BY DEF RecordsInv, TypeOK
<1>2. MaxCalls \in Nat
  BY ConstantsAssumption
<1>3. CASE FunctionCall(t)
  <2> DEFINE m == [turn |-> t, kind |-> "call", n |-> calls[t] + 1]
  <2>1. /\ pc[t] = "llm" /\ calls[t] < MaxCalls /\ AddToHistory(agent[t], m)
        /\ calls' = [calls EXCEPT ![t] = calls[t] + 1]
        /\ seen' = [seen EXCEPT ![t] = << >>] /\ Become(t, "appendCall")
        /\ UNCHANGED <<life, rows, task, clearing, current, agent, tool,
                       searched, outcome>>
    BY <1>1, <1>3 DEF FunctionCall, LLMAnswers, TypeOK
  <2>2. calls[t] + 1 \in 0..MaxCalls
    BY <1>1, <1>2, <2>1
  <2>3. m \in Messages /\ m.turn = t /\ m.kind = "call" /\ m.n = calls[t] + 1
    BY <2>2, MessageType
  <2> HIDE DEF m
  <2>4. /\ Order(m) = Top("appendCall", m.n) /\ Top(pc[t], calls[t]) < Order(m)
        /\ Awaits("appendCall", m.kind) /\ "appendCall" \in PCs \ {"idle"}
    BY <1>1, <1>2, <2>1, <2>2, <2>3, OrderOf DEF Top, Awaits, PCs
  <2>5. \A k \in Messages : k.turn = t => status[k] # "asked"
    BY <1>1, <2>1, AwaitsNoAppend DEF TurnsInv
  <2>6. calls' = [calls EXCEPT ![t] = m.n]
    BY <2>1, <2>3
  <2>7. /\ TurnsInv' /\ LogInv' /\ ArraysInv'
        /\ status' \in [Messages -> {"new", "asked", "stored", "refused"}]
        /\ log' \in Seq(Messages)
        /\ history' \in [Agents -> Seq(Messages)]
        /\ pc' \in [Turns -> PCs] /\ calls' \in [Turns -> 0..MaxCalls]
    BY <2>1, <2>3, <2>4, <2>5, <2>6, TurnSpeaks
  <2>8. TypeOK'
    BY <1>1, <2>1, <2>7 DEF TypeOK
  <2> QED BY <2>7, <2>8 DEF RecordsInv
<1>4. CASE \/ Answer(t) \/ SpecialistAnswers(t)
           \/ \E r \in Results : RecordResult(t, r) /\ (ToolReturns(t) \/ FunctionFails(t))
  <2>1. PICK kind \in {"result", "answer"},
             p \in {"appendResult", "appendAnswer", "appendSpecialist"} :
          /\ Awaits(p, kind) /\ AddToHistory(agent[t], Message(t, kind))
          /\ Become(t, p)
          /\ \/ kind = "answer" /\ pc[t] = "llm"
             \/ pc[t] = "delegate"
             \/ kind = "result" /\ pc[t] = "tool"
             \/ pc[t] = "appendCall" /\ Settled(Message(t, "call"))
          /\ UNCHANGED <<life, rows, task, clearing, current, agent, calls,
                         searched, outcome>>
    <3>1. CASE Answer(t)
      BY <3>1 DEF Answer, LLMAnswers, Awaits
    <3>2. CASE SpecialistAnswers(t)
      BY <3>2 DEF SpecialistAnswers, Awaits
    <3>3. CASE \E r \in Results : RecordResult(t, r) /\ (ToolReturns(t) \/ FunctionFails(t))
      BY <3>3 DEF RecordResult, ToolReturns, FunctionFails, Awaits
    <3> QED BY <1>4, <3>1, <3>2, <3>3
  <2>2. seen' \in [Turns -> Seq(Messages)] /\ tool' \in [Turns -> Results]
    <3>1. << >> \in Seq(Messages)
      OBVIOUS
    <3>2. CASE Answer(t)
      BY <1>1, <3>1, <3>2 DEF Answer, LLMAnswers, TypeOK
    <3>3. CASE SpecialistAnswers(t)
      BY <1>1, <3>3 DEF SpecialistAnswers, TypeOK
    <3>4. CASE \E r \in Results : RecordResult(t, r)
      BY <1>1, <3>4 DEF RecordResult, TypeOK
    <3> QED BY <1>4, <3>2, <3>3, <3>4
  <2> DEFINE m == Message(t, kind)
  <2>3. m \in Messages /\ m.turn = t /\ m.kind = kind /\ m.n = calls[t]
    BY <1>1, MessageType DEF Message
  <2> HIDE DEF m
  <2>4. /\ Order(m) = Top(p, m.n) /\ Top(pc[t], calls[t]) < Order(m)
        /\ Awaits(p, m.kind) /\ p \in PCs \ {"idle"}
    BY <1>1, <1>2, <2>1, <2>3, OrderOf DEF Top, Awaits, PCs
  <2>5. \A k \in Messages : k.turn = t => status[k] # "asked"
    <3>1. CASE pc[t] \in {"llm", "delegate", "tool"}
      BY <1>1, <3>1, AwaitsNoAppend DEF TurnsInv
    <3>2. CASE pc[t] = "appendCall" /\ Settled(Message(t, "call"))
      BY <1>1, <3>2, AppendIsSettled DEF TurnsInv, Awaits
    <3> QED BY <2>1, <3>1, <3>2
  <2>6. AddToHistory(agent[t], m) /\ calls' = [calls EXCEPT ![t] = m.n]
    BY <1>1, <2>1, <2>3 DEF TypeOK, m
  <2>7. /\ TurnsInv' /\ LogInv' /\ ArraysInv'
        /\ status' \in [Messages -> {"new", "asked", "stored", "refused"}]
        /\ log' \in Seq(Messages)
        /\ history' \in [Agents -> Seq(Messages)]
        /\ pc' \in [Turns -> PCs] /\ calls' \in [Turns -> 0..MaxCalls]
    BY <2>1, <2>3, <2>4, <2>5, <2>6, TurnSpeaks
  <2>8. TypeOK'
    BY <1>1, <2>1, <2>2, <2>7 DEF TypeOK
  <2> QED BY <2>7, <2>8 DEF RecordsInv
<1> QED BY <1>3, <1>4

(* The other steps of a turn. *)
LEMMA QuietStepKeepsInv ==
    ASSUME RecordsInv, NEW t \in Turns, agent[t] \in Agents,
           \/ PrepareHistory(t) \/ SearchContext(t) \/ AskLLM(t)
           \/ ExecuteFunction(t) \/ ContinueWithResult(t) \/ ResultNotSerializable(t)
           \/ ReturnSpecialist(t) \/ EmptyAnswer(t) \/ EvaluateMemories(t) \/ ReturnAnswer(t)
    PROVE  RecordsInv'
<1>1. TypeOK /\ TurnsInv /\ OneAppend /\ calls[t] \in 0..MaxCalls /\ MaxCalls \in Nat
  BY ConstantsAssumption DEF RecordsInv, TurnsInv, TypeOK
<1>2. PICK p \in {"context", "search", "llm", "tool", "delegate", "evaluate", "done"} :
         /\ Become(t, p)
         /\ \/ pc[t] = "appendUser" /\ Settled(Message(t, "user")) /\ p = "context"
            \/ pc[t] = "context" /\ p = "search"
            \/ pc[t] = "search" /\ p = "llm"
            \/ pc[t] = "appendCall" /\ Settled(Message(t, "call")) /\ p \in {"tool", "delegate"}
            \/ pc[t] = "appendResult" /\ Settled(Message(t, "result")) /\ p = "context"
            \/ pc[t] \in {"tool", "llm", "evaluate"} /\ p = "done"
            \/ /\ pc[t] \in {"appendSpecialist", "appendAnswer"}
               /\ Settled(Message(t, "answer")) /\ p \in {"evaluate", "done"}
  BY DEF PrepareHistory, SearchContext, AskLLM, ExecuteFunction, ContinueWithResult,
         ResultNotSerializable, ReturnSpecialist, EmptyAnswer, LLMAnswers, Finish,
         EvaluateMemories, ReturnAnswer
<1>3. UNCHANGED <<memoryVars, agentVars, agent, calls, tool>>
  BY DEF PrepareHistory, SearchContext, AskLLM, ExecuteFunction, ContinueWithResult,
         ResultNotSerializable, ReturnSpecialist, EmptyAnswer, LLMAnswers, Finish,
         EvaluateMemories, ReturnAnswer
<1>4. /\ pc[t] # "idle" /\ p \in PCs \ {"idle"}
      /\ Top(pc[t], calls[t]) <= Top(p, calls[t])
  BY <1>1, <1>2 DEF Top, PCs
<1>5. \A m \in Messages : m.turn = t => status[m] # "asked"
  <2>1. CASE pc[t] \in {"context", "search", "llm", "tool", "evaluate"}
    BY <1>1, <2>1, AwaitsNoAppend
  <2>2. CASE pc[t] = "appendUser"
    BY <1>1, <1>2, <2>2, AppendIsSettled DEF Awaits
  <2>3. CASE pc[t] = "appendCall"
    BY <1>1, <1>2, <2>3, AppendIsSettled DEF Awaits
  <2>4. CASE pc[t] = "appendResult"
    BY <1>1, <1>2, <2>4, AppendIsSettled DEF Awaits
  <2>5. CASE pc[t] \in {"appendSpecialist", "appendAnswer"}
    BY <1>1, <1>2, <2>5, AppendIsSettled DEF Awaits
  <2> QED BY <1>2, <2>1, <2>2, <2>3, <2>4, <2>5
<1>6. /\ TurnsInv' /\ LogInv' /\ ArraysInv'
      /\ pc' \in [Turns -> PCs]
  BY <1>2, <1>3, <1>4, <1>5, TurnGoesOn DEF agentVars
<1>7. seen' \in [Turns -> Seq(Messages)]
  <2>1. << >> \in Seq(Messages) /\ HistoryForLLM(t) \in Seq(Messages)
    BY <1>1 DEF HistoryForLLM, TypeOK
  <2>2. \/ seen' = seen \/ seen' = [seen EXCEPT ![t] = << >>]
        \/ seen' = [seen EXCEPT ![t] = HistoryForLLM(t)]
    BY DEF PrepareHistory, SearchContext, AskLLM, ExecuteFunction, ContinueWithResult,
           ResultNotSerializable, ReturnSpecialist, EmptyAnswer, LLMAnswers, Finish,
           EvaluateMemories, ReturnAnswer
  <2> QED BY <1>1, <2>1, <2>2 DEF TypeOK
<1>8. searched' \in [Turns -> Turns \cup {None}]
  <2>1. TaskOf(t) \in Turns \cup {None}
    BY <1>1 DEF TaskOf, TypeOK
  <2>2. \/ searched' = searched \/ searched' = [searched EXCEPT ![t] = None]
        \/ searched' = [searched EXCEPT ![t] = TaskOf(t)]
    BY DEF PrepareHistory, SearchContext, AskLLM, ExecuteFunction, ContinueWithResult,
           ResultNotSerializable, ReturnSpecialist, EmptyAnswer, LLMAnswers, Finish,
           EvaluateMemories, ReturnAnswer
  <2> QED BY <1>1, <2>1, <2>2 DEF TypeOK
<1>9. outcome' \in [Turns -> Outcomes]
  <2>1. \/ outcome' = outcome
        \/ \E o \in Outcomes : outcome' = [outcome EXCEPT ![t] = o]
    BY DEF PrepareHistory, SearchContext, AskLLM, ExecuteFunction, ContinueWithResult,
           ResultNotSerializable, ReturnSpecialist, EmptyAnswer, LLMAnswers, Finish,
           EvaluateMemories, ReturnAnswer, Outcomes
  <2> QED BY <1>1, <2>1 DEF TypeOK
<1>10. TypeOK'
  BY <1>1, <1>3, <1>6, <1>7, <1>8, <1>9 DEF TypeOK, memoryVars, agentVars
<1> QED BY <1>6, <1>10 DEF RecordsInv

LEMMA TurnsKeepAgents ==
    ASSUME TypeOK, TurnsHaveAgents, [Next]_vars
    PROVE  TurnsHaveAgents'
<1> USE DEF TypeOK, TurnsHaveAgents
<1>1. CASE \E t \in Turns, a \in Agents :
              ProcessUserMessage(t, a) \/ ProcessFunctionResult(t, a)
  BY <1>1 DEF ProcessUserMessage, ProcessFunctionResult, Call, Become
<1>2. CASE \E t \in Turns : Respond(t) \/ Proceed(t)
  <2> PICK t \in Turns : Respond(t) \/ Proceed(t)
    BY <1>2
  <2>1. pc[t] # "idle" /\ UNCHANGED agent /\ \E p \in PCs : Become(t, p)
    <3>1. CASE Respond(t)
      BY <3>1 DEF Respond, FunctionCall, Answer, EmptyAnswer, ToolReturns,
             ResultNotSerializable, SpecialistAnswers, RecordResult, LLMAnswers, Finish, PCs
    <3>2. CASE Proceed(t)
      BY <3>2 DEF Proceed, PrepareHistory, SearchContext, AskLLM, ExecuteFunction,
             FunctionFails, ContinueWithResult, ReturnSpecialist, EvaluateMemories,
             ReturnAnswer, RecordResult, Finish, PCs
    <3> QED BY <3>1, <3>2
  <2> QED BY <2>1 DEF Become
<1>3. CASE UNCHANGED turnVars
  BY <1>3 DEF turnVars
<1>4. CASE \/ \E a \in Agents : Load(a) \/ ClearHistory(a) \/ MemoryClears(a)
           \/ \E m \in Messages : MemoryStores(m) \/ MemoryRefuses(m)
  <2>1. UNCHANGED turnVars
    BY <1>4 DEF Load, Construct, LoadReads, LoadReplaces, LoadFails, ClearHistory,
                MemoryClears, MemoryStores, MemoryRefuses
  <2> QED BY <1>3, <2>1
<1> QED BY <1>1, <1>2, <1>3, <1>4 DEF Next, vars

LEMMA NextInv == IInv /\ [Next]_vars => IInv'
<1> SUFFICES ASSUME IInv, [Next]_vars
             PROVE  IInv'
  OBVIOUS
<1>1. TypeOK /\ RecordsInv /\ TurnsHaveAgents
  BY DEF IInv, RecordsInv
<1>2. TurnsHaveAgents'
  BY <1>1, TurnsKeepAgents
<1>3. ASSUME NEW a \in Agents, Load(a)
      PROVE  RecordsInv'
  BY <1>1, <1>3, LoadKeepsInv
<1>4. ASSUME NEW a \in Agents, ClearHistory(a) \/ MemoryClears(a)
      PROVE  RecordsInv'
  BY <1>1, <1>4, ClearKeepsInv
<1>5. ASSUME NEW m \in Messages, MemoryStores(m) \/ MemoryRefuses(m)
      PROVE  RecordsInv'
  BY <1>1, <1>5, MemoryKeepsInv
<1>6. ASSUME NEW t \in Turns, NEW a \in Agents,
             ProcessUserMessage(t, a) \/ ProcessFunctionResult(t, a)
      PROVE  RecordsInv'
  BY <1>1, <1>6, CallKeepsInv
<1>7. ASSUME NEW t \in Turns, Respond(t) \/ Proceed(t)
      PROVE  RecordsInv'
  <2>1. agent[t] \in Agents
    <3>1. pc[t] # "idle"
      BY <1>7 DEF Respond, Proceed, FunctionCall, Answer, EmptyAnswer, ToolReturns,
           ResultNotSerializable, SpecialistAnswers, LLMAnswers, PrepareHistory,
           SearchContext, AskLLM, ExecuteFunction, FunctionFails, ContinueWithResult,
           ReturnSpecialist, EvaluateMemories, ReturnAnswer
    <3> QED BY <1>1, <3>1 DEF TurnsHaveAgents
  <2>2. CASE \/ PrepareHistory(t) \/ SearchContext(t) \/ AskLLM(t)
             \/ ExecuteFunction(t) \/ ContinueWithResult(t) \/ ResultNotSerializable(t)
             \/ ReturnSpecialist(t) \/ EmptyAnswer(t) \/ EvaluateMemories(t)
             \/ ReturnAnswer(t)
    BY <1>1, <2>1, <2>2, QuietStepKeepsInv
  <2>3. CASE FunctionCall(t) \/ Answer(t) \/ SpecialistAnswers(t)
    BY <1>1, <2>1, <2>3, SpeakKeepsInv
  <2>4. CASE ToolReturns(t) \/ FunctionFails(t)
    <3>1. \E r \in Results : RecordResult(t, r)
      BY <2>4 DEF ToolReturns, FunctionFails, Results
    <3> QED BY <1>1, <2>1, <2>4, <3>1, SpeakKeepsInv
  <2> QED BY <1>7, <2>2, <2>3, <2>4 DEF Respond, Proceed
<1>8. ASSUME UNCHANGED vars
      PROVE  RecordsInv'
  <2>1. UNCHANGED <<log, status, history, rows, pc, calls>>
    BY <1>8 DEF vars, memoryVars, agentVars, turnVars
  <2>2. TurnsInv' /\ LogInv' /\ ArraysInv'
    BY <1>1, <2>1, TurnsStutter, LogKeeps, ArraysKeep DEF RecordsInv
  <2>3. TypeOK'
    BY <1>1, <1>8 DEF TypeOK, vars, memoryVars, agentVars, turnVars
  <2> QED BY <2>2, <2>3 DEF RecordsInv
<1>9. RecordsInv'
  <2>1. CASE Next
    BY <2>1, <1>3, <1>4, <1>5, <1>6, <1>7 DEF Next
  <2> QED BY <2>1, <1>8
<1> QED BY <1>2, <1>9 DEF IInv

-----------------------------------------------------------------------------
(* What holds however the agents of a chat and their turns interleave.     *)

(* The invariant of all agents and turns over one memory. *)
THEOREM Invariance == Spec => []IInv
<1>1. Init => IInv
  BY InitInv DEF Init, IInv, TurnsHaveAgents
<1> QED BY <1>1, NextInv, PTL DEF Spec

(* Every variable keeps its type. *)
THEOREM TypeCorrect == Spec => []TypeOK
<1>1. IInv => TypeOK
  BY DEF IInv, RecordsInv
<1> QED BY <1>1, Invariance, PTL

(* The memory and every array hold the messages of a turn in the order it  *)
(* said them, for any number of agents and turns that interleave at every  *)
(* await, whatever fails (_addToConversationHistory:649).                  *)
THEOREM OrderKept == Spec => []TurnOrder
<1>1. IInv => TurnOrder
  BY DEF IInv, RecordsInv, LogInv, ArraysInv, Recorded, TurnOrder
<1> QED BY <1>1, Invariance, PTL

(* No message is twice in the memory or in an array: its order is greater  *)
(* than that of what its turn has said before.                             *)
THEOREM NothingTwice == Spec => []NoDuplicates
<1>1. ASSUME NEW s \in Seq(Messages), SaidInOrder(s)
      PROVE  IsInjective(s)
  <2> SUFFICES ASSUME NEW i \in 1..Len(s), NEW j \in 1..Len(s), s[i] = s[j], i < j
               PROVE  FALSE
    BY DEF IsInjective
  <2>1. Order(s[i]) < Order(s[j]) /\ Order(s[i]) \in Nat
    BY <1>1, OrderOf DEF SaidInOrder
  <2> QED BY <2>1
<1>2. IInv => NoDuplicates
  BY <1>1 DEF IInv, RecordsInv, TypeOK, LogInv, ArraysInv, Recorded, NoDuplicates
<1> QED BY <1>2, Invariance, PTL

-----------------------------------------------------------------------------
(* Turns end: no turn is ever held back, and every step of a turn brings   *)
(* its end nearer, however turns interleave.  It is what TurnEnds takes    *)
(* besides the fairness of FairSpec, the model's bound MaxCalls being      *)
(* given.                                                                  *)

Kinds == {"user", "call", "result", "answer"}

(* Advance(t) without what it does to the variables: whether an append, an *)
(* answer or a continuation the turn awaits can come.                      *)
CanAdvance(t) ==
    \/ pc[t] \in {"context", "search", "llm", "tool", "evaluate"}
    \/ /\ pc[t] = "delegate"
       /\ \E kind \in {"result", "answer"} : status[Message(t, kind)] = "new"
    \/ \E kind \in Kinds :
          Awaits(pc[t], kind) /\ status[Message(t, kind)] # "new"

(* What a turn says next it has not said: its append is never refused      *)
(* because it has been called before.                                      *)
NextIsNew(t) ==
    /\ pc[t] \in {"idle", "appendCall", "tool", "delegate"} =>
          status[Message(t, "result")] = "new"
    /\ pc[t] \in {"llm", "delegate"} => status[Message(t, "answer")] = "new"
    /\ pc[t] = "idle" => status[Message(t, "user")] = "new"
    /\ pc[t] = "llm" /\ calls[t] < MaxCalls =>
          status[[turn |-> t, kind |-> "call", n |-> calls[t] + 1]] = "new"

NoTurnIsHeldBack ==
    \A t \in Turns : NextIsNew(t) /\ (t \in InFlight => CanAdvance(t))

(* A turn that awaits an append has asked for it. *)
AwaitedIsAsked ==
    \A t \in Turns, kind \in Kinds :
        Awaits(pc[t], kind) => status[Message(t, kind)] # "new"

(* How far a turn is from its end: the function calls it may still make,   *)
(* then the steps of this round, and the append that is in flight.         *)
Rank(p) ==
    CASE p = "idle" -> 9
      [] p = "appendCall" -> 8
      [] p \in {"tool", "delegate"} -> 7
      [] p \in {"appendUser", "appendResult"} -> 6
      [] p = "context" -> 5
      [] p = "search" -> 4
      [] p = "llm" -> 3
      [] p \in {"appendAnswer", "appendSpecialist"} -> 2
      [] p = "evaluate" -> 1
      [] p = "done" -> 0

AppendInFlight(t) ==
    IF \E m \in Messages : m.turn = t /\ status[m] = "asked" THEN 1 ELSE 0

Work(t) == 12 * (MaxCalls - calls[t]) + 2 * Rank(pc[t]) + AppendInFlight(t)

(* No step of anything takes a turn back, and one of its own takes it on.  *)
TurnsProgress ==
    \A t \in Turns :
        /\ Work(t)' <= Work(t)
        /\ Advance(t) => Work(t)' < Work(t)

LEMMA RankType == \A p \in PCs : Rank(p) \in 0..9
BY DEF Rank, PCs

LEMMA WorkIsNat ==
    ASSUME TypeOK, NEW t \in Turns
    PROVE  Work(t) \in Nat
<1>1. MaxCalls \in Nat /\ calls[t] \in 0..MaxCalls /\ Rank(pc[t]) \in 0..9
  BY ConstantsAssumption, RankType DEF TypeOK
<1>2. AppendInFlight(t) \in 0..1
  BY DEF AppendInFlight
<1>3. 12 * (MaxCalls - calls[t]) \in Nat
  BY <1>1
<1> QED BY <1>1, <1>2, <1>3 DEF Work

LEMMA TypedWork == (TypeOK => \A t \in Turns : Work(t) \in Nat)'
<1>1. TypeOK => \A t \in Turns : Work(t) \in Nat
  BY WorkIsNat
<1> QED BY <1>1, PTL

(* A step of one turn, far enough on to make up for an append it asks for. *)
LEMMA TurnGetsOn ==
    ASSUME TypeOK, NEW t \in Turns, NEW p \in PCs, NEW n \in 0..MaxCalls,
           pc' = [pc EXCEPT ![t] = p], calls' = [calls EXCEPT ![t] = n],
           \A m \in Messages : m.turn # t => status'[m] = status[m],
           \/ n = calls[t] /\ Rank(p) < Rank(pc[t])
           \/ n = calls[t] + 1 /\ Rank(p) <= Rank(pc[t]) + 5
    PROVE  /\ Work(t)' < Work(t)
           /\ \A u \in Turns : u # t => Work(u)' = Work(u)
<1>1. MaxCalls \in Nat /\ calls[t] \in 0..MaxCalls
  BY ConstantsAssumption DEF TypeOK
<1>2. Rank(pc[t]) \in 0..9 /\ Rank(p) \in 0..9
  BY RankType DEF TypeOK
<1>3. AppendInFlight(t) \in 0..1 /\ AppendInFlight(t)' \in 0..1
  BY DEF AppendInFlight
<1>4. pc'[t] = p /\ calls'[t] = n
  BY DEF TypeOK
<1>5. Rank(pc[t])' = Rank(p)
  BY <1>4 DEF Rank
<1>6. Work(t)' = 12 * (MaxCalls - n) + 2 * Rank(p) + AppendInFlight(t)'
  BY <1>4, <1>5 DEF Work
<1>7. Work(t)' < Work(t)
  BY <1>1, <1>2, <1>3, <1>6 DEF Work
<1>8. ASSUME NEW u \in Turns, u # t
      PROVE  Work(u)' = Work(u)
  <2>1. pc'[u] = pc[u] /\ calls'[u] = calls[u]
    BY <1>8 DEF TypeOK
  <2>2. AppendInFlight(u)' = AppendInFlight(u)
    BY <1>8 DEF AppendInFlight
  <2> QED BY <2>1, <2>2 DEF Work, Rank
<1> QED BY <1>7, <1>8

LEMMA SaysOnlyOwn ==
    ASSUME TypeOK, NEW t \in Turns, NEW a, NEW m \in Messages, m.turn = t,
           AddToHistory(a, m)
    PROVE  \A k \in Messages : k.turn # t => status'[k] = status[k]
BY DEF AddToHistory, Memory!Append_Ask, TypeOK

(* The messages a turn says are its own. *)
LEMMA OwnMessages ==
    ASSUME TypeOK, NEW t \in Turns
    PROVE  /\ \A kind \in Kinds :
                 Message(t, kind) \in Messages /\ Message(t, kind).turn = t
           /\ calls[t] < MaxCalls =>
                 /\ [turn |-> t, kind |-> "call", n |-> calls[t] + 1] \in Messages
                 /\ [turn |-> t, kind |-> "call", n |-> calls[t] + 1].turn = t
<1>1. calls[t] \in 0..MaxCalls /\ MaxCalls \in Nat
  BY ConstantsAssumption DEF TypeOK
<1>2. calls[t] < MaxCalls => calls[t] + 1 \in 0..MaxCalls
  BY <1>1
<1> QED BY <1>1, <1>2, MessageType DEF Message, Kinds

LEMMA RespondGetsOn ==
    ASSUME TypeOK, NEW t \in Turns, Respond(t)
    PROVE  Work(t)' < Work(t) /\ \A u \in Turns : u # t => Work(u)' = Work(u)
<1>0. /\ calls[t] \in 0..MaxCalls /\ calls = [calls EXCEPT ![t] = calls[t]]
      /\ MaxCalls \in Nat
  BY ConstantsAssumption DEF TypeOK
<1>1. CASE FunctionCall(t)
  <2>1. /\ pc[t] = "llm" /\ pc' = [pc EXCEPT ![t] = "appendCall"] /\ calls[t] < MaxCalls
        /\ calls' = [calls EXCEPT ![t] = calls[t] + 1]
        /\ AddToHistory(agent[t], [turn |-> t, kind |-> "call", n |-> calls[t] + 1])
    BY <1>1 DEF FunctionCall, LLMAnswers, Become
  <2>2. \A k \in Messages : k.turn # t => status'[k] = status[k]
    BY <2>1, OwnMessages, SaysOnlyOwn
  <2>3. calls[t] + 1 \in 0..MaxCalls
    BY <1>0, <2>1
  <2>4. Rank("appendCall") <= Rank(pc[t]) + 5 /\ "appendCall" \in PCs
    BY <2>1 DEF Rank, PCs
  <2> QED BY <2>1, <2>2, <2>3, <2>4, TurnGetsOn
<1>2. CASE Answer(t)
  <2>1. /\ pc[t] = "llm" /\ pc' = [pc EXCEPT ![t] = "appendAnswer"] /\ calls' = calls
        /\ AddToHistory(agent[t], Message(t, "answer"))
    BY <1>2 DEF Answer, LLMAnswers, Become
  <2>2. \A k \in Messages : k.turn # t => status'[k] = status[k]
    BY <2>1, OwnMessages, SaysOnlyOwn DEF Kinds
  <2>3. Rank("appendAnswer") < Rank(pc[t]) /\ "appendAnswer" \in PCs
    BY <2>1 DEF Rank, PCs
  <2> QED BY <1>0, <2>1, <2>2, <2>3, TurnGetsOn
<1>3. CASE EmptyAnswer(t) \/ ResultNotSerializable(t)
  <2>1. /\ pc[t] \in {"llm", "tool"} /\ pc' = [pc EXCEPT ![t] = "done"]
        /\ calls' = calls /\ status' = status
    BY <1>3 DEF EmptyAnswer, ResultNotSerializable, LLMAnswers, Finish, Become, memoryVars
  <2>2. Rank("done") < Rank(pc[t]) /\ "done" \in PCs
    BY <2>1 DEF Rank, PCs
  <2> QED BY <1>0, <2>1, <2>2, TurnGetsOn
<1>4. CASE ToolReturns(t)
  <2>1. /\ pc[t] = "tool" /\ pc' = [pc EXCEPT ![t] = "appendResult"] /\ calls' = calls
        /\ AddToHistory(agent[t], Message(t, "result"))
    BY <1>4 DEF ToolReturns, RecordResult, Become
  <2>2. \A k \in Messages : k.turn # t => status'[k] = status[k]
    BY <2>1, OwnMessages, SaysOnlyOwn DEF Kinds
  <2>3. Rank("appendResult") < Rank(pc[t]) /\ "appendResult" \in PCs
    BY <2>1 DEF Rank, PCs
  <2> QED BY <1>0, <2>1, <2>2, <2>3, TurnGetsOn
<1>5. CASE SpecialistAnswers(t)
  <2>1. /\ pc[t] = "delegate" /\ pc' = [pc EXCEPT ![t] = "appendSpecialist"]
        /\ calls' = calls /\ AddToHistory(agent[t], Message(t, "answer"))
    BY <1>5 DEF SpecialistAnswers, Become
  <2>2. \A k \in Messages : k.turn # t => status'[k] = status[k]
    BY <2>1, OwnMessages, SaysOnlyOwn DEF Kinds
  <2>3. Rank("appendSpecialist") < Rank(pc[t]) /\ "appendSpecialist" \in PCs
    BY <2>1 DEF Rank, PCs
  <2> QED BY <1>0, <2>1, <2>2, <2>3, TurnGetsOn
<1> QED BY <1>1, <1>2, <1>3, <1>4, <1>5 DEF Respond

LEMMA ProceedGetsOn ==
    ASSUME TypeOK, NEW t \in Turns, Proceed(t)
    PROVE  Work(t)' < Work(t) /\ \A u \in Turns : u # t => Work(u)' = Work(u)
<1>0. calls[t] \in 0..MaxCalls /\ calls = [calls EXCEPT ![t] = calls[t]]
  BY DEF TypeOK
<1>1. CASE FunctionFails(t)
  <2>1. /\ pc[t] \in {"appendCall", "delegate"} /\ calls' = calls
        /\ pc' = [pc EXCEPT ![t] = "appendResult"]
        /\ AddToHistory(agent[t], Message(t, "result"))
    BY <1>1 DEF FunctionFails, RecordResult, Become
  <2>2. \A k \in Messages : k.turn # t => status'[k] = status[k]
    BY <2>1, OwnMessages, SaysOnlyOwn DEF Kinds
  <2>3. Rank("appendResult") < Rank(pc[t]) /\ "appendResult" \in PCs
    BY <2>1 DEF Rank, PCs
  <2> QED BY <1>0, <2>1, <2>2, <2>3, TurnGetsOn
<1>2. CASE \/ PrepareHistory(t) \/ SearchContext(t) \/ AskLLM(t) \/ ExecuteFunction(t)
           \/ ContinueWithResult(t) \/ ReturnSpecialist(t) \/ EvaluateMemories(t)
           \/ ReturnAnswer(t)
  <2>1. /\ calls' = calls /\ status' = status
        /\ \E p \in PCs : pc' = [pc EXCEPT ![t] = p] /\ Rank(p) < Rank(pc[t])
    BY <1>2 DEF PrepareHistory, SearchContext, AskLLM, ExecuteFunction, ContinueWithResult,
                ReturnSpecialist, EvaluateMemories, ReturnAnswer, Finish, Become, memoryVars,
                Rank, PCs
  <2> QED BY <1>0, <2>1, TurnGetsOn
<1> QED BY <1>1, <1>2 DEF Proceed

LEMMA AppendGetsOn ==
    ASSUME TypeOK, OneAppend, NEW m \in Messages, MemoryStores(m) \/ MemoryRefuses(m)
    PROVE  /\ Work(m.turn)' < Work(m.turn)
           /\ \A u \in Turns : u # m.turn => Work(u)' = Work(u)
<1> DEFINE t == m.turn
<1>1. /\ t \in Turns /\ status[m] = "asked" /\ UNCHANGED <<pc, calls>>
      /\ \E s \in {"stored", "refused"} : status' = [status EXCEPT ![m] = s]
  BY MessageParts DEF MemoryStores, MemoryRefuses, Memory!Append_Store,
     Memory!Append_Refuse, turnVars
<1>2. AppendInFlight(t) = 1
  BY <1>1 DEF AppendInFlight
<1>3. AppendInFlight(t)' = 0
  <2> SUFFICES ASSUME NEW k \in Messages, k.turn = t, status'[k] = "asked"
               PROVE  FALSE
    BY DEF AppendInFlight
  <2>1. k # m /\ status[k] = "asked"
    BY <1>1 DEF TypeOK
  <2>2. /\ Awaits(pc[t], k.kind) /\ k.n = calls[t]
        /\ Awaits(pc[t], m.kind) /\ m.n = calls[t]
    BY <1>1, <2>1 DEF OneAppend
  <2>3. k.kind = m.kind
    BY <2>2 DEF Awaits
  <2> QED BY <2>1, <2>2, <2>3, MessageParts
<1>4. Rank(pc[t])' = Rank(pc[t]) /\ calls'[t] = calls[t]
  BY <1>1 DEF Rank
<1>5. Work(t)' < Work(t)
  <2>1. MaxCalls \in Nat /\ calls[t] \in 0..MaxCalls /\ Rank(pc[t]) \in 0..9
    BY <1>1, ConstantsAssumption, RankType DEF TypeOK
  <2>2. Work(t)' = 12 * (MaxCalls - calls[t]) + 2 * Rank(pc[t]) + 0
    BY <1>3, <1>4 DEF Work
  <2> QED BY <1>2, <2>1, <2>2 DEF Work
<1>6. ASSUME NEW u \in Turns, u # t
      PROVE  Work(u)' = Work(u)
  <2>1. AppendInFlight(u)' = AppendInFlight(u)
    BY <1>1, <1>6 DEF AppendInFlight, TypeOK
  <2> QED BY <1>1, <2>1 DEF Work, Rank
<1> QED BY <1>5, <1>6

LEMMA CallGetsOn ==
    ASSUME TypeOK, NEW t \in Turns, NEW a \in Agents,
           ProcessUserMessage(t, a) \/ ProcessFunctionResult(t, a)
    PROVE  Work(t)' < Work(t) /\ \A u \in Turns : u # t => Work(u)' = Work(u)
<1>0. calls[t] \in 0..MaxCalls /\ calls = [calls EXCEPT ![t] = calls[t]]
  BY DEF TypeOK
<1>1. /\ pc[t] = "idle" /\ calls' = calls
      /\ \E p \in {"appendUser", "appendResult"} : pc' = [pc EXCEPT ![t] = p]
      /\ \E kind \in {"user", "result"} : AddToHistory(a, Message(t, kind))
  BY DEF ProcessUserMessage, ProcessFunctionResult, Call, Become
<1>2. \A k \in Messages : k.turn # t => status'[k] = status[k]
  BY <1>1, OwnMessages, SaysOnlyOwn DEF Kinds
<1>3. \A p \in {"appendUser", "appendResult"} : p \in PCs /\ Rank(p) < Rank(pc[t])
  BY <1>1 DEF Rank, PCs
<1> QED BY <1>0, <1>1, <1>2, <1>3, TurnGetsOn

LEMMA OthersWait ==
    ASSUME UNCHANGED <<pc, calls, status>>, NEW t \in Turns
    PROVE  Work(t)' = Work(t)
BY DEF Work, Rank, AppendInFlight

(* Advance(t) is a step of t; what is not leaves t where it is.            *)
LEMMA AdvanceGetsOn ==
    ASSUME TypeOK, OneAppend, NEW t \in Turns, Advance(t)
    PROVE  Work(t)' < Work(t)
BY RespondGetsOn, ProceedGetsOn, AppendGetsOn DEF Advance

LEMMA NothingGoesBack ==
    ASSUME TypeOK, TypeOK', OneAppend, [Next]_vars, NEW t \in Turns
    PROVE  Work(t)' <= Work(t)
<1>0. Work(t) \in Nat /\ Work(t)' \in Nat
  BY WorkIsNat, TypedWork
<1>1. CASE UNCHANGED <<pc, calls, status>>
  BY <1>0, <1>1, OthersWait
<1>2. ASSUME NEW u \in Turns, Work(u)' < Work(u),
             \A v \in Turns : v # u => Work(v)' = Work(v)
      PROVE  Work(t)' <= Work(t)
  BY <1>0, <1>2
<1>3. CASE \E u \in Turns, a \in Agents :
              ProcessUserMessage(u, a) \/ ProcessFunctionResult(u, a)
  BY <1>2, <1>3, CallGetsOn
<1>4. CASE \E u \in Turns : Respond(u) \/ Proceed(u)
  BY <1>2, <1>4, RespondGetsOn, ProceedGetsOn
<1>5. CASE \E m \in Messages : MemoryStores(m) \/ MemoryRefuses(m)
  BY <1>2, <1>5, AppendGetsOn, MessageParts
<1>6. CASE \/ \E a \in Agents : Load(a) \/ ClearHistory(a) \/ MemoryClears(a)
           \/ UNCHANGED vars
  <2>1. UNCHANGED <<pc, calls, status>>
    BY <1>6 DEF Load, Construct, LoadReads, LoadReplaces, LoadFails, ClearHistory,
                MemoryClears, Memory!Clear, vars, memoryVars, turnVars
  <2> QED BY <1>1, <2>1
<1> QED BY <1>3, <1>4, <1>5, <1>6 DEF Next

(* No step takes a turn away from its end, and every step of its own takes *)
(* it nearer, whatever other turns, loads and clears do meanwhile: a turn  *)
(* takes no more than Work(t) steps (the loop at chat-agent.js:459).       *)
THEOREM EveryStepIsProgress == Spec => [][TurnsProgress]_vars
<1>1. IInv => TypeOK /\ OneAppend
  BY DEF IInv, RecordsInv, TurnsInv
<1>2. IInv /\ IInv' /\ [Next]_vars => TurnsProgress
  <2> SUFFICES ASSUME IInv, IInv', [Next]_vars, NEW t \in Turns
               PROVE  Work(t)' <= Work(t) /\ (Advance(t) => Work(t)' < Work(t))
    BY DEF TurnsProgress
  <2>1. TypeOK /\ OneAppend /\ TypeOK'
    BY <1>1 DEF IInv, RecordsInv
  <2> QED BY <2>1, NothingGoesBack, AdvanceGetsOn
<1> QED BY <1>2, Invariance, PTL DEF Spec

(* What has been asked of the memory stays asked, and a turn that gets to  *)
(* an append has just asked for it.                                        *)
LEMMA AwaitedIsAskedKept ==
    ASSUME TypeOK, AwaitedIsAsked, [Next]_vars
    PROVE  AwaitedIsAsked'
<1>1. ASSUME NEW t \in Turns, NEW p,
             pc' = [pc EXCEPT ![t] = p], \A u \in Turns : u # t => calls'[u] = calls[u],
             \A m \in Messages : status[m] # "new" => status'[m] # "new",
             \A kind \in Kinds : Awaits(p, kind) =>
                status'[[turn |-> t, kind |-> kind, n |-> calls'[t]]] # "new"
      PROVE  AwaitedIsAsked'
  <2> SUFFICES ASSUME NEW u \in Turns, NEW kind \in Kinds, Awaits(pc'[u], kind)
               PROVE  status'[[turn |-> u, kind |-> kind, n |-> calls'[u]]] # "new"
    BY DEF AwaitedIsAsked, Message, Awaits
  <2>1. CASE u = t
    BY <1>1, <2>1 DEF TypeOK
  <2>2. CASE u # t
    <3>1. pc'[u] = pc[u] /\ calls'[u] = calls[u]
      BY <1>1, <2>2 DEF TypeOK
    <3>2. status[Message(u, kind)] # "new" /\ Message(u, kind) \in Messages
      BY <3>1, OwnMessages DEF AwaitedIsAsked
    <3> QED BY <1>1, <3>1, <3>2 DEF Message
  <2> QED BY <2>1, <2>2
<1>2. ASSUME UNCHANGED <<pc, calls>>,
             \A m \in Messages : status[m] # "new" => status'[m] # "new"
      PROVE  AwaitedIsAsked'
  <2> SUFFICES ASSUME NEW u \in Turns, NEW kind \in Kinds, Awaits(pc[u], kind)
               PROVE  status'[Message(u, kind)] # "new"
    BY <1>2 DEF AwaitedIsAsked, Message, Awaits
  <2>1. status[Message(u, kind)] # "new" /\ Message(u, kind) \in Messages
    BY OwnMessages DEF AwaitedIsAsked
  <2> QED BY <1>2, <2>1
<1>3. ASSUME NEW a, NEW m \in Messages, AddToHistory(a, m)
      PROVE  status'[m] # "new" /\ \A k \in Messages : status[k] # "new" => status'[k] # "new"
  BY <1>3 DEF AddToHistory, Memory!Append_Ask, TypeOK
<1>4. ASSUME NEW t \in Turns, NEW a, NEW kind \in Kinds, NEW p,
             AddToHistory(a, Message(t, kind)), pc' = [pc EXCEPT ![t] = p], calls' = calls,
             \A k \in Kinds : Awaits(p, k) => k = kind
      PROVE  AwaitedIsAsked'
  <2>1. status'[Message(t, kind)] # "new"
        /\ \A k \in Messages : status[k] # "new" => status'[k] # "new"
    BY <1>3, <1>4, OwnMessages
  <2> QED BY <1>1, <1>4, <2>1 DEF Message
<1>5. ASSUME NEW t \in Turns, NEW a \in Agents,
             ProcessUserMessage(t, a) \/ ProcessFunctionResult(t, a)
      PROVE  AwaitedIsAsked'
  <2>1. CASE ProcessUserMessage(t, a)
    <3>1. /\ AddToHistory(a, Message(t, "user")) /\ calls' = calls
          /\ pc' = [pc EXCEPT ![t] = "appendUser"]
      BY <2>1 DEF ProcessUserMessage, Call, Become
    <3>2. \A k \in Kinds : Awaits("appendUser", k) => k = "user"
      BY DEF Awaits
    <3> QED BY <1>4, <3>1, <3>2 DEF Kinds
  <2>2. CASE ProcessFunctionResult(t, a)
    <3>1. /\ AddToHistory(a, Message(t, "result")) /\ calls' = calls
          /\ pc' = [pc EXCEPT ![t] = "appendResult"]
      BY <2>2 DEF ProcessFunctionResult, Call, Become
    <3>2. \A k \in Kinds : Awaits("appendResult", k) => k = "result"
      BY DEF Awaits
    <3> QED BY <1>4, <3>1, <3>2 DEF Kinds
  <2> QED BY <1>5, <2>1, <2>2
<1>6. ASSUME NEW t \in Turns, FunctionCall(t)
      PROVE  AwaitedIsAsked'
  <2> DEFINE m == [turn |-> t, kind |-> "call", n |-> calls[t] + 1]
  <2>1. /\ AddToHistory(agent[t], m) /\ calls[t] < MaxCalls
        /\ pc' = [pc EXCEPT ![t] = "appendCall"]
        /\ calls' = [calls EXCEPT ![t] = calls[t] + 1]
    BY <1>6 DEF FunctionCall, Become
  <2>2. m \in Messages
    BY <2>1, OwnMessages
  <2>3. status'[m] # "new" /\ \A k \in Messages : status[k] # "new" => status'[k] # "new"
    <3> HIDE DEF m
    <3> QED BY <1>3, <2>1, <2>2
  <2>4. calls'[t] = calls[t] + 1 /\ \A u \in Turns : u # t => calls'[u] = calls[u]
    BY <2>1 DEF TypeOK
  <2>5. \A k \in Kinds : Awaits("appendCall", k) => k = "call"
    BY DEF Awaits
  <2> QED BY <1>1, <2>1, <2>3, <2>4, <2>5
<1>7. ASSUME NEW t \in Turns,
             \/ Answer(t) \/ ToolReturns(t) \/ SpecialistAnswers(t) \/ FunctionFails(t)
      PROVE  AwaitedIsAsked'
  <2>1. CASE Answer(t) \/ SpecialistAnswers(t)
    <3>1. /\ AddToHistory(agent[t], Message(t, "answer")) /\ calls' = calls
          /\ \E p \in {"appendAnswer", "appendSpecialist"} : pc' = [pc EXCEPT ![t] = p]
      BY <2>1 DEF Answer, SpecialistAnswers, Become
    <3>2. \A p \in {"appendAnswer", "appendSpecialist"}, k \in Kinds :
             Awaits(p, k) => k = "answer"
      BY DEF Awaits
    <3> QED BY <1>4, <3>1, <3>2 DEF Kinds
  <2>2. CASE ToolReturns(t) \/ FunctionFails(t)
    <3>1. /\ AddToHistory(agent[t], Message(t, "result")) /\ calls' = calls
          /\ pc' = [pc EXCEPT ![t] = "appendResult"]
      BY <2>2 DEF ToolReturns, FunctionFails, RecordResult, Become
    <3>2. \A k \in Kinds : Awaits("appendResult", k) => k = "result"
      BY DEF Awaits
    <3> QED BY <1>4, <3>1, <3>2 DEF Kinds
  <2> QED BY <1>7, <2>1, <2>2
<1>8. ASSUME NEW t \in Turns,
             \/ PrepareHistory(t) \/ SearchContext(t) \/ AskLLM(t) \/ ExecuteFunction(t)
             \/ ContinueWithResult(t) \/ ReturnSpecialist(t) \/ EvaluateMemories(t)
             \/ ReturnAnswer(t) \/ EmptyAnswer(t) \/ ResultNotSerializable(t)
      PROVE  AwaitedIsAsked'
  <2>1. /\ calls' = calls /\ status' = status
        /\ \E p \in {"context", "search", "llm", "tool", "delegate", "evaluate", "done"} :
              pc' = [pc EXCEPT ![t] = p]
    BY <1>8 DEF PrepareHistory, SearchContext, AskLLM, ExecuteFunction, ContinueWithResult,
                ReturnSpecialist, EvaluateMemories, ReturnAnswer, EmptyAnswer,
                ResultNotSerializable, Finish, Become, memoryVars
  <2>2. \A p \in {"context", "search", "llm", "tool", "delegate", "evaluate", "done"},
           kind \in Kinds : ~Awaits(p, kind)
    BY DEF Awaits
  <2> QED BY <1>1, <2>1, <2>2
<1>9. ASSUME NEW m \in Messages, MemoryStores(m) \/ MemoryRefuses(m)
      PROVE  AwaitedIsAsked'
  <2>1. /\ UNCHANGED <<pc, calls>>
        /\ \A k \in Messages : status[k] # "new" => status'[k] # "new"
    BY <1>9 DEF MemoryStores, MemoryRefuses, Memory!Append_Store, Memory!Append_Refuse,
                turnVars, TypeOK
  <2> QED BY <1>2, <2>1
<1>10. CASE \/ \E a \in Agents : Load(a) \/ ClearHistory(a) \/ MemoryClears(a)
            \/ UNCHANGED vars
  <2>1. UNCHANGED <<pc, calls, status>>
    BY <1>10 DEF Load, Construct, LoadReads, LoadReplaces, LoadFails, ClearHistory,
                 MemoryClears, Memory!Clear, vars, memoryVars, turnVars
  <2> QED BY <1>2, <2>1
<1> QED BY <1>5, <1>6, <1>7, <1>8, <1>9, <1>10 DEF Next, Respond, Proceed

(* What a turn says next has an order none of its messages has. *)
LEMMA NextMessageIsNew ==
    ASSUME IInv, NEW t \in Turns
    PROVE  NextIsNew(t)
<1>1. TypeOK /\ SaidSoFar /\ calls[t] \in 0..MaxCalls /\ MaxCalls \in Nat
  BY ConstantsAssumption DEF IInv, RecordsInv, TurnsInv, TypeOK
<1>2. ASSUME NEW m \in Messages, m.turn = t,
             pc[t] = "idle" \/ Order(m) > Top(pc[t], calls[t])
      PROVE  status[m] = "new"
  <2>1. Order(m) \in Nat
    BY <1>2, OrderOf
  <2>2. pc[t] \in PCs /\ Top(pc[t], calls[t]) \in Nat
    BY <1>1, TopType DEF TypeOK
  <2> QED BY <1>1, <1>2, <2>1, <2>2 DEF SaidSoFar
<1>3. \A kind \in Kinds : /\ Message(t, kind) \in Messages /\ Message(t, kind).turn = t
                          /\ Message(t, kind).kind = kind /\ Message(t, kind).n = calls[t]
  BY <1>1, OwnMessages DEF Message
<1>4. /\ Order(Message(t, "result")) = 2 * calls[t] + 1
      /\ Order(Message(t, "answer")) = 2 * calls[t] + 2
  BY <1>3, OrderOf DEF Kinds
<1>5. pc[t] \in {"idle", "appendCall", "tool", "delegate"} =>
         status[Message(t, "result")] = "new"
  BY <1>1, <1>2, <1>3, <1>4 DEF Top, Kinds
<1>6. pc[t] \in {"llm", "delegate"} => status[Message(t, "answer")] = "new"
  BY <1>1, <1>2, <1>3, <1>4 DEF Top, Kinds
<1>7. pc[t] = "idle" => status[Message(t, "user")] = "new"
  BY <1>2, <1>3 DEF Kinds
<1>8. ASSUME pc[t] = "llm", calls[t] < MaxCalls
      PROVE  status[[turn |-> t, kind |-> "call", n |-> calls[t] + 1]] = "new"
  <2> DEFINE m == [turn |-> t, kind |-> "call", n |-> calls[t] + 1]
  <2>1. m \in Messages /\ m.turn = t /\ m.kind = "call" /\ m.n = calls[t] + 1
    BY <1>1, <1>8, OwnMessages
  <2> HIDE DEF m
  <2>2. Order(m) = 2 * (calls[t] + 1)
    BY <2>1, OrderOf
  <2>3. status[m] = "new"
    BY <1>1, <1>2, <1>8, <2>1, <2>2 DEF Top
  <2> QED BY <2>3 DEF m
<1> QED BY <1>5, <1>6, <1>7, <1>8 DEF NextIsNew

(* A turn in flight can always go on, alone or among others: the append it *)
(* awaits has been asked for and settles, and what it says next is new     *)
(* (_addToConversationHistory:649).                                        *)
THEOREM AlwaysGoesOn == Spec => []NoTurnIsHeldBack
<1>1. Init => AwaitedIsAsked
  BY DEF Init, AwaitedIsAsked, Awaits
<1>2. IInv /\ AwaitedIsAsked /\ [Next]_vars => AwaitedIsAsked'
  BY AwaitedIsAskedKept DEF IInv, RecordsInv
<1>3. IInv /\ AwaitedIsAsked => NoTurnIsHeldBack
  <2> SUFFICES ASSUME IInv, AwaitedIsAsked, NEW t \in Turns, t \in InFlight
               PROVE  CanAdvance(t)
    BY NextMessageIsNew DEF NoTurnIsHeldBack
  <2>1. pc[t] \in PCs \ {"idle", "done"}
    BY DEF InFlight, IInv, RecordsInv, TypeOK
  <2>2. CASE pc[t] = "delegate"
    BY <2>2, NextMessageIsNew DEF NextIsNew, CanAdvance
  <2>3. CASE pc[t] \in {"context", "search", "llm", "tool", "evaluate"}
    BY <2>3 DEF CanAdvance
  <2>4. CASE pc[t] \in {"appendUser", "appendCall", "appendResult", "appendSpecialist",
                        "appendAnswer"}
    <3>1. \E kind \in Kinds : Awaits(pc[t], kind)
      BY <2>4 DEF Awaits, Kinds
    <3> QED BY <3>1 DEF AwaitedIsAsked, CanAdvance
  <2> QED BY <2>1, <2>2, <2>3, <2>4 DEF PCs
<1> QED BY <1>1, <1>2, <1>3, Invariance, PTL DEF Spec

-----------------------------------------------------------------------------
(* One turn at a time.                                                     *)

(* The application waits for the load and for each answer before it sends  *)
(* the next message, uses one agent of the chat at a time, and its memory  *)
(* refuses nothing but appends.                                            *)
OneAtATime ==
    /\ AgentsAlive = "one" /\ MaxInFlight = 1 /\ ~EarlyMessages
    /\ Faults \subseteq {"appendMessage"}

(* The turn in flight runs on the agent in use, which is ready for it.     *)
OneTurn ==
    /\ \A t, u \in InFlight : t = u
    /\ \A t \in InFlight :
          agent[t] = current /\ life[current] = "ready" /\ ~clearing[current]
    /\ \A a \in Agents : clearing[a] =>
          a = current /\ InFlight = {} /\ life[a] = "ready" /\ history[a] = << >>
    /\ \A t \in Turns : pc[t] # "done" => outcome[t] = "none"

(* An agent that is not ready has an empty array, and the rows that the    *)
(* agent in use has read are the log.                                      *)
LoadInv ==
    /\ \A a \in Agents : life[a] # "ready" => history[a] = << >>
    /\ current \in Agents /\ life[current] = "read" => rows[current] = log

(* The agent in use is ready. *)
InUse == current \in Agents /\ life[current] = "ready" /\ ~clearing[current]

(* Its array holds in order what is in the log, and what is not in the log *)
(* is refused, or last and on its way.                                     *)
MirrorInv ==
    InUse => /\ InOrder(log, history[current])
             /\ ToSet(log) = {m \in ToSet(history[current]) : status[m] = "stored"}

AskedIsLast ==
    \A m \in Messages : status[m] = "asked" =>
        /\ Len(history[current]) # 0
        /\ history[current][Len(history[current])] = m

(* The last messages of the array are those of the turn in flight.         *)
EndsWithTurn ==
    \A t \in InFlight : \E k \in 0..Len(history[current]) :
        {history[current][i] : i \in k+1..Len(history[current])} = Said(t)

(* The history taken for the LLM is the array as it is, until the LLM has  *)
(* answered.                                                               *)
SeenInv ==
    \A t \in Turns :
        \/ pc[t] = "llm"
        \/ pc[t] \in {"context", "search"} /\ calls[t] = 0 /\ OfUser(t)
        => seen[t] = history[current]

(* A turn of the user has a function called before it has a result.        *)
CallsCounted ==
    \A t \in Turns :
        \/ pc[t] \in {"appendCall", "tool", "delegate"}
        \/ pc[t] = "appendResult" /\ OfUser(t)
        => calls[t] # 0

(* The agent's task is the message of the turn in flight, if the user sent *)
(* one, and the last the user sent otherwise.                              *)
TaskInv ==
    /\ \A a \in Agents : task[a] # None => OfUser(task[a])
    /\ \A t \in InFlight : OfUser(t) => task[current] = t
    /\ \A t \in Turns : searched[t] # None =>
          pc[t] = "search" /\ searched[t] = task[current]

(* A function call is followed by its result or the specialist's answer.   *)
Answered(s, i) ==
    /\ i < Len(s) /\ s[i + 1].turn = s[i].turn /\ s[i + 1].n = s[i].n
    /\ s[i + 1].kind \in {"result", "answer"}

Replies(m) == {[m EXCEPT !.kind = k] : k \in {"result", "answer"}}

(* It will have none: the turn rejected, or the memory refused it.         *)
Excused(m) ==
    outcome[m.turn] = "threw" \/ \E r \in Replies(m) : status[r] = "refused"

(* The function is being called; what follows is on its way to the log.    *)
Calling(m) ==
    /\ m.turn \in InFlight /\ m.n = calls[m.turn]
    /\ pc[m.turn] \in {"appendCall", "tool", "delegate"}

Replying(m) == \E r \in Replies(m) : status[r] = "asked"

ArrayCallsInv ==
    current \in Agents => \A i \in 1..Len(history[current]) :
        LET m == history[current][i] IN m.kind = "call" =>
            \/ Answered(history[current], i) \/ Excused(m)
            \/ i = Len(history[current]) /\ Calling(m)

LogCallsInv ==
    \A i \in 1..Len(log) :
        LET m == log[i] IN m.kind = "call" =>
            \/ Answered(log, i) \/ Excused(m)
            \/ i = Len(log) /\ (Calling(m) \/ Replying(m))

SequentialInv ==
    /\ OneTurn /\ LoadInv /\ MirrorInv /\ AskedIsLast /\ EndsWithTurn
    /\ SeenInv /\ CallsCounted /\ TaskInv /\ ArrayCallsInv /\ LogCallsInv

(* What the general invariant says of a state.                             *)
LEMMA AskedInFlight ==
    ASSUME TypeOK, OneAppend, NEW m \in Messages, status[m] = "asked"
    PROVE  /\ m.turn \in InFlight /\ m.n = calls[m.turn]
           /\ Awaits(pc[m.turn], m.kind)
BY MessageParts DEF OneAppend, Awaits, InFlight

LEMMA RepliesAre ==
    ASSUME NEW m \in Messages
    PROVE  \A r : r \in Replies(m) <=>
              /\ r \in Messages /\ r.turn = m.turn /\ r.n = m.n
              /\ r.kind \in {"result", "answer"}
<1>1. ASSUME NEW k \in {"result", "answer"}
      PROVE  [m EXCEPT !.kind = k] = [turn |-> m.turn, kind |-> k, n |-> m.n]
  BY MessageParts DEF Messages
<1>2. ASSUME NEW r, r \in Replies(m)
      PROVE  /\ r \in Messages /\ r.turn = m.turn /\ r.n = m.n
             /\ r.kind \in {"result", "answer"}
  <2>1. PICK k \in {"result", "answer"} : r = [turn |-> m.turn, kind |-> k, n |-> m.n]
    BY <1>1, <1>2 DEF Replies
  <2> QED BY <2>1, MessageParts, MessageType
<1>3. ASSUME NEW r \in Messages, r.turn = m.turn, r.n = m.n,
             r.kind \in {"result", "answer"}
      PROVE  r \in Replies(m)
  <2>1. r = [turn |-> m.turn, kind |-> r.kind, n |-> m.n]
    BY <1>3, MessageParts
  <2> QED BY <1>1, <1>3, <2>1 DEF Replies
<1> QED BY <1>2, <1>3

LEMMA ElementsOf ==
    ASSUME NEW s \in Seq(Messages)
    PROVE  /\ ToSet(s) = {s[i] : i \in 1..Len(s)}
           /\ ToSet(s) \subseteq Messages
           /\ \A i \in 1..Len(s) : s[i] \in ToSet(s)
           /\ \A m \in ToSet(s) : \E i \in 1..Len(s) : s[i] = m
<1>1. DOMAIN s = 1..Len(s)
  OBVIOUS
<1>2. ToSet(s) = {s[i] : i \in 1..Len(s)}
  BY <1>1 DEF ToSet
<1> QED BY <1>2

LEMMA ElementsOfAppend ==
    ASSUME NEW s \in Seq(Messages), NEW m \in Messages
    PROVE  /\ Append(s, m) \in Seq(Messages) /\ Len(Append(s, m)) = Len(s) + 1
           /\ \A i \in 1..Len(s) : Append(s, m)[i] = s[i]
           /\ Append(s, m)[Len(s) + 1] = m
           /\ ToSet(Append(s, m)) = ToSet(s) \cup {m}
<1>1. /\ Append(s, m) \in Seq(Messages) /\ Len(Append(s, m)) = Len(s) + 1
      /\ \A i \in 1..Len(s) : Append(s, m)[i] = s[i]
      /\ Append(s, m)[Len(s) + 1] = m
  OBVIOUS
<1>2. ASSUME NEW k, k \in ToSet(Append(s, m))
      PROVE  k \in ToSet(s) \cup {m}
  <2>1. PICK i \in 1..Len(s) + 1 : Append(s, m)[i] = k
    BY <1>1, <1>2, ElementsOf
  <2>2. CASE i \in 1..Len(s)
    BY <1>1, <2>1, <2>2, ElementsOf
  <2>3. CASE i = Len(s) + 1
    BY <1>1, <2>1, <2>3
  <2> QED BY <2>2, <2>3
<1>3. ASSUME NEW k, k \in ToSet(s) \cup {m}
      PROVE  k \in ToSet(Append(s, m))
  <2>1. CASE k \in ToSet(s)
    <3>1. PICK i \in 1..Len(s) : s[i] = k
      BY <2>1, ElementsOf
    <3>2. i \in 1..Len(Append(s, m)) /\ Append(s, m)[i] = k
      BY <1>1, <3>1
    <3> QED BY <1>1, <3>2, ElementsOf
  <2>2. CASE k = m
    <3>1. Len(s) + 1 \in 1..Len(Append(s, m))
      BY <1>1
    <3> QED BY <1>1, <2>2, <3>1, ElementsOf
  <2> QED BY <1>3, <2>1, <2>2
<1> QED BY <1>1, <1>2, <1>3

(* In order after a push to the array, and after the log took its last.    *)
LEMMA PushKeepsOrder ==
    ASSUME NEW s \in Seq(Messages), NEW h \in Seq(Messages), NEW m \in Messages,
           InOrder(s, h)
    PROVE  InOrder(s, Append(h, m))
<1>1. /\ Append(h, m) \in Seq(Messages) /\ Len(Append(h, m)) = Len(h) + 1
      /\ \A i \in 1..Len(h) : Append(h, m)[i] = h[i]
  OBVIOUS
<1>2. ToSet(s) \subseteq ToSet(Append(h, m))
  BY ElementsOfAppend DEF InOrder
<1>3. ASSUME NEW i \in 1..Len(s), NEW j \in 1..Len(s), i < j
      PROVE  \E k, l \in 1..Len(Append(h, m)) :
                k < l /\ Append(h, m)[k] = s[i] /\ Append(h, m)[l] = s[j]
  <2>1. PICK k \in 1..Len(h), l \in 1..Len(h) : k < l /\ h[k] = s[i] /\ h[l] = s[j]
    BY <1>3 DEF InOrder
  <2> QED BY <1>1, <2>1
<1> QED BY <1>2, <1>3 DEF InOrder

LEMMA StoreKeepsOrder ==
    ASSUME NEW s \in Seq(Messages), NEW h \in Seq(Messages), NEW m \in Messages,
           InOrder(s, h), Len(h) # 0, h[Len(h)] = m,
           \A i \in 1..Len(s) : s[i] # m
    PROVE  InOrder(Append(s, m), h)
<1>1. /\ Append(s, m) \in Seq(Messages) /\ Len(Append(s, m)) = Len(s) + 1
      /\ \A i \in 1..Len(s) : Append(s, m)[i] = s[i]
      /\ Append(s, m)[Len(s) + 1] = m
  OBVIOUS
<1>2. ToSet(Append(s, m)) \subseteq ToSet(h)
  <2>1. Len(h) \in 1..Len(h)
    OBVIOUS
  <2>2. m \in ToSet(h)
    BY <2>1, ElementsOf
  <2> QED BY <2>2, ElementsOfAppend DEF InOrder
<1>3. ASSUME NEW i \in 1..Len(s) + 1, NEW j \in 1..Len(s) + 1, i < j
      PROVE  \E k, l \in 1..Len(h) :
                k < l /\ h[k] = Append(s, m)[i] /\ h[l] = Append(s, m)[j]
  <2>1. CASE j \in 1..Len(s)
    BY <1>1, <1>3, <2>1 DEF InOrder
  <2>2. CASE j = Len(s) + 1
    <3>1. i \in 1..Len(s) /\ s[i] \in ToSet(h)
      <4>1. i \in 1..Len(s)
        BY <1>3, <2>2
      <4> QED BY <4>1, ElementsOf DEF InOrder
    <3>2. PICK k \in 1..Len(h) : h[k] = s[i]
      BY <3>1, ElementsOf
    <3>3. k # Len(h)
      BY <3>1, <3>2
    <3> QED BY <1>1, <2>2, <3>1, <3>2, <3>3
  <2> QED BY <2>1, <2>2
<1>4. 1..Len(Append(s, m)) = 1..Len(s) + 1
  BY <1>1
<1> QED BY <1>2, <1>3, <1>4 DEF InOrder

(* Conjuncts of SequentialInv that a step does not touch.                  *)
LEMMA LogCallsStutter ==
    ASSUME LogCallsInv, UNCHANGED <<log, status, pc, calls, outcome>>
    PROVE  LogCallsInv'
BY DEF LogCallsInv, Answered, Excused, Calling, Replying, Replies, InFlight

LEMMA ArrayCallsStutter ==
    ASSUME ArrayCallsInv, UNCHANGED <<history, current, status, pc, calls, outcome>>
    PROVE  ArrayCallsInv'
BY DEF ArrayCallsInv, Answered, Excused, Calling, Replies, InFlight

LEMMA TaskStutter ==
    ASSUME TaskInv, UNCHANGED <<task, current, searched, status, pc>>
    PROVE  TaskInv'
BY DEF TaskInv, OfUser, InFlight

LEMMA SeenStutter ==
    ASSUME SeenInv, UNCHANGED <<seen, history, current, status, pc, calls>>
    PROVE  SeenInv'
BY DEF SeenInv, OfUser

LEMMA CountStutter ==
    ASSUME CallsCounted, UNCHANGED <<status, pc, calls>>
    PROVE  CallsCounted'
BY DEF CallsCounted, OfUser

LEMMA EndsStutter ==
    ASSUME EndsWithTurn, UNCHANGED <<history, current, status, pc>>
    PROVE  EndsWithTurn'
BY DEF EndsWithTurn, Said, InFlight

LEMMA MirrorStutter ==
    ASSUME MirrorInv, UNCHANGED <<log, history, current, status, life, clearing>>
    PROVE  MirrorInv'
BY DEF MirrorInv, InUse, InOrder

(* While no turn is in flight most of it says nothing. *)
LEMMA NoTurn ==
    ASSUME RecordsInv, OneTurn, InFlight = {}, UNCHANGED <<status, turnVars>>,
           TaskInv, UNCHANGED task
    PROVE  /\ InFlight' = {} /\ AskedIsLast' /\ EndsWithTurn' /\ SeenInv' /\ TaskInv'
           /\ \A m \in Messages : status[m] # "asked"
<1>1. \A t \in Turns : pc[t] \in {"idle", "done"}
  BY DEF RecordsInv, TypeOK, InFlight
<1>2. \A m \in Messages : status[m] # "asked"
  BY AskedInFlight DEF RecordsInv, TurnsInv
<1>3. InFlight' = {}
  BY DEF turnVars, InFlight
<1>4. AskedIsLast' /\ EndsWithTurn'
  BY <1>2, <1>3 DEF AskedIsLast, EndsWithTurn
<1>5. SeenInv'
  BY <1>1 DEF SeenInv, turnVars
<1>6. TaskInv'
  BY <1>1, <1>3 DEF TaskInv, OfUser, turnVars
<1> QED BY <1>2, <1>3, <1>4, <1>5, <1>6

LEMMA LoadKeepsSequential ==
    ASSUME OneAtATime, IInv, SequentialInv, NEW a \in Agents, Load(a)
    PROVE  SequentialInv'
<1>1. /\ RecordsInv /\ TypeOK /\ OneTurn /\ LoadInv /\ MirrorInv /\ AskedIsLast
      /\ EndsWithTurn /\ SeenInv /\ CallsCounted /\ TaskInv /\ ArrayCallsInv /\ LogCallsInv
  BY DEF SequentialInv, IInv, RecordsInv
<1>2. /\ UNCHANGED <<memoryVars, turnVars, task, clearing>>
      /\ UNCHANGED <<log, status, pc, agent, calls, seen, searched, outcome>>
      /\ InFlight' = InFlight
  BY DEF Load, Construct, LoadReads, LoadReplaces, LoadFails, turnVars, memoryVars, InFlight
<1>3. LogCallsInv' /\ CallsCounted'
  BY <1>1, <1>2, LogCallsStutter, CountStutter
<1>4. ASSUME a = current, life[current] # "ready"
      PROVE  InFlight = {} /\ \A b \in Agents : ~clearing[b]
  BY <1>1, <1>4 DEF OneTurn
<1>5. CASE Construct(a)
  <2>1. /\ InFlight = {} /\ \A b \in Agents : ~clearing[b]
        /\ life[a] = "none" /\ life' = [life EXCEPT ![a] = "loading"]
        /\ current' = a /\ UNCHANGED <<rows, history>>
    BY <1>5 DEF Construct, OneAtATime
  <2>2. /\ InFlight' = {} /\ AskedIsLast' /\ EndsWithTurn' /\ SeenInv' /\ TaskInv'
    BY <1>1, <1>2, <2>1, NoTurn
  <2>3. OneTurn'
    BY <1>1, <1>2, <2>1, <2>2 DEF OneTurn
  <2>4. LoadInv' /\ life'[a] = "loading"
    BY <1>1, <1>2, <2>1 DEF LoadInv, TypeOK
  <2>5. MirrorInv'
    BY <2>1, <2>4 DEF MirrorInv, InUse
  <2>6. history'[a] = << >>
    BY <1>1, <2>1 DEF LoadInv
  <2>7. ArrayCallsInv'
    BY <2>1, <2>6 DEF ArrayCallsInv
  <2> QED BY <1>3, <2>2, <2>3, <2>4, <2>5, <2>7 DEF SequentialInv
<1>6. CASE LoadReads(a)
  <2>1. /\ life[a] = "loading" /\ life' = [life EXCEPT ![a] = "read"]
        /\ rows' = [rows EXCEPT ![a] = log] /\ UNCHANGED <<history, current>>
    BY <1>6 DEF LoadReads
  <2>2. /\ TaskInv' /\ SeenInv' /\ EndsWithTurn' /\ ArrayCallsInv' /\ AskedIsLast'
    BY <1>1, <1>2, <2>1, TaskStutter, SeenStutter, EndsStutter, ArrayCallsStutter
       DEF AskedIsLast
  <2>3. OneTurn'
    BY <1>1, <1>2, <2>1 DEF OneTurn, TypeOK
  <2>4. LoadInv'
    BY <1>1, <1>2, <2>1 DEF LoadInv, TypeOK
  <2>5. MirrorInv'
    BY <1>1, <1>2, <2>1 DEF MirrorInv, InUse, InOrder, TypeOK
  <2> QED BY <1>3, <2>2, <2>3, <2>4, <2>5 DEF SequentialInv
<1>7. CASE LoadReplaces(a)
  <2>1. /\ life[a] = "read" /\ life' = [life EXCEPT ![a] = "ready"]
        /\ history' = [history EXCEPT ![a] = rows[a]] /\ rows' = [rows EXCEPT ![a] = << >>]
        /\ UNCHANGED current
    BY <1>7 DEF LoadReplaces, Loaded
  <2>2. CASE a = current
    <3>1. /\ InFlight = {} /\ \A b \in Agents : ~clearing[b]
      BY <1>4, <2>1, <2>2
    <3>2. /\ InFlight' = {} /\ AskedIsLast' /\ EndsWithTurn' /\ SeenInv' /\ TaskInv'
      BY <1>1, <1>2, <3>1, NoTurn
    <3>3. OneTurn'
      BY <1>1, <1>2, <3>1, <3>2 DEF OneTurn
    <3>4. history'[current] = log /\ rows'[a] = << >> /\ life'[a] = "ready"
      BY <1>1, <2>1, <2>2 DEF LoadInv, TypeOK
    <3>5. LoadInv'
      BY <1>1, <1>2, <2>1, <2>2, <3>4 DEF LoadInv, TypeOK
    <3>6. MirrorInv'
      <4>1. InOrder(log, log)
        BY DEF InOrder
      <4>2. ToSet(log) = {m \in ToSet(log) : status[m] = "stored"}
        <5>1. \A i \in 1..Len(log) : status[log[i]] = "stored"
          BY <1>1 DEF RecordsInv, LogInv
        <5>2. \A m \in ToSet(log) : status[m] = "stored"
          <6> TAKE m \in ToSet(log)
          <6>1. log \in Seq(Messages)
            BY <1>1 DEF TypeOK
          <6>2. PICK i \in 1..Len(log) : log[i] = m
            BY <6>1, ElementsOf
          <6> QED BY <5>1, <6>2
        <5> QED BY <5>2
      <4> QED BY <1>2, <2>1, <3>4, <4>1, <4>2 DEF MirrorInv
    <3>7. ArrayCallsInv'
      <4>1. \A m \in Messages : ~Replying(m)
        BY <1>1, <1>2, <3>1, NoTurn, RepliesAre DEF Replying
      <4>2. \A i \in 1..Len(log) : ~Replying(log[i]) /\ ~Calling(log[i])
        BY <1>1, <3>1, <4>1 DEF TypeOK, Calling
      <4>3. \A i \in 1..Len(log) : log[i].kind = "call" =>
               Answered(log, i) \/ Excused(log[i])
        BY <1>1, <4>2 DEF LogCallsInv
      <4> QED BY <1>2, <2>1, <3>4, <4>3 DEF ArrayCallsInv, Excused, Answered
    <3> QED BY <1>3, <3>2, <3>3, <3>5, <3>6, <3>7 DEF SequentialInv
  <2>3. CASE a # current
    <3>1. current \in Agents => /\ history'[current] = history[current]
                               /\ life'[current] = life[current]
                               /\ rows'[current] = rows[current]
      BY <1>1, <2>1, <2>3 DEF TypeOK
    <3>2. AskedIsLast' /\ EndsWithTurn' /\ SeenInv' /\ TaskInv'
      <4>1. CASE InFlight = {}
        BY <1>1, <1>2, <4>1, NoTurn
      <4>2. CASE InFlight # {}
        <5>1. current \in Agents
          BY <1>1, <4>2 DEF IInv, TurnsHaveAgents, OneTurn, InFlight
        <5>2. AskedIsLast' /\ EndsWithTurn' /\ SeenInv'
          BY <1>1, <1>2, <2>1, <3>1, <5>1
             DEF AskedIsLast, EndsWithTurn, Said, SeenInv, OfUser
        <5>3. TaskInv'
          BY <1>1, <1>2, <2>1, TaskStutter
        <5> QED BY <5>2, <5>3
      <4> QED BY <4>1, <4>2
    <3>3. OneTurn'
      BY <1>1, <1>2, <2>1, <2>3 DEF OneTurn, TypeOK
    <3>4. LoadInv'
      BY <1>1, <1>2, <2>1, <2>3, <3>1 DEF LoadInv, TypeOK
    <3>5. MirrorInv'
      <4> SUFFICES ASSUME InUse'
                   PROVE  /\ InOrder(log, history'[current])
                          /\ ToSet(log) = {m \in ToSet(history'[current]) : status[m] = "stored"}
        BY <1>2, <2>1 DEF MirrorInv, InOrder
      <4>1. InUse /\ history'[current] = history[current]
        BY <1>2, <2>1, <3>1 DEF InUse
      <4> QED BY <1>1, <4>1 DEF MirrorInv
    <3>6. ArrayCallsInv'
      BY <1>1, <1>2, <2>1, <3>1 DEF ArrayCallsInv, Answered, Excused, Calling, InFlight
    <3> QED BY <1>3, <3>2, <3>3, <3>4, <3>5, <3>6 DEF SequentialInv
  <2> QED BY <2>2, <2>3
<1>8. CASE LoadFails(a)
  BY <1>8 DEF LoadFails, OneAtATime
<1> QED BY <1>5, <1>6, <1>7, <1>8 DEF Load

LEMMA ClearKeepsSequential ==
    ASSUME OneAtATime, IInv, SequentialInv, NEW a \in Agents,
           ClearHistory(a) \/ MemoryClears(a)
    PROVE  SequentialInv'
<1>1. /\ RecordsInv /\ TypeOK /\ OneTurn /\ LoadInv /\ MirrorInv /\ AskedIsLast
      /\ EndsWithTurn /\ SeenInv /\ CallsCounted /\ TaskInv /\ ArrayCallsInv /\ LogCallsInv
  BY DEF SequentialInv, IInv, RecordsInv
<1>2. /\ a = current /\ InFlight = {} /\ life[a] = "ready"
      /\ UNCHANGED <<status, turnVars, task, life, rows, current>>
  BY <1>1, ConstantsAssumption
     DEF ClearHistory, MemoryClears, OneAtATime, OneTurn, memoryVars, Memory!Clear
<1>3. UNCHANGED <<pc, calls, outcome>>
  BY <1>2 DEF turnVars
<1>4. /\ InFlight' = {} /\ AskedIsLast' /\ EndsWithTurn' /\ SeenInv' /\ TaskInv'
      /\ CallsCounted'
  BY <1>1, <1>2, <1>3, NoTurn, CountStutter
<1>5. LoadInv'
  <2>1. \A b \in Agents : b # a => history'[b] = history[b]
    BY <1>1 DEF ClearHistory, MemoryClears, TypeOK
  <2> QED BY <1>1, <1>2, <2>1 DEF LoadInv
<1>6. CASE ClearHistory(a)
  <2>1. /\ history' = [history EXCEPT ![a] = << >>] /\ clearing' = [clearing EXCEPT ![a] = TRUE]
        /\ UNCHANGED log
    BY <1>6 DEF ClearHistory, memoryVars
  <2>2. history'[a] = << >> /\ clearing'[a]
    BY <1>1, <2>1 DEF TypeOK
  <2>3. OneTurn'
    BY <1>1, <1>2, <1>3, <1>4, <2>1, <2>2 DEF OneTurn, TypeOK
  <2>4. MirrorInv' /\ ArrayCallsInv'
    BY <1>2, <2>2 DEF MirrorInv, InUse, ArrayCallsInv
  <2>5. LogCallsInv'
    BY <1>1, <1>2, <1>3, <2>1, LogCallsStutter
  <2> QED BY <1>4, <1>5, <2>3, <2>4, <2>5 DEF SequentialInv
<1>7. CASE MemoryClears(a)
  <2>1. /\ log' = << >> /\ clearing[a] /\ clearing' = [clearing EXCEPT ![a] = FALSE]
        /\ UNCHANGED history
    BY <1>7 DEF MemoryClears, OneAtATime, Memory!Clear
  <2>2. history'[a] = << >>
    BY <1>1, <2>1 DEF OneTurn
  <2>3. OneTurn'
    BY <1>1, <1>2, <1>3, <1>4, <2>1 DEF OneTurn, TypeOK
  <2>4. MirrorInv'
    <3>1. InOrder(<< >>, << >>) /\ ToSet(<< >>) = {}
      BY DEF InOrder, ToSet
    <3> QED BY <1>2, <2>1, <2>2, <3>1 DEF MirrorInv
  <2>5. ArrayCallsInv' /\ LogCallsInv'
    BY <1>2, <2>1, <2>2 DEF ArrayCallsInv, LogCallsInv
  <2> QED BY <1>4, <1>5, <2>3, <2>4, <2>5 DEF SequentialInv
<1> QED BY <1>6, <1>7

(* The memory's answer to an append: its message is the last of the array. *)
LEMMA MemoryKeepsSequential ==
    ASSUME IInv, SequentialInv, NEW m \in Messages, MemoryStores(m) \/ MemoryRefuses(m)
    PROVE  SequentialInv'
<1>1. /\ RecordsInv /\ TypeOK /\ OneAppend /\ OneTurn /\ LoadInv /\ MirrorInv /\ AskedIsLast
      /\ EndsWithTurn /\ SeenInv /\ CallsCounted /\ TaskInv /\ ArrayCallsInv /\ LogCallsInv
  BY DEF SequentialInv, IInv, RecordsInv, TurnsInv
<1>2. /\ status[m] = "asked" /\ UNCHANGED <<agentVars, turnVars>>
      /\ \/ status' = [status EXCEPT ![m] = "stored"] /\ log' = Append(log, m)
         \/ status' = [status EXCEPT ![m] = "refused"] /\ log' = log
  BY DEF MemoryStores, MemoryRefuses, Memory!Append_Store, Memory!Append_Refuse
<1>3. /\ UNCHANGED <<life, rows, history, task, clearing, current>>
      /\ UNCHANGED <<pc, agent, calls, seen, searched, outcome>>
      /\ InFlight' = InFlight
  BY <1>2 DEF agentVars, turnVars, InFlight
<1>4. /\ \A k \in Messages : k # m => status'[k] = status[k]
      /\ status'[m] # "new" /\ status'[m] # "asked"
      /\ \A k \in Messages : (status'[k] = "new") <=> (status[k] = "new")
  BY <1>1, <1>2 DEF TypeOK
<1>5. m.turn \in InFlight /\ m.n = calls[m.turn] /\ Awaits(pc[m.turn], m.kind)
  BY <1>1, <1>2, AskedInFlight
<1>6. /\ InUse /\ history[current] \in Seq(Messages) /\ Len(history[current]) # 0
      /\ history[current][Len(history[current])] = m
  <2>1. m.turn \in Turns /\ pc[m.turn] # "idle"
    BY <1>5 DEF InFlight
  <2>2. agent[m.turn] = current /\ current \in Agents
    BY <1>1, <1>5, <2>1 DEF IInv, TurnsHaveAgents, OneTurn
  <2> QED BY <1>1, <1>2, <1>5, <2>2 DEF OneTurn, InUse, AskedIsLast, TypeOK
<1>7. OneTurn' /\ LoadInv'
  BY <1>1, <1>3, <1>6 DEF OneTurn, LoadInv, InUse
<1>8. AskedIsLast'
  BY <1>1, <1>3, <1>4 DEF AskedIsLast
<1>9. EndsWithTurn'
  BY <1>1, <1>3, <1>4 DEF EndsWithTurn, Said
<1>10. \A t \in Turns : OfUser(t)' <=> OfUser(t)
  <2>1. 0 \in 0..MaxCalls
    BY ConstantsAssumption
  <2>2. \A t \in Turns : [turn |-> t, kind |-> "user", n |-> 0] \in Messages
    BY <2>1, MessageType
  <2> QED BY <1>4, <2>2 DEF OfUser
<1>11. SeenInv' /\ CallsCounted'
  BY <1>1, <1>3, <1>10 DEF SeenInv, CallsCounted
<1>12. TaskInv'
  <2>1. \A a \in Agents : task[a] # None => task[a] \in Turns
    BY <1>1 DEF TypeOK
  <2>2. \A t \in InFlight : t \in Turns
    BY DEF InFlight
  <2> QED BY <1>1, <1>3, <1>10, <2>1, <2>2 DEF TaskInv
<1>13. MirrorInv'
  <2>1. m \in ToSet(history[current])
    <3>1. Len(history[current]) \in 1..Len(history[current])
      BY <1>6
    <3> QED BY <1>6, <3>1, ElementsOf
  <2>2. ToSet(history[current]) \subseteq Messages
    BY <1>6, ElementsOf
  <2>3. /\ InOrder(log, history[current])
        /\ ToSet(log) = {k \in ToSet(history[current]) : status[k] = "stored"}
    BY <1>1, <1>6 DEF MirrorInv
  <2>4. CASE status' = [status EXCEPT ![m] = "stored"] /\ log' = Append(log, m)
    <3>1. \A i \in 1..Len(log) : log[i] # m
      <4>1. \A i \in 1..Len(log) : log[i] \in ToSet(log)
        BY <1>1, ElementsOf DEF TypeOK
      <4> QED BY <1>2, <2>3, <4>1
    <3>2. InOrder(log', history[current])
      BY <1>1, <1>6, <2>3, <2>4, <3>1, StoreKeepsOrder DEF TypeOK
    <3>3. ToSet(log') = ToSet(log) \cup {m}
      BY <1>1, <2>4, ElementsOfAppend DEF TypeOK
    <3>4. ToSet(log') = {k \in ToSet(history[current]) : status'[k] = "stored"}
      BY <1>1, <1>4, <2>1, <2>2, <2>3, <2>4, <3>3 DEF TypeOK
    <3> QED BY <1>3, <3>2, <3>4 DEF MirrorInv
  <2>5. CASE status' = [status EXCEPT ![m] = "refused"] /\ log' = log
    <3>1. ToSet(log') = {k \in ToSet(history[current]) : status'[k] = "stored"}
      BY <1>1, <1>2, <1>4, <2>1, <2>2, <2>3, <2>5 DEF TypeOK
    <3> QED BY <1>3, <2>3, <2>5, <3>1 DEF MirrorInv
  <2> QED BY <1>2, <2>4, <2>5
<1>14. \A k : Calling(k)' <=> Calling(k)
  BY <1>3 DEF Calling
<1>15. \A k \in Messages : Excused(k) => Excused(k)'
  BY <1>2, <1>3, <1>4, RepliesAre DEF Excused, Replies
<1>16. ArrayCallsInv'
  BY <1>1, <1>3, <1>6, <1>14, <1>15 DEF ArrayCallsInv, Answered
<1>17. LogCallsInv'
  <2>1. ASSUME NEW k \in Messages, Replying(k)
        PROVE  m \in Replies(k)
    <3>1. PICK r \in Replies(k) : status[r] = "asked"
      BY <2>1 DEF Replying
    <3>2. r \in Messages /\ r.turn = k.turn
      BY <3>1, RepliesAre
    <3>3. r.turn \in InFlight /\ r.n = calls[r.turn] /\ Awaits(pc[r.turn], r.kind)
      BY <1>1, <3>1, <3>2, AskedInFlight
    <3>4. r.turn = m.turn
      BY <1>1, <1>5, <3>3 DEF OneTurn
    <3>5. r.n = m.n /\ r.kind = m.kind
      BY <1>5, <3>3, <3>4 DEF Awaits
    <3>6. r = m
      BY <3>2, <3>4, <3>5, MessageParts
    <3> QED BY <3>1, <3>6
  <2>2. CASE status' = [status EXCEPT ![m] = "refused"] /\ log' = log
    <3>1. ASSUME NEW k \in Messages, Replying(k)
          PROVE  Excused(k)'
      BY <1>1, <2>1, <2>2, <3>1 DEF Excused, Replies, TypeOK
    <3>2. \A i \in 1..Len(log) : log[i] \in Messages
      BY <1>1 DEF TypeOK
    <3> QED BY <1>1, <1>14, <1>15, <2>2, <3>1, <3>2 DEF LogCallsInv, Answered
  <2>3. CASE status' = [status EXCEPT ![m] = "stored"] /\ log' = Append(log, m)
    <3>1. /\ log' \in Seq(Messages) /\ Len(log') = Len(log) + 1 /\ Len(log) \in Nat
          /\ \A i \in 1..Len(log) : log'[i] = log[i] /\ log[i] \in Messages
          /\ log'[Len(log) + 1] = m
      BY <1>1, <2>3, ElementsOfAppend DEF TypeOK
    <3>2. ASSUME NEW i \in 1..Len(log) + 1, NEW k \in Messages, k = log'[i], k.kind = "call"
          PROVE  \/ Answered(log', i) \/ Excused(k)'
                 \/ i = Len(log') /\ Calling(k)
      <4>1. CASE i = Len(log) + 1
        <5>1. k = m /\ pc[m.turn] = "appendCall"
          BY <1>5, <3>1, <3>2, <4>1 DEF Awaits
        <5> QED BY <1>5, <3>1, <4>1, <5>1 DEF Calling
      <4>2. CASE i \in 1..Len(log)
        <5>1. log[i] = k
          BY <3>1, <3>2, <4>2
        <5>2. CASE Answered(log, i)
          BY <3>1, <4>2, <5>2 DEF Answered
        <5>3. CASE Excused(k)
          BY <1>15, <5>3
        <5>4. CASE i = Len(log) /\ Calling(k)
          <6>1. k.turn = m.turn
            BY <1>1, <1>5, <5>4 DEF OneTurn, Calling
          <6>2. k.n = m.n /\ m.kind = "call"
            BY <1>5, <5>4, <6>1 DEF Calling, Awaits
          <6>3. k = m
            BY <3>2, <6>1, <6>2, MessageParts
          <6>4. status[k] = "stored"
            BY <1>1, <4>2, <5>1 DEF RecordsInv, LogInv
          <6> QED BY <1>2, <6>3, <6>4
        <5>5. CASE i = Len(log) /\ Replying(k)
          <6>1. m \in Replies(k)
            BY <2>1, <5>5
          <6>2. m.turn = k.turn /\ m.n = k.n /\ m.kind \in {"result", "answer"}
            BY <6>1, RepliesAre
          <6> QED BY <3>1, <4>2, <5>1, <5>5, <6>2 DEF Answered
        <5> QED BY <1>1, <3>2, <4>2, <5>1, <5>2, <5>3, <5>4, <5>5 DEF LogCallsInv
      <4> QED BY <4>1, <4>2
    <3>3. ASSUME NEW i \in 1..Len(log'), log'[i].kind = "call"
          PROVE  \/ Answered(log', i) \/ Excused(log[i])'
                 \/ i = Len(log') /\ Calling(log[i])'
      <4>1. PICK k \in Messages : k = log'[i]
        BY <3>1
      <4>2. Answered(log', i) \/ Excused(k)' \/ (i = Len(log') /\ Calling(k))
        BY <3>1, <3>2, <3>3, <4>1
      <4> QED BY <1>3, <4>1, <4>2 DEF Excused, Calling
    <3> QED BY <3>3 DEF LogCallsInv
  <2> QED BY <1>2, <2>2, <2>3
<1> QED BY <1>7, <1>8, <1>9, <1>11, <1>12, <1>13, <1>16, <1>17 DEF SequentialInv

(* The turn in flight, or the one that begins, records a message.          *)
LEMMA SpeakKeepsSequence ==
    ASSUME TypeOK, OneTurn, LoadInv, MirrorInv, AskedIsLast, ArrayCallsInv, LogCallsInv,
           InUse, NEW t \in Turns, InFlight \subseteq {t}, pc[t] # "done",
           NEW m \in Messages, m.turn = t, status[m] = "new",
           \A k \in Messages : status[k] # "asked",
           \E n \in 0..Len(history[current]) :
              {history[current][i] : i \in n+1..Len(history[current])} = Said(t),
           \A c \in Messages : c.kind = "call" /\ Calling(c) => m \in Replies(c),
           AddToHistory(current, m), agent'[t] = current,
           NEW p \in PCs \ {"idle", "done"}, Become(t, p),
           m.kind = "call" => p = "appendCall" /\ m.n = calls'[t],
           UNCHANGED <<life, rows, clearing, current, outcome>>
    PROVE  /\ OneTurn' /\ LoadInv' /\ MirrorInv' /\ AskedIsLast' /\ EndsWithTurn'
           /\ ArrayCallsInv' /\ LogCallsInv'
<1> DEFINE h == history[current]
<1>1. /\ status' = [status EXCEPT ![m] = "asked"] /\ log' = log
      /\ history' = [history EXCEPT ![current] = Append(@, m)]
      /\ pc' = [pc EXCEPT ![t] = p]
  BY DEF AddToHistory, Memory!Append_Ask, Become
<1>2. /\ current \in Agents /\ life[current] = "ready" /\ ~clearing[current]
      /\ h \in Seq(Messages) /\ Len(h) \in Nat
  BY DEF InUse, TypeOK
<1>3. /\ history'[current] = Append(h, m) /\ Append(h, m) \in Seq(Messages)
      /\ Len(Append(h, m)) = Len(h) + 1 /\ Append(h, m)[Len(h) + 1] = m
      /\ \A i \in 1..Len(h) : Append(h, m)[i] = h[i] /\ h[i] \in Messages
      /\ ToSet(Append(h, m)) = ToSet(h) \cup {m}
      /\ \A a \in Agents : a # current => history'[a] = history[a]
  BY <1>1, <1>2, ElementsOfAppend DEF TypeOK
<1>4. InFlight' = {t} /\ pc'[t] = p
  BY <1>1 DEF TypeOK, InFlight
<1>5. /\ \A k \in Messages : k # m => status'[k] = status[k]
      /\ status'[m] = "asked"
  BY <1>1 DEF TypeOK
<1> HIDE DEF h
<1>6. OneTurn'
  <2>1. \A a \in Agents : ~clearing[a]
    BY <1>2 DEF OneTurn
  <2>2. \A u \in Turns : pc'[u] # "done" => outcome[u] = "none"
    BY <1>1 DEF OneTurn, TypeOK
  <2> QED BY <1>2, <1>4, <2>1, <2>2 DEF OneTurn
<1>7. LoadInv'
  BY <1>1, <1>2, <1>3 DEF LoadInv
<1>8. MirrorInv'
  <2>1. InOrder(log, h) /\ ToSet(log) = {k \in ToSet(h) : status[k] = "stored"}
    BY DEF MirrorInv, h
  <2>2. InOrder(log, Append(h, m))
    BY <1>2, <2>1, PushKeepsOrder DEF TypeOK
  <2>3. {k \in ToSet(h) \cup {m} : status'[k] = "stored"} = ToSet(log)
    BY <1>2, <1>5, <2>1, ElementsOf
  <2> QED BY <1>1, <1>3, <2>2, <2>3 DEF MirrorInv
<1>9. AskedIsLast'
  BY <1>3, <1>5 DEF AskedIsLast
<1>10. EndsWithTurn'
  <2>1. PICK n \in 0..Len(h) : {h[i] : i \in n+1..Len(h)} = Said(t)
    BY DEF h
  <2>2. Said(t)' = Said(t) \cup {m}
    BY <1>5 DEF Said
  <2>3. ASSUME NEW k
        PROVE  k \in {Append(h, m)[i] : i \in n+1..Len(h)+1}
                  <=> k \in {h[i] : i \in n+1..Len(h)} \cup {m}
    <3>1. ASSUME NEW i \in n+1..Len(h)+1, k = Append(h, m)[i]
          PROVE  k \in {h[j] : j \in n+1..Len(h)} \cup {m}
      <4>1. CASE i = Len(h) + 1
        BY <1>3, <3>1, <4>1
      <4>2. CASE i \in n+1..Len(h)
        BY <1>2, <1>3, <3>1, <4>2
      <4> QED BY <1>2, <2>1, <4>1, <4>2
    <3>2. ASSUME NEW j \in n+1..Len(h), k = h[j]
          PROVE  k \in {Append(h, m)[i] : i \in n+1..Len(h)+1}
      <4>1. j \in n+1..Len(h)+1 /\ Append(h, m)[j] = k
        BY <1>2, <1>3, <3>2
      <4> QED BY <4>1
    <3>3. m \in {Append(h, m)[i] : i \in n+1..Len(h)+1}
      <4>1. Len(h) + 1 \in n+1..Len(h)+1
        BY <1>2
      <4> QED BY <1>3, <4>1
    <3> QED BY <3>1, <3>2, <3>3
  <2>4. {Append(h, m)[i] : i \in n+1..Len(h)+1} = Said(t)'
    BY <2>1, <2>2, <2>3
  <2>5. n \in 0..Len(h)+1
    BY <1>2
  <2>6. \E k \in 0..Len(history'[current]) :
           {history'[current][i] : i \in k+1..Len(history'[current])} = Said(t)'
    BY <1>3, <2>4, <2>5
  <2>7. \A u \in InFlight' : u = t
    BY <1>4
  <2> QED BY <2>6, <2>7 DEF EndsWithTurn
<1>11. \A c \in Messages : Excused(c) => Excused(c)'
  BY <1>1, <1>5, RepliesAre DEF Excused, Replies
<1>12. ArrayCallsInv'
  <2> SUFFICES ASSUME NEW i \in 1..Len(h) + 1, NEW c \in Messages,
                      c = Append(h, m)[i], c.kind = "call"
               PROVE  \/ Answered(Append(h, m), i) \/ Excused(c)'
                      \/ i = Len(h) + 1 /\ Calling(c)'
    BY <1>3 DEF ArrayCallsInv, Excused, Calling
  <2>1. CASE i = Len(h) + 1
    BY <1>3, <1>4, <2>1 DEF Calling
  <2>2. CASE i \in 1..Len(h)
    <3>1. c = h[i]
      BY <1>3, <2>2
    <3>2. CASE Answered(h, i)
      BY <1>2, <1>3, <2>2, <3>2 DEF Answered
    <3>3. CASE Excused(c)
      BY <1>11, <3>3
    <3>4. CASE i = Len(h) /\ Calling(c)
      <4>1. m.turn = c.turn /\ m.n = c.n /\ m.kind \in {"result", "answer"}
        BY <3>4, RepliesAre
      <4> QED BY <1>2, <1>3, <3>1, <3>4, <4>1 DEF Answered
    <3> QED BY <1>2, <2>2, <3>1, <3>2, <3>3, <3>4 DEF ArrayCallsInv, h
  <2> QED BY <1>2, <2>1, <2>2
<1>13. LogCallsInv'
  <2> SUFFICES ASSUME NEW i \in 1..Len(log), NEW c \in Messages,
                      c = log[i], c.kind = "call"
               PROVE  \/ Answered(log, i) \/ Excused(c)'
                      \/ i = Len(log) /\ Replying(c)'
    <3>1. \A i \in 1..Len(log) : log[i] \in Messages
      BY DEF TypeOK
    <3> QED BY <1>1, <3>1 DEF LogCallsInv, Answered, Excused, Replying
  <2>1. ~Replying(c)
    BY RepliesAre DEF Replying
  <2>2. Calling(c) => Replying(c)'
    BY <1>5 DEF Replying, Replies
  <2> QED BY <1>11, <2>1, <2>2 DEF LogCallsInv
<1> QED BY <1>6, <1>7, <1>8, <1>9, <1>10, <1>12, <1>13

LEMMA CallKeepsSequential ==
    ASSUME OneAtATime, IInv, SequentialInv, NEW t \in Turns, NEW a \in Agents,
           ProcessUserMessage(t, a) \/ ProcessFunctionResult(t, a)
    PROVE  SequentialInv'
<1>1. /\ RecordsInv /\ TypeOK /\ TurnsInv /\ OneTurn /\ LoadInv /\ MirrorInv /\ AskedIsLast
      /\ EndsWithTurn /\ SeenInv /\ CallsCounted /\ TaskInv /\ ArrayCallsInv /\ LogCallsInv
  BY DEF SequentialInv, IInv, RecordsInv
<1>2. PICK kind \in {"user", "result"}, p \in {"appendUser", "appendResult"} :
         /\ Call(t, a, kind) /\ Become(t, p)
         /\ \/ kind = "user" /\ p = "appendUser" /\ task' = SetTask(t, a)
            \/ kind = "result" /\ p = "appendResult" /\ task' = task
  BY DEF ProcessUserMessage, ProcessFunctionResult
<1> DEFINE m == Message(t, kind)
<1>3. /\ pc[t] = "idle" /\ Cardinality(InFlight) < 1
      /\ a = current /\ life[a] = "ready" /\ ~clearing[a]
      /\ agent' = [agent EXCEPT ![t] = a] /\ AddToHistory(a, m)
      /\ UNCHANGED <<life, rows, clearing, current, calls, seen, searched, outcome>>
  BY <1>2, ConstantsAssumption DEF Call, OneAtATime
<1>4. InFlight = {}
  <2>1. ASSUME NEW u \in InFlight
        PROVE  FALSE
    <3>1. InFlight = {u}
      BY <1>1 DEF OneTurn
    <3>2. Cardinality({u}) = 1
      BY FS_Singleton
    <3> QED BY <1>3, <3>1, <3>2
  <2> QED BY <2>1
<1>5. calls[t] = 0 /\ Said(t) = {} /\ \A k \in Messages : status[k] # "asked"
  <2>1. \A k \in Messages : status[k] # "asked"
    BY <1>1, <1>4, AskedInFlight DEF TurnsInv
  <2> QED BY <1>1, <1>3, <2>1 DEF TurnsInv, IdleHasNoCalls, SaidSoFar, Said
<1>6. m \in Messages /\ m.turn = t /\ m.kind = kind /\ m = [turn |-> t, kind |-> kind, n |-> 0]
  <2>1. 0 \in 0..MaxCalls
    BY ConstantsAssumption
  <2> QED BY <1>5, <2>1, MessageType DEF Message
<1>7. /\ status[m] = "new" /\ status' = [status EXCEPT ![m] = "asked"]
      /\ pc' = [pc EXCEPT ![t] = p] /\ history' = [history EXCEPT ![a] = Append(@, m)]
  BY <1>2, <1>3 DEF AddToHistory, Memory!Append_Ask, Become
<1> HIDE DEF m
<1>8. /\ OneTurn' /\ LoadInv' /\ MirrorInv' /\ AskedIsLast' /\ EndsWithTurn'
      /\ ArrayCallsInv' /\ LogCallsInv'
  <2>1. InUse /\ InFlight \subseteq {t} /\ pc[t] # "done"
    BY <1>3, <1>4 DEF InUse
  <2>2. \E n \in 0..Len(history[current]) :
           {history[current][i] : i \in n+1..Len(history[current])} = Said(t)
    <3> DEFINE n == Len(history[current])
    <3>1. n \in 0..n
      BY <1>1, <1>3 DEF TypeOK
    <3>2. {history[current][i] : i \in n+1..n} = Said(t)
      BY <1>5, <3>1
    <3> HIDE DEF n
    <3> QED BY <3>1, <3>2 DEF n
  <2>3. \A c \in Messages : ~Calling(c)
    BY <1>4 DEF Calling
  <2>4. agent'[t] = current /\ p \in PCs \ {"idle", "done"} /\ m.kind # "call"
    BY <1>1, <1>3, <1>6 DEF TypeOK, PCs
  <2> QED BY <1>1, <1>2, <1>3, <1>5, <1>6, <1>7, <2>1, <2>2, <2>3, <2>4, SpeakKeepsSequence
<1>9. \A u \in Turns : pc[u] \in {"idle", "done"}
  BY <1>1, <1>4 DEF TypeOK, InFlight
<1>10. pc'[t] = p /\ \A u \in Turns : u # t => pc'[u] \in {"idle", "done"}
  BY <1>1, <1>7, <1>9 DEF TypeOK
<1>11. SeenInv'
  BY <1>10 DEF SeenInv
<1>12. \A u \in Turns : OfUser(u)' <=> OfUser(u) \/ (u = t /\ kind = "user")
  <2> TAKE u \in Turns
  <2> DEFINE k == [turn |-> u, kind |-> "user", n |-> 0]
  <2>1. 0 \in 0..MaxCalls
    BY ConstantsAssumption
  <2>2. k \in Messages /\ k.turn = u /\ k.kind = "user"
    BY <2>1, MessageType
  <2>3. k = m <=> (u = t /\ kind = "user")
    BY <1>6, <2>2
  <2>4. (status'[k] # "new") <=> (status[k] # "new" \/ k = m)
    BY <1>1, <1>7, <2>2 DEF TypeOK
  <2> QED BY <2>3, <2>4 DEF OfUser
<1>13. ~OfUser(t)
  <2>1. 0 \in 0..MaxCalls
    BY ConstantsAssumption
  <2>2. [turn |-> t, kind |-> "user", n |-> 0] \in Messages
    BY <2>1, MessageType
  <2> QED BY <1>5, <2>2 DEF OfUser, Said
<1>14. TaskInv'
  <2>1. \A b \in Agents : task'[b] # None =>
           (task'[b] = t /\ kind = "user") \/ (task'[b] = task[b] /\ task[b] \in Turns)
    BY <1>1, <1>2 DEF SetTask, TypeOK
  <2>2. \A b \in Agents : task'[b] # None => OfUser(task[b])'
    <3> SUFFICES ASSUME NEW b \in Agents, NEW u, u = task'[b], u # None
                 PROVE  OfUser(u)'
      BY DEF OfUser
    <3> QED BY <1>1, <1>12, <2>1 DEF TaskInv
  <2>3. \A u \in InFlight' : u = t /\ (OfUser(u)' => task'[current'] = u)
    <3>1. InFlight' = {t}
      BY <1>2, <1>10 DEF InFlight
    <3> QED BY <1>1, <1>2, <1>3, <1>12, <1>13, <3>1 DEF SetTask, TypeOK
  <2>4. \A u \in Turns : searched'[u] = None
    BY <1>1, <1>3, <1>9 DEF TaskInv
  <2> QED BY <2>2, <2>3, <2>4 DEF TaskInv
<1>15. CallsCounted'
  BY <1>2, <1>10, <1>12, <1>13 DEF CallsCounted
<1> QED BY <1>8, <1>11, <1>14, <1>15 DEF SequentialInv

(* In the middle of a turn what it records follows what it has recorded:   *)
(* a function call the user's message or a result, a result or an answer   *)
(* the call.                                                               *)
LEMMA SpeakKeepsSequential ==
    ASSUME IInv, SequentialInv, NEW t \in Turns,
           \/ FunctionCall(t) \/ Answer(t) \/ SpecialistAnswers(t)
           \/ ToolReturns(t) \/ FunctionFails(t)
    PROVE  SequentialInv'
<1>1. /\ RecordsInv /\ TypeOK /\ OneAppend /\ OneTurn /\ LoadInv /\ MirrorInv /\ AskedIsLast
      /\ EndsWithTurn /\ SeenInv /\ CallsCounted /\ TaskInv /\ ArrayCallsInv /\ LogCallsInv
      /\ calls[t] \in 0..MaxCalls /\ MaxCalls \in Nat
  BY ConstantsAssumption DEF SequentialInv, IInv, RecordsInv, TurnsInv, TypeOK
<1>2. PICK m \in Messages,
           p \in {"appendCall", "appendResult", "appendSpecialist", "appendAnswer"} :
         /\ m.turn = t /\ AddToHistory(agent[t], m) /\ Become(t, p)
         /\ calls' = [calls EXCEPT ![t] = m.n]
         /\ UNCHANGED <<life, rows, task, clearing, current, agent, searched, outcome>>
         /\ \/ /\ m.kind = "call" /\ m.n = calls[t] + 1
               /\ p = "appendCall" /\ pc[t] = "llm"
            \/ /\ m.kind = "answer" /\ m.n = calls[t]
               /\ p = "appendAnswer" /\ pc[t] = "llm"
            \/ /\ m.kind \in {"result", "answer"} /\ m.n = calls[t]
               /\ p \in {"appendResult", "appendSpecialist"}
               /\ \/ pc[t] \in {"tool", "delegate"}
                  \/ pc[t] = "appendCall" /\ Settled(Message(t, "call"))
  <2>1. CASE FunctionCall(t)
    <3> DEFINE m == [turn |-> t, kind |-> "call", n |-> calls[t] + 1]
    <3>1. /\ pc[t] = "llm" /\ calls[t] < MaxCalls /\ AddToHistory(agent[t], m)
          /\ calls' = [calls EXCEPT ![t] = calls[t] + 1] /\ Become(t, "appendCall")
          /\ UNCHANGED <<life, rows, task, clearing, current, agent, searched, outcome>>
      BY <1>1, <2>1 DEF FunctionCall, LLMAnswers, TypeOK
    <3>2. calls[t] + 1 \in 0..MaxCalls
      BY <1>1, <3>1
    <3>3. m \in Messages /\ m.turn = t /\ m.kind = "call" /\ m.n = calls[t] + 1
      BY <3>2, MessageType
    <3> HIDE DEF m
    <3> QED BY <3>1, <3>3
  <2>2. CASE Answer(t) \/ SpecialistAnswers(t) \/ ToolReturns(t) \/ FunctionFails(t)
    <3>1. PICK kind \in {"result", "answer"},
               p \in {"appendResult", "appendSpecialist", "appendAnswer"} :
             /\ AddToHistory(agent[t], Message(t, kind)) /\ Become(t, p)
             /\ \/ kind = "answer" /\ p = "appendAnswer" /\ pc[t] = "llm"
                \/ /\ p \in {"appendResult", "appendSpecialist"}
                   /\ \/ pc[t] \in {"tool", "delegate"}
                      \/ pc[t] = "appendCall" /\ Settled(Message(t, "call"))
             /\ UNCHANGED <<life, rows, task, clearing, current, agent, calls,
                            searched, outcome>>
      BY <2>2 DEF Answer, LLMAnswers, SpecialistAnswers, ToolReturns, FunctionFails,
                  RecordResult
    <3> DEFINE m == Message(t, kind)
    <3>2. m \in Messages /\ m.turn = t /\ m.kind = kind /\ m.n = calls[t]
      BY <1>1, MessageType DEF Message
    <3>3. calls' = [calls EXCEPT ![t] = m.n]
      BY <1>1, <3>1, <3>2 DEF TypeOK
    <3> HIDE DEF m
    <3>4. AddToHistory(agent[t], m)
      BY <3>1 DEF m
    <3> QED BY <3>1, <3>2, <3>3, <3>4
  <2> QED BY <2>1, <2>2
<1>3. /\ t \in InFlight /\ InFlight \subseteq {t} /\ pc[t] # "done"
      /\ agent[t] = current /\ InUse
  <2>1. pc[t] # "idle" /\ pc[t] # "done"
    BY <1>2
  <2> QED BY <1>1, <2>1 DEF InFlight, OneTurn, InUse, IInv, TurnsHaveAgents
<1>4. \A k \in Messages : status[k] # "asked"
  <2>1. \A k \in Messages : k.turn = t => status[k] # "asked"
    <3>1. CASE pc[t] \in {"llm", "tool", "delegate"}
      BY <1>1, <3>1, AwaitsNoAppend
    <3>2. CASE pc[t] = "appendCall" /\ Settled(Message(t, "call"))
      BY <1>1, <3>2, AppendIsSettled DEF Awaits
    <3> QED BY <1>2, <3>1, <3>2
  <2> QED BY <1>1, <1>3, <2>1, AskedInFlight
<1>5. /\ status[m] = "new" /\ status' = [status EXCEPT ![m] = "asked"]
      /\ pc' = [pc EXCEPT ![t] = p]
  BY <1>2 DEF AddToHistory, Memory!Append_Ask, Become
<1>6. /\ OneTurn' /\ LoadInv' /\ MirrorInv' /\ AskedIsLast' /\ EndsWithTurn'
      /\ ArrayCallsInv' /\ LogCallsInv'
  <2>1. \E n \in 0..Len(history[current]) :
           {history[current][i] : i \in n+1..Len(history[current])} = Said(t)
    BY <1>1, <1>3 DEF EndsWithTurn
  <2>2. ASSUME NEW c \in Messages, c.kind = "call", Calling(c)
        PROVE  m \in Replies(c)
    <3>1. c.turn = t /\ c.n = calls[t] /\ pc[t] \in {"appendCall", "tool", "delegate"}
      BY <1>3, <2>2 DEF Calling
    <3>2. m.kind \in {"result", "answer"} /\ m.n = calls[t]
      BY <1>2, <3>1
    <3> QED BY <1>2, <3>1, <3>2, RepliesAre
  <2>3. p \in PCs \ {"idle", "done"}
    BY DEF PCs
  <2>4. m.kind = "call" => p = "appendCall" /\ m.n = calls'[t]
    BY <1>1, <1>2 DEF TypeOK
  <2>5. agent'[t] = current /\ AddToHistory(current, m)
    BY <1>2, <1>3
  <2>6. UNCHANGED <<life, rows, clearing, current, outcome>>
    BY <1>2
  <2> QED BY <1>1, <1>2, <1>3, <1>4, <1>5, <2>1, <2>2, <2>3, <2>4, <2>5, <2>6,
             SpeakKeepsSequence
<1>7. pc'[t] = p /\ \A u \in Turns : u # t => pc'[u] = pc[u] /\ pc[u] \in {"idle", "done"}
  BY <1>1, <1>3, <1>5 DEF TypeOK, InFlight
<1>8. SeenInv'
  BY <1>7 DEF SeenInv
<1>9. \A u \in Turns : OfUser(u)' <=> OfUser(u)
  <2> TAKE u \in Turns
  <2> DEFINE k == [turn |-> u, kind |-> "user", n |-> 0]
  <2>1. k \in Messages /\ k.kind = "user"
    <3>1. 0 \in 0..MaxCalls
      BY <1>1
    <3> QED BY <3>1, MessageType
  <2>2. k # m
    BY <1>2, <2>1
  <2>3. status'[k] = status[k]
    BY <1>1, <1>5, <2>1, <2>2 DEF TypeOK
  <2> QED BY <2>3 DEF OfUser
<1>10. TaskInv'
  <2>1. \A a \in Agents : task'[a] # None => OfUser(task[a])'
    <3> SUFFICES ASSUME NEW a \in Agents, NEW u, u = task'[a], u # None
                 PROVE  OfUser(u)'
      BY DEF OfUser
    <3> QED BY <1>1, <1>2, <1>9 DEF TaskInv, TypeOK
  <2>2. InFlight' \subseteq {t}
    BY <1>7 DEF InFlight
  <2>3. \A u \in InFlight' : OfUser(u)' => task'[current'] = u
    BY <1>1, <1>2, <1>3, <1>9, <2>2 DEF TaskInv
  <2>4. \A u \in Turns : searched'[u] = None
    BY <1>1, <1>2, <1>7 DEF TaskInv
  <2> QED BY <1>2, <2>1, <2>3, <2>4 DEF TaskInv, OfUser
<1>11. CallsCounted'
  <2>1. calls'[t] = m.n /\ m.n \in Nat /\ calls[t] \in Nat
    BY <1>1, <1>2, MessageParts DEF TypeOK
  <2>2. p \in {"appendCall", "appendResult"} => m.n # 0
    BY <1>1, <1>2, <2>1 DEF CallsCounted
  <2> QED BY <1>2, <1>7, <2>1, <2>2 DEF CallsCounted
<1> QED BY <1>6, <1>8, <1>10, <1>11 DEF SequentialInv

(* The steps of a turn that record nothing.  What a turn ends with matters *)
(* only for the call it was executing, which a rejection excuses.          *)
LEMMA QuietStepKeepsSequential ==
    ASSUME IInv, SequentialInv, NEW t \in Turns,
           \/ PrepareHistory(t) \/ SearchContext(t) \/ AskLLM(t)
           \/ ExecuteFunction(t) \/ ContinueWithResult(t) \/ ResultNotSerializable(t)
           \/ ReturnSpecialist(t) \/ EmptyAnswer(t) \/ EvaluateMemories(t) \/ ReturnAnswer(t)
    PROVE  SequentialInv'
<1>1. /\ RecordsInv /\ TypeOK /\ OneAppend /\ OneTurn /\ LoadInv /\ MirrorInv /\ AskedIsLast
      /\ EndsWithTurn /\ SeenInv /\ CallsCounted /\ TaskInv /\ ArrayCallsInv /\ LogCallsInv
  BY DEF SequentialInv, IInv, RecordsInv, TurnsInv
<1>2. PICK p \in {"context", "search", "llm", "tool", "delegate", "evaluate", "done"} :
         /\ Become(t, p)
         /\ \/ pc[t] = "appendUser" /\ p = "context" /\ seen' = [seen EXCEPT ![t] = HistoryForLLM(t)]
               /\ UNCHANGED <<searched, outcome>>
            \/ /\ pc[t] = "context" /\ p = "search" /\ UNCHANGED <<seen, outcome>>
               /\ searched' = [searched EXCEPT ![t] = TaskOf(t)]
            \/ /\ pc[t] = "search" /\ p = "llm" /\ UNCHANGED outcome
               /\ searched' = [searched EXCEPT ![t] = None]
               /\ seen' = IF calls[t] = 0 /\ OfUser(t) THEN seen
                          ELSE [seen EXCEPT ![t] = HistoryForLLM(t)]
            \/ /\ pc[t] = "appendCall" /\ p \in {"tool", "delegate"}
               /\ UNCHANGED <<seen, searched, outcome>>
            \/ /\ pc[t] = "appendResult" /\ p = "context"
               /\ UNCHANGED <<seen, searched, outcome>>
            \/ /\ pc[t] = "appendAnswer" /\ p = "evaluate"
               /\ UNCHANGED <<seen, searched, outcome>>
            \/ /\ p = "done" /\ UNCHANGED searched
               /\ \E o \in Outcomes : outcome' = [outcome EXCEPT ![t] = o]
               /\ pc[t] = "tool" => outcome'[t] = "threw"
               /\ pc[t] \in {"tool", "llm", "evaluate", "appendSpecialist", "appendAnswer"}
  BY <1>1
     DEF PrepareHistory, SearchContext, AskLLM, ExecuteFunction, ContinueWithResult,
         ResultNotSerializable, ReturnSpecialist, EmptyAnswer, LLMAnswers, Finish,
         EvaluateMemories, ReturnAnswer, Outcomes, TypeOK
<1>3. UNCHANGED <<log, status, life, rows, history, task, clearing, current, agent, calls>>
  BY DEF PrepareHistory, SearchContext, AskLLM, ExecuteFunction, ContinueWithResult,
         ResultNotSerializable, ReturnSpecialist, EmptyAnswer, LLMAnswers, Finish,
         EvaluateMemories, ReturnAnswer, memoryVars, agentVars
<1>4. /\ t \in InFlight /\ agent[t] = current /\ current \in Agents
      /\ InFlight \subseteq {t} /\ outcome[t] = "none"
  <2>1. pc[t] # "idle" /\ pc[t] # "done"
    BY <1>2
  <2> QED BY <1>1, <2>1 DEF InFlight, OneTurn, IInv, TurnsHaveAgents
<1>5. /\ pc'[t] = p /\ \A u \in Turns : u # t => pc'[u] = pc[u] /\ pc[u] \in {"idle", "done"}
      /\ InFlight' \subseteq InFlight
      /\ p # "done" => t \in InFlight'
  BY <1>1, <1>2, <1>4 DEF Become, TypeOK, InFlight
<1>6. OneTurn'
  <2>1. \A u \in Turns : pc'[u] # "done" => outcome'[u] = "none"
    BY <1>1, <1>2, <1>4, <1>5 DEF OneTurn, TypeOK
  <2> QED BY <1>1, <1>3, <1>4, <1>5, <2>1 DEF OneTurn
<1>7. /\ LoadInv' /\ AskedIsLast'
  BY <1>1, <1>3 DEF LoadInv, AskedIsLast
<1>8. MirrorInv'
  BY <1>1, <1>3, MirrorStutter
<1>9. EndsWithTurn'
  BY <1>1, <1>3, <1>5 DEF EndsWithTurn, Said
<1>10. \A u \in Turns : OfUser(u)' <=> OfUser(u)
  BY <1>3 DEF OfUser
<1>11. CallsCounted'
  BY <1>1, <1>2, <1>3, <1>5, <1>10 DEF CallsCounted
<1>12. SeenInv'
  <2> SUFFICES ASSUME \/ p = "llm"
                      \/ p \in {"context", "search"} /\ calls[t] = 0 /\ OfUser(t)
               PROVE  seen'[t] = history[current]
    BY <1>3, <1>5, <1>10 DEF SeenInv
  <2>1. HistoryForLLM(t) = history[current]
    BY <1>4 DEF HistoryForLLM
  <2>2. p = "context" => seen'[t] = HistoryForLLM(t)
    BY <1>1, <1>2 DEF CallsCounted, TypeOK
  <2>3. p \in {"search", "llm"} => seen'[t] = history[current]
    BY <1>1, <1>2, <2>1 DEF SeenInv, TypeOK
  <2> QED BY <2>1, <2>2, <2>3
<1>13. TaskInv'
  <2>1. \A a \in Agents : task'[a] # None => OfUser(task[a])'
    <3> SUFFICES ASSUME NEW a \in Agents, NEW u, u = task'[a], u # None
                 PROVE  OfUser(u)'
      BY DEF OfUser
    <3> QED BY <1>1, <1>3 DEF TaskInv, OfUser
  <2>2. \A u \in InFlight' : OfUser(u)' => task'[current'] = u
    BY <1>1, <1>3, <1>4, <1>5, <1>10 DEF TaskInv
  <2>3. \A u \in Turns : searched'[u] # None => pc'[u] = "search" /\ searched'[u] = task'[current']
    <3>1. \A u \in Turns : u # t => searched'[u] = None
      <4>1. \A u \in Turns : u # t => searched[u] = None
        BY <1>1, <1>5 DEF TaskInv
      <4> QED BY <1>1, <1>2, <4>1 DEF TypeOK
    <3>2. searched'[t] # None => p = "search" /\ searched'[t] = task[current]
      BY <1>1, <1>2, <1>4 DEF TaskInv, TypeOK, TaskOf
    <3> QED BY <1>3, <1>5, <3>1, <3>2
  <2> QED BY <2>1, <2>2, <2>3 DEF TaskInv
<1>14. ASSUME NEW c \in Messages, Excused(c)
       PROVE  Excused(c)'
  <2>1. CASE outcome[c.turn] = "threw"
    <3>1. c.turn # t /\ c.turn \in Turns
      BY <1>4, <2>1, MessageParts
    <3>2. outcome'[c.turn] = outcome[c.turn]
      BY <1>1, <1>2, <3>1 DEF TypeOK
    <3> QED BY <2>1, <3>2 DEF Excused
  <2>2. CASE \E r \in Replies(c) : status[r] = "refused"
    BY <1>3, <2>2 DEF Excused, Replies
  <2> QED BY <1>14, <2>1, <2>2 DEF Excused
<1>15. ASSUME NEW c \in Messages, Calling(c)
       PROVE  Calling(c)' \/ Excused(c)'
  <2>1. /\ c.turn = t /\ c.n = calls[t]
        /\ pc[t] \in {"appendCall", "tool", "delegate"}
    BY <1>4, <1>15 DEF Calling
  <2>2. CASE p = "done"
    <3>1. pc[t] = "tool"
      BY <1>2, <2>1, <2>2
    <3> QED BY <1>2, <2>1, <2>2, <3>1 DEF Excused
  <2>3. CASE p # "done"
    <3>1. p \in {"tool", "delegate"}
      BY <1>2, <2>1, <2>3
    <3> QED BY <1>3, <1>5, <2>1, <3>1 DEF Calling
  <2> QED BY <2>2, <2>3
<1>16. \A c \in Messages : Replying(c)' <=> Replying(c)
  BY <1>3 DEF Replying, Replies
<1>17. ArrayCallsInv'
  <2> SUFFICES ASSUME NEW i \in 1..Len(history[current]), NEW c \in Messages,
                      c = history[current][i], c.kind = "call"
               PROVE  \/ Answered(history[current], i) \/ Excused(c)'
                      \/ i = Len(history[current]) /\ Calling(c)'
    <3>1. \A i \in 1..Len(history[current]) : history[current][i] \in Messages
      BY <1>1, <1>4 DEF TypeOK
    <3> QED BY <1>3, <3>1 DEF ArrayCallsInv, Answered, Excused, Calling
  <2>1. \/ Answered(history[current], i) \/ Excused(c)
        \/ i = Len(history[current]) /\ Calling(c)
    BY <1>1, <1>4 DEF ArrayCallsInv
  <2> QED BY <1>14, <1>15, <2>1
<1>18. LogCallsInv'
  <2> SUFFICES ASSUME NEW i \in 1..Len(log), NEW c \in Messages,
                      c = log[i], c.kind = "call"
               PROVE  \/ Answered(log, i) \/ Excused(c)'
                      \/ i = Len(log) /\ (Calling(c)' \/ Replying(c)')
    <3>1. \A i \in 1..Len(log) : log[i] \in Messages
      BY <1>1 DEF TypeOK
    <3> QED BY <1>3, <3>1 DEF LogCallsInv, Answered, Excused, Calling, Replying
  <2>1. \/ Answered(log, i) \/ Excused(c)
        \/ i = Len(log) /\ (Calling(c) \/ Replying(c))
    BY <1>1 DEF LogCallsInv
  <2> QED BY <1>14, <1>15, <1>16, <2>1
<1> QED BY <1>6, <1>7, <1>8, <1>9, <1>11, <1>12, <1>13, <1>17, <1>18 DEF SequentialInv

LEMMA InitSequential == Init => SequentialInv
<1> SUFFICES ASSUME Init
             PROVE  SequentialInv
  OBVIOUS
<1>1. /\ log = << >> /\ \A m \in Messages : status[m] = "new"
      /\ current = None /\ current \notin Agents /\ InFlight = {}
      /\ \A a \in Agents : /\ ~clearing[a] /\ task[a] = None /\ history[a] = << >>
      /\ \A t \in Turns : pc[t] = "idle" /\ outcome[t] = "none" /\ searched[t] = None
  BY ConstantsAssumption DEF Init, Memory!Init, InFlight
<1>2. OneTurn /\ LoadInv /\ MirrorInv /\ AskedIsLast /\ EndsWithTurn
  BY <1>1 DEF OneTurn, LoadInv, MirrorInv, InUse, AskedIsLast, EndsWithTurn
<1>3. SeenInv /\ CallsCounted /\ TaskInv /\ ArrayCallsInv /\ LogCallsInv
  BY <1>1 DEF SeenInv, CallsCounted, TaskInv, ArrayCallsInv, LogCallsInv
<1> QED BY <1>2, <1>3 DEF SequentialInv

LEMMA NextSequential ==
    ASSUME OneAtATime
    PROVE  IInv /\ SequentialInv /\ [Next]_vars => SequentialInv'
<1> SUFFICES ASSUME IInv, SequentialInv, [Next]_vars
             PROVE  SequentialInv'
  OBVIOUS
<1>1. ASSUME NEW a \in Agents, Load(a)
      PROVE  SequentialInv'
  BY <1>1, LoadKeepsSequential
<1>2. ASSUME NEW a \in Agents, ClearHistory(a) \/ MemoryClears(a)
      PROVE  SequentialInv'
  BY <1>2, ClearKeepsSequential
<1>3. ASSUME NEW m \in Messages, MemoryStores(m) \/ MemoryRefuses(m)
      PROVE  SequentialInv'
  BY <1>3, MemoryKeepsSequential
<1>4. ASSUME NEW t \in Turns, NEW a \in Agents,
             ProcessUserMessage(t, a) \/ ProcessFunctionResult(t, a)
      PROVE  SequentialInv'
  BY <1>4, CallKeepsSequential
<1>5. ASSUME NEW t \in Turns, Respond(t) \/ Proceed(t)
      PROVE  SequentialInv'
  BY <1>5, SpeakKeepsSequential, QuietStepKeepsSequential DEF Respond, Proceed
<1>6. ASSUME UNCHANGED vars
      PROVE  SequentialInv'
  <2>1. /\ UNCHANGED <<log, status, life, rows, history, task, clearing, current>>
        /\ UNCHANGED <<pc, agent, calls, seen, searched, outcome>>
    BY <1>6 DEF vars, memoryVars, agentVars, turnVars
  <2>2. OneTurn' /\ LoadInv' /\ AskedIsLast'
    BY <2>1 DEF SequentialInv, OneTurn, InFlight, LoadInv, AskedIsLast
  <2>3. /\ MirrorInv' /\ EndsWithTurn' /\ SeenInv' /\ CallsCounted' /\ TaskInv'
        /\ ArrayCallsInv' /\ LogCallsInv'
    BY <2>1, MirrorStutter, EndsStutter, SeenStutter, CountStutter, TaskStutter,
       ArrayCallsStutter, LogCallsStutter DEF SequentialInv
  <2> QED BY <2>2, <2>3 DEF SequentialInv
<1>7. CASE Next
  BY <1>1, <1>2, <1>3, <1>4, <1>5, <1>7 DEF Next
<1> QED BY <1>6, <1>7

-----------------------------------------------------------------------------
(* What holds if one turn follows the other.                               *)

(* The invariant of agents that follow each other, each with one turn.     *)
THEOREM SequentialInvariance ==
    ASSUME OneAtATime
    PROVE  Spec => []SequentialInv
<1>1. IInv /\ SequentialInv /\ [Next]_vars => SequentialInv'
  BY NextSequential
<1> QED BY <1>1, InitSequential, Invariance, PTL DEF Spec

(* Between two turns the array of the agent in use is the log of its chat, *)
(* and what the memory refused, for any number of agents and turns and     *)
(* whatever appends fail (chat-agent.js:650).                              *)
THEOREM HistoryKept ==
    ASSUME OneAtATime
    PROVE  Spec => []HistoryIsLog
<1>1. IInv /\ SequentialInv => HistoryIsLog
  <2> SUFFICES ASSUME IInv, SequentialInv, current \in Agents, life[current] = "ready",
                      InFlight = {}, ~clearing[current]
               PROVE  /\ InOrder(log, history[current])
                      /\ ToSet(log) = {m \in ToSet(history[current]) : status[m] # "refused"}
    BY DEF HistoryIsLog
  <2>1. /\ InOrder(log, history[current])
        /\ ToSet(log) = {m \in ToSet(history[current]) : status[m] = "stored"}
    BY DEF SequentialInv, MirrorInv, InUse
  <2>2. history[current] \in Seq(Messages) /\ TypeOK /\ OneAppend
    BY DEF IInv, RecordsInv, TypeOK, TurnsInv
  <2>3. ASSUME NEW m \in ToSet(history[current])
        PROVE  status[m] \in {"stored", "refused"}
    <3>1. PICK i \in 1..Len(history[current]) : history[current][i] = m
      BY <2>2, ElementsOf
    <3>2. m \in Messages /\ status[m] # "new"
      BY <2>2, <3>1 DEF IInv, RecordsInv, ArraysInv, Recorded
    <3>3. status[m] # "asked"
      BY <2>2, <3>2, AskedInFlight
    <3> QED BY <2>2, <3>2, <3>3 DEF TypeOK
  <2> QED BY <2>1, <2>3
<1> QED BY <1>1, Invariance, SequentialInvariance, PTL

(* Every function call in the history is followed by its own result or the *)
(* specialist's answer, for any number of calls and whatever fails, if the *)
(* turn did not reject nor the memory refuse it (processUserMessage:459).  *)
THEOREM CallsAnswered ==
    ASSUME OneAtATime
    PROVE  Spec => []ToolCallsAnswered
<1>1. IInv /\ SequentialInv => ToolCallsAnswered
  <2> SUFFICES ASSUME IInv, SequentialInv, current \in Agents,
                      NEW i \in 1..Len(history[current]),
                      NEW m, m = history[current][i], m.kind = "call",
                      m.turn \notin InFlight, outcome[m.turn] # "threw",
                      \A k \in {"result", "answer"} : status[[m EXCEPT !.kind = k]] # "refused"
               PROVE  /\ i < Len(history[current])
                      /\ history[current][i + 1].turn = m.turn
                      /\ history[current][i + 1].n = m.n
                      /\ history[current][i + 1].kind \in {"result", "answer"}
    BY DEF ToolCallsAnswered
  <2>1. \A r \in Replies(m) : status[r] # "refused"
    BY DEF Replies
  <2>2. ~Excused(m) /\ ~Calling(m)
    BY <2>1 DEF Excused, Calling
  <2>3. Answered(history[current], i)
    BY <2>2 DEF SequentialInv, ArrayCallsInv
  <2> QED BY <2>3 DEF Answered
<1> QED BY <1>1, Invariance, SequentialInvariance, PTL

(* The semantic memory is searched with the message the turn answers,      *)
(* though it is read from the agent's task after an await                  *)
(* (chat-agent.js:432).                                                    *)
THEOREM SearchesOwnMessage ==
    ASSUME OneAtATime
    PROVE  Spec => []SearchedOwnMessage
<1>1. IInv /\ SequentialInv => SearchedOwnMessage
  <2> SUFFICES ASSUME IInv, SequentialInv, NEW t \in Turns, searched[t] # None
               PROVE  IF OfUser(t) THEN searched[t] = t ELSE OfUser(searched[t])
    BY DEF SearchedOwnMessage
  <2>1. pc[t] = "search" /\ searched[t] = task[current]
    BY DEF SequentialInv, TaskInv
  <2>2. t \in InFlight
    BY <2>1 DEF InFlight
  <2>3. current \in Agents
    BY <2>1, <2>2 DEF IInv, TurnsHaveAgents, SequentialInv, OneTurn
  <2>4. OfUser(t) => searched[t] = t
    BY <2>1, <2>2 DEF SequentialInv, TaskInv
  <2>5. OfUser(searched[t])
    <3> DEFINE u == searched[t]
    <3>1. u = task[current] /\ u # None
      BY <2>1
    <3> HIDE DEF u
    <3>2. OfUser(u)
      BY <2>3, <3>1 DEF SequentialInv, TaskInv
    <3> QED BY <3>2 DEF u
  <2> QED BY <2>4, <2>5
<1> QED BY <1>1, Invariance, SequentialInvariance, PTL

(* What the LLM is given is the conversation: all that the memory holds,   *)
(* in order, each turn in the order it was said, and the turn itself last  *)
(* and complete (chat-agent.js:439 and 548).                               *)
THEOREM ConversationSeen ==
    ASSUME OneAtATime
    PROVE  Spec => []LLMSeesConversation
<1>1. IInv /\ SequentialInv => LLMSeesConversation
  <2> SUFFICES ASSUME IInv, SequentialInv, NEW t \in Turns, pc[t] = "llm"
               PROVE  /\ InOrder(log, seen[t]) /\ SaidInOrder(seen[t])
                      /\ \E k \in 0..Len(seen[t]) :
                            {seen[t][i] : i \in k+1..Len(seen[t])} = Said(t)
    BY DEF LLMSeesConversation
  <2>1. t \in InFlight /\ seen[t] = history[current]
    BY DEF InFlight, SequentialInv, SeenInv
  <2>2. InUse
    BY <2>1 DEF IInv, TurnsHaveAgents, SequentialInv, OneTurn, InUse
  <2>3. InOrder(log, history[current])
    BY <2>2 DEF SequentialInv, MirrorInv
  <2>4. SaidInOrder(history[current])
    BY <2>2 DEF InUse, IInv, RecordsInv, ArraysInv, Recorded
  <2>5. \E k \in 0..Len(history[current]) :
           {history[current][i] : i \in k+1..Len(history[current])} = Said(t)
    BY <2>1 DEF SequentialInv, EndsWithTurn
  <2> QED BY <2>1, <2>3, <2>4, <2>5
<1> QED BY <1>1, Invariance, SequentialInvariance, PTL
=============================================================================
