--------------------- MODULE MongoDBConversationMemory ---------------------
(***************************************************************************)
(* lib/memory/mongodb-conversation-memory-adapter.js, for one chat.        *)
(*                                                                         *)
(* appendMessage awaits the document with the greatest message_index and   *)
(* then inserts one with the next number; the index the adapter creates on *)
(* (chat_id, message_index) is not unique, so that nothing stops two       *)
(* appends from using one number.  Nothing works before initialize() or    *)
(* after close().                                                          *)
(***************************************************************************)
EXTENDS Integers, FiniteSets, Sequences

CONSTANTS
    Messages,     \* the messages of the chat, one per append
    None,         \* no index
    MaxAppends    \* bound: appends the agents of the chat keep in flight

VARIABLES
    index,        \* message_index of the document of each message, or None
    next,         \* nextIndex of each append
    status,       \* what became of each append
    collection    \* historyCollection: null, the collection, null for good

vars == <<index, next, status, collection>>

Statuses == {"new", "asked", "stored", "refused"}

Documents == {m \in Messages : index[m] # None}

TypeOK ==
    /\ index \in [Messages -> Nat \cup {None}]
    /\ next \in [Messages -> Nat \cup {None}]
    /\ status \in [Messages -> Statuses]
    /\ collection \in {"null", "connected", "closed"}

Init ==
    /\ index = [m \in Messages |-> None]
    /\ next = [m \in Messages |-> None]
    /\ status = [m \in Messages |-> "new"]
    /\ collection = "null"

-----------------------------------------------------------------------------
Initialize ==
    /\ collection = "null"
    /\ collection' = "connected"
    /\ UNCHANGED <<index, next, status>>

AppendMessage(m) ==
    /\ status[m] = "new"
    /\ Cardinality({k \in Messages : status[k] = "asked"}) < MaxAppends
    /\ status' = [status EXCEPT ![m] = "asked"]
    /\ UNCHANGED <<index, next, collection>>

(* Mutant: the documents are sorted ascending.                             *)
AfterFirst ==
    IF Documents = {} THEN 0
    ELSE index[CHOOSE m \in Documents :
                  \A k \in Documents : index[m] <= index[k]] + 1

NextIndex ==
    IF Documents = {} THEN 0
    ELSE index[CHOOSE m \in Documents :
                  \A k \in Documents : index[k] <= index[m]] + 1

(* find().sort({message_index: -1}).limit(1) *)
FindLast(m) ==
    /\ status[m] = "asked" /\ next[m] = None /\ collection = "connected"
    /\ next' = [next EXCEPT ![m] = NextIndex]
    /\ UNCHANGED <<index, status, collection>>

InsertOne(m) ==
    /\ status[m] = "asked" /\ next[m] # None /\ collection = "connected"
    /\ index' = [index EXCEPT ![m] = next[m]]
    /\ status' = [status EXCEPT ![m] = "stored"]
    /\ UNCHANGED <<next, collection>>

(* Not connected, closed in between, or one of the two operations fails. *)
Reject(m) ==
    /\ status[m] = "asked"
    /\ status' = [status EXCEPT ![m] = "refused"]
    /\ UNCHANGED <<index, next, collection>>

(* deleteMany *)
ClearHistory ==
    /\ collection = "connected"
    /\ index' = [m \in Messages |-> None]
    /\ UNCHANGED <<next, status, collection>>

(* close() also drops the client: initialize() fails from then on.         *)
Close ==
    /\ collection' = "closed"
    /\ UNCHANGED <<index, next, status>>

Next ==
    \/ Initialize
    \/ \E m \in Messages :
          AppendMessage(m) \/ FindLast(m) \/ InsertOne(m) \/ Reject(m)
    \/ ClearHistory
    \/ Close

Spec == Init /\ [][Next]_vars

-----------------------------------------------------------------------------
(* find().sort({message_index: 1}): loadHistory may return any order of    *)
(* the documents that have one number.                                     *)
Histories ==
    {h \in [1..Cardinality(Documents) -> Documents] :
        \A i, j \in DOMAIN h : i < j => /\ h[i] # h[j]
                                        /\ index[h[i]] <= index[h[j]]}

Log == INSTANCE ConversationMemory WITH log <- CHOOSE h \in Histories : TRUE

(* lib/memory/conversation-memory.js:8, the history is sequential: a       *)
(* message that is stored goes after all the messages stored before it, in *)
(* whatever order equal numbers are returned.                              *)
HistoryIsSequential ==
    [][\A m \in Messages : status[m] = "asked" /\ status'[m] = "stored"
          => \A h \in Histories' : \E g \in Histories : h = Append(g, m)]_vars

(* The adapter implements the log of ConversationMemory. *)
ImplementsLog == Log!Spec
=============================================================================
