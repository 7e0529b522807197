---------------------- MODULE SQLiteConversationMemory ----------------------
(***************************************************************************)
(* lib/memory/sqlite-conversation-memory-adapter.js, for one chat.         *)
(*                                                                         *)
(* The rows of a chat are numbered by message_index, and appendMessage is  *)
(* two statements: SELECT MAX(message_index), and from its callback an     *)
(* INSERT at the next number.  Other statements run between the two; the   *)
(* primary key (chat_id, message_index) refuses a number already taken.    *)
(* A statement may fail at any time (locked file, full disk, closed        *)
(* database), and then the promise of its method rejects.                  *)
(***************************************************************************)
EXTENDS Integers, FiniteSets, Sequences

CONSTANTS
    Messages,             \* the messages of the chat, one per append
    None,                 \* no index read yet
    ClearWhileAppending   \* may clearHistory run while an append is in flight

ASSUME NoneIsNoIndex == None \notin Nat
ASSUME ClearIsBoolean == ClearWhileAppending \in BOOLEAN

VARIABLES
    rows,      \* chat_history of the chat: message_index -> message
    next,      \* nextIndex, in the callback of each append's SELECT
    status,    \* what became of each append
    open       \* the database is open

vars == <<rows, next, status, open>>

Statuses == {"new", "asked", "stored", "refused"}

Indexes == DOMAIN rows

TypeOK ==
    /\ IsFiniteSet(Indexes) /\ Indexes \subseteq Nat
    /\ rows \in [Indexes -> Messages]
    /\ next \in [Messages -> Nat \cup {None}]
    /\ status \in [Messages -> Statuses]
    /\ open \in BOOLEAN

Empty == [i \in {} |-> None]

Init ==
    /\ rows = Empty
    /\ next = [m \in Messages |-> None]
    /\ status = [m \in Messages |-> "new"]
    /\ open = TRUE

-----------------------------------------------------------------------------
AppendMessage(m) ==
    /\ status[m] = "new"
    /\ status' = [status EXCEPT ![m] = "asked"]
    /\ UNCHANGED <<rows, next, open>>

(* Mutant: the first append of an empty chat is numbered like the second.  *)
OneBased == IF Indexes = {} THEN 1
            ELSE (CHOOSE i \in Indexes : \A j \in Indexes : j <= i) + 1

NextIndex == IF Indexes = {} THEN 0
             ELSE (CHOOSE i \in Indexes : \A j \in Indexes : j <= i) + 1

(* SELECT MAX(message_index). *)
SelectMax(m) ==
    /\ status[m] = "asked" /\ next[m] = None /\ open
    /\ next' = [next EXCEPT ![m] = NextIndex]
    /\ UNCHANGED <<rows, status, open>>

(* Mutant: INSERT OR REPLACE. *)
InsertOrReplace(m) ==
    /\ status[m] = "asked" /\ next[m] # None /\ open
    /\ rows' = [i \in Indexes \cup {next[m]} |->
                   IF i = next[m] THEN m ELSE rows[i]]
    /\ status' = [status EXCEPT ![m] = "stored"]
    /\ UNCHANGED <<next, open>>

(* INSERT, where the primary key allows it. *)
Insert(m) ==
    /\ status[m] = "asked" /\ next[m] # None /\ open
    /\ next[m] \notin Indexes
    /\ rows' = [i \in Indexes \cup {next[m]} |->
                   IF i = next[m] THEN m ELSE rows[i]]
    /\ status' = [status EXCEPT ![m] = "stored"]
    /\ UNCHANGED <<next, open>>

(* The primary key refuses the INSERT, the database is closed, or one of   *)
(* the two statements fails.                                               *)
Reject(m) ==
    /\ status[m] = "asked"
    /\ status' = [status EXCEPT ![m] = "refused"]
    /\ UNCHANGED <<rows, next, open>>

(* DELETE of the chat's rows. *)
ClearHistory ==
    /\ open
    /\ ClearWhileAppending \/ \A m \in Messages : status[m] # "asked"
    /\ rows' = Empty
    /\ UNCHANGED <<next, status, open>>

Close ==
    /\ open' = FALSE
    /\ UNCHANGED <<rows, next, status>>

Next ==
    \/ \E m \in Messages :
          AppendMessage(m) \/ SelectMax(m) \/ Insert(m) \/ Reject(m)
    \/ ClearHistory
    \/ Close

Spec == Init /\ [][Next]_vars

-----------------------------------------------------------------------------
(* SELECT ... ORDER BY message_index ASC: loadHistory. *)
Rank(k) == Cardinality({j \in Indexes : j < k})

IndexAt(n) == CHOOSE k \in Indexes : Rank(k) = n - 1

History == [n \in 1..Cardinality(Indexes) |-> rows[IndexAt(n)]]

Log == INSTANCE ConversationMemory WITH log <- History

(* The rows of the chat are numbered 0, 1, 2, ... without a gap, and an    *)
(* append that has read its number is given the next free one or one that  *)
(* is taken: no interleaving of appends leaves a hole for a later message  *)
(* to slip into, before messages already stored.                           *)
Contiguous ==
    /\ Indexes = 0..(Cardinality(Indexes) - 1)
    /\ \A m \in Messages : status[m] = "asked" /\ next[m] # None
          => next[m] <= Cardinality(Indexes)

(* A message is in the table once, and exactly if its append resolved and  *)
(* no clear came after it.                                                 *)
RowsAreStored ==
    /\ \A i, j \in Indexes : rows[i] = rows[j] => i = j
    /\ \A i \in Indexes : status[rows[i]] = "stored"

(* An append that was not called has read no number. *)
FreshUnread == \A m \in Messages : status[m] = "new" => next[m] = None

IInv == TypeOK /\ Contiguous /\ RowsAreStored /\ FreshUnread

(* The adapter implements the log of ConversationMemory. *)
ImplementsLog == Log!Spec
=============================================================================
