------------------------- MODULE ConversationMemory -------------------------
(***************************************************************************)
(* What a conversation memory promises the agents of one chat              *)
(* (lib/memory/conversation-memory.js), whatever the adapter: the history  *)
(* of the chat is a log.  A call of appendMessage either puts its message  *)
(* at the end of the log, once, or fails and leaves no trace; clearHistory *)
(* empties the log, or fails.  Where the append takes effect, between the  *)
(* call and its answer, is the adapter's choice.                           *)
(***************************************************************************)
EXTENDS Naturals, Sequences

CONSTANTS
    Messages    \* the messages of the chat, one per call of appendMessage

VARIABLES
    log,        \* the history of the chat
    status      \* what became of each message

vars == <<log, status>>

Statuses == {"new", "asked", "stored", "refused"}

TypeOK ==
    /\ log \in Seq(Messages)
    /\ status \in [Messages -> Statuses]

Init ==
    /\ log = << >>
    /\ status = [m \in Messages |-> "new"]

(* appendMessage is called. *)
Append_Ask(m) ==
    /\ status[m] = "new"
    /\ status' = [status EXCEPT ![m] = "asked"]
    /\ UNCHANGED log

(* It takes effect and will resolve. *)
Append_Store(m) ==
    /\ status[m] = "asked"
    /\ status' = [status EXCEPT ![m] = "stored"]
    /\ log' = Append(log, m)

(* It rejects. *)
Append_Refuse(m) ==
    /\ status[m] = "asked"
    /\ status' = [status EXCEPT ![m] = "refused"]
    /\ UNCHANGED log

(* clearHistory takes effect. *)
Clear ==
    /\ log' = << >>
    /\ UNCHANGED status

Next ==
    \/ \E m \in Messages :
          Append_Ask(m) \/ Append_Store(m) \/ Append_Refuse(m)
    \/ Clear

Spec == Init /\ [][Next]_vars

(* The log holds a message at most once, and only messages whose append    *)
(* took effect.                                                            *)
LoggedOnce ==
    /\ \A i, j \in 1..Len(log) : log[i] = log[j] => i = j
    /\ \A i \in 1..Len(log) : status[log[i]] = "stored"
=============================================================================
