--------------------------- MODULE ContextMemories ---------------------------
(***************************************************************************)
(* The fact and summary memories that the agents of all chats share        *)
(* (lib/memory/fact-memory.js, lib/memory/summary-memory.js and their      *)
(* SQLite and MongoDB adapters).                                           *)
(*                                                                         *)
(* Every method of both adapters is one statement of the database, so that *)
(* it takes effect at once or rejects and leaves no trace.  A fact is      *)
(* replaced by the next one with its key; summaries are kept, each with    *)
(* the time of the call that added it.  An SQLite adapter is open from its *)
(* construction, a MongoDB adapter refuses everything until initialize().  *)
(***************************************************************************)
EXTENDS Naturals, FiniteSets

CONSTANTS
    Contexts,    \* context ids
    FactKeys,    \* keys of facts
    Calls,       \* calls of the chats: a value is the call that wrote it
    None         \* no fact

MemoryTypes == {"conversation", "fact", "summary"}

ASSUME MemoriesAssumption == None \notin Calls

VARIABLES
    condition,   \* of each memory: "absent" if there is none of that type,
                 \* "failing" if it is open and any of its statements may fail
    facts,       \* the facts of each context
    summaries    \* the summaries of each context

memoryVars == <<condition, facts, summaries>>

Summaries == [by : Calls, timestamp : Nat]

MemoriesTypeOK ==
    /\ condition \in [MemoryTypes ->
                       {"absent", "unconnected", "open", "failing", "closed"}]
    /\ facts \in [Contexts -> [FactKeys -> Calls \cup {None}]]
    /\ summaries \in [Contexts -> SUBSET Summaries]

NoFacts == [k \in FactKeys |-> None]

MemoriesInit ==
    /\ facts = [x \in Contexts |-> NoFacts]
    /\ summaries = [x \in Contexts |-> {}]

(* A statement of a memory can take effect, or its promise can reject. *)
Works(m) == condition[m] \in {"open", "failing"}

Refuses(m) ==
    /\ condition[m] \in {"unconnected", "closed", "failing"}
    /\ UNCHANGED memoryVars

-----------------------------------------------------------------------------
(* initialize(), of the MongoDB adapters.                                  *)
Initialize(m) ==
    /\ condition[m] = "unconnected"
    /\ condition' = [condition EXCEPT ![m] = "open"]
    /\ UNCHANGED <<facts, summaries>>

(* Mutant: INSERT OR IGNORE for REPLACE. *)
InsertOrIgnore(x, k, w) ==
    /\ Works("fact")
    /\ facts' = [facts EXCEPT ![x][k] = IF @ = None THEN w ELSE @]
    /\ UNCHANGED <<condition, summaries>>

(* REPLACE, or an update with upsert. *)
SetFact(x, k, w) ==
    /\ Works("fact")
    /\ facts' = [facts EXCEPT ![x][k] = w]
    /\ UNCHANGED <<condition, summaries>>

DeleteFact(x, k) ==
    /\ Works("fact")
    /\ facts' = [facts EXCEPT ![x][k] = None]
    /\ UNCHANGED <<condition, summaries>>

DeleteAllFacts(x) ==
    /\ Works("fact")
    /\ facts' = [facts EXCEPT ![x] = NoFacts]
    /\ UNCHANGED <<condition, summaries>>

AddSummary(x, w, time) ==
    /\ Works("summary")
    /\ summaries' = [summaries EXCEPT ![x] = @ \cup {[by |-> w, timestamp |-> time]}]
    /\ UNCHANGED <<condition, facts>>

DeleteAllSummaries(x) ==
    /\ Works("summary")
    /\ summaries' = [summaries EXCEPT ![x] = {}]
    /\ UNCHANGED <<condition, facts>>

(* close(): nothing works afterwards, and an adapter is not opened again. *)
Close(m) ==
    /\ condition[m] # "absent"
    /\ condition' = [condition EXCEPT ![m] = "closed"]
    /\ UNCHANGED <<facts, summaries>>

(* getAllFacts, without the keys that have no fact. *)
AllFacts(x) == [k \in {l \in FactKeys : facts[x][l] # None} |-> facts[x][k]]

(* Mutant: ORDER BY timestamp ASC. *)
OldestSummary(x) ==
    {s.by : s \in {r \in summaries[x] :
                      \A q \in summaries[x] : r.timestamp <= q.timestamp}}

(* getLatestSummary: ORDER BY timestamp DESC LIMIT 1, of equal ones any. *)
LatestSummary(x) ==
    {s.by : s \in {r \in summaries[x] :
                      \A q \in summaries[x] : q.timestamp <= r.timestamp}}
=============================================================================
