---------------------------- MODULE SemanticMemory ----------------------------
(***************************************************************************)
(* The ChromaDB adapter (lib/memory/chromadb-semantic-memory-adapter.js),  *)
(* which the application, the chat agents and SemanticMemoryTool           *)
(* (lib/tools/semantic-memory-tool.js) share.  Nobody has to initialize    *)
(* it: every method initializes it if it finds no collection, and the tool *)
(* initializes it once by a flag of its own, so that first calls that      *)
(* overlap initialize it more than once.                                   *)
(*                                                                         *)
(* A document is the call that adds it.  A search stands for one that asks *)
(* for as many results as there are documents.                             *)
(***************************************************************************)
EXTENDS Naturals, FiniteSets

CONSTANTS
    Calls,
    NoCall,      \* what a call is about that deletes nothing
    MaxFailures  \* bound: requests the service refuses

VARIABLES
    collection,     \* whether the adapter has a collection
    initialized,    \* #isMemoryInitialized of the tool
    documents,      \* those of the collection, in the service
    op,             \* the method of a call
    target,         \* the document it deletes
    pc,
    found,          \* the results of a search
    reply,
    failures,
    before          \* history variable: the calls that had ended

serviceVars == <<collection, initialized, documents>>
vars == <<serviceVars, op, target, pc, found, reply, failures, before>>

Init ==
    /\ collection = FALSE
    /\ initialized = FALSE
    /\ documents = {}
    /\ op = [c \in Calls |-> "none"]
    /\ target = [c \in Calls |-> NoCall]
    /\ pc = [c \in Calls |-> "idle"]
    /\ found = [c \in Calls |-> {}]
    /\ reply = [c \in Calls |-> "none"]
    /\ failures = 0
    /\ before = [c \in Calls |-> {}]

Become(c, p) == pc' = [pc EXCEPT ![c] = p]

Return(c, r) == Become(c, "done") /\ reply' = [reply EXCEPT ![c] = r]

(* if (!this.collection) await this.init(), and then the request. *)
EnsureCollection(c, has) ==
    Become(c, IF has THEN "request" ELSE "init") /\ UNCHANGED reply

(* add, search and delete of the adapter, and execute of the tool. *)
Call(c, o, d) ==
    /\ pc[c] = "idle"
    /\ op' = [op EXCEPT ![c] = o]
    /\ target' = [target EXCEPT ![c] = d]
    /\ before' = [before EXCEPT ![c] = {e \in Calls : pc[e] = "done"}]
    /\ IF o = "tool" /\ ~initialized
       THEN Become(c, "toolInit") /\ UNCHANGED reply
       ELSE EnsureCollection(c, collection)
    /\ UNCHANGED <<serviceVars, found, failures>>

(* Mutant: createCollection, over the one there is. *)
CreateCollection == {}

(* The documents of the collection got or created. *)
GetOrCreateCollection == documents

(* init() has the collection; the tool then searches, its flag set. *)
Initialized(c) ==
    /\ pc[c] \in {"init", "toolInit"}
    /\ documents' = GetOrCreateCollection
    /\ collection' = TRUE
    /\ initialized' = (initialized \/ pc[c] = "toolInit")
    /\ EnsureCollection(c, TRUE)
    /\ UNCHANGED <<op, target, found, failures, before>>

(* The request has taken effect. *)
Served(c) ==
    /\ pc[c] = "request"
    /\ documents' = CASE op[c] = "add" -> documents \cup {c}
                      [] op[c] = "delete" -> documents \ {target[c]}
                      [] OTHER -> documents
    /\ found' = [found EXCEPT ![c] = IF op[c] \in {"search", "tool"}
                                     THEN documents ELSE {}]
    /\ Return(c, "fulfilled")
    /\ UNCHANGED <<collection, initialized, op, target, failures, before>>

(* The service refuses: the adapter rejects, and the tool answers with an  *)
(* error text; nothing is remembered of an init() that fails.              *)
Refused(c) ==
    /\ pc[c] \in {"init", "toolInit", "request"}
    /\ failures < MaxFailures
    /\ failures' = failures + 1
    /\ Return(c, "refused")
    /\ UNCHANGED <<serviceVars, op, target, found, before>>

Next == \E c \in Calls :
    \/ \E o \in {"add", "search", "tool"} : Call(c, o, NoCall)
    \/ \E d \in Calls : op[d] = "add" /\ Call(c, "delete", d)
    \/ Initialized(c) \/ Served(c) \/ Refused(c)

Spec == Init /\ [][Next]_vars

-----------------------------------------------------------------------------
(* Properties.                                                             *)

(* A document whose add has resolved before a search began, and which no   *)
(* call deletes, is found by it, however many calls have initialized the   *)
(* memory meanwhile (chromadb-semantic-memory-adapter.js:63, 82, 120).     *)
AddedIsFound ==
    \A s \in Calls : op[s] \in {"search", "tool"} /\ reply[s] = "fulfilled" =>
        \A d \in before[s] :
            \/ op[d] # "add" \/ reply[d] # "fulfilled"
            \/ \E e \in Calls : target[e] = d
            \/ d \in found[s]
=============================================================================
