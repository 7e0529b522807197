----------------------------- MODULE MCMemories -----------------------------
(* Each of the three memory adapters, for TLC: one of them is chosen, and   *)
(* the others keep their initial states.                                    *)
EXTENDS SQLiteConversationMemory, TLC

CONSTANTS
    m1, m2, m3, m4,
    MongoMessages,  \* the messages of the chat in the MongoDB adapter
    MaxAppends,
    Calls,          \* the calls of the ChromaDB adapter
    MaxFailures

VARIABLES adapter,
          mongoIndex, mongoNext, mongoStatus, mongoCollection,
          collection, initialized, documents, op, target, pc, found, reply,
          failures, before

Mongo == INSTANCE MongoDBConversationMemory
    WITH Messages <- MongoMessages, index <- mongoIndex, next <- mongoNext,
         status <- mongoStatus, collection <- mongoCollection

Chroma == INSTANCE SemanticMemory WITH NoCall <- None

mongoVars == <<mongoIndex, mongoNext, mongoStatus, mongoCollection>>
chromaVars == <<collection, initialized, documents, op, target, pc, found, reply,
                failures, before>>

AdapterInit ==
    /\ adapter \in {"sqlite", "mongodb", "chromadb"}
    /\ Init /\ Mongo!Init /\ Chroma!Init

AdapterNext ==
    /\ UNCHANGED adapter
    /\ \/ adapter = "sqlite" /\ Next /\ UNCHANGED <<mongoVars, chromaVars>>
       \/ adapter = "mongodb" /\ Mongo!Next /\ UNCHANGED <<vars, chromaVars>>
       \/ adapter = "chromadb" /\ Chroma!Next /\ UNCHANGED <<vars, mongoVars>>

AdapterSpec == AdapterInit /\ [][AdapterNext]_<<adapter, vars, mongoVars, chromaVars>>

(* What is checked of the MongoDB and of the ChromaDB adapter. *)
MongoImplementsLog == Mongo!ImplementsLog
AddedIsFound == Chroma!AddedIsFound
=============================================================================
