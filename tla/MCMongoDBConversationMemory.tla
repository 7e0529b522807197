-------------------- MODULE MCMongoDBConversationMemory --------------------
(* Instances of MongoDBConversationMemory for TLC. *)
EXTENDS MongoDBConversationMemory, TLC

CONSTANTS m1, m2, m3
=============================================================================
