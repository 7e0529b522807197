--------------------------- MODULE MCChatManager ---------------------------
(* Instances of ChatManager for TLC. *)
EXTENDS ChatManager, TLC

CONSTANTS c1, c2, c3

\* Two users, the id of the first written in two ways.
TrimmedIds == "u1" :> "u1" @@ " u1" :> "u1" @@ "u2" :> "u2"

FactAndSummary == {[facts |-> <<"k1">>, summary |-> TRUE]}

\* All memories open; only a conversation memory, which fails; only a MongoDB
\* fact memory, which nobody has initialized.
Opened == [m \in MemoryTypes |-> "open"]
Only(m, state) == [n \in MemoryTypes |-> IF n = m THEN state ELSE "absent"]
Configured == {Opened, Only("conversation", "failing"), Only("fact", "unconnected")}

CallSymmetry == Permutations(Calls)
=============================================================================
