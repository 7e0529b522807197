----------------------- MODULE MCAutoGenOrchestrator -----------------------
(* Instances of AutoGenOrchestrator for TLC: what the LLM may write. *)
EXTENDS AutoGenOrchestrator, TLC

CONSTANTS x, y, z

Full == {t \in Written : t.id # NoId /\ t.hasDependsOn /\ t.hasPrompt}

(* Every field written and every id written once. *)
WellFormed ==
    UNION {{w \in [1..n -> Full] :
                \A i, j \in 1..n : w[i].id = w[j].id => i = j} : n \in 1..3}

(* What may be written about two ids only. *)
AboutTwo == {t \in Written : t.id # z /\ z \notin t.dependsOn}

(* Every field written, ids perhaps twice. *)
Complete == UNION {[1..n -> AboutTwo \cap Full] : n \in 1..3}

(* Ids and fields left out, in answers of at most two sub-tasks. *)
Partial ==
    UNION {[1..n -> {t \in AboutTwo : t.hasDependsOn \/ t.dependsOn = {}}] :
                n \in 0..2}

Whatever == WellFormed \cup Complete \cup Partial

Symmetry == Permutations({x, y})
=============================================================================
