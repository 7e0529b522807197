------------------------ MODULE ThinkingOrchestrator ------------------------
(***************************************************************************)
(* How lib/hierarchical-agent-thinking-orchestrator.js reads what its LLM  *)
(* writes: the roles it selects, and the final answer that follows its     *)
(* reasoning.  Only operators: the calls are those of module AgentTeam.    *)
(*                                                                         *)
(* A response is the sequence of its lines, and a line is what the regular *)
(* expressions tell apart: a heading **Resposta Final** or ## Conclusão    *)
(* (and their synonyms), a rule ---, an empty line, or any other text.     *)
(* What is found is given by the numbers of the lines it is in.            *)
(***************************************************************************)
EXTENDS Naturals, Sequences, FiniteSetsExt

Markers == {"bold", "hash", "rule"}
Lines == Markers \cup {"blank", "text"}

Interval(i, j) == [k \in 1..(IF i <= j THEN j - i + 1 ELSE 0) |-> i + k - 1]

(* The line the text goes on with after line i, where \s* has taken the    *)
(* empty lines; one more than there are if nothing follows.                *)
After(r, i) ==
    LET later == {k \in (i + 1)..Len(r) : r[k] # "blank"} IN
    IF later = {} THEN Len(r) + 1 ELSE Min(later)

(* A pattern takes a line with others before and after.                    *)
Places(r, pattern) == {i \in 2..(Len(r) - 1) : r[i] = pattern}

(* The matches of a pattern: exec goes on where the match before has ended,*)
(* so that of two places in a row, whose newline is one, the first takes it.*)
Matches(r, pattern) ==
    CHOOSE M \in SUBSET Places(r, pattern) :
        \A i \in Places(r, pattern) : i \in M <=> \A j \in M : After(r, j) # i

(* Mutant: the first occurrence instead of the last. *)
FirstMatch(r, pattern) ==
    IF Matches(r, pattern) = {} THEN 0 ELSE Min(Matches(r, pattern))

LastMatch(r, pattern) ==
    IF Matches(r, pattern) = {} THEN 0 ELSE Max(Matches(r, pattern))

(* The last match of a pattern, if it is beyond where the answer begins by *)
(* the separator i that the patterns before have found, 0 for none.        *)
Later(r, i, pattern) ==
    IF LastMatch(r, pattern) > (IF i = 0 THEN 0 ELSE After(r, i))
    THEN LastMatch(r, pattern) ELSE i

(* The line of the separator, 0 if there is none. *)
Separator(r) == Later(r, Later(r, Later(r, 0, "bold"), "hash"), "rule")

(* The lines from i to j, trimmed. *)
Trimmed(r, i, j) ==
    LET written == {k \in i..j : r[k] # "blank"} IN
    IF written = {} THEN << >> ELSE Interval(Min(written), Max(written))

(* Without a first line of these kinds. *)
Without(r, s, kinds) ==
    IF s # << >> /\ r[s[1]] \in kinds THEN Trimmed(r, s[1] + 1, s[Len(s)]) ELSE s

(* The lines from i to j, trimmed, without a heading and then a rule that  *)
(* may have stayed at the beginning.                                       *)
Cleaned(r, i, j) ==
    Without(r, Without(r, Trimmed(r, i, j), {"bold", "hash"}), {"rule"})

(* Mutant: the steps end at the first separator like the one of the answer. *)
BeforeFirst(r, i) == Min(Matches(r, r[i])) - 1

(* The steps end before the separator, which is found again by its end. *)
StepsEnd(r, i) == i - 1

(* An empty answer is replaced by the whole response. *)
Split(r, final, thinking) ==
    IF final = << >> THEN [finalAnswer |-> Interval(1, Len(r)), thinkingSteps |-> << >>]
    ELSE [finalAnswer |-> final, thinkingSteps |-> thinking]

(* processThinkingResponse, of a text that is not JSON: what follows the   *)
(* separator is the answer, unless nothing does.                           *)
SplitAnswer(r) ==
    LET i == Separator(r) IN
    IF i # 0 /\ After(r, i) <= Len(r)
    THEN Split(r, Cleaned(r, After(r, i), Len(r)), Trimmed(r, 1, StepsEnd(r, i)))
    ELSE Split(r, Cleaned(r, 1, Len(r)), << >>)

(* Reference definitions: the lines of text, and those of them that follow *)
(* the last marker with text after it.                                     *)
TextLines(r, from) == {k \in from..Len(r) : r[k] = "text"}

AnswerText(r) ==
    LET marks == {i \in DOMAIN r : r[i] \in Markers /\ TextLines(r, i + 1) # {}}
    IN  TextLines(r, IF marks = {} THEN 1 ELSE Max(marks) + 1)
=============================================================================
