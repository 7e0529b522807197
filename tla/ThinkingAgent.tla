---------------------------- MODULE ThinkingAgent ----------------------------
(***************************************************************************)
(* How lib/thinking-agent.js finds the final answer in a response of its   *)
(* LLM.  Only operators: the calls are those of AutoGenOrchestrator.       *)
(*                                                                         *)
(* A response is the sequence of its paragraphs, and a paragraph is one of *)
(* the kinds the regular expressions tell apart, with an example:          *)
(*   titled     **Resposta Final**: 42     title      ## Answer            *)
(*   named      ## Resposta Final          hash       # Conclusão          *)
(*   hashValue  # Conclusão / valor: 42    hashFinal  # Resposta Final     *)
(*   opening    Resposta Final é 42        so         Portanto, 42         *)
(*   reply      A Resposta é 42            result     O Resultado é 42     *)
(*   steps      ## Raciocínio              section    ## Fontes            *)
(*   item       Itens / - um               text       anything else        *)
(* What is found is given by the numbers of the paragraphs it is in; of a  *)
(* paragraph with a colon only what follows the colon is taken.            *)
(***************************************************************************)
EXTENDS Naturals, Sequences, SequencesExt, FiniteSetsExt

FinalAnswerTitles == {"titled", "title", "named"}
ConclusionTitles == {"hash", "hashValue"}
FinalTitles == {"hashFinal"}
OpeningTitles == {"hashFinal", "opening"}
ValueFollows == {"titled", "hashValue"}
Headings == {"titled", "title", "named", "hash", "hashValue", "hashFinal",
             "steps", "section"}
ConclusionIndicators ==
    {"titled", "named", "hash", "hashValue", "hashFinal", "opening", "so"}
AnswerWords == {"titled", "named", "hash", "hashValue", "hashFinal", "opening",
                "reply", "result"}
Paragraphs == Headings \cup AnswerWords \cup {"so", "item", "text"}

Positions(p, kinds, from) == {i \in from..Len(p) : p[i] \in kinds}

Interval(i, j) == [k \in 1..(IF i <= j THEN j - i + 1 ELSE 0) |-> i + k - 1]

(* The paragraphs after i up to the next heading. *)
UpToHeading(p, i) ==
    LET next == Positions(p, Headings, i + 1) IN
    Interval(i + 1, IF next = {} THEN Len(p) ELSE Min(next) - 1)

(* The section announced by the title in paragraph i, and the position the *)
(* loop has reached: the value after its colon or the next paragraph, with *)
(* the paragraphs that follow.                                             *)
Section(p, i) ==
    IF p[i] \in ValueFollows THEN [at |-> i, final |-> <<i>> \o UpToHeading(p, i)]
    ELSE IF i < Len(p)
    THEN [at |-> i + 1, final |-> <<i + 1>> \o UpToHeading(p, i + 1)]
    ELSE [at |-> i, final |-> << >>]

(* The explicit section: by a title of the answer, else of a conclusion,   *)
(* else by the last "# Resposta Final" of the last five paragraphs, which  *)
(* has all that follows, else by an earlier one or one within a sentence.  *)
ExplicitSection(p) ==
    LET titles == Positions(p, FinalAnswerTitles, 1)
        conclusions == Positions(p, ConclusionTitles, 1)
        finals == Positions(p, FinalTitles, IF Len(p) > 5 THEN Len(p) - 4 ELSE 1)
        openings == Positions(p, OpeningTitles, 1)
    IN  IF titles # {} THEN Section(p, Min(titles))
        ELSE IF conclusions # {} THEN Section(p, Min(conclusions))
        ELSE IF finals # {}
        THEN [at |-> Max(finals), final |-> Interval(Max(finals) + 1, Len(p))]
        ELSE IF openings # {}
        THEN [at |-> Min(openings), final |-> UpToHeading(p, Min(openings))]
        ELSE [at |-> 0, final |-> << >>]

HasStepByStepTitle(p) == Positions(p, {"steps"}, 1) # {} /\ Len(p) > 1

(* Without an explicit section with text: the first paragraph that         *)
(* concludes, or the last of a reasoning step by step.                     *)
FinalSection(p) ==
    LET explicit == ExplicitSection(p)
        concluding == Positions(p, ConclusionIndicators, 1)
    IN  IF explicit.final # << >> THEN explicit
        ELSE IF concluding # {}
        THEN [at |-> Min(concluding), final |-> <<Min(concluding)>>]
        ELSE IF HasStepByStepTitle(p)
        THEN [at |-> Len(p), final |-> <<Len(p)>>]
        ELSE explicit

(* Mutant: the paragraph of the answer is one of the steps. *)
ThroughFinal(p, at) ==
    IF at > 1 THEN Interval(1, at)
    ELSE IF HasStepByStepTitle(p) THEN Interval(1, Len(p) - 1) ELSE << >>

ThinkingSteps(p, at) ==
    IF at > 1 THEN Interval(1, at - 1)
    ELSE IF HasStepByStepTitle(p) THEN Interval(1, Len(p) - 1) ELSE << >>

(* The first of the last three paragraphs that says it is the answer. *)
Reply(p) ==
    LET replies == Positions(p, {"reply"}, IF Len(p) > 3 THEN Len(p) - 2 ELSE 1)
    IN  IF replies = {} THEN << >> ELSE <<Min(replies)>>

(* Steps without an answer: the first mention of one, or the last step. *)
FromSteps(p, steps) ==
    LET words == Positions(p, AnswerWords, 1) IN
    IF words # {} THEN [finalAnswer |-> <<Min(words)>>, thinkingSteps |-> steps]
    ELSE [finalAnswer |-> <<Last(steps)>>, thinkingSteps |-> Front(steps)]

(* Neither: the last paragraph of a list, a text of up to five paragraphs  *)
(* as a whole, or the second half of a longer one.                         *)
Unstructured(p) ==
    LET n == Len(p)
        from == IF Positions(p, {"item"}, 1) # {} /\ n > 1 THEN n
                ELSE IF n <= 5 THEN 1 ELSE n \div 2 + 1
    IN  [finalAnswer |-> Interval(from, n), thinkingSteps |-> Interval(1, from - 1)]

(* processThinkingResponse, of a text that is not JSON. *)
FindAnswer(p) ==
    LET section == FinalSection(p)
        steps == ThinkingSteps(p, section.at)
        final == IF section.final # << >> THEN section.final ELSE Reply(p)
    IN  IF final # << >> THEN [finalAnswer |-> final, thinkingSteps |-> steps]
        ELSE IF steps # << >> THEN FromSteps(p, steps)
        ELSE Unstructured(p)
=============================================================================
