-------------------------- MODULE ThinkingResponses --------------------------
(***************************************************************************)
(* What becomes of a response of a thinking LLM: the final answer of a     *)
(* HierarchicalAgentThinkingOrchestrator (orchestrate), and the plan and   *)
(* the final answer of an AutoGenOrchestrator (generateTaskPlan,           *)
(* generateFinalResponse), which have a ThinkingAgent read it.             *)
(***************************************************************************)
EXTENDS Naturals, Sequences, SequencesExt, FiniteSetsExt

CONSTANTS
    Texts,        \* responses to the orchestrator: sequences of lines
    Answers,      \* responses with the final answer: sequences of paragraphs
    Plans         \* responses with a plan: its form, the paragraphs, and the
                  \* one it is in

O == INSTANCE ThinkingOrchestrator
A == INSTANCE ThinkingAgent

VARIABLES
    reader,     \* who asked
    response,   \* what the LLM answered
    result      \* what was read from it

vars == <<reader, response, result>>

Unread == [finalAnswer |-> << >>, thinkingSteps |-> << >>]

Init == reader = "none" /\ response = << >> /\ result = Unread

(* The LLM answers one of them; a failing LLM has an error text of Agent   *)
(* or of generateFinalResponse for an answer.                              *)
Answer(who, responses) ==
    /\ reader = "none"
    /\ reader' = who
    /\ response' \in responses
    /\ UNCHANGED result

(* orchestrate, without includeThinkingSteps. *)
OrchestrateEnds ==
    /\ reader = "orchestrator"
    /\ reader' = "orchestrated"
    /\ result' = O!SplitAnswer(response)
    /\ UNCHANGED response

(* generateFinalResponse: the answer found, or if it is too short to be    *)
(* one, the whole response.                                                *)
GenerateFinalResponse ==
    /\ reader = "final"
    /\ reader' = "answered"
    /\ \/ result' = A!FindAnswer(response)
       \/ result' = [finalAnswer |-> A!Interval(1, Len(response)),
                     thinkingSteps |-> << >>]
    /\ UNCHANGED response

(* What generateTaskPlan finds in the answer found.  A response that is    *)
(* the JSON of the plan and nothing else has no final_answer, so that      *)
(* there is no answer to look in and the exception gives an empty plan.    *)
(* Of a plan without a fence only the first sub-task is found.             *)
PlanFound(r) ==
    IF r.form = "json" \/ r.at \notin ToSet(A!FindAnswer(r.paragraphs).finalAnswer)
    THEN "unplanned"
    ELSE IF r.form = "fenced" THEN "planned" ELSE "truncated"

GenerateTaskPlan ==
    /\ reader = "planner"
    /\ reader' = PlanFound(response)
    /\ UNCHANGED <<response, result>>

Next ==
    \/ Answer("orchestrator", Texts) \/ OrchestrateEnds
    \/ Answer("final", Answers) \/ GenerateFinalResponse
    \/ Answer("planner", Plans) \/ GenerateTaskPlan

Spec == Init /\ [][Next]_vars

-----------------------------------------------------------------------------
(* Properties.                                                             *)

(* The text of a response to the orchestrator is neither lost nor repeated *)
(* nor reordered: the lines of the reasoning and then of the answer go from *)
(* the first text to the last, wherever the markers are and however many   *)
(* there are.                                                              *)
NoTextIsLost ==
    reader = "orchestrated" =>
        LET lines == result.thinkingSteps \o result.finalAnswer IN
        /\ O!TextLines(response, 1) \subseteq ToSet(lines)
        /\ \A i, j \in DOMAIN lines : i < j => lines[i] < lines[j]

(* The last line with anything on it is a marker.  With a newline after it *)
(* the whole response is the answer, reasoning included; of several such   *)
(* lines one may be the answer.                                            *)
EndsWithMarker(r) ==
    \E i \in DOMAIN r : r[i] \in O!Markers /\ O!After(r, i) > Len(r)

(* The answer of an orchestration is the text after the last marker with   *)
(* text after it, though the three patterns are searched one after the     *)
(* other (hierarchical-agent-thinking-orchestrator.js:407-408).            *)
AnswerFollowsLastMarker ==
    reader = "orchestrated" /\ ~EndsWithMarker(response) =>
        {k \in ToSet(result.finalAnswer) : response[k] = "text"} = O!AnswerText(response)

(* Where a later title announces the answer, with something after it, what *)
(* follows up to the next heading is in the answer, and nothing of the     *)
(* reasoning before it; the answer is never empty, whatever is written     *)
(* (thinking-agent.js:172-213, 362-364).                                   *)
AnnouncedAnswerIsFound ==
    reader = "answered" =>
        LET final == ToSet(result.finalAnswer)
            steps == ToSet(result.thinkingSteps)
            titles == A!Positions(response, A!FinalAnswerTitles, 1)
            section == ToSet(A!UpToHeading(response, Min(titles)))
        IN  /\ final # {}
            /\ titles # {} /\ Min(titles) > 1 /\ section # {} =>
                   section \subseteq final /\ final \cap steps = {}
=============================================================================
