--------------------------- MODULE MCOrchestrators ---------------------------
(* Orchestrations over shared agents, the reading of a response of a        *)
(* thinking LLM, or the reading of a response of the service by an LLM      *)
(* client, for TLC: one of the three is chosen, and the others do nothing.  *)
EXTENDS AgentTeam, TLC

CONSTANTS c1, c2, c3

\* Two agents of one role and one whose role is part of another's.
AgentRoles == "a1" :> "analyst" @@ "a2" :> "data analyst" @@ "a3" :> "analyst"
RoleNames == "analyst" :> {"analyst"} @@ "data analyst" :> {"analyst", "data analyst"}

\* Orchestrators, two of them a tool of an agent of the other or of its own.
Types == "chain" :> "chain" @@ "hierarchy" :> "hierarchical" @@
         "thinking" :> "thinking"
Teams == "chain" :> <<"a1", "a2">> @@ "hierarchy" :> <<"a1", "a3">> @@
         "thinking" :> <<"a2", "a1", "a3">>
Tools == "a1" :> "chain" @@ "a2" :> "hierarchy" @@ "a3" :> None

Line(roles, alone, marked) == [roles |-> roles, alone |-> alone, marked |-> marked]
SomeSelections ==
    {{}, {Line({"analyst"}, TRUE, FALSE), Line({"data analyst"}, TRUE, FALSE)},
     {Line({"data analyst"}, TRUE, FALSE)}, {Line({"data analyst"}, FALSE, TRUE)}}

CallSymmetry == Permutations(Calls)

-----------------------------------------------------------------------------
CONSTANTS
    Texts, Answers, Plans,      \* the responses of a thinking LLM
    Responses,                  \* the responses of the service
    FunctionCalls, Malformed, NoUri, NoText

VARIABLES part, reader, response, citation, result

O == INSTANCE ThinkingOrchestrator
A == INSTANCE ThinkingAgent
Thinking == INSTANCE ThinkingResponses
LLM == INSTANCE LLMResponses WITH client <- reader

ASSUME TextsAssumption == Texts \subseteq Seq(O!Lines)

\* The text of a response with the final answer is not blank: it has a
\* paragraph at least.
ASSUME AnswersAssumption == Answers \subseteq Seq(A!Paragraphs) \ {<< >>}

\* The parts of a response of the service, its supports and the indices of
\* a support are in an order.
ASSUME ResponsesAssumption ==
    \A r \in Responses :
        /\ r.parts \in Seq(ToSet(r.parts))
        /\ r.grounding.supports \in Seq(ToSet(r.grounding.supports))
        /\ \A s \in ToSet(r.grounding.supports) : s.indices \in Seq(ToSet(s.indices))

\* Up to six lines.
ShortTexts == UNION {[1..n -> O!Lines] : n \in 1..6}

\* Up to four paragraphs of any kind, and long ones of a few kinds.
ShortAnswers ==
    UNION {[1..n -> A!Paragraphs] : n \in 1..4}
        \cup UNION {[1..n -> {"hashFinal", "so", "reply", "text"}] : n \in 5..6}

\* A plan alone, after other paragraphs, and before a list of sources.
SomePlans ==
    {[form |-> "json", paragraphs |-> <<"text">>, at |-> 1]}
    \cup [form : {"fenced", "bare"}, paragraphs : {<<"text">>, <<"title", "text">>},
          at : {2}]

\* Supports of two texts with up to two indices, some out of range or absent,
\* over two chunks; and parts of every kind over a few of them.
Chunk(kind, uri) == [kind |-> kind, uri |-> uri]
Indices == UNION {[1..n -> 0..3] : n \in 0..2}
Supports ==
    [text : {"", "t1", "t2"}, indices : {<<1, 2>>, <<2>>}, indexed : {TRUE}]
        \cup [text : {"t1"}, indices : Indices, indexed : {TRUE}]
        \cup [text : {"t1"}, indices : {<< >>}, indexed : {FALSE}]
Grounding(form, chunks, supports, results) ==
    [form |-> form, chunks |-> chunks, supports |-> supports, results |-> results]
Groundings ==
    {Grounding("chunks", <<x, y>>, supports, << >>) :
        x \in {Chunk("web", "u1"), Chunk("context", "u1"), Chunk("web", "http:")},
        y \in {Chunk("web", "u1"), Chunk("web", "u2")},
        supports \in UNION {[1..n -> Supports] : n \in 1..2}}
FewGroundings ==
    {Grounding("results", << >>, << >>, r) : r \in {<< >>, <<"u1", "u2">>}}
        \cup {Grounding("chunks", <<x>>, <<s>>, << >>) :
                 x \in {Chunk("web", "u1"), Chunk("web", "http:")}, s \in Supports}
Parts == UNION {[1..n -> {"p1", "p2", "f1", "f2"}] : n \in 0..3}
SomeResponses ==
    [answered : {TRUE}, parts : {<<"p1">>}, grounding : Groundings]
        \cup [answered : BOOLEAN, parts : Parts, grounding : FewGroundings]

-----------------------------------------------------------------------------
responseVars == <<reader, response, citation, result>>

OrchestratorsInit ==
    /\ part \in {"team", "responses", "service"}
    /\ Init
    /\ IF part = "service" THEN LLM!Init
       ELSE Thinking!Init /\ citation = [support |-> 1, index |-> 1]

OrchestratorsNext ==
    /\ UNCHANGED part
    /\ \/ part = "team" /\ Next /\ UNCHANGED responseVars
       \/ part = "responses" /\ Thinking!Next /\ UNCHANGED <<vars, citation>>
       \/ part = "service" /\ LLM!Next /\ UNCHANGED vars

OrchestratorsSpec ==
    OrchestratorsInit /\ [][OrchestratorsNext]_<<part, vars, responseVars>>

(* What is checked of the responses. *)
NoTextIsLost == part = "responses" => Thinking!NoTextIsLost
AnswerFollowsLastMarker == part = "responses" => Thinking!AnswerFollowsLastMarker
AnnouncedAnswerIsFound == part = "responses" => Thinking!AnnouncedAnswerIsFound
SourcesAreThoseCited == part = "service" => LLM!SourcesAreThoseCited
AnswerIsKept == part = "service" => LLM!AnswerIsKept
=============================================================================
