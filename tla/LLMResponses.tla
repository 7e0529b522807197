---------------------------- MODULE LLMResponses ----------------------------
(***************************************************************************)
(* What generateContent of the two LLM clients (VertexAILLM and            *)
(* GenerativeAILLM) makes of the response of the service: the text, the    *)
(* function call, and the list of sources that the search of the service   *)
(* has grounded the text on.                                               *)
(*                                                                         *)
(* A response has parts, each a text or a function call, and grounding     *)
(* metadata in one of two forms: the results of a search, or chunks and    *)
(* the supports, pieces of the text with the indices (here from 1) of the  *)
(* chunks they rest on.                                                    *)
(***************************************************************************)
EXTENDS Naturals, Sequences, SequencesExt, FiniteSetsExt, Functions

CONSTANTS
    Responses,       \* what the service may answer
    FunctionCalls,   \* the parts that are function calls
    Malformed,       \* URIs new URL() throws at
    NoUri, NoText    \* the empty strings

VARIABLES
    client,     \* which client asked
    response,   \* what the service answered
    citation,   \* the citation that comes next: an index of a support
    result      \* what generateContent returns, or has of it

vars == <<client, response, citation, result>>

Clients == {"vertex", "generative"}

Result(kind, text, sources, call) ==
    [kind |-> kind, text |-> text, sources |-> sources, call |-> call]

(* A message of the client's own in place of the text. *)
Message(kind) == Result(kind, << >>, << >>, << >>)

Init ==
    /\ client = "none" /\ response = << >>
    /\ citation = [support |-> 1, index |-> 1]
    /\ result = Message("none")

Generate(c) ==
    /\ client = "none"
    /\ client' = c
    /\ response' \in Responses
    /\ UNCHANGED <<citation, result>>

-----------------------------------------------------------------------------
(* Text and function calls.                                                *)

IsCall(part) == part \in FunctionCalls

TextOf(parts) == SelectSeq(parts, LAMBDA part : ~IsCall(part))

(* Of several function calls the first. *)
CallOf(parts) ==
    LET calls == {i \in DOMAIN parts : IsCall(parts[i])} IN
    IF calls = {} THEN << >> ELSE <<parts[Min(calls)]>>

-----------------------------------------------------------------------------
(* Sources.                                                                *)

(* A chunk is of the web or of a data store; VertexAILLM knows no other    *)
(* URI than that of the web.                                               *)
Uri(c, chunk) ==
    IF c = "vertex" /\ chunk.kind # "web" THEN NoUri ELSE chunk.uri

AddExcerpt(excerpts, text) ==
    IF text = NoText \/ Contains(excerpts, text) THEN excerpts ELSE Append(excerpts, text)

(* Mutant: an entry of the map is made for each citation. *)
CiteAfresh(sources, uri, text) ==
    LET i == SelectInSeq(sources, LAMBDA s : s.uri = uri)
        new == [uri |-> uri, excerpts |-> AddExcerpt(<< >>, text)]
    IN  IF i = 0 THEN Append(sources, new) ELSE [sources EXCEPT ![i] = new]

(* The entry of a URI is made at its first citation and has each text once.*)
Cite(sources, uri, text) ==
    LET i == SelectInSeq(sources, LAMBDA s : s.uri = uri)
        entry(excerpts) == [uri |-> uri, excerpts |-> AddExcerpt(excerpts, text)]
    IN  IF i = 0 THEN Append(sources, entry(<< >>))
        ELSE [sources EXCEPT ![i] = entry(sources[i].excerpts)]

(* The results of a search are listed as they are. *)
Listed(g) == [i \in DOMAIN g.results |-> [uri |-> g.results[i], excerpts |-> << >>]]

-----------------------------------------------------------------------------
(* The clients.                                                            *)

(* What is known before the supports are looked at. *)
Begun(r) ==
    IF r.grounding.form = "chunks"
    THEN Result("citing", TextOf(r.parts), << >>, CallOf(r.parts))
    ELSE Result("read", TextOf(r.parts), Listed(r.grounding), CallOf(r.parts))

Answered ==
    /\ client \in Clients /\ result.kind = "none"
    /\ result' = IF \/ ~response.answered
                    \/ client = "vertex" /\ response.parts = << >>
                 THEN Message("empty") ELSE Begun(response)
    /\ UNCHANGED <<client, response, citation>>

(* The request rejects: the error is the text. *)
RequestFails ==
    /\ client \in Clients /\ result.kind = "none"
    /\ client' = "failed"
    /\ result' = Message("error")
    /\ UNCHANGED <<response, citation>>

Supports == response.grounding.supports
Chunks == response.grounding.chunks
Support == Supports[citation.support]

(* An index out of range is passed over, and GenerativeAILLM passes over a *)
(* chunk without URI.                                                      *)
IsCited(i) ==
    i \in DOMAIN Chunks /\ ~(client = "generative" /\ Uri(client, Chunks[i]) = NoUri)

(* GenerativeAILLM asks for the domain of the URI. *)
IsMalformed(i) ==
    client = "generative" /\ i \in DOMAIN Chunks /\ Chunks[i].uri \in Malformed

(* Mutant: the sources are not formatted in a try of their own. *)
Uncaught(r) == Message("error")

(* Sources that cannot be formatted are left out. *)
WithoutSources(r) == Result("read", r.text, << >>, r.call)

(* The next index of a support. *)
CiteChunk ==
    /\ result.kind = "citing" /\ citation.support \in DOMAIN Supports
    /\ citation.index \in DOMAIN Support.indices
    /\ LET i == Support.indices[citation.index] IN
       \/ IsMalformed(i) /\ result' = WithoutSources(result)
       \/ /\ ~IsMalformed(i) /\ IsCited(i)
          /\ result' = Result("citing", result.text,
                              Cite(result.sources, Uri(client, Chunks[i]), Support.text),
                              result.call)
       \/ ~IsMalformed(i) /\ ~IsCited(i) /\ UNCHANGED result
    /\ citation' = [support |-> citation.support, index |-> citation.index + 1]
    /\ UNCHANGED <<client, response>>

(* The next support; only GenerativeAILLM looks whether it has indices. *)
NextSupport ==
    /\ result.kind = "citing" /\ citation.support \in DOMAIN Supports
    /\ citation.index \notin DOMAIN Support.indices
    /\ result' = IF client = "vertex" /\ ~Support.indexed THEN Message("error")
                 ELSE result
    /\ citation' = [support |-> citation.support + 1, index |-> 1]
    /\ UNCHANGED <<client, response>>

SourcesListed ==
    /\ result.kind = "citing" /\ citation.support \notin DOMAIN Supports
    /\ result' = Result("read", result.text, result.sources, result.call)
    /\ UNCHANGED <<client, response, citation>>

Next ==
    \/ \E c \in Clients : Generate(c)
    \/ Answered \/ RequestFails
    \/ CiteChunk \/ NextSupport \/ SourcesListed

Spec == Init /\ [][Next]_vars

-----------------------------------------------------------------------------
(* Properties.                                                             *)

(* The URIs a support cites. *)
CitedBy(support) ==
    {Uri(client, Chunks[i]) : i \in ToSet(support.indices) \cap DOMAIN Chunks}
    \ (IF client = "generative" THEN {NoUri} ELSE {})

(* A cited URI of which GenerativeAILLM cannot find the domain. *)
CitesMalformed ==
    \E s \in ToSet(Supports) : \E i \in ToSet(s.indices) : IsMalformed(i)

(* A support without indices. *)
Unindexed(g) == g.form = "chunks" /\ \E s \in ToSet(g.supports) : ~s.indexed

(* Of the list of sources, which the clients build support by support and  *)
(* index by index: it has each cited URI once, in the order in which they  *)
(* are first cited, each with the texts of all supports that cite any      *)
(* chunk with that URI, each text once (vertex-ai-llm.js:198-240,          *)
(* generative-ai-llm.js:213-258).                                          *)
SourcesAreThoseCited ==
    LET uris == UNION {CitedBy(s) : s \in ToSet(Supports)}
        first(uri) == Min({j \in DOMAIN Supports : uri \in CitedBy(Supports[j])})
        sources == result.sources
    IN  result.kind = "read" /\ response.grounding.form = "chunks" /\ ~CitesMalformed =>
        /\ {s.uri : s \in ToSet(sources)} = uris /\ Len(sources) = Cardinality(uris)
        /\ \A m, n \in DOMAIN sources : m < n => first(sources[m].uri) <= first(sources[n].uri)
        /\ \A s \in ToSet(sources) :
              /\ IsInjective(s.excerpts)
              /\ ToSet(s.excerpts) = {t.text : t \in {t \in ToSet(Supports) :
                                         s.uri \in CitedBy(t)}} \ {NoText}

(* A response with a text or a function call reaches the agent with both,  *)
(* whatever is wrong with its grounding metadata: GenerativeAILLM gives up *)
(* the sources alone (generative-ai-llm.js:172-180).  VertexAILLM has no   *)
(* guard for supports without indices (vertex-ai-llm.js:212, 366), for     *)
(* which its error text replaces the answer.                               *)
AnswerIsKept ==
    /\ client \in Clients /\ result.kind \notin {"none", "citing"}
    /\ response.answered /\ response.parts # << >>
    /\ ~(client = "vertex" /\ Unindexed(response.grounding))
    => /\ result.kind = "read"
       /\ result.text = TextOf(response.parts)
       /\ \/ \E i \in DOMAIN response.parts :
                /\ IsCall(response.parts[i]) /\ result.call = <<response.parts[i]>>
                /\ \A j \in 1..(i - 1) : ~IsCall(response.parts[j])
          \/ result.call = << >> /\ \A p \in ToSet(response.parts) : ~IsCall(p)
=============================================================================
