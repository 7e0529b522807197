----------------------- MODULE MCOrchestrators_proofs -----------------------
(***************************************************************************)
(* Proofs about what is read from the response of an LLM, for responses of *)
(* any length; those about the agents of an orchestration are in module    *)
(* AgentTeam_proofs.                                                       *)
(*                                                                         *)
(* A ThinkingAgent gives what it finds as numbers of paragraphs: intervals *)
(* of the response, so that the answer and the reasoning are compared by   *)
(* the ends of these intervals; a thinking orchestrator the same by lines. *)
(***************************************************************************)
EXTENDS MCOrchestrators, FiniteSetTheorems, SequenceTheorems,
        NaturalsInduction, WellFoundedInduction, TLAPS

-----------------------------------------------------------------------------
(* The smallest and the largest of some paragraphs.                        *)

LEMMA MinOf ==
  ASSUME NEW S \in SUBSET Nat, S # {}
  PROVE  /\ Thinking!A!Min(S) \in S
         /\ \A x \in S : Thinking!A!Min(S) <= x
         /\ Thinking!Min(S) = Thinking!A!Min(S)
<1>1. IsWellFoundedOn(OpToRel(<, Nat), Nat)
  BY NatLessThanWellFounded
<1>2. PICK m \in S : \A k \in S : ~(<<k, m>> \in OpToRel(<, Nat))
  BY <1>1, WFMin
<1>3. m \in Nat /\ \A k \in S : k \in Nat /\ ~(k < m)
  BY <1>2 DEF OpToRel
<1>4. \A k \in S : m <= k
  BY <1>3
<1> QED
  BY <1>4 DEF Thinking!A!Min, Thinking!Min

LEMMA MaxOf ==
  ASSUME NEW n \in Nat, NEW S \in SUBSET (0..n), S # {}
  PROVE  /\ Thinking!A!Max(S) \in S
         /\ \A x \in S : x <= Thinking!A!Max(S)
<1> DEFINE T == {n - x : x \in S}
<1>0. \A x \in S : x \in Nat /\ x <= n /\ n - x \in Nat
  OBVIOUS
<1>1. T \in SUBSET Nat /\ T # {}
  BY <1>0
<1>2. PICK m \in T : \A k \in T : m <= k
  BY <1>1, MinOf
<1>3. PICK x \in S : m = n - x
  BY <1>2
<1>4. \A y \in S : x >= y
  <2> TAKE y \in S
  <2>1. n - y \in T
    OBVIOUS
  <2>2. n - x <= n - y
    BY <1>2, <1>3, <2>1
  <2> QED
    BY <1>0, <1>3, <2>2
<1> QED
  BY <1>4 DEF Thinking!A!Max

-----------------------------------------------------------------------------
(* Intervals of paragraphs.                                                *)

LEMMA IntervalIs ==
  ASSUME NEW i \in Nat, NEW j \in Nat
  PROVE  /\ Thinking!A!Interval(i, j) \in Seq(Nat)
         /\ Thinking!ToSet(Thinking!A!Interval(i, j)) = i..j
         /\ Thinking!A!Interval(i, j) = << >> <=> i > j
<1> DEFINE n == IF i <= j THEN j - i + 1 ELSE 0
           s == Thinking!A!Interval(i, j)
<1>1. s = [k \in 1..n |-> i + k - 1]
  BY DEF Thinking!A!Interval
<1>2. n \in Nat /\ (n = 0 <=> i > j)
  OBVIOUS
<1> HIDE DEF n, s
<1>3. s \in Seq(Nat) /\ Len(s) = n /\ DOMAIN s = 1..n
  BY <1>1, <1>2
<1>4. Thinking!ToSet(s) = {i + k - 1 : k \in 1..n}
  BY <1>1, <1>3 DEF Thinking!ToSet
<1>5. {i + k - 1 : k \in 1..n} = i..j
  <2>1. \A k \in 1..n : i + k - 1 \in i..j
    BY DEF n
  <2>2. ASSUME NEW x \in i..j PROVE x \in {i + k - 1 : k \in 1..n}
    <3>1. x - i + 1 \in 1..n /\ i + (x - i + 1) - 1 = x
      BY DEF n
    <3> QED
      BY <3>1
  <2> QED
    BY <2>1, <2>2
<1>6. s = << >> <=> i > j
  BY <1>2, <1>3, EmptySeq
<1> QED
  BY <1>3, <1>4, <1>5, <1>6 DEF s

(* A paragraph and what follows it.                                        *)
LEMMA WithFirst ==
  ASSUME NEW i \in Nat, NEW s \in Seq(Nat)
  PROVE  /\ <<i>> \o s \in Seq(Nat) /\ <<i>> \o s # << >>
         /\ Thinking!ToSet(<<i>> \o s) = {i} \cup Thinking!ToSet(s)
<1> DEFINE t == <<i>> \o s
<1>1. <<i>> \in Seq(Nat) /\ Len(<<i>>) = 1 /\ <<i>>[1] = i
  OBVIOUS
<1>2. /\ t \in Seq(Nat) /\ Len(t) = 1 + Len(s)
      /\ \A k \in 1..(1 + Len(s)) : t[k] = IF k <= 1 THEN i ELSE s[k - 1]
  BY <1>1, ConcatProperties
<1>3. Len(s) \in Nat /\ DOMAIN s = 1..Len(s) /\ DOMAIN t = 1..(1 + Len(s))
  BY <1>2, LenProperties
<1> HIDE DEF t
<1>4. t # << >>
  BY <1>2, <1>3
<1>5. Thinking!ToSet(t) \subseteq {i} \cup Thinking!ToSet(s)
  <2>1. ASSUME NEW k \in 1..(1 + Len(s)) PROVE t[k] = i \/ \E j \in DOMAIN s : t[k] = s[j]
    <3>1. k <= 1 \/ k - 1 \in DOMAIN s
      BY <1>3
    <3> QED
      BY <1>2, <3>1
  <2> QED
    BY <1>3, <2>1 DEF Thinking!ToSet
<1>6. i \in Thinking!ToSet(t)
  BY <1>2, <1>3 DEF Thinking!ToSet
<1>7. ASSUME NEW k \in DOMAIN s PROVE s[k] \in Thinking!ToSet(t)
  <2>1. PICK m \in Nat : m = k + 1
    BY <1>3
  <2>2. m \in 1..(1 + Len(s)) /\ ~(m <= 1) /\ m - 1 = k
    BY <1>3, <2>1
  <2>3. m \in DOMAIN t /\ t[m] = s[k]
    BY <1>2, <1>3, <2>2
  <2> QED
    BY <2>3 DEF Thinking!ToSet
<1> QED
  BY <1>2, <1>4, <1>5, <1>6, <1>7 DEF t, Thinking!ToSet

LEMMA NotEmpty ==
  ASSUME NEW S, NEW s \in Seq(S), s # << >>
  PROVE  Thinking!ToSet(s) # {}
<1>1. 1 \in DOMAIN s
  BY LenProperties, EmptySeq
<1> QED
  BY <1>1 DEF Thinking!ToSet

LEMMA OneElement ==
  ASSUME NEW x
  PROVE  Thinking!ToSet(<<x>>) = {x}
  BY DEF Thinking!ToSet

(* The paragraphs of some kinds, from one on. *)
LEMMA PositionsAre ==
  ASSUME NEW S, NEW p \in Seq(S), NEW kinds, NEW from \in Nat
  PROVE  /\ Thinking!A!Positions(p, kinds, from) \in SUBSET Nat
         /\ Thinking!A!Positions(p, kinds, from) \in SUBSET (0..Len(p))
         /\ Len(p) \in Nat
<1>1. Len(p) \in Nat
  BY LenProperties
<1> QED
  BY <1>1 DEF Thinking!A!Positions

(* The last paragraph before the next heading after i. *)
End(p, i) ==
  LET next == Thinking!A!Positions(p, Thinking!A!Headings, i + 1) IN
  IF next = {} THEN Len(p) ELSE Thinking!A!Min(next) - 1

LEMMA UpToHeadingIs ==
  ASSUME NEW S, NEW p \in Seq(S), NEW i \in Nat
  PROVE  /\ Thinking!A!UpToHeading(p, i) = Thinking!A!Interval(i + 1, End(p, i))
         /\ End(p, i) \in Nat
         /\ Thinking!A!UpToHeading(p, i) \in Seq(Nat)
         /\ Thinking!ToSet(Thinking!A!UpToHeading(p, i)) = (i + 1)..End(p, i)
<1> DEFINE next == Thinking!A!Positions(p, Thinking!A!Headings, i + 1)
<1>1. Thinking!A!UpToHeading(p, i) = Thinking!A!Interval(i + 1, End(p, i))
  BY DEF Thinking!A!UpToHeading, End
<1>2. next \in SUBSET Nat /\ Len(p) \in Nat
  BY PositionsAre
<1>3. \A x \in next : x \in Nat /\ x >= i + 1
  BY <1>2 DEF Thinking!A!Positions
<1>4. End(p, i) \in Nat
  <2>1. CASE next = {}
    BY <1>2, <2>1 DEF End
  <2>2. CASE next # {}
    <3>1. Thinking!A!Min(next) \in next
      BY <1>2, <2>2, MinOf
    <3> QED
      BY <1>3, <2>2, <3>1 DEF End
  <2> QED
    BY <2>1, <2>2
<1> QED
  BY <1>1, <1>4, IntervalIs

-----------------------------------------------------------------------------
(* The answer found by a ThinkingAgent.                                    *)

Titles(p) == Thinking!A!Positions(p, Thinking!A!FinalAnswerTitles, 1)

(* Every section is a sequence of numbers of paragraphs. *)
LEMMA SectionType ==
  ASSUME NEW S, NEW p \in Seq(S), NEW i \in Nat
  PROVE  Thinking!A!Section(p, i).final \in Seq(Nat)
<1>0. i + 1 \in Nat
  OBVIOUS
<1>1. /\ Thinking!A!UpToHeading(p, i) \in Seq(Nat)
      /\ Thinking!A!UpToHeading(p, i + 1) \in Seq(Nat)
  BY <1>0, UpToHeadingIs
<1>2. /\ <<i>> \o Thinking!A!UpToHeading(p, i) \in Seq(Nat)
      /\ <<i + 1>> \o Thinking!A!UpToHeading(p, i + 1) \in Seq(Nat)
  BY <1>0, <1>1, WithFirst
<1>3. << >> \in Seq(Nat)
  OBVIOUS
<1> QED
  BY <1>2, <1>3 DEF Thinking!A!Section

LEMMA FinalType ==
  ASSUME NEW S, NEW p \in Seq(S)
  PROVE  /\ Thinking!A!FinalSection(p).final \in Seq(Nat)
         /\ Thinking!A!Reply(p) \in Seq(Nat)
<1> DEFINE n == Len(p)
           P(kinds, from) == Thinking!A!Positions(p, kinds, from)
           explicit == Thinking!A!ExplicitSection(p)
<1>1. /\ n \in Nat
      /\ \A kinds : \A from \in Nat :
            /\ P(kinds, from) \in SUBSET Nat /\ P(kinds, from) \in SUBSET (0..n)
            /\ P(kinds, from) # {} => /\ Thinking!A!Min(P(kinds, from)) \in Nat
                                      /\ Thinking!A!Max(P(kinds, from)) \in Nat
  <2>1. n \in Nat
    BY LenProperties
  <2>2. ASSUME NEW kinds, NEW from \in Nat
        PROVE  P(kinds, from) \in SUBSET Nat /\ P(kinds, from) \in SUBSET (0..n)
    BY PositionsAre
  <2>3. ASSUME NEW T \in SUBSET Nat, T \in SUBSET (0..n), T # {}
        PROVE  Thinking!A!Min(T) \in Nat /\ Thinking!A!Max(T) \in Nat
    BY <2>1, <2>3, MinOf, MaxOf
  <2> HIDE DEF n, P
  <2> QED
    BY <2>1, <2>2, <2>3
<1>2. \A x : <<x>> # << >>
  OBVIOUS
<1>3. << >> \in Seq(Nat) /\ \A x \in Nat : <<x>> \in Seq(Nat)
  OBVIOUS
<1>4. explicit.final \in Seq(Nat)
  <2> DEFINE titles == P(Thinking!A!FinalAnswerTitles, 1)
             conclusions == P(Thinking!A!ConclusionTitles, 1)
             from == IF n > 5 THEN n - 4 ELSE 1
             finals == P(Thinking!A!FinalTitles, from)
             openings == P(Thinking!A!OpeningTitles, 1)
  <2>1. from \in Nat
    BY <1>1
  <2>2. CASE titles # {}
    <3>1. explicit = Thinking!A!Section(p, Thinking!A!Min(titles))
      BY <2>2 DEF Thinking!A!ExplicitSection
    <3> QED
      BY <1>1, <2>2, <3>1, SectionType
  <2>3. CASE titles = {} /\ conclusions # {}
    <3>1. explicit = Thinking!A!Section(p, Thinking!A!Min(conclusions))
      BY <2>3 DEF Thinking!A!ExplicitSection
    <3> QED
      BY <1>1, <2>3, <3>1, SectionType
  <2>4. CASE titles = {} /\ conclusions = {} /\ finals # {}
    <3>1. explicit.final = Thinking!A!Interval(Thinking!A!Max(finals) + 1, n)
      BY <2>4 DEF Thinking!A!ExplicitSection
    <3>2. Thinking!A!Max(finals) + 1 \in Nat
      BY <1>1, <2>1, <2>4
    <3> QED
      BY <1>1, <3>1, <3>2, IntervalIs
  <2>5. CASE titles = {} /\ conclusions = {} /\ finals = {} /\ openings # {}
    <3>1. explicit.final = Thinking!A!UpToHeading(p, Thinking!A!Min(openings))
      BY <2>5 DEF Thinking!A!ExplicitSection
    <3> QED
      BY <1>1, <2>5, <3>1, UpToHeadingIs
  <2>6. CASE titles = {} /\ conclusions = {} /\ finals = {} /\ openings = {}
    BY <1>3, <2>6 DEF Thinking!A!ExplicitSection
  <2> QED
    BY <2>2, <2>3, <2>4, <2>5, <2>6
<1>5. Thinking!A!FinalSection(p).final \in Seq(Nat)
  <2> DEFINE concluding == P(Thinking!A!ConclusionIndicators, 1)
  <2>1. concluding # {} => <<Thinking!A!Min(concluding)>> \in Seq(Nat)
    BY <1>1, <1>3
  <2>2. <<n>> \in Seq(Nat)
    BY <1>1, <1>3
  <2> QED
    BY <1>4, <2>1, <2>2 DEF Thinking!A!FinalSection
<1>6. Thinking!A!Reply(p) \in Seq(Nat)
  <2> DEFINE from == IF n > 3 THEN n - 2 ELSE 1
             replies == P({"reply"}, from)
  <2>1. from \in Nat
    BY <1>1
  <2>2. replies # {} => <<Thinking!A!Min(replies)>> \in Seq(Nat)
    BY <1>1, <1>3, <2>1
  <2> QED
    BY <1>3, <2>2 DEF Thinking!A!Reply
<1> QED
  BY <1>5, <1>6

(* Whatever is written, something is taken for the answer. *)
LEMMA SomethingIsFound ==
  ASSUME NEW S, NEW p \in Seq(S), p # << >>
  PROVE  Thinking!ToSet(Thinking!A!FindAnswer(p).finalAnswer) # {}
<1> DEFINE section == Thinking!A!FinalSection(p)
           steps == Thinking!A!ThinkingSteps(p, section.at)
           final == IF section.final # << >> THEN section.final ELSE Thinking!A!Reply(p)
<1>1. final \in Seq(Nat)
  BY FinalType
<1>2. CASE final # << >>
  <2>1. Thinking!A!FindAnswer(p).finalAnswer = final
    BY <1>2 DEF Thinking!A!FindAnswer
  <2> HIDE DEF final
  <2> QED
    BY <1>1, <1>2, <2>1, NotEmpty
<1>3. CASE final = << >> /\ steps # << >>
  <2>1. Thinking!A!FindAnswer(p) = Thinking!A!FromSteps(p, steps)
    BY <1>3 DEF Thinking!A!FindAnswer
  <2>2. \E x : Thinking!A!FromSteps(p, steps).finalAnswer = <<x>>
    BY DEF Thinking!A!FromSteps
  <2> QED
    BY <2>1, <2>2, OneElement
<1>4. CASE final = << >> /\ steps = << >>
  <2> DEFINE n == Len(p)
             from == IF Thinking!A!Positions(p, {"item"}, 1) # {} /\ n > 1 THEN n
                     ELSE IF n <= 5 THEN 1 ELSE n \div 2 + 1
  <2>1. Thinking!A!FindAnswer(p) = Thinking!A!Unstructured(p)
    BY <1>4 DEF Thinking!A!FindAnswer
  <2>2. Thinking!A!Unstructured(p).finalAnswer = Thinking!A!Interval(from, n)
    BY DEF Thinking!A!Unstructured
  <2>3. n \in Nat /\ n # 0
    BY LenProperties, EmptySeq
  <2>4. from \in Nat /\ from <= n
    BY <2>3
  <2>5. from \in from..n
    BY <2>3, <2>4
  <2> HIDE DEF from
  <2>6. Thinking!ToSet(Thinking!A!Interval(from, n)) = from..n
    BY <2>3, <2>4, IntervalIs
  <2> QED
    BY <2>1, <2>2, <2>5, <2>6
<1> QED
  BY <1>2, <1>3, <1>4

(* What is announced is found, if it has text: the section follows its     *)
(* title, or the paragraph after the title, which is not a heading.        *)
LEMMA AnnouncedIsFound ==
  ASSUME NEW S, NEW p \in Seq(S), Titles(p) # {},
         Thinking!A!Min(Titles(p)) > 1,
         Thinking!ToSet(Thinking!A!UpToHeading(p, Thinking!A!Min(Titles(p)))) # {}
  PROVE  LET found == Thinking!A!FindAnswer(p)
             final == Thinking!ToSet(found.finalAnswer)
         IN  /\ Thinking!ToSet(Thinking!A!UpToHeading(p, Thinking!A!Min(Titles(p))))
                    \subseteq final
             /\ final \cap Thinking!ToSet(found.thinkingSteps) = {}
<1> DEFINE t == Thinking!A!Min(Titles(p))
           found == Thinking!A!FindAnswer(p)
           H(i) == Thinking!A!Positions(p, Thinking!A!Headings, i)
<1>1. t \in Titles(p) /\ t \in Nat /\ Len(p) \in Nat /\ t <= Len(p)
  <2>1. Titles(p) \in SUBSET Nat /\ Titles(p) \in SUBSET (0..Len(p)) /\ Len(p) \in Nat
    BY PositionsAre DEF Titles
  <2>2. t \in Titles(p)
    BY <2>1, MinOf
  <2> QED
    BY <2>1, <2>2
<1> HIDE DEF t
<1>2. /\ Thinking!ToSet(Thinking!A!UpToHeading(p, t)) = (t + 1)..End(p, t)
      /\ End(p, t) \in Nat /\ End(p, t) >= t + 1
      /\ t > 1
  <2>1. /\ Thinking!ToSet(Thinking!A!UpToHeading(p, t)) = (t + 1)..End(p, t)
        /\ End(p, t) \in Nat
    BY <1>1, UpToHeadingIs
  <2>2. (t + 1)..End(p, t) # {} /\ t > 1
    BY <2>1 DEF t
  <2> QED
    BY <1>1, <2>1, <2>2
<1>3. Thinking!A!ExplicitSection(p) = Thinking!A!Section(p, t)
  BY DEF Thinking!A!ExplicitSection, Titles, t
<1>4. ASSUME NEW at \in Nat, at > 1, NEW final \in Seq(Nat), final # << >>,
             Thinking!A!Section(p, t) = [at |-> at, final |-> final]
      PROVE  /\ found.finalAnswer = final
             /\ Thinking!ToSet(found.thinkingSteps) = 1..(at - 1)
  <2>1. Thinking!A!FinalSection(p) = [at |-> at, final |-> final]
    BY <1>3, <1>4 DEF Thinking!A!FinalSection
  <2>2. Thinking!A!ThinkingSteps(p, at) = Thinking!A!Interval(1, at - 1)
    BY <1>4 DEF Thinking!A!ThinkingSteps
  <2>3. found = [finalAnswer |-> final, thinkingSteps |-> Thinking!A!Interval(1, at - 1)]
    BY <1>4, <2>1, <2>2 DEF Thinking!A!FindAnswer
  <2>4. 1 \in Nat /\ at - 1 \in Nat
    BY <1>4
  <2> QED
    BY <2>3, <2>4, IntervalIs
<1>5. CASE p[t] \in Thinking!A!ValueFollows
  <2> DEFINE final == <<t>> \o Thinking!A!UpToHeading(p, t)
  <2>1. Thinking!A!Section(p, t) = [at |-> t, final |-> final]
    BY <1>5 DEF Thinking!A!Section
  <2>2. /\ final \in Seq(Nat) /\ final # << >>
        /\ Thinking!ToSet(final) = {t} \cup (t + 1)..End(p, t)
    <3>1. Thinking!A!UpToHeading(p, t) \in Seq(Nat)
      BY <1>1, UpToHeadingIs
    <3> QED
      BY <1>1, <1>2, <3>1, WithFirst
  <2> HIDE DEF final, found
  <2>3. /\ found.finalAnswer = final
        /\ Thinking!ToSet(found.thinkingSteps) = 1..(t - 1)
    BY <1>1, <1>2, <1>4, <2>1, <2>2
  <2>4. ({t} \cup (t + 1)..End(p, t)) \cap 1..(t - 1) = {}
    BY <1>1
  <2> QED
    BY <1>2, <2>2, <2>3, <2>4 DEF found, t
<1>6. CASE p[t] \notin Thinking!A!ValueFollows
  <2>1. t < Len(p)
    <3> SUFFICES ASSUME t = Len(p) PROVE FALSE
      BY <1>1
    <3>1. H(t + 1) = {}
      BY <1>1 DEF Thinking!A!Positions
    <3>2. End(p, t) = t
      BY <3>1 DEF End
    <3> QED
      BY <1>1, <1>2, <3>2
  <2>2. H(t + 1) = H(t + 2)
    <3>1. t + 1 \notin H(t + 1)
      <4> SUFFICES ASSUME t + 1 \in H(t + 1) PROVE FALSE
        OBVIOUS
      <4>1. H(t + 1) \in SUBSET Nat
        BY <1>1, PositionsAre
      <4>2. Thinking!A!Min(H(t + 1)) <= t + 1 /\ Thinking!A!Min(H(t + 1)) \in Nat
        BY <4>1, MinOf
      <4>3. End(p, t) <= t
        BY <1>1, <4>2 DEF End
      <4> QED
        BY <1>1, <1>2, <4>3
    <3> QED
      BY <1>1, <3>1 DEF Thinking!A!Positions
  <2>3. End(p, t + 1) = End(p, t)
    <3>1. (t + 1) + 1 = t + 2
      BY <1>1
    <3> QED
      BY <2>2, <3>1 DEF End
  <2> DEFINE final == <<t + 1>> \o Thinking!A!UpToHeading(p, t + 1)
  <2>4. Thinking!A!Section(p, t) = [at |-> t + 1, final |-> final]
    BY <1>6, <2>1 DEF Thinking!A!Section
  <2>5. /\ final \in Seq(Nat) /\ final # << >>
        /\ Thinking!ToSet(final) = {t + 1} \cup ((t + 1) + 1)..End(p, t)
    <3>1. t + 1 \in Nat
      BY <1>1
    <3>2. /\ Thinking!A!UpToHeading(p, t + 1) \in Seq(Nat)
          /\ Thinking!ToSet(Thinking!A!UpToHeading(p, t + 1)) = ((t + 1) + 1)..End(p, t)
      BY <2>3, <3>1, UpToHeadingIs
    <3> QED
      BY <3>1, <3>2, WithFirst
  <2> HIDE DEF final, found
  <2>6. t + 1 \in Nat /\ t + 1 > 1 /\ (t + 1) - 1 = t
    BY <1>1, <1>2
  <2>7. /\ found.finalAnswer = final
        /\ Thinking!ToSet(found.thinkingSteps) = 1..t
    BY <1>4, <2>4, <2>5, <2>6
  <2>8. /\ (t + 1)..End(p, t) \subseteq {t + 1} \cup ((t + 1) + 1)..End(p, t)
        /\ ({t + 1} \cup ((t + 1) + 1)..End(p, t)) \cap 1..t = {}
    BY <1>1, <1>2
  <2> QED
    BY <1>2, <2>5, <2>7, <2>8 DEF found, t
<1> QED
  BY <1>5, <1>6

(* What is found, of every response that is not blank.                     *)
Finds(p, found) ==
  LET final == Thinking!ToSet(found.finalAnswer)
      steps == Thinking!ToSet(found.thinkingSteps)
      titles == Thinking!A!Positions(p, Thinking!A!FinalAnswerTitles, 1)
      section == Thinking!ToSet(Thinking!A!UpToHeading(p, Thinking!Min(titles)))
  IN  /\ final # {}
      /\ titles # {} /\ Thinking!Min(titles) > 1 /\ section # {} =>
             section \subseteq final /\ final \cap steps = {}

LEMMA FindAnswerFinds ==
  ASSUME NEW p \in Answers
  PROVE  Finds(p, Thinking!A!FindAnswer(p))
<1> DEFINE titles == Thinking!A!Positions(p, Thinking!A!FinalAnswerTitles, 1)
<1>1. p \in Seq(A!Paragraphs) /\ p # << >>
  BY AnswersAssumption
<1>2. Thinking!ToSet(Thinking!A!FindAnswer(p).finalAnswer) # {}
  BY <1>1, SomethingIsFound
<1>3. titles = Titles(p) /\ titles \in SUBSET Nat
  BY <1>1, PositionsAre DEF Titles
<1>4. titles # {} => Thinking!Min(titles) = Thinking!A!Min(Titles(p))
  BY <1>3, MinOf
<1> QED
  BY <1>1, <1>2, <1>3, <1>4, AnnouncedIsFound DEF Finds

LEMMA WholeFinds ==
  ASSUME NEW p \in Answers
  PROVE  Finds(p, [finalAnswer |-> Thinking!A!Interval(1, Len(p)), thinkingSteps |-> << >>])
<1> DEFINE titles == Thinking!A!Positions(p, Thinking!A!FinalAnswerTitles, 1)
<1>1. p \in Seq(A!Paragraphs) /\ p # << >>
  BY AnswersAssumption
<1>2. Len(p) \in Nat /\ Len(p) # 0
  BY <1>1, LenProperties, EmptySeq
<1>3. Thinking!ToSet(Thinking!A!Interval(1, Len(p))) = 1..Len(p)
  BY <1>2, IntervalIs
<1>4. Thinking!ToSet(<< >>) = {}
  BY DEF Thinking!ToSet
<1>5. ASSUME titles # {}
      PROVE  Thinking!ToSet(Thinking!A!UpToHeading(p, Thinking!Min(titles))) \subseteq 1..Len(p)
  <2>1. titles \in SUBSET Nat
    BY <1>1, PositionsAre
  <2>2. PICK t \in Nat : t = Thinking!Min(titles)
    BY <1>5, <2>1, MinOf
  <2>3. /\ Thinking!ToSet(Thinking!A!UpToHeading(p, t)) = (t + 1)..End(p, t)
        /\ End(p, t) \in Nat
    BY <1>1, UpToHeadingIs
  <2>4. End(p, t) <= Len(p)
    <3> DEFINE next == Thinking!A!Positions(p, Thinking!A!Headings, t + 1)
    <3>1. next \in SUBSET Nat /\ next \in SUBSET (0..Len(p))
      BY <1>1, PositionsAre
    <3>2. CASE next = {}
      BY <1>2, <3>2 DEF End
    <3>3. CASE next # {}
      <4>1. Thinking!A!Min(next) \in 0..Len(p)
        BY <3>1, <3>3, MinOf
      <4> QED
        BY <1>2, <3>3, <4>1 DEF End
    <3> QED
      BY <3>2, <3>3
  <2> QED
    BY <1>2, <2>2, <2>3, <2>4
<1>6. 1 \in 1..Len(p)
  BY <1>2
<1> QED
  BY <1>3, <1>4, <1>5, <1>6 DEF Finds

-----------------------------------------------------------------------------
(* The lines of a response to a thinking orchestrator.                     *)

(* The operators of its module that the thinking agent's has too.          *)
LEMMA SameOperators ==
  /\ \A S : Thinking!O!Min(S) = Thinking!A!Min(S) /\ Thinking!O!Max(S) = Thinking!A!Max(S)
  /\ \A i, j : Thinking!O!Interval(i, j) = Thinking!A!Interval(i, j)
BY DEF Thinking!O!Min, Thinking!A!Min, Thinking!O!Max, Thinking!A!Max,
       Thinking!O!Interval, Thinking!A!Interval

(* After a line there are blank ones, and then one that is not, if any.    *)
LEMMA AfterIs ==
  ASSUME NEW r \in Seq(Thinking!O!Lines), NEW i \in 0..Len(r)
  PROVE  /\ Thinking!O!After(r, i) \in (i + 1)..(Len(r) + 1)
         /\ \A k \in (i + 1)..(Thinking!O!After(r, i) - 1) : r[k] = "blank"
         /\ Thinking!O!After(r, i) <= Len(r) => r[Thinking!O!After(r, i)] # "blank"
<1> DEFINE later == {k \in (i + 1)..Len(r) : r[k] # "blank"}
<1>0. Len(r) \in Nat
  BY LenProperties
<1>1. CASE later = {}
  <2>1. Thinking!O!After(r, i) = Len(r) + 1
    BY <1>1 DEF Thinking!O!After
  <2> QED
    BY <1>0, <1>1, <2>1
<1>2. CASE later # {}
  <2>1. later \in SUBSET Nat
    BY <1>0
  <2>2. Thinking!O!After(r, i) = Thinking!A!Min(later)
    BY <1>2, SameOperators DEF Thinking!O!After
  <2>3. /\ Thinking!A!Min(later) \in later
        /\ \A k \in later : Thinking!A!Min(later) <= k
    BY <1>2, <2>1, MinOf
  <2>4. ASSUME NEW k \in (i + 1)..(Thinking!A!Min(later) - 1)
        PROVE  r[k] = "blank"
    <3>1. Thinking!A!Min(later) \in (i + 1)..Len(r)
      BY <2>3
    <3>2. k \in (i + 1)..Len(r) /\ ~(Thinking!A!Min(later) <= k)
      BY <1>0, <3>1
    <3> QED
      BY <2>3, <3>2
  <2> QED
    BY <1>0, <2>2, <2>3, <2>4
<1> QED
  BY <1>1, <1>2

(* There are matches as the definition says, up to any line of a response: *)
(* whether a line is one is told by those before it.                       *)
LEMMA MatchesAre ==
  ASSUME NEW r \in Seq(Thinking!O!Lines), NEW p
  PROVE  /\ Thinking!O!Matches(r, p) \in SUBSET Thinking!O!Places(r, p)
         /\ \A i \in Thinking!O!Places(r, p) :
               i \in Thinking!O!Matches(r, p) <=>
                  \A j \in Thinking!O!Matches(r, p) : Thinking!O!After(r, j) # i
<1> DEFINE P == Thinking!O!Places(r, p)
           Upto(k) == {i \in P : i <= k}
           Found(k) == \E M \in SUBSET Upto(k) :
                          \A i \in Upto(k) : i \in M <=> \A j \in M : Thinking!O!After(r, j) # i
           bad == {k \in Nat : ~Found(k)}
<1>0. Len(r) \in Nat /\ P \in SUBSET (2..Len(r))
  BY LenProperties DEF Thinking!O!Places
<1>1. \A j \in P : Thinking!O!After(r, j) > j
  <2> TAKE j \in P
  <2>1. j \in 0..Len(r)
    BY <1>0
  <2> QED
    BY <1>0, <2>1, AfterIs
<1>2. ASSUME bad # {} PROVE FALSE
  <2>1. bad \in SUBSET Nat
    OBVIOUS
  <2>2. PICK k \in bad : \A x \in bad : k <= x
    BY <1>2, <2>1, MinOf
  <2> HIDE DEF P
  <2>3. CASE k = 0
    <3>1. Upto(k) = {}
      BY <1>0, <2>3
    <3> QED
      BY <2>2, <3>1
  <2>4. CASE k # 0
    <3>1. k - 1 \in Nat /\ ~(k <= k - 1)
      BY <2>4
    <3>2. PICK M \in SUBSET Upto(k - 1) :
             \A i \in Upto(k - 1) : i \in M <=> \A j \in M : Thinking!O!After(r, j) # i
      BY <2>2, <3>1
    <3>3. \A i \in P : i <= k <=> i = k \/ i <= k - 1
      BY <1>0, <3>1
    <3>4. k \notin M
      BY <3>1, <3>2
    <3>5. CASE k \in P /\ \A j \in M : Thinking!O!After(r, j) # k
      <4> DEFINE N == M \cup {k}
      <4>1. N \in SUBSET Upto(k)
        BY <3>2, <3>3, <3>5
      <4>2. ASSUME NEW i \in Upto(k)
            PROVE  Thinking!O!After(r, k) # i
        BY <1>0, <1>1, <3>5
      <4>3. ASSUME NEW i \in Upto(k)
            PROVE  i \in N <=> \A j \in N : Thinking!O!After(r, j) # i
        BY <3>2, <3>3, <3>4, <3>5, <4>2
      <4> QED
        BY <2>2, <4>1, <4>3
    <3>6. CASE ~(k \in P /\ \A j \in M : Thinking!O!After(r, j) # k)
      <4>1. M \in SUBSET Upto(k)
        BY <3>2, <3>3
      <4>2. ASSUME NEW i \in Upto(k)
            PROVE  i \in M <=> \A j \in M : Thinking!O!After(r, j) # i
        BY <3>2, <3>3, <3>4, <3>6
      <4> QED
        BY <2>2, <4>1, <4>2
    <3> QED
      BY <3>5, <3>6
  <2> QED
    BY <2>3, <2>4
<1>3. Found(Len(r))
  BY <1>0, <1>2
<1>4. Upto(Len(r)) = P
  BY <1>0
<1>5. \E M \in SUBSET P :
         \A i \in P : i \in M <=> \A j \in M : Thinking!O!After(r, j) # i
  BY <1>3, <1>4
<1> HIDE DEF Upto, Found, bad
<1> QED
  BY <1>5 DEF Thinking!O!Matches

(* The last match is a match, and no place after it is one.                *)
LEMMA LastMatchIs ==
  ASSUME NEW r \in Seq(Thinking!O!Lines), NEW p
  PROVE  \/ Thinking!O!Matches(r, p) = {} /\ Thinking!O!LastMatch(r, p) = 0
         \/ /\ Thinking!O!LastMatch(r, p) \in Thinking!O!Matches(r, p)
            /\ \A i \in Thinking!O!Matches(r, p) : i <= Thinking!O!LastMatch(r, p)
<1>1. Thinking!O!Matches(r, p) \in SUBSET (0..Len(r)) /\ Len(r) \in Nat
  BY MatchesAre, LenProperties DEF Thinking!O!Places
<1>2. CASE Thinking!O!Matches(r, p) = {}
  BY <1>2 DEF Thinking!O!LastMatch
<1>3. CASE Thinking!O!Matches(r, p) # {}
  BY <1>1, <1>3, MaxOf, SameOperators DEF Thinking!O!LastMatch
<1> QED
  BY <1>2, <1>3

LEMMA LastMatchType ==
  ASSUME NEW r \in Seq(Thinking!O!Lines), NEW p
  PROVE  \/ Thinking!O!LastMatch(r, p) = 0
         \/ /\ Thinking!O!LastMatch(r, p) \in 2..(Len(r) - 1)
            /\ r[Thinking!O!LastMatch(r, p)] = p
BY LastMatchIs, MatchesAre DEF Thinking!O!Places

(* Lines a to b, of those from i to j, with all the text of these.         *)
Covers(r, s, i, j) ==
    \E a, b \in Nat :
        /\ s = Thinking!A!Interval(a, b)
        /\ i <= a /\ b <= j
        /\ \A k \in i..j : r[k] = "text" => k \in a..b

LEMMA TrimmedIs ==
  ASSUME NEW r \in Seq(Thinking!O!Lines), NEW i \in Nat, NEW j \in Nat
  PROVE  Covers(r, Thinking!O!Trimmed(r, i, j), i, j)
<1> DEFINE written == {k \in i..j : r[k] # "blank"}
<1>1. written \in SUBSET Nat /\ written \in SUBSET (0..j)
  OBVIOUS
<1>2. CASE written = {}
  <2>1. Thinking!O!Trimmed(r, i, j) = << >>
    BY <1>2 DEF Thinking!O!Trimmed
  <2>2. i + 1 \in Nat /\ Thinking!A!Interval(i + 1, 0) = << >>
    BY IntervalIs
  <2>3. \A k \in i..j : r[k] # "text"
    BY <1>2
  <2> QED
    BY <2>1, <2>2, <2>3 DEF Covers
<1>3. CASE written # {}
  <2>1. /\ Thinking!A!Min(written) \in written
        /\ \A k \in written : Thinking!A!Min(written) <= k
    BY <1>1, <1>3, MinOf
  <2>2. /\ Thinking!A!Max(written) \in written
        /\ \A k \in written : k <= Thinking!A!Max(written)
    BY <1>1, <1>3, MaxOf
  <2>3. Thinking!O!Trimmed(r, i, j)
        = Thinking!A!Interval(Thinking!A!Min(written), Thinking!A!Max(written))
    BY <1>3, SameOperators DEF Thinking!O!Trimmed
  <2>4. PICK a \in Nat, b \in Nat : a = Thinking!A!Min(written) /\ b = Thinking!A!Max(written)
    BY <1>1, <2>1, <2>2
  <2>5. \A k \in i..j : r[k] = "text" => k \in a..b
    BY <2>1, <2>2, <2>4
  <2>6. i <= a /\ b <= j
    BY <2>1, <2>2, <2>4
  <2> QED
    BY <2>3, <2>4, <2>5, <2>6 DEF Covers
<1> QED
  BY <1>2, <1>3

(* No text is left out where a heading or a rule is.                       *)
LEMMA WithoutIs ==
  ASSUME NEW r \in Seq(Thinking!O!Lines), NEW i \in Nat, NEW j \in Nat,
         NEW s, Covers(r, s, i, j), NEW kinds, "text" \notin kinds
  PROVE  Covers(r, Thinking!O!Without(r, s, kinds), i, j)
<1>1. PICK a \in Nat, b \in Nat :
         /\ s = Thinking!A!Interval(a, b)
         /\ i <= a /\ b <= j
         /\ \A k \in i..j : r[k] = "text" => k \in a..b
  BY DEF Covers
<1>2. CASE s # << >> /\ r[s[1]] \in kinds
  <2>1. a <= b
    BY <1>1, <1>2, IntervalIs
  <2>2. s = [k \in 1..(b - a + 1) |-> a + k - 1] /\ b - a + 1 \in Nat \ {0}
    BY <1>1, <2>1 DEF Thinking!A!Interval
  <2>3. s[1] = a /\ Len(s) = b - a + 1 /\ s[Len(s)] = b
    BY <2>2
  <2>4. Thinking!O!Without(r, s, kinds) = Thinking!O!Trimmed(r, a + 1, b)
    BY <1>2, <2>3 DEF Thinking!O!Without
  <2>5. PICK c \in Nat, d \in Nat :
           /\ Thinking!O!Trimmed(r, a + 1, b) = Thinking!A!Interval(c, d)
           /\ a + 1 <= c /\ d <= b
           /\ \A k \in (a + 1)..b : r[k] = "text" => k \in c..d
    <3>1. PICK e \in Nat : e = a + 1
      OBVIOUS
    <3>2. Covers(r, Thinking!O!Trimmed(r, e, b), e, b)
      BY TrimmedIs
    <3> QED
      BY <3>1, <3>2 DEF Covers
  <2>6. r[a] # "text"
    BY <1>2, <2>3
  <2>7. ASSUME NEW k \in i..j, r[k] = "text" PROVE k \in c..d
    <3>1. k \in a..b /\ k # a
      BY <1>1, <2>6, <2>7
    <3> QED
      BY <2>5, <2>7, <3>1
  <2>8. i <= c /\ d <= j
    BY <1>1, <2>5
  <2> QED
    BY <2>4, <2>5, <2>7, <2>8 DEF Covers
<1>3. CASE ~(s # << >> /\ r[s[1]] \in kinds)
  BY <1>3 DEF Thinking!O!Without
<1> QED
  BY <1>2, <1>3

LEMMA CleanedIs ==
  ASSUME NEW r \in Seq(Thinking!O!Lines), NEW i \in Nat, NEW j \in Nat
  PROVE  Covers(r, Thinking!O!Cleaned(r, i, j), i, j)
BY TrimmedIs, WithoutIs DEF Thinking!O!Cleaned

(* The separator is a marker with lines before and after.                  *)
LEMMA SeparatorIs ==
  ASSUME NEW r \in Seq(Thinking!O!Lines)
  PROVE  \/ Thinking!O!Separator(r) = 0
         \/ /\ Thinking!O!Separator(r) \in 2..(Len(r) - 1)
            /\ r[Thinking!O!Separator(r)] \in Thinking!O!Markers
<1> DEFINE Found(i) == \/ i = 0
                       \/ i \in 2..(Len(r) - 1) /\ r[i] \in Thinking!O!Markers
<1>1. ASSUME NEW i, Found(i), NEW p \in Thinking!O!Markers
      PROVE  Found(Thinking!O!Later(r, i, p))
  BY <1>1, LastMatchType DEF Thinking!O!Later
<1>2. {"bold", "hash", "rule"} \subseteq Thinking!O!Markers /\ Found(0)
  BY DEF Thinking!O!Markers
<1> HIDE DEF Found
<1>3. Found(Thinking!O!Separator(r))
  BY <1>1, <1>2 DEF Thinking!O!Separator
<1> QED
  BY <1>3 DEF Found

(* Between line i and the last marker m, to which the search has come, or  *)
(* would come from i in at most two steps, there is no text.               *)
Reached(r, i, m) ==
    /\ i \in 1..m
    /\ \/ i = m
       \/ Thinking!O!After(r, i) = m
       \/ /\ Thinking!O!After(r, i) \in 1..(m - 1)
          /\ r[Thinking!O!After(r, i)] \in Thinking!O!Markers
          /\ Thinking!O!After(r, Thinking!O!After(r, i)) = m

LEMMA ReachedHasNoText ==
  ASSUME NEW r \in Seq(Thinking!O!Lines), NEW m \in 1..Len(r),
         r[m] \in Thinking!O!Markers, NEW i, Reached(r, i, m)
  PROVE  \A k \in (i + 1)..m : r[k] # "text"
<1>0. Len(r) \in Nat /\ i \in 1..m /\ i \in 0..Len(r)
  BY LenProperties DEF Reached
<1>1. \A x \in Thinking!O!Markers : x # "text"
  BY DEF Thinking!O!Markers
<1>2. \A k \in (i + 1)..(Thinking!O!After(r, i) - 1) : r[k] = "blank"
  BY <1>0, AfterIs
<1>3. CASE i = m
  BY <1>0, <1>3
<1>4. CASE Thinking!O!After(r, i) = m
  <2>1. \A k \in (i + 1)..m : k = m \/ k \in (i + 1)..(m - 1)
    BY <1>0
  <2> QED
    BY <1>1, <1>2, <1>4, <2>1
<1>5. CASE /\ Thinking!O!After(r, i) \in 1..(m - 1)
           /\ r[Thinking!O!After(r, i)] \in Thinking!O!Markers
           /\ Thinking!O!After(r, Thinking!O!After(r, i)) = m
  <2>1. PICK j \in 1..(m - 1) : j = Thinking!O!After(r, i)
    BY <1>5
  <2>2. j \in 0..Len(r)
    BY <1>0, <2>1
  <2>3. \A k \in (j + 1)..(m - 1) : r[k] = "blank"
    BY <1>5, <2>1, <2>2, AfterIs
  <2>4. \A k \in (i + 1)..m : \/ k = m \/ k = j
                              \/ k \in (i + 1)..(j - 1) \/ k \in (j + 1)..(m - 1)
    BY <1>0, <2>1
  <2> QED
    BY <1>1, <1>2, <1>5, <2>1, <2>3, <2>4
<1> QED
  BY <1>3, <1>4, <1>5 DEF Reached

LEMMA ReachedStays ==
  ASSUME NEW r \in Seq(Thinking!O!Lines), NEW m \in 2..(Len(r) - 1),
         r[m] \in Thinking!O!Markers,
         \A k \in (m + 1)..Len(r) : r[k] \notin Thinking!O!Markers,
         NEW i, Reached(r, i, m), NEW p \in Thinking!O!Markers
  PROVE  Reached(r, Thinking!O!Later(r, i, p), m)
<1> DEFINE l == Thinking!O!LastMatch(r, p)
<1>0. Len(r) \in Nat /\ i \in 1..m /\ i # 0
  BY LenProperties DEF Reached
<1>1. \/ l = 0
      \/ l \in 2..m /\ r[l] \in Thinking!O!Markers
  BY <1>0, LastMatchType
<1>2. \A x \in Thinking!O!Markers : x # "blank"
  BY DEF Thinking!O!Markers
<1>3. CASE l > Thinking!O!After(r, i)
  <2>1. Thinking!O!Later(r, i, p) = l
    BY <1>0, <1>3 DEF Thinking!O!Later
  <2>2. i \in 0..Len(r) /\ Thinking!O!After(r, i) \in Nat /\ Thinking!O!After(r, i) > i
    <3>1. i \in 0..Len(r)
      BY <1>0
    <3> QED
      BY <1>0, <3>1, AfterIs
  <2>3. l \in 2..m /\ r[l] # "blank"
    BY <1>1, <1>2, <1>3, <2>2
  <2>4. i # m /\ Thinking!O!After(r, i) # m
    BY <1>0, <1>3, <2>2, <2>3
  <2>5. PICK j \in 1..(m - 1) :
           j = Thinking!O!After(r, i) /\ Thinking!O!After(r, j) = m
    BY <2>4 DEF Reached
  <2>6. j \in 0..Len(r)
    BY <1>0, <2>5
  <2>7. \A k \in (j + 1)..(m - 1) : r[k] = "blank"
    BY <2>5, <2>6, AfterIs
  <2>8. l = m
    BY <1>0, <1>3, <2>3, <2>5, <2>7
  <2> QED
    BY <1>0, <2>1, <2>8 DEF Reached
<1>4. CASE ~(l > Thinking!O!After(r, i))
  BY <1>0, <1>4 DEF Thinking!O!Later
<1> QED
  BY <1>3, <1>4

(* The last match of the pattern of the last marker is that marker, or the *)
(* one before it, whose match has taken the newline between them.          *)
LEMMA LastMatchReaches ==
  ASSUME NEW r \in Seq(Thinking!O!Lines), NEW m \in 2..(Len(r) - 1),
         r[m] \in Thinking!O!Markers,
         \A k \in (m + 1)..Len(r) : r[k] \notin Thinking!O!Markers
  PROVE  LET l == Thinking!O!LastMatch(r, r[m]) IN
         /\ l \in 2..m /\ r[l] = r[m]
         /\ l = m \/ Thinking!O!After(r, l) = m
<1> DEFINE p == r[m]
           l == Thinking!O!LastMatch(r, p)
<1>0. Len(r) \in Nat
  BY LenProperties
<1>1. m \in Thinking!O!Places(r, p)
  BY <1>0 DEF Thinking!O!Places
<1>2. CASE m \in Thinking!O!Matches(r, p)
  <2>1. l # 0 /\ m <= l
    BY <1>2, LastMatchIs
  <2>2. l \in 2..(Len(r) - 1) /\ r[l] = p
    BY <2>1, LastMatchType
  <2>3. l = m
    BY <1>0, <2>1, <2>2
  <2> QED
    BY <2>2, <2>3
<1>3. CASE m \notin Thinking!O!Matches(r, p)
  <2>1. PICK j \in Thinking!O!Matches(r, p) : Thinking!O!After(r, j) = m
    BY <1>1, <1>3, MatchesAre
  <2>2. j <= l /\ l \in 2..(Len(r) - 1) /\ r[l] = p
    <3>1. l \in Thinking!O!Matches(r, p) /\ j <= l
      BY <2>1, LastMatchIs
    <3>2. l \in Thinking!O!Places(r, p)
      BY <3>1, MatchesAre
    <3> QED
      BY <3>1, <3>2 DEF Thinking!O!Places
  <2>3. j \in 2..(Len(r) - 1)
    BY <2>1, MatchesAre DEF Thinking!O!Places
  <2>4. l \in 2..m
    BY <1>0, <2>2
  <2>5. j \in 0..Len(r)
    BY <1>0, <2>3
  <2>6. \A k \in (j + 1)..(m - 1) : r[k] = "blank"
    BY <2>1, <2>5, AfterIs
  <2>7. p # "blank"
    BY DEF Thinking!O!Markers
  <2>8. l = m \/ l = j
    BY <1>0, <2>2, <2>3, <2>4, <2>6, <2>7
  <2> QED
    BY <2>1, <2>2, <2>4, <2>8
<1> QED
  BY <1>2, <1>3

(* The pattern of the last marker brings the search to it.                 *)
LEMMA LaterReaches ==
  ASSUME NEW r \in Seq(Thinking!O!Lines), NEW m \in 2..(Len(r) - 1),
         r[m] \in Thinking!O!Markers,
         \A k \in (m + 1)..Len(r) : r[k] \notin Thinking!O!Markers,
         NEW i, i = 0 \/ (i \in 2..m /\ r[i] \in Thinking!O!Markers)
  PROVE  Reached(r, Thinking!O!Later(r, i, r[m]), m)
<1> DEFINE l == Thinking!O!LastMatch(r, r[m])
<1>0. Len(r) \in Nat /\ l \in 2..m /\ r[l] = r[m] /\ (l = m \/ Thinking!O!After(r, l) = m)
  BY LenProperties, LastMatchReaches
<1>1. Reached(r, l, m)
  BY <1>0 DEF Reached
<1>2. CASE Thinking!O!Later(r, i, r[m]) = l
  BY <1>1, <1>2
<1>3. CASE Thinking!O!Later(r, i, r[m]) # l
  <2>1. i # 0 /\ Thinking!O!Later(r, i, r[m]) = i /\ ~(l > Thinking!O!After(r, i))
    BY <1>0, <1>3 DEF Thinking!O!Later
  <2>2. i \in 2..m /\ i \in 0..Len(r) /\ r[m] # "blank"
    BY <1>0, <2>1 DEF Thinking!O!Markers
  <2>3. /\ Thinking!O!After(r, i) \in (i + 1)..(Len(r) + 1)
        /\ \A k \in (i + 1)..(Thinking!O!After(r, i) - 1) : r[k] = "blank"
    BY <2>2, AfterIs
  <2>4. PICK a \in Nat : a = Thinking!O!After(r, i)
    BY <1>0, <2>2, <2>3
  <2>5. l <= a /\ a > i
    BY <1>0, <2>1, <2>2, <2>3, <2>4
  <2>6. CASE i = m
    BY <2>1, <2>2, <2>6 DEF Reached
  <2>7. CASE i # m
    <3>1. a <= m
      BY <2>2, <2>3, <2>4, <2>7
    <3>2. CASE a = m
      BY <2>1, <2>2, <2>4, <3>2 DEF Reached
    <3>3. CASE a # m
      <4>1. l # m /\ Thinking!O!After(r, l) = m
        BY <1>0, <2>5, <3>1, <3>3
      <4>2. l \in 0..Len(r)
        BY <1>0
      <4>3. \A k \in (l + 1)..(m - 1) : r[k] = "blank"
        BY <4>1, <4>2, AfterIs
      <4>4. a <= Len(r) /\ r[a] # "blank"
        BY <1>0, <2>2, <2>4, <3>1, AfterIs
      <4>5. a = l
        BY <1>0, <2>4, <2>5, <3>1, <3>3, <4>3, <4>4
      <4>6. a \in 1..(m - 1)
        BY <1>0, <4>1, <4>5
      <4> QED
        BY <1>0, <2>1, <2>2, <2>4, <4>1, <4>5, <4>6 DEF Reached
    <3> QED
      BY <3>2, <3>3
  <2> QED
    BY <2>6, <2>7
<1> QED
  BY <1>2, <1>3

(* The separator is the last marker, or there is no text from it to that.  *)
LEMMA SeparatorReaches ==
  ASSUME NEW r \in Seq(Thinking!O!Lines), NEW m \in 2..(Len(r) - 1),
         r[m] \in Thinking!O!Markers,
         \A k \in (m + 1)..Len(r) : r[k] \notin Thinking!O!Markers
  PROVE  Reached(r, Thinking!O!Separator(r), m)
<1> DEFINE Found(i) == i = 0 \/ (i \in 2..m /\ r[i] \in Thinking!O!Markers)
<1>0. Len(r) \in Nat
  BY LenProperties
<1>1. ASSUME NEW i, Found(i), NEW p \in Thinking!O!Markers
      PROVE  Found(Thinking!O!Later(r, i, p))
  <2>1. Found(Thinking!O!LastMatch(r, p))
    BY <1>0, LastMatchType
  <2> QED
    BY <1>1, <2>1 DEF Thinking!O!Later
<1>2. /\ "bold" \in Thinking!O!Markers /\ "hash" \in Thinking!O!Markers
      /\ "rule" \in Thinking!O!Markers
  BY DEF Thinking!O!Markers
<1>3. Found(0)
  OBVIOUS
<1>4. ASSUME NEW i, Found(i) PROVE Reached(r, Thinking!O!Later(r, i, r[m]), m)
  BY <1>4, LaterReaches
<1> HIDE DEF Found
<1>5. CASE r[m] = "bold"
  BY <1>2, <1>3, <1>4, <1>5, ReachedStays DEF Thinking!O!Separator
<1>6. CASE r[m] = "hash"
  BY <1>1, <1>2, <1>3, <1>4, <1>6, ReachedStays DEF Thinking!O!Separator
<1>7. CASE r[m] = "rule"
  BY <1>1, <1>2, <1>3, <1>4, <1>7, ReachedStays DEF Thinking!O!Separator
<1> QED
  BY <1>5, <1>6, <1>7 DEF Thinking!O!Markers

(* The answer and the reasoning of a response: lines c to d and a to b,    *)
(* with all its text, and what is in the answer if i is the separator.     *)
Divides(r, s, i) ==
    \E a, b, c, d \in Nat :
        /\ s.thinkingSteps = Thinking!A!Interval(a, b)
        /\ s.finalAnswer = Thinking!A!Interval(c, d)
        /\ b < c /\ 1 <= c /\ d <= Len(r)
        /\ \A k \in 1..Len(r) : r[k] = "text" => k \in a..b \/ k \in c..d
        /\ (i # 0 => \E k \in (i + 1)..Len(r) : r[k] = "text") =>
              \A k \in 1..Len(r) : r[k] = "text" => (k \in c..d <=> i < k)

LEMMA SplitDivides ==
  ASSUME NEW r \in Seq(Thinking!O!Lines)
  PROVE  Divides(r, Thinking!O!SplitAnswer(r), Thinking!O!Separator(r))
<1> DEFINE i == Thinking!O!Separator(r)
           s == Thinking!O!SplitAnswer(r)
           n == Len(r)
<1>0. n \in Nat /\ Thinking!A!Interval(1, 0) = << >> /\ 0 \in Nat /\ 1 \in Nat
  BY LenProperties, IntervalIs
<1>1. \A a, b \in Nat : Thinking!A!Interval(a, b) = << >> <=> a > b
  BY IntervalIs
\* What is left if the answer is the whole response.
<1>2. ASSUME NEW final, Covers(r, final, 1, n)
      PROVE  \E c, d \in Nat :
                /\ Thinking!O!Split(r, final, << >>).thinkingSteps = Thinking!A!Interval(1, 0)
                /\ Thinking!O!Split(r, final, << >>).finalAnswer = Thinking!A!Interval(c, d)
                /\ 1 <= c /\ d <= n
                /\ \A k \in 1..n : r[k] = "text" => k \in c..d
  <2>1. CASE final = << >>
    BY <1>0, <2>1, SameOperators DEF Thinking!O!Split
  <2>2. CASE final # << >>
    BY <1>0, <1>2, <2>2 DEF Thinking!O!Split, Covers
  <2> QED
    BY <2>1, <2>2
<1>3. CASE i = 0
  <2>1. Covers(r, Thinking!O!Cleaned(r, 1, n), 1, n)
    BY <1>0, CleanedIs
  <2>2. s = Thinking!O!Split(r, Thinking!O!Cleaned(r, 1, n), << >>)
    BY <1>3 DEF Thinking!O!SplitAnswer
  <2>3. PICK c \in Nat, d \in Nat :
           /\ s.thinkingSteps = Thinking!A!Interval(1, 0)
           /\ s.finalAnswer = Thinking!A!Interval(c, d)
           /\ 1 <= c /\ d <= n
           /\ \A k \in 1..n : r[k] = "text" => k \in c..d
    BY <1>2, <2>1, <2>2
  <2>4. /\ 0 < c
        /\ \A k \in 1..n : r[k] = "text" => k \in 1..0 \/ k \in c..d
        /\ \A k \in 1..n : r[k] = "text" => (k \in c..d <=> i < k)
    BY <1>0, <1>3, <2>3
  <2> QED
    BY <1>0, <2>3, <2>4 DEF Divides
<1>4. CASE i # 0
  <2>1. i \in 2..(n - 1) /\ r[i] # "text" /\ i \in 0..n
    BY <1>0, <1>4, SeparatorIs DEF Thinking!O!Markers
  <2>2. PICK e \in Nat : e = Thinking!O!After(r, i)
    BY <1>0, <2>1, AfterIs
  <2>3. /\ i < e /\ e <= n + 1
        /\ \A k \in (i + 1)..(e - 1) : r[k] = "blank"
    BY <1>0, <2>1, <2>2, AfterIs
  <2>4. \A k \in 1..n : r[k] = "text" => k \in 1..(i - 1) \/ k \in e..n
    BY <1>0, <2>1, <2>2, <2>3
  <2>5. CASE e > n
    <3>1. s = Thinking!O!Split(r, Thinking!O!Cleaned(r, 1, n), << >>)
      BY <1>0, <2>2, <2>5 DEF Thinking!O!SplitAnswer
    <3>2. Covers(r, Thinking!O!Cleaned(r, 1, n), 1, n)
      BY <1>0, CleanedIs
    <3>3. PICK c \in Nat, d \in Nat :
             /\ s.thinkingSteps = Thinking!A!Interval(1, 0)
             /\ s.finalAnswer = Thinking!A!Interval(c, d)
             /\ 1 <= c /\ d <= n
             /\ \A k \in 1..n : r[k] = "text" => k \in c..d
      BY <1>2, <3>1, <3>2
    <3>4. ~(\E k \in (i + 1)..n : r[k] = "text")
      BY <1>0, <2>1, <2>4, <2>5
    <3>5. 0 < c /\ \A k \in 1..n : r[k] = "text" => k \in 1..0 \/ k \in c..d
      BY <3>3
    <3> QED
      BY <1>0, <1>4, <3>3, <3>4, <3>5 DEF Divides
  <2>6. CASE e <= n
    <3> DEFINE final == Thinking!O!Cleaned(r, e, n)
               steps == Thinking!O!Trimmed(r, 1, i - 1)
    <3>1. s = Thinking!O!Split(r, final, steps)
      BY <1>4, <2>2, <2>6 DEF Thinking!O!SplitAnswer, Thinking!O!StepsEnd
    <3>2. Covers(r, final, e, n)
      BY <1>0, CleanedIs
    <3>3. PICK h \in Nat : h = i - 1
      BY <1>0, <2>1
    <3>4. Covers(r, steps, 1, h)
      BY <1>0, <3>3, TrimmedIs
    <3> HIDE DEF final, steps
    <3>5. PICK c \in Nat, d \in Nat :
             /\ final = Thinking!A!Interval(c, d)
             /\ e <= c /\ d <= n
             /\ \A k \in e..n : r[k] = "text" => k \in c..d
      BY <3>2 DEF Covers
    <3>6. CASE final = << >>
      <4>1. /\ s.finalAnswer = Thinking!A!Interval(1, n)
            /\ s.thinkingSteps = Thinking!A!Interval(1, 0)
        BY <1>0, <3>1, <3>6, SameOperators DEF Thinking!O!Split
      <4>2. c > d
        BY <1>1, <3>5, <3>6
      <4>3. ~(\E k \in (i + 1)..n : r[k] = "text")
        BY <1>0, <2>1, <2>4, <3>5, <4>2
      <4>4. \A k \in 1..n : r[k] = "text" => k \in 1..0 \/ k \in 1..n
        OBVIOUS
      <4> QED
        BY <1>0, <1>4, <4>1, <4>3, <4>4 DEF Divides
    <3>7. CASE final # << >>
      <4>1. s.finalAnswer = Thinking!A!Interval(c, d) /\ s.thinkingSteps = steps
        BY <3>1, <3>5, <3>7 DEF Thinking!O!Split
      <4>2. PICK a \in Nat, b \in Nat :
               /\ steps = Thinking!A!Interval(a, b)
               /\ 1 <= a /\ b <= h
               /\ \A k \in 1..h : r[k] = "text" => k \in a..b
        BY <3>4 DEF Covers
      <4>3. b < c /\ 1 <= c
        BY <1>0, <2>1, <2>3, <3>3, <3>5, <4>2
      <4>4. \A k \in 1..n : r[k] = "text" => k \in a..b \/ k \in c..d
        BY <1>0, <2>4, <3>3, <3>5, <4>2
      <4>5. \A k \in 1..n : r[k] = "text" => (k \in c..d <=> i < k)
        <5> TAKE k \in 1..n
        <5>1. ASSUME r[k] = "text", k \in c..d PROVE i < k
          BY <1>0, <2>1, <2>3, <3>5, <5>1
        <5>2. ASSUME r[k] = "text", i < k PROVE k \in c..d
          BY <1>0, <2>1, <2>4, <3>5, <5>2
        <5> QED
          BY <5>1, <5>2
      <4> QED
        <5>1. /\ s.thinkingSteps = Thinking!A!Interval(a, b)
              /\ s.finalAnswer = Thinking!A!Interval(c, d)
              /\ b < c /\ 1 <= c /\ d <= n
          BY <3>5, <4>1, <4>2, <4>3
        <5> HIDE DEF s, i, n
        <5>2. Divides(r, s, i)
          BY <4>4, <4>5, <5>1 DEF Divides, n
        <5> QED
          BY <5>2 DEF s, i
    <3> QED
      BY <3>6, <3>7
  <2> QED
    BY <1>0, <2>2, <2>5, <2>6
<1> QED
  BY <1>3, <1>4

(* Two intervals, one after the other, go up.                              *)
LEMMA IntervalsJoin ==
  ASSUME NEW a \in Nat, NEW b \in Nat, NEW c \in Nat, NEW d \in Nat, b < c
  PROVE  LET lines == Thinking!A!Interval(a, b) \o Thinking!A!Interval(c, d) IN
         /\ a..b \subseteq Thinking!ToSet(lines) /\ c..d \subseteq Thinking!ToSet(lines)
         /\ \A i, j \in DOMAIN lines : i < j => lines[i] < lines[j]
<1> DEFINE u == Thinking!A!Interval(a, b)
           v == Thinking!A!Interval(c, d)
           lines == u \o v
<1>1. u \in Seq(Nat) /\ v \in Seq(Nat)
  BY IntervalIs
<1>2. /\ \A i \in 1..Len(u) : u[i] = a + i - 1 /\ u[i] <= b
      /\ \A i \in 1..Len(v) : v[i] = c + i - 1
  BY DEF Thinking!A!Interval
<1>3. Thinking!ToSet(u) = a..b /\ Thinking!ToSet(v) = c..d
  BY IntervalIs
<1> HIDE DEF u, v
<1>4. PICK x \in Nat, y \in Nat : x = Len(u) /\ y = Len(v)
  BY <1>1, LenProperties
<1>5. DOMAIN u = 1..x /\ DOMAIN v = 1..y
  BY <1>1, <1>4, LenProperties
<1>6. /\ lines \in Seq(Nat) /\ Len(lines) = x + y
      /\ \A i \in 1..(x + y) : lines[i] = IF i <= x THEN u[i] ELSE v[i - x]
  BY <1>1, <1>4, ConcatProperties
<1>7. DOMAIN lines = 1..(x + y)
  BY <1>6, LenProperties
<1>8. \A i \in 1..x : i \in 1..(x + y) /\ lines[i] = u[i]
  BY <1>6
<1>9. \A i \in 1..y : i + x \in 1..(x + y) /\ lines[i + x] = v[i]
  <2> TAKE i \in 1..y
  <2>1. i + x \in 1..(x + y) /\ ~(i + x <= x) /\ i + x - x = i
    OBVIOUS
  <2> QED
    BY <1>6, <2>1
<1>10. \A i, j \in 1..(x + y) : i < j => lines[i] < lines[j]
  <2> SUFFICES ASSUME NEW i \in 1..(x + y), NEW j \in 1..(x + y), i < j
               PROVE  lines[i] < lines[j]
    OBVIOUS
  <2>1. CASE j <= x
    <3>1. i \in 1..x /\ j \in 1..x
      BY <2>1
    <3>2. lines[i] = a + i - 1 /\ lines[j] = a + j - 1
      BY <1>2, <1>4, <1>8, <3>1
    <3> QED
      BY <3>2
  <2>2. CASE i > x
    <3>1. i - x \in 1..y /\ j - x \in 1..y /\ ~(i <= x) /\ ~(j <= x)
      BY <2>2
    <3>2. lines[i] = c + (i - x) - 1 /\ lines[j] = c + (j - x) - 1
      BY <1>2, <1>4, <1>6, <3>1
    <3> QED
      BY <3>2
  <2>3. CASE i <= x /\ j > x
    <3>1. i \in 1..x /\ j - x \in 1..y /\ ~(j <= x)
      BY <2>3
    <3>2. lines[i] = a + i - 1 /\ lines[i] <= b
      BY <1>2, <1>4, <1>8, <3>1
    <3>3. lines[j] = c + (j - x) - 1
      BY <1>2, <1>4, <1>6, <3>1
    <3>4. a + i - 1 <= b
      BY <3>2
    <3>5. a + i - 1 < c + (j - x) - 1
      BY <3>1, <3>4
    <3>6. lines[i] = a + i - 1
      BY <3>2
    <3> HIDE DEF lines
    <3> QED
      BY <3>3, <3>5, <3>6
  <2>4. j <= x \/ i > x \/ (i <= x /\ j > x)
    OBVIOUS
  <2> HIDE DEF lines
  <2> QED
    BY <2>1, <2>2, <2>3, <2>4
<1> HIDE DEF lines
<1>11. a..b \subseteq Thinking!ToSet(lines) /\ c..d \subseteq Thinking!ToSet(lines)
  <2>1. Thinking!ToSet(u) \subseteq Thinking!ToSet(lines)
    BY <1>5, <1>7, <1>8 DEF Thinking!ToSet
  <2>2. Thinking!ToSet(v) \subseteq Thinking!ToSet(lines)
    BY <1>5, <1>7, <1>9 DEF Thinking!ToSet
  <2> QED
    BY <1>3, <2>1, <2>2
<1> QED
  BY <1>7, <1>10, <1>11 DEF lines, u, v

LEMMA DividedKeepsText ==
  ASSUME NEW r \in Seq(Thinking!O!Lines), NEW s, NEW i, Divides(r, s, i)
  PROVE  LET lines == s.thinkingSteps \o s.finalAnswer IN
         /\ Thinking!O!TextLines(r, 1) \subseteq Thinking!ToSet(lines)
         /\ \A x, y \in DOMAIN lines : x < y => lines[x] < lines[y]
<1>1. PICK a \in Nat, b \in Nat, c \in Nat, d \in Nat :
         /\ s.thinkingSteps = Thinking!A!Interval(a, b)
         /\ s.finalAnswer = Thinking!A!Interval(c, d)
         /\ b < c
         /\ \A k \in 1..Len(r) : r[k] = "text" => k \in a..b \/ k \in c..d
  BY DEF Divides
<1> QED
  BY <1>1, IntervalsJoin DEF Thinking!O!TextLines

LEMMA DividedAtLastMarker ==
  ASSUME NEW r \in Seq(Thinking!O!Lines), ~Thinking!EndsWithMarker(r),
         NEW s, Divides(r, s, Thinking!O!Separator(r))
  PROVE  {k \in Thinking!ToSet(s.finalAnswer) : r[k] = "text"} = Thinking!O!AnswerText(r)
<1> DEFINE i == Thinking!O!Separator(r)
           marked == {k \in 1..Len(r) : r[k] \in Thinking!O!Markers}
           marks == {k \in DOMAIN r : /\ r[k] \in Thinking!O!Markers
                                      /\ Thinking!O!TextLines(r, k + 1) # {}}
<1>0. Len(r) \in Nat /\ DOMAIN r = 1..Len(r) /\ \A k \in 1..Len(r) : r[k] \in Thinking!O!Lines
  BY LenProperties, ElementOfSeq
<1>1. PICK a \in Nat, b \in Nat, c \in Nat, d \in Nat :
         /\ s.finalAnswer = Thinking!A!Interval(c, d)
         /\ 1 <= c /\ d <= Len(r)
         /\ (i # 0 => \E k \in (i + 1)..Len(r) : r[k] = "text") =>
               \A k \in 1..Len(r) : r[k] = "text" => (k \in c..d <=> i < k)
  BY DEF Divides
<1>2. Thinking!ToSet(s.finalAnswer) = c..d /\ c..d \subseteq 1..Len(r)
  <2>1. Thinking!ToSet(s.finalAnswer) = c..d
    BY <1>1, IntervalIs
  <2> QED
    BY <1>0, <1>1, <2>1
<1>3. i = 0 \/ (i \in 2..(Len(r) - 1) /\ i \in marked)
  BY <1>0, SeparatorIs
<1>4. CASE marked = {}
  <2>1. i = 0 /\ marks = {}
    BY <1>0, <1>3, <1>4
  <2>2. Thinking!O!AnswerText(r) = Thinking!O!TextLines(r, 1)
    BY <2>1 DEF Thinking!O!AnswerText
  <2> QED
    BY <1>0, <1>1, <1>2, <2>1, <2>2 DEF Thinking!O!TextLines
<1>5. CASE marked # {}
  <2>1. marked \in SUBSET (0..Len(r))
    OBVIOUS
  <2>2. PICK m \in marked : \A k \in marked : k <= m
    BY <1>0, <1>5, <2>1, MaxOf
  <2>3. /\ m \in 0..Len(r) /\ m \in 1..Len(r)
        /\ \A k \in (m + 1)..Len(r) : r[k] \notin Thinking!O!Markers
    BY <1>0, <2>2
  <2>4. PICK e \in Nat : e = Thinking!O!After(r, m)
    BY <1>0, <2>3, AfterIs
  <2>5. e <= Len(r) /\ m < e /\ r[e] # "blank"
    <3>1. e <= Len(r)
      BY <1>0, <2>2, <2>3, <2>4 DEF Thinking!EndsWithMarker
    <3> QED
      BY <1>0, <2>3, <2>4, <3>1, AfterIs
  <2>6. e \in (m + 1)..Len(r) /\ e \in 1..Len(r)
    BY <1>0, <2>3, <2>5
  <2>7. r[e] = "text"
    BY <1>0, <2>3, <2>5, <2>6 DEF Thinking!O!Lines
  <2>8. m \in marks
    BY <1>0, <2>2, <2>3, <2>6, <2>7 DEF Thinking!O!TextLines
  <2>9. Thinking!O!Max(marks) = m
    <3>1. marks \in SUBSET (0..Len(r)) /\ marks # {}
      BY <1>0, <2>8
    <3>2. /\ Thinking!A!Max(marks) \in marks
          /\ m <= Thinking!A!Max(marks)
      BY <1>0, <2>8, <3>1, MaxOf
    <3>3. Thinking!A!Max(marks) \in marked /\ Thinking!A!Max(marks) <= m
      BY <1>0, <2>2, <3>2
    <3>4. Thinking!A!Max(marks) \in Nat
      BY <3>3
    <3> QED
      BY <2>3, <3>2, <3>3, <3>4, SameOperators
  <2>10. Thinking!O!AnswerText(r) = Thinking!O!TextLines(r, m + 1)
    BY <2>8, <2>9 DEF Thinking!O!AnswerText
  <2>11. CASE i = 0
    <3>1. m = 1
      <4>1. SUFFICES ASSUME m # 1 PROVE FALSE
        OBVIOUS
      <4>2. m \in 2..(Len(r) - 1)
        BY <1>0, <2>3, <2>6, <4>1
      <4>3. Reached(r, i, m)
        BY <2>2, <2>3, <4>2, SeparatorReaches
      <4> QED
        BY <2>11, <4>3 DEF Reached
    <3>2. r[1] # "text"
      BY <2>2, <3>1 DEF Thinking!O!Markers
    <3>3. \A k \in 1..Len(r) : r[k] = "text" => k \in c..d /\ k \in (m + 1)..Len(r)
      BY <1>0, <1>1, <2>11, <3>1, <3>2
    <3>4. (m + 1)..Len(r) \subseteq 1..Len(r)
      BY <1>0, <2>3
    <3> QED
      BY <1>2, <2>10, <3>3, <3>4 DEF Thinking!O!TextLines
  <2>12. CASE i # 0
    <3>1. m \in 2..(Len(r) - 1)
      BY <1>0, <1>3, <2>2, <2>3, <2>6, <2>12
    <3>2. Reached(r, i, m)
      BY <2>2, <2>3, <3>1, SeparatorReaches
    <3>3. i \in 1..m /\ \A k \in (i + 1)..m : r[k] # "text"
      BY <2>2, <2>3, <3>2, ReachedHasNoText DEF Reached
    <3>4. e \in (i + 1)..Len(r)
      BY <1>0, <2>6, <3>3
    <3>5. \A k \in 1..Len(r) : r[k] = "text" => (k \in c..d <=> i < k)
      BY <1>1, <2>7, <3>4
    <3>6. \A k \in 1..Len(r) : r[k] = "text" => (i < k <=> k \in (m + 1)..Len(r))
      BY <1>0, <2>3, <3>3
    <3>7. (m + 1)..Len(r) \subseteq 1..Len(r)
      BY <1>0, <2>3
    <3> QED
      BY <1>2, <2>10, <3>5, <3>6, <3>7 DEF Thinking!O!TextLines
  <2> QED
    BY <2>11, <2>12
<1> QED
  BY <1>4, <1>5

(* What an orchestrator has read of a response, at any time.               *)
OrchestrateInv ==
  part = "responses" =>
    /\ reader \in {"orchestrator", "orchestrated"} => response \in Seq(Thinking!O!Lines)
    /\ reader = "orchestrated" => Divides(response, result, Thinking!O!Separator(response))

LEMMA OrchestrateStep ==
  OrchestrateInv /\ [OrchestratorsNext]_<<part, vars, responseVars>> => OrchestrateInv'
<1> SUFFICES ASSUME OrchestrateInv, [OrchestratorsNext]_<<part, vars, responseVars>>
             PROVE  OrchestrateInv'
  OBVIOUS
<1>1. CASE UNCHANGED <<part, responseVars>>
  BY <1>1 DEF OrchestrateInv, responseVars
<1>2. ASSUME part = "responses", UNCHANGED part, Thinking!Next
      PROVE  OrchestrateInv'
  <2>1. CASE Thinking!Answer("orchestrator", Texts)
    <3>1. O!Lines = Thinking!O!Lines
      BY DEF O!Lines, Thinking!O!Lines, O!Markers, Thinking!O!Markers
    <3> QED
      BY <2>1, <3>1, TextsAssumption DEF Thinking!Answer, OrchestrateInv
  <2>2. CASE Thinking!Answer("final", Answers) \/ Thinking!Answer("planner", Plans)
    BY <1>2, <2>2 DEF Thinking!Answer, OrchestrateInv
  <2>3. CASE Thinking!GenerateTaskPlan
    BY <1>2, <2>3 DEF Thinking!GenerateTaskPlan, Thinking!PlanFound, OrchestrateInv
  <2>4. CASE Thinking!GenerateFinalResponse
    BY <1>2, <2>4 DEF Thinking!GenerateFinalResponse, OrchestrateInv
  <2>5. CASE Thinking!OrchestrateEnds
    <3>1. /\ response \in Seq(Thinking!O!Lines)
          /\ response' = response /\ reader' = "orchestrated"
          /\ result' = Thinking!O!SplitAnswer(response)
      BY <1>2, <2>5 DEF Thinking!OrchestrateEnds, OrchestrateInv
    <3>2. Divides(response, result', Thinking!O!Separator(response))
      BY <3>1, SplitDivides
    <3> QED
      BY <3>1, <3>2 DEF OrchestrateInv
  <2> QED
    BY <1>2, <2>1, <2>2, <2>3, <2>4, <2>5 DEF Thinking!Next
<1>3. CASE part = "service" /\ UNCHANGED part
  BY <1>3 DEF OrchestrateInv
<1> QED
  BY <1>1, <1>2, <1>3 DEF OrchestratorsNext

(* The invariant of what orchestrators read. *)
THEOREM OrchestrateInvariance == OrchestratorsSpec => []OrchestrateInv
<1>1. OrchestratorsInit => OrchestrateInv
  BY DEF OrchestratorsInit, OrchestrateInv, Thinking!Init
<1> QED
  BY <1>1, OrchestrateStep, PTL DEF OrchestratorsSpec

(* The reasoning and the answer are all the text of a response, in its     *)
(* order and each line once, wherever its separators are and however many  *)
(* (hierarchical-agent-thinking-orchestrator.js:447-504).                  *)
THEOREM TextIsKept == OrchestratorsSpec => []NoTextIsLost
<1>1. OrchestrateInv => NoTextIsLost
  BY DividedKeepsText DEF OrchestrateInv, NoTextIsLost, Thinking!NoTextIsLost
<1> QED
  BY <1>1, OrchestrateInvariance, PTL

(* The answer is the text after the last separator, for responses of any   *)
(* length, though the patterns are searched one after the other and one of *)
(* two separators in a row may not match                                   *)
(* (hierarchical-agent-thinking-orchestrator.js:421-445).                  *)
THEOREM LastMarkerFound == OrchestratorsSpec => []AnswerFollowsLastMarker
<1>1. OrchestrateInv => AnswerFollowsLastMarker
  BY DividedAtLastMarker
     DEF OrchestrateInv, AnswerFollowsLastMarker, Thinking!AnswerFollowsLastMarker
<1> QED
  BY <1>1, OrchestrateInvariance, PTL

-----------------------------------------------------------------------------
(* What has been read of a response, at any time.                          *)
ReadInv ==
  part = "responses" =>
    /\ reader = "final" => response \in Answers
    /\ reader = "answered" => Finds(response, result)

LEMMA ReadStep == ReadInv /\ [OrchestratorsNext]_<<part, vars, responseVars>> => ReadInv'
<1> SUFFICES ASSUME ReadInv, [OrchestratorsNext]_<<part, vars, responseVars>>
             PROVE  ReadInv'
  OBVIOUS
<1>1. CASE UNCHANGED <<part, responseVars>>
  BY <1>1 DEF ReadInv, responseVars
<1>2. ASSUME part = "responses", UNCHANGED part, Thinking!Next
      PROVE  ReadInv'
  <2>1. CASE Thinking!Answer("orchestrator", Texts) \/ Thinking!Answer("final", Answers)
             \/ Thinking!Answer("planner", Plans)
    BY <1>2, <2>1 DEF Thinking!Answer, ReadInv
  <2>2. CASE Thinking!OrchestrateEnds
    BY <1>2, <2>2 DEF Thinking!OrchestrateEnds, ReadInv
  <2>3. CASE Thinking!GenerateTaskPlan
    BY <1>2, <2>3 DEF Thinking!GenerateTaskPlan, Thinking!PlanFound, ReadInv
  <2>4. CASE Thinking!GenerateFinalResponse
    <3>1. response \in Answers /\ response' = response /\ reader' = "answered"
      BY <1>2, <2>4 DEF Thinking!GenerateFinalResponse, ReadInv
    <3>2. \/ result' = Thinking!A!FindAnswer(response)
          \/ result' = [finalAnswer |-> Thinking!A!Interval(1, Len(response)),
                        thinkingSteps |-> << >>]
      BY <2>4 DEF Thinking!GenerateFinalResponse
    <3>3. Finds(response, result')
      BY <3>1, <3>2, FindAnswerFinds, WholeFinds
    <3> QED
      BY <3>1, <3>3 DEF ReadInv
  <2> QED
    BY <1>2, <2>1, <2>2, <2>3, <2>4 DEF Thinking!Next
<1>3. CASE part = "service" /\ UNCHANGED part
  BY <1>3 DEF ReadInv
<1> QED
  BY <1>1, <1>2, <1>3 DEF OrchestratorsNext

(* The section a later title announces is in the answer, the reasoning     *)
(* before it is not, and there is always an answer, for responses of any   *)
(* length (thinking-agent.js:172-213, 362-364).                            *)
THEOREM AnnouncedIsAnswered == OrchestratorsSpec => []AnnouncedAnswerIsFound
<1>1. OrchestratorsInit => ReadInv
  BY DEF OrchestratorsInit, ReadInv, Thinking!Init
<1>2. ReadInv => AnnouncedAnswerIsFound
  BY DEF ReadInv, Finds, AnnouncedAnswerIsFound, Thinking!AnnouncedAnswerIsFound
<1> QED
  BY <1>1, <1>2, ReadStep, PTL DEF OrchestratorsSpec
-----------------------------------------------------------------------------
(* What an LLM client makes of a response of the service.                  *)

(* An answer of a client that is not the one to a response with parts.     *)
Excused ==
    \/ ~response.answered
    \/ response.parts = << >>
    \/ reader = "vertex" /\ LLM!Unindexed(response.grounding)

(* The client reads one of the responses; what it makes of it has the text *)
(* and the call from the first, before the sources are listed.             *)
ServiceInv ==
    part = "service" =>
        /\ reader = "none" => result.kind = "none"
        /\ result.kind \in {"citing", "read"} => reader \in LLM!Clients
        /\ reader \in LLM!Clients =>
              /\ response \in Responses
              /\ result.kind = "citing" => response.grounding.form = "chunks"
              /\ \/ result.kind = "none" \/ Excused
                 \/ /\ result.kind \in {"citing", "read"}
                    /\ result.text = LLM!TextOf(response.parts)
                    /\ result.call = LLM!CallOf(response.parts)

(* Of the parts of a response the call is the first that is one.           *)
LEMMA CallOfIs ==
  ASSUME NEW r \in Responses
  PROVE  \/ \E i \in DOMAIN r.parts :
              /\ LLM!IsCall(r.parts[i]) /\ LLM!CallOf(r.parts) = <<r.parts[i]>>
              /\ \A j \in 1..(i - 1) : ~LLM!IsCall(r.parts[j])
         \/ LLM!CallOf(r.parts) = << >> /\ \A p \in LLM!ToSet(r.parts) : ~LLM!IsCall(p)
<1> DEFINE parts == r.parts
           calls == {i \in DOMAIN parts : LLM!IsCall(parts[i])}
<1>1. PICK n \in Nat : DOMAIN parts = 1..n
  BY ResponsesAssumption
<1>2. CASE calls = {}
  BY <1>2 DEF LLM!CallOf, LLM!ToSet
<1>3. CASE calls # {}
  <2>1. calls \in SUBSET Nat
    BY <1>1
  <2>2. LLM!Min(calls) = Thinking!A!Min(calls)
    BY DEF LLM!Min, Thinking!A!Min
  <2>3. /\ LLM!Min(calls) \in calls
        /\ \A i \in calls : LLM!Min(calls) <= i
    BY <1>3, <2>1, <2>2, MinOf
  <2>4. LLM!CallOf(parts) = <<parts[LLM!Min(calls)]>>
    BY <1>3 DEF LLM!CallOf
  <2>5. ASSUME NEW j \in 1..(LLM!Min(calls) - 1)
        PROVE  ~LLM!IsCall(parts[j])
    <3>1. LLM!Min(calls) \in 1..n
      BY <1>1, <2>3
    <3>2. j \in DOMAIN parts /\ ~(LLM!Min(calls) <= j)
      BY <1>1, <3>1
    <3> QED
      BY <2>3, <3>2
  <2> QED
    BY <2>3, <2>4, <2>5
<1> QED
  BY <1>2, <1>3

(* What is made of a response at first has its text and its call.          *)
LEMMA BegunIs ==
  ASSUME NEW r
  PROVE  /\ LLM!Begun(r).kind \in {"citing", "read"}
         /\ LLM!Begun(r).kind = "citing" <=> r.grounding.form = "chunks"
         /\ LLM!Begun(r).text = LLM!TextOf(r.parts)
         /\ LLM!Begun(r).call = LLM!CallOf(r.parts)
         /\ LLM!Begun(r).kind = "citing" => LLM!Begun(r).sources = << >>
BY DEF LLM!Begun, LLM!Result

LEMMA ServiceStep ==
  ServiceInv /\ [OrchestratorsNext]_<<part, vars, responseVars>> => ServiceInv'
<1> SUFFICES ASSUME ServiceInv, [OrchestratorsNext]_<<part, vars, responseVars>>,
                    part' = "service"
             PROVE  ServiceInv'
  BY DEF ServiceInv
<1>1. part = "service"
  BY DEF OrchestratorsNext
<1>2. CASE UNCHANGED responseVars
  BY <1>1, <1>2 DEF responseVars, ServiceInv, Excused
<1>3. ASSUME NEW c \in LLM!Clients, LLM!Generate(c)
      PROVE  ServiceInv'
  <2>1. reader = "none" /\ result' = result /\ result.kind = "none"
    BY <1>1, <1>3 DEF LLM!Generate, ServiceInv
  <2>2. response' \in Responses /\ "none" \notin LLM!Clients /\ reader' = c
    BY <1>3 DEF LLM!Generate, LLM!Clients
  <2> QED
    BY <2>1, <2>2 DEF ServiceInv
<1>4. CASE LLM!Answered
  <2>1. reader \in LLM!Clients /\ response \in Responses /\ "none" \notin LLM!Clients
    BY <1>1, <1>4 DEF LLM!Answered, LLM!Clients, ServiceInv
  <2>2. reader' = reader /\ response' = response
    BY <1>4 DEF LLM!Answered
  <2>3. CASE ~response.answered \/ (reader = "vertex" /\ response.parts = << >>)
    <3>1. result'.kind = "empty" /\ Excused'
      BY <1>4, <2>2, <2>3 DEF LLM!Answered, LLM!Message, LLM!Result, Excused
    <3> QED
      BY <2>1, <2>2, <3>1 DEF ServiceInv
  <2>4. CASE ~(~response.answered \/ (reader = "vertex" /\ response.parts = << >>))
    <3>1. result' = LLM!Begun(response)
      BY <1>4, <2>4 DEF LLM!Answered
    <3> QED
      BY <2>1, <2>2, <3>1, BegunIs DEF ServiceInv
  <2> QED
    BY <2>3, <2>4
<1>5. CASE LLM!RequestFails
  <2>1. /\ reader' = "failed" /\ "failed" \notin LLM!Clients /\ "failed" # "none"
        /\ result'.kind = "error"
    BY <1>5 DEF LLM!RequestFails, LLM!Clients, LLM!Message, LLM!Result
  <2> QED
    BY <2>1 DEF ServiceInv
<1>6. ASSUME result.kind = "citing", UNCHANGED <<reader, response>>,
             \/ /\ result'.kind \in {"citing", "read"}
                /\ result'.text = result.text /\ result'.call = result.call
             \/ result'.kind = "error" /\ Excused
      PROVE  ServiceInv'
  <2>1. /\ reader \in LLM!Clients /\ reader # "none" /\ Excused' = Excused
        /\ response \in Responses /\ response.grounding.form = "chunks"
        /\ Excused \/ /\ result.text = LLM!TextOf(response.parts)
                      /\ result.call = LLM!CallOf(response.parts)
    BY <1>1, <1>6 DEF ServiceInv, Excused
  <2> QED
    BY <1>6, <2>1 DEF ServiceInv
<1>7. CASE LLM!CiteChunk
  <2>1. /\ result.kind = "citing" /\ UNCHANGED <<reader, response>>
        /\ result'.kind \in {"citing", "read"}
        /\ result'.text = result.text /\ result'.call = result.call
    BY <1>7 DEF LLM!CiteChunk, LLM!WithoutSources, LLM!Result
  <2> QED
    BY <1>6, <2>1
<1>8. CASE LLM!NextSupport
  <2>1. result.kind = "citing" /\ UNCHANGED <<reader, response>>
    BY <1>8 DEF LLM!NextSupport
  <2>2. CASE reader = "vertex" /\ ~LLM!Support.indexed
    <3>1. result'.kind = "error"
      BY <1>8, <2>2 DEF LLM!NextSupport, LLM!Message, LLM!Result
    <3>2. response.grounding.form = "chunks"
      BY <1>1, <2>1, <2>2 DEF ServiceInv, LLM!Clients
    <3>3. LLM!Support \in LLM!ToSet(response.grounding.supports)
      BY <1>8 DEF LLM!NextSupport, LLM!Support, LLM!Supports, LLM!ToSet
    <3>4. Excused
      BY <2>2, <3>2, <3>3 DEF Excused, LLM!Unindexed
    <3> QED
      BY <1>6, <2>1, <3>1, <3>4
  <2>3. CASE ~(reader = "vertex" /\ ~LLM!Support.indexed)
    <3>1. result' = result
      BY <1>8, <2>3 DEF LLM!NextSupport
    <3> QED
      BY <1>6, <2>1, <3>1
  <2> QED
    BY <2>2, <2>3
<1>9. CASE LLM!SourcesListed
  <2>1. /\ result.kind = "citing" /\ UNCHANGED <<reader, response>>
        /\ result'.kind \in {"citing", "read"}
        /\ result'.text = result.text /\ result'.call = result.call
    BY <1>9 DEF LLM!SourcesListed, LLM!Result
  <2> QED
    BY <1>6, <2>1
<1> QED
  BY <1>1, <1>2, <1>3, <1>4, <1>5, <1>7, <1>8, <1>9 DEF OrchestratorsNext, LLM!Next

(* The invariant of the reading of a response by an LLM client.            *)
THEOREM ServiceInvariance == OrchestratorsSpec => []ServiceInv
<1>1. OrchestratorsInit => ServiceInv
  BY DEF OrchestratorsInit, ServiceInv, LLM!Init, LLM!Message, LLM!Result, LLM!Clients
<1> QED
  BY <1>1, ServiceStep, PTL DEF OrchestratorsSpec

(* A client gives the agent the text and the first function call of every  *)
(* response of the service, whatever its grounding metadata are, but for   *)
(* VertexAILLM with a support without indices: for any responses.          *)
THEOREM AnswersReachTheAgent == OrchestratorsSpec => []AnswerIsKept
<1>1. ServiceInv => AnswerIsKept
  <2> SUFFICES ASSUME ServiceInv, part = "service", reader \in LLM!Clients,
                      result.kind \notin {"none", "citing"}, ~Excused
               PROVE  LLM!AnswerIsKept
    BY DEF AnswerIsKept, LLM!AnswerIsKept, Excused
  <2>1. /\ response \in Responses /\ result.kind = "read"
        /\ result.text = LLM!TextOf(response.parts)
        /\ result.call = LLM!CallOf(response.parts)
    BY DEF ServiceInv
  <2> QED
    BY <2>1, CallOfIs DEF LLM!AnswerIsKept
<1> QED
  BY <1>1, ServiceInvariance, PTL

-----------------------------------------------------------------------------
(* The sources an LLM client lists.                                        *)

IsSequence(s) == \E S : s \in Seq(S)

(* The excerpts of a source: each text other than the empty one once.      *)
Excerpts(excerpts, texts) ==
    /\ IsSequence(excerpts)
    /\ \A j, k \in DOMAIN excerpts : excerpts[j] = excerpts[k] => j = k
    /\ \A t : (\E k \in DOMAIN excerpts : excerpts[k] = t) <=> t \in texts \ {NoText}

(* The texts that cite a URI, of some citations.                           *)
TextsCiting(citations, uri) == {d.text : d \in {d \in citations : d.uri = uri}}

(* The sources list the URIs of some citations, each once, in the order of *)
(* the first support that cites it, with the texts that cite it.           *)
Lists(sources, citations) ==
    /\ IsSequence(sources)
    /\ \A i, j \in DOMAIN sources : sources[i].uri = sources[j].uri => i = j
    /\ \A i \in DOMAIN sources : \E d \in citations : d.uri = sources[i].uri
    /\ \A d \in citations : \E i \in DOMAIN sources : sources[i].uri = d.uri
    /\ \A i, j \in DOMAIN sources : i < j =>
          \A d \in citations : d.uri = sources[j].uri =>
              \E e \in citations : e.uri = sources[i].uri /\ e.support <= d.support
    /\ \A i \in DOMAIN sources :
          Excerpts(sources[i].excerpts, TextsCiting(citations, sources[i].uri))

(* The place of a URI in a list of sources.                                *)
LEMMA PlaceOf ==
  ASSUME NEW sources, IsSequence(sources), NEW uri
  PROVE  LET i == LLM!SelectInSeq(sources, LAMBDA s : s.uri = uri) IN
         \/ i = 0 /\ \A j \in DOMAIN sources : sources[j].uri # uri
         \/ i # 0 /\ i \in DOMAIN sources /\ sources[i].uri = uri
<1> DEFINE places == {j \in 1..Len(sources) : sources[j].uri = uri}
           i == LLM!SelectInSeq(sources, LAMBDA s : s.uri = uri)
<1>1. Len(sources) \in Nat /\ DOMAIN sources = 1..Len(sources)
  BY LenProperties DEF IsSequence
<1>2. i = IF places = {} THEN 0 ELSE LLM!Min(places)
  BY DEF LLM!SelectInSeq
<1>3. CASE places = {}
  BY <1>1, <1>2, <1>3
<1>4. CASE places # {}
  <2>1. places \in SUBSET Nat
    OBVIOUS
  <2>2. LLM!Min(places) = Thinking!A!Min(places)
    BY DEF LLM!Min, Thinking!A!Min
  <2>3. LLM!Min(places) \in places
    BY <1>4, <2>1, <2>2, MinOf
  <2> QED
    BY <1>1, <1>2, <1>4, <2>3
<1> QED
  BY <1>3, <1>4

LEMMA AppendIs ==
  ASSUME NEW s, IsSequence(s), NEW x
  PROVE  /\ IsSequence(Append(s, x)) /\ Len(s) \in Nat
         /\ DOMAIN s = 1..Len(s) /\ DOMAIN Append(s, x) = 1..(Len(s) + 1)
         /\ Append(s, x)[Len(s) + 1] = x
         /\ \A i \in 1..Len(s) : Append(s, x)[i] = s[i]
<1>1. PICK S : s \in Seq(S)
  BY DEF IsSequence
<1>2. s \in Seq(S \cup {x})
  BY <1>1
<1>3. Append(s, x) \in Seq(S \cup {x})
  BY <1>2
<1>4. /\ Len(s) \in Nat /\ DOMAIN s = 1..Len(s)
      /\ DOMAIN Append(s, x) = 1..(Len(s) + 1)
      /\ Append(s, x)[Len(s) + 1] = x
      /\ \A i \in 1..Len(s) : Append(s, x)[i] = s[i]
  BY <1>2, <1>3, AppendProperties, LenProperties
<1> QED
  BY <1>3, <1>4 DEF IsSequence

(* A text is added to the excerpts of a source once. *)
LEMMA AddExcerptAdds ==
  ASSUME NEW excerpts, NEW texts, Excerpts(excerpts, texts), NEW text
  PROVE  Excerpts(LLM!AddExcerpt(excerpts, text), texts \cup {text})
<1>1. LLM!Contains(excerpts, text) <=> \E k \in DOMAIN excerpts : excerpts[k] = text
  <2>1. Len(excerpts) \in Nat /\ DOMAIN excerpts = 1..Len(excerpts)
    BY LenProperties DEF Excerpts, IsSequence
  <2> QED
    BY <2>1 DEF LLM!Contains
<1>2. CASE text = NoText \/ LLM!Contains(excerpts, text)
  <2>1. LLM!AddExcerpt(excerpts, text) = excerpts
    BY <1>2 DEF LLM!AddExcerpt
  <2>2. (texts \cup {text}) \ {NoText} = texts \ {NoText}
    BY <1>1, <1>2 DEF Excerpts
  <2> QED
    BY <2>1, <2>2 DEF Excerpts
<1>3. CASE text # NoText /\ ~LLM!Contains(excerpts, text)
  <2> DEFINE new == Append(excerpts, text)
             n == Len(excerpts)
  <2>1. LLM!AddExcerpt(excerpts, text) = new
    BY <1>3 DEF LLM!AddExcerpt
  <2>2. /\ IsSequence(new) /\ n \in Nat
        /\ DOMAIN excerpts = 1..n /\ DOMAIN new = 1..(n + 1)
        /\ new[n + 1] = text /\ \A i \in 1..n : new[i] = excerpts[i]
    BY AppendIs DEF Excerpts
  <2> HIDE DEF new, n
  <2>3. \A j \in 1..(n + 1) : j = n + 1 \/ j \in 1..n
    BY <2>2
  <2>4. \A j \in 1..n : j \in 1..(n + 1) /\ n + 1 \in 1..(n + 1)
    BY <2>2
  <2>5. \A j, k \in DOMAIN new : new[j] = new[k] => j = k
    <3>1. \A j \in 1..n : excerpts[j] # text
      BY <1>1, <1>3, <2>2
    <3>2. \A j, k \in 1..n : excerpts[j] = excerpts[k] => j = k
      BY <2>2 DEF Excerpts
    <3> QED
      BY <2>2, <2>3, <3>1, <3>2
  <2>6. ASSUME NEW t
        PROVE (\E k \in DOMAIN new : new[k] = t) <=> t \in (texts \cup {text}) \ {NoText}
    <3>1. (\E k \in 1..n : excerpts[k] = t) <=> t \in texts \ {NoText}
      BY <2>2 DEF Excerpts
    <3>2. (\E k \in DOMAIN new : new[k] = t) <=>
             t = text \/ \E k \in 1..n : excerpts[k] = t
      <4>1. n + 1 \in DOMAIN new
        BY <2>2
      <4> QED
        BY <2>2, <2>3, <2>4, <4>1
    <3> QED
      BY <1>3, <3>1, <3>2
  <2> QED
    BY <2>1, <2>2, <2>5, <2>6 DEF Excerpts
<1> QED
  BY <1>2, <1>3

LEMMA FirstExcerpt ==
  ASSUME NEW text
  PROVE  Excerpts(LLM!AddExcerpt(<< >>, text), {text})
<1>1. << >> \in Seq({})
  OBVIOUS
<1>2. Excerpts(<< >>, {})
  BY <1>1 DEF Excerpts, IsSequence
<1>3. Excerpts(LLM!AddExcerpt(<< >>, text), {} \cup {text})
  BY <1>2, AddExcerptAdds
<1>4. {} \cup {text} = {text}
  OBVIOUS
<1> QED
  BY <1>3, <1>4

(* One more citation, not of an earlier support than those before. *)
LEMMA CiteLists ==
  ASSUME NEW citations, NEW sources, Lists(sources, citations),
         NEW support \in Nat, NEW uri, NEW text,
         \A d \in citations : d.support \in Nat /\ d.support <= support
  PROVE  Lists(LLM!Cite(sources, uri, text),
               citations \cup {[support |-> support, uri |-> uri, text |-> text]})
<1> DEFINE c == [support |-> support, uri |-> uri, text |-> text]
           more == citations \cup {c}
           i == LLM!SelectInSeq(sources, LAMBDA s : s.uri = uri)
           new == LLM!Cite(sources, uri, text)
           n == Len(sources)
<1>1. c.support = support /\ c.uri = uri /\ c.text = text
  OBVIOUS
<1>2. \/ i = 0 /\ \A j \in DOMAIN sources : sources[j].uri # uri
      \/ i # 0 /\ i \in DOMAIN sources /\ sources[i].uri = uri
  BY PlaceOf DEF Lists
<1>3. /\ n \in Nat /\ DOMAIN sources = 1..n
  BY LenProperties DEF Lists, IsSequence
<1>4. \A d \in more : d.support \in Nat /\ d.support <= support
  BY <1>1
<1> HIDE DEF c
<1>5. /\ TextsCiting(more, uri) = TextsCiting(citations, uri) \cup {text}
      /\ \A u : u # uri => TextsCiting(more, u) = TextsCiting(citations, u)
  BY <1>1 DEF TextsCiting
<1>6. CASE i = 0
  <2> DEFINE entry == [uri |-> uri, excerpts |-> LLM!AddExcerpt(<< >>, text)]
  <2>1. new = Append(sources, entry)
    BY <1>6 DEF LLM!Cite
  <2>2. entry.uri = uri /\ entry.excerpts = LLM!AddExcerpt(<< >>, text)
    OBVIOUS
  <2>3. Excerpts(entry.excerpts, {text})
    BY <2>2, FirstExcerpt
  <2> HIDE DEF entry, new, i, n
  <2>4. /\ IsSequence(new) /\ DOMAIN new = 1..(n + 1) /\ new[n + 1] = entry
        /\ \A j \in 1..n : new[j] = sources[j]
    BY <1>3, <2>1, AppendIs DEF Lists, n
  <2>5. \A j \in 1..(n + 1) : j = n + 1 \/ j \in 1..n
    BY <1>3
  <2>6. n + 1 \in 1..(n + 1) /\ \A j \in 1..n : j \in 1..(n + 1)
    BY <1>3
  <2>7. \A j \in 1..n : sources[j].uri # uri
    BY <1>2, <1>3, <1>6
  <2>8. \A d \in citations : d.uri # uri
    BY <1>3, <2>7 DEF Lists
  <2>9. TextsCiting(citations, uri) = {}
    BY <2>8 DEF TextsCiting
  <2>10. \A j, k \in DOMAIN new : new[j].uri = new[k].uri => j = k
    <3>1. \A j, k \in 1..n : sources[j].uri = sources[k].uri => j = k
      BY <1>3 DEF Lists
    <3> QED
      BY <2>2, <2>4, <2>5, <2>7, <3>1
  <2>11. \A j \in DOMAIN new : \E d \in more : d.uri = new[j].uri
    <3>1. \A j \in 1..n : \E d \in citations : d.uri = sources[j].uri
      BY <1>3 DEF Lists
    <3> QED
      BY <1>1, <2>2, <2>4, <2>5, <3>1
  <2>12. \A d \in more : \E j \in DOMAIN new : new[j].uri = d.uri
    <3>1. \A d \in citations : \E j \in 1..n : sources[j].uri = d.uri
      BY <1>3 DEF Lists
    <3> QED
      BY <1>1, <2>2, <2>4, <2>6, <3>1
  <2>13. ASSUME NEW a \in DOMAIN new, NEW b \in DOMAIN new, a < b,
                NEW d \in more, d.uri = new[b].uri
         PROVE  \E e \in more : e.uri = new[a].uri /\ e.support <= d.support
    <3>1. a \in 1..n
      BY <1>3, <2>4, <2>13
    <3>2. new[a] = sources[a]
      BY <2>4, <3>1
    <3>3. CASE b = n + 1
      <4>1. d = c
        BY <1>1, <2>2, <2>4, <2>8, <2>13, <3>3
      <4>2. PICK e \in citations : e.uri = sources[a].uri
        BY <1>3, <3>1 DEF Lists
      <4> QED
        BY <1>1, <1>4, <3>2, <4>1, <4>2
    <3>4. CASE b \in 1..n
      <4>1. new[b] = sources[b] /\ d \in citations
        BY <1>1, <2>4, <2>7, <2>13, <3>4
      <4>2. \E e \in citations : e.uri = sources[a].uri /\ e.support <= d.support
        BY <1>3, <2>13, <3>1, <3>4, <4>1 DEF Lists
      <4> QED
        BY <3>2, <4>2
    <3> QED
      BY <2>4, <2>5, <3>3, <3>4
  <2>14. ASSUME NEW j \in DOMAIN new
         PROVE  Excerpts(new[j].excerpts, TextsCiting(more, new[j].uri))
    <3>1. CASE j = n + 1
      BY <1>5, <2>2, <2>3, <2>4, <2>9, <3>1
    <3>2. CASE j \in 1..n
      <4>1. /\ new[j] = sources[j]
            /\ TextsCiting(more, new[j].uri) = TextsCiting(citations, sources[j].uri)
        BY <1>5, <2>4, <2>7, <3>2
      <4> QED
        BY <1>3, <3>2, <4>1 DEF Lists
    <3> QED
      BY <2>4, <2>5, <3>1, <3>2
  <2> HIDE DEF more
  <2> QED
    BY <2>4, <2>10, <2>11, <2>12, <2>13, <2>14 DEF Lists, more, new, c
<1>7. CASE i # 0
  <2> DEFINE entry == [uri |-> uri, excerpts |-> LLM!AddExcerpt(sources[i].excerpts, text)]
  <2>1. new = [sources EXCEPT ![i] = entry]
    BY <1>7 DEF LLM!Cite
  <2>2. entry.uri = uri /\ entry.excerpts = LLM!AddExcerpt(sources[i].excerpts, text)
    OBVIOUS
  <2>3. i \in 1..n /\ sources[i].uri = uri
    BY <1>2, <1>3, <1>7
  <2> HIDE DEF entry, new, i, n
  <2>4. Excerpts(entry.excerpts, TextsCiting(more, uri))
    <3>1. Excerpts(sources[i].excerpts, TextsCiting(citations, uri))
      BY <1>3, <2>3 DEF Lists
    <3>2. Excerpts(entry.excerpts, TextsCiting(citations, uri) \cup {text})
      BY <2>2, <3>1, AddExcerptAdds
    <3> QED
      BY <1>5, <3>2
  <2>5. /\ IsSequence(new) /\ DOMAIN new = 1..n /\ new[i] = entry
        /\ \A j \in 1..n : j # i => new[j] = sources[j]
    <3>1. PICK S : sources \in Seq(S)
      BY DEF Lists, IsSequence
    <3>2. \A j \in 1..n : sources[j] \in S
      BY <1>3, <3>1 DEF n
    <3>3. /\ DOMAIN new = 1..n /\ new[i] = entry
          /\ \A j \in 1..n : j # i => new[j] = sources[j]
          /\ new = [j \in 1..n |-> new[j]]
      BY <1>3, <2>1, <2>3
    <3>4. \A j \in 1..n : new[j] \in S \cup {entry}
      BY <3>2, <3>3
    <3>5. new \in Seq(S \cup {entry})
      BY <1>3, <3>3, <3>4
    <3> QED
      BY <3>3, <3>5 DEF IsSequence
  <2>6. \A j \in 1..n : new[j].uri = sources[j].uri
    BY <2>2, <2>3, <2>5
  <2>7. \A j, k \in DOMAIN new : new[j].uri = new[k].uri => j = k
    BY <1>3, <2>5, <2>6 DEF Lists
  <2>8. \A j \in DOMAIN new : \E d \in more : d.uri = new[j].uri
    <3>1. \A j \in 1..n : \E d \in citations : d.uri = sources[j].uri
      BY <1>3 DEF Lists
    <3> QED
      BY <2>5, <2>6, <3>1
  <2>9. \A d \in more : \E j \in DOMAIN new : new[j].uri = d.uri
    <3>1. \A d \in citations : \E j \in 1..n : sources[j].uri = d.uri
      BY <1>3 DEF Lists
    <3> QED
      BY <1>1, <2>3, <2>5, <2>6, <3>1
  <2>10. ASSUME NEW a \in DOMAIN new, NEW b \in DOMAIN new, a < b,
                NEW d \in more, d.uri = new[b].uri
         PROVE  \E e \in more : e.uri = new[a].uri /\ e.support <= d.support
    <3>1. CASE d \in citations
      <4>1. \E e \in citations : e.uri = sources[a].uri /\ e.support <= d.support
        BY <1>3, <2>5, <2>6, <2>10, <3>1 DEF Lists
      <4> QED
        BY <2>5, <2>6, <4>1
    <3>2. CASE d = c
      <4>1. PICK e \in citations : e.uri = sources[a].uri
        BY <1>3, <2>5 DEF Lists
      <4> QED
        BY <1>1, <1>4, <2>5, <2>6, <3>2, <4>1
    <3> QED
      BY <3>1, <3>2
  <2>11. ASSUME NEW j \in DOMAIN new
         PROVE  Excerpts(new[j].excerpts, TextsCiting(more, new[j].uri))
    <3>1. CASE j = i
      BY <2>2, <2>4, <2>5, <3>1
    <3>2. CASE j # i
      <4>1. sources[j].uri # uri
        BY <1>3, <2>3, <2>5, <3>2 DEF Lists
      <4>2. /\ new[j] = sources[j]
            /\ TextsCiting(more, new[j].uri) = TextsCiting(citations, sources[j].uri)
        BY <1>5, <2>5, <3>2, <4>1
      <4> QED
        BY <1>3, <2>5, <4>2 DEF Lists
    <3> QED
      BY <3>1, <3>2
  <2> HIDE DEF more
  <2> QED
    BY <2>5, <2>7, <2>8, <2>9, <2>10, <2>11 DEF Lists, more, new, c
<1> QED
  BY <1>6, <1>7

(* The citations of a response a client looks at: those of an index of a   *)
(* support that is cited, before an index of a support.                    *)
Index(r, m, n) == r.grounding.supports[m].indices[n]

CitesAt(c, r, m, n) ==
    /\ m \in DOMAIN r.grounding.supports
    /\ n \in DOMAIN r.grounding.supports[m].indices
    /\ Index(r, m, n) \in DOMAIN r.grounding.chunks
    /\ ~(/\ c = "generative"
         /\ LLM!Uri(c, r.grounding.chunks[Index(r, m, n)]) = NoUri)

CitationAt(c, r, m, n) ==
    [support |-> m, uri |-> LLM!Uri(c, r.grounding.chunks[Index(r, m, n)]),
     text |-> r.grounding.supports[m].text]

Precedes(m, n, k, j) == m < k \/ (m = k /\ n < j)

CitationsBefore(c, r, k, j) ==
    UNION {{CitationAt(c, r, m, n) :
              n \in {n \in Nat : CitesAt(c, r, m, n) /\ Precedes(m, n, k, j)}} : m \in Nat}

CitationsOf(c, r) ==
    UNION {{CitationAt(c, r, m, n) : n \in {n \in Nat : CitesAt(c, r, m, n)}} : m \in Nat}

LEMMA CitationsAre ==
  ASSUME NEW c, NEW r, NEW k, NEW j
  PROVE  \A d : d \in CitationsBefore(c, r, k, j) <=>
                \E m, n \in Nat : /\ CitesAt(c, r, m, n) /\ Precedes(m, n, k, j)
                                 /\ d = CitationAt(c, r, m, n)
BY DEF CitationsBefore

LEMMA AllCitationsAre ==
  ASSUME NEW c, NEW r
  PROVE  \A d : d \in CitationsOf(c, r) <=>
                \E m, n \in Nat : CitesAt(c, r, m, n) /\ d = CitationAt(c, r, m, n)
BY DEF CitationsOf

(* No citation comes before the first. *)
LEMMA NoneAtFirst ==
  ASSUME NEW c, NEW r \in Responses
  PROVE  CitationsBefore(c, r, 1, 1) = {}
<1> SUFFICES ASSUME NEW m \in Nat, NEW n \in Nat, CitesAt(c, r, m, n),
                    Precedes(m, n, 1, 1)
             PROVE  FALSE
  BY CitationsAre
<1>1. m \in DOMAIN r.grounding.supports /\ n \in DOMAIN r.grounding.supports[m].indices
  BY DEF CitesAt
<1>2. PICK l \in Nat : DOMAIN r.grounding.supports = 1..l
  BY ResponsesAssumption
<1>3. r.grounding.supports[m] \in ToSet(r.grounding.supports)
  BY <1>1 DEF ToSet
<1>4. PICK h \in Nat : DOMAIN r.grounding.supports[m].indices = 1..h
  BY <1>3, ResponsesAssumption
<1> QED
  BY <1>1, <1>2, <1>4 DEF Precedes

(* The one before the next index is that of this index, if it is cited. *)
LEMMA OneMore ==
  ASSUME NEW c, NEW r, NEW k \in Nat, NEW j \in Nat
  PROVE  CitationsBefore(c, r, k, j + 1) =
           CitationsBefore(c, r, k, j) \cup
             (IF CitesAt(c, r, k, j) THEN {CitationAt(c, r, k, j)} ELSE {})
<1>1. \A m, n \in Nat : Precedes(m, n, k, j + 1) <=>
                          Precedes(m, n, k, j) \/ (m = k /\ n = j)
  BY DEF Precedes
<1>2. ASSUME NEW d
      PROVE  d \in CitationsBefore(c, r, k, j + 1) <=>
               \/ d \in CitationsBefore(c, r, k, j)
               \/ CitesAt(c, r, k, j) /\ d = CitationAt(c, r, k, j)
  <2>1. d \in CitationsBefore(c, r, k, j + 1) <=>
           \E m, n \in Nat : /\ CitesAt(c, r, m, n) /\ Precedes(m, n, k, j + 1)
                             /\ d = CitationAt(c, r, m, n)
    BY CitationsAre
  <2>2. d \in CitationsBefore(c, r, k, j) <=>
           \E m, n \in Nat : /\ CitesAt(c, r, m, n) /\ Precedes(m, n, k, j)
                             /\ d = CitationAt(c, r, m, n)
    BY CitationsAre
  <2> QED
    BY <1>1, <2>1, <2>2
<1> HIDE DEF CitationsBefore
<1> QED
  BY <1>2

(* Behind the last index of a support comes the next support. *)
LEMMA SameAtNext ==
  ASSUME NEW c, NEW r \in Responses, NEW k \in Nat, NEW j \in Nat,
         k \in DOMAIN r.grounding.supports,
         j # 0, j \notin DOMAIN r.grounding.supports[k].indices
  PROVE  CitationsBefore(c, r, k + 1, 1) = CitationsBefore(c, r, k, j)
<1>1. r.grounding.supports[k] \in ToSet(r.grounding.supports)
  BY DEF ToSet
<1>2. PICK h \in Nat : DOMAIN r.grounding.supports[k].indices = 1..h
  BY <1>1, ResponsesAssumption
<1>3. j > h
  BY <1>2
<1>4. PICK l \in Nat : DOMAIN r.grounding.supports = 1..l
  BY ResponsesAssumption
<1>5. ASSUME NEW m \in Nat, NEW n \in Nat, CitesAt(c, r, m, n)
      PROVE  Precedes(m, n, k + 1, 1) <=> Precedes(m, n, k, j)
  <2>1. m \in DOMAIN r.grounding.supports /\ n \in DOMAIN r.grounding.supports[m].indices
    BY <1>5 DEF CitesAt
  <2>2. r.grounding.supports[m] \in ToSet(r.grounding.supports)
    BY <2>1 DEF ToSet
  <2>3. PICK g \in Nat : DOMAIN r.grounding.supports[m].indices = 1..g
    BY <2>2, ResponsesAssumption
  <2>4. n >= 1 /\ (m = k => n < j)
    BY <1>2, <1>3, <2>1, <2>3
  <2> QED
    BY <2>4 DEF Precedes
<1>6. PICK next \in Nat : next = k + 1
  OBVIOUS
<1>7. ASSUME NEW d
      PROVE  d \in CitationsBefore(c, r, next, 1) <=> d \in CitationsBefore(c, r, k, j)
  <2>1. d \in CitationsBefore(c, r, next, 1) <=>
           \E m, n \in Nat : /\ CitesAt(c, r, m, n) /\ Precedes(m, n, next, 1)
                             /\ d = CitationAt(c, r, m, n)
    BY CitationsAre
  <2>2. d \in CitationsBefore(c, r, k, j) <=>
           \E m, n \in Nat : /\ CitesAt(c, r, m, n) /\ Precedes(m, n, k, j)
                             /\ d = CitationAt(c, r, m, n)
    BY CitationsAre
  <2> QED
    BY <1>5, <1>6, <2>1, <2>2
<1> QED
  BY <1>6, <1>7

(* Behind the last support all citations have been. *)
LEMMA AllAtEnd ==
  ASSUME NEW c, NEW r \in Responses, NEW k \in Nat, NEW j \in Nat,
         k # 0, k \notin DOMAIN r.grounding.supports
  PROVE  CitationsBefore(c, r, k, j) = CitationsOf(c, r)
<1>1. PICK l \in Nat : DOMAIN r.grounding.supports = 1..l
  BY ResponsesAssumption
<1>2. k > l
  BY <1>1
<1>3. \A m, n \in Nat : CitesAt(c, r, m, n) => Precedes(m, n, k, j)
  BY <1>1, <1>2 DEF CitesAt, Precedes
<1>4. \A d : d \in CitationsBefore(c, r, k, j) <=> d \in CitationsOf(c, r)
  BY <1>3, CitationsAre, AllCitationsAre
<1> QED
  BY <1>4

(* While it cites, a client has listed the citations before the next one;  *)
(* when it has read the response, all of them, unless it gave up.          *)
SourcesInv ==
    part = "service" =>
        /\ reader = "none" \/ (reader \in LLM!Clients /\ result.kind = "none") =>
              citation.support = 1 /\ citation.index = 1
        /\ reader \in LLM!Clients /\ result.kind = "citing" =>
              /\ citation.support \in Nat \ {0} /\ citation.index \in Nat \ {0}
              /\ Lists(result.sources, CitationsBefore(reader, response, citation.support,
                                                       citation.index))
        /\ reader \in LLM!Clients /\ result.kind = "read" =>
              \/ response.grounding.form # "chunks" \/ LLM!CitesMalformed
              \/ Lists(result.sources, CitationsOf(reader, response))

LEMMA NothingListed == Lists(<< >>, {})
<1>1. << >> \in Seq({})
  OBVIOUS
<1> QED
  BY <1>1 DEF Lists, IsSequence

(* The citation that comes next is listed with those before it. *)
LEMMA CiteChunkLists ==
  ASSUME NEW c, NEW r \in Responses, NEW k \in Nat, NEW j \in Nat, NEW sources,
         Lists(sources, CitationsBefore(c, r, k, j))
  PROVE  /\ CitesAt(c, r, k, j) =>
              Lists(LLM!Cite(sources, CitationAt(c, r, k, j).uri, CitationAt(c, r, k, j).text),
                    CitationsBefore(c, r, k, j + 1))
         /\ ~CitesAt(c, r, k, j) => Lists(sources, CitationsBefore(c, r, k, j + 1))
<1> DEFINE before == CitationsBefore(c, r, k, j)
           d == CitationAt(c, r, k, j)
<1>1. CitationsBefore(c, r, k, j + 1) = before \cup (IF CitesAt(c, r, k, j) THEN {d} ELSE {})
  BY OneMore
<1>2. CASE CitesAt(c, r, k, j)
  <2>1. \A e \in before : e.support \in Nat /\ e.support <= k
    <3> SUFFICES ASSUME NEW m \in Nat, NEW n \in Nat, Precedes(m, n, k, j)
                 PROVE  /\ CitationAt(c, r, m, n).support \in Nat
                        /\ CitationAt(c, r, m, n).support <= k
      BY CitationsAre
    <3>1. CitationAt(c, r, m, n).support = m
      BY DEF CitationAt
    <3> QED
      BY <3>1 DEF Precedes
  <2>2. d = [support |-> k, uri |-> d.uri, text |-> d.text]
    BY DEF CitationAt
  <2> HIDE DEF before, d
  <2>3. Lists(LLM!Cite(sources, d.uri, d.text),
              before \cup {[support |-> k, uri |-> d.uri, text |-> d.text]})
    BY <2>1, CiteLists DEF before
  <2>4. CitationsBefore(c, r, k, j + 1) =
           before \cup {[support |-> k, uri |-> d.uri, text |-> d.text]}
    BY <1>1, <1>2, <2>2
  <2> QED
    BY <1>2, <2>3, <2>4 DEF d
<1>3. CASE ~CitesAt(c, r, k, j)
  <2>1. CitationsBefore(c, r, k, j + 1) = before
    BY <1>1, <1>3
  <2> QED
    BY <1>3, <2>1
<1> QED
  BY <1>2, <1>3

LEMMA SourcesStep ==
  ServiceInv /\ SourcesInv /\ [OrchestratorsNext]_<<part, vars, responseVars>> => SourcesInv'
<1> SUFFICES ASSUME ServiceInv, SourcesInv,
                    [OrchestratorsNext]_<<part, vars, responseVars>>, part' = "service"
             PROVE  SourcesInv'
  BY DEF SourcesInv
<1>1. part = "service" /\ "none" \notin LLM!Clients
  BY DEF OrchestratorsNext, LLM!Clients
<1>2. CASE UNCHANGED responseVars
  <2>1. LLM!CitesMalformed' = LLM!CitesMalformed
    BY <1>2 DEF responseVars, LLM!CitesMalformed, LLM!IsMalformed, LLM!Supports, LLM!Chunks
  <2> QED
    BY <1>1, <1>2, <2>1 DEF responseVars, SourcesInv
<1>3. ASSUME NEW c \in LLM!Clients, LLM!Generate(c)
      PROVE  SourcesInv'
  <2>1. /\ reader = "none" /\ result' = result /\ result.kind = "none"
        /\ citation' = citation
    BY <1>1, <1>3 DEF LLM!Generate, ServiceInv
  <2> QED
    BY <1>1, <2>1 DEF SourcesInv
<1>4. CASE LLM!Answered
  <2>1. /\ reader \in LLM!Clients /\ response \in Responses /\ result.kind = "none"
        /\ reader' = reader /\ response' = response /\ citation' = citation
        /\ citation.support = 1 /\ citation.index = 1
    BY <1>1, <1>4 DEF LLM!Answered, ServiceInv, SourcesInv
  <2>2. CASE result'.kind = "empty"
    BY <1>1, <2>1, <2>2 DEF SourcesInv
  <2>3. CASE result' = LLM!Begun(response)
    <3>1. Lists(<< >>, CitationsBefore(reader, response, 1, 1))
      BY <2>1, NoneAtFirst, NothingListed
    <3>2. /\ result'.kind \in {"citing", "read"}
          /\ result'.kind = "citing" <=> response.grounding.form = "chunks"
          /\ result'.kind = "citing" => result'.sources = << >>
      BY <2>3, BegunIs
    <3> QED
      BY <1>1, <2>1, <3>1, <3>2 DEF SourcesInv
  <2> QED
    BY <1>4, <2>2, <2>3 DEF LLM!Answered, LLM!Message, LLM!Result
<1>5. CASE LLM!RequestFails
  <2>1. reader' = "failed" /\ "failed" \notin LLM!Clients /\ "failed" # "none"
    BY <1>5 DEF LLM!RequestFails, LLM!Clients
  <2> QED
    BY <2>1 DEF SourcesInv
<1>6. result.kind = "citing" => reader \in LLM!Clients
  BY <1>1 DEF ServiceInv
<1>7. CASE LLM!CiteChunk
  <2> DEFINE k == citation.support
             j == citation.index
             i == LLM!Support.indices[j]
             r == response
  <2>1. /\ result.kind = "citing" /\ UNCHANGED <<reader, response>>
        /\ reader \in LLM!Clients /\ response \in Responses
        /\ k \in Nat \ {0} /\ j \in Nat \ {0}
        /\ Lists(result.sources, CitationsBefore(reader, r, k, j))
    BY <1>1, <1>6, <1>7 DEF LLM!CiteChunk, ServiceInv, SourcesInv
  <2>2. /\ citation'.support = k /\ citation'.index = j + 1
        /\ k \in DOMAIN r.grounding.supports
        /\ j \in DOMAIN r.grounding.supports[k].indices
        /\ i = Index(r, k, j)
    BY <1>7 DEF LLM!CiteChunk, LLM!Support, LLM!Supports, Index
  <2>3. CitesAt(reader, r, k, j) <=> LLM!IsCited(i)
    BY <2>2 DEF CitesAt, LLM!IsCited, LLM!Chunks
  <2>4. /\ CitationAt(reader, r, k, j).uri = LLM!Uri(reader, LLM!Chunks[i])
        /\ CitationAt(reader, r, k, j).text = LLM!Support.text
    BY <2>2 DEF CitationAt, LLM!Chunks, LLM!Support, LLM!Supports
  <2>5. j + 1 \in Nat \ {0}
    BY <2>1
  <2>6. CASE LLM!IsMalformed(i)
    <3>1. LLM!Support \in LLM!ToSet(LLM!Supports) /\ i \in LLM!ToSet(LLM!Support.indices)
      BY <1>7 DEF LLM!CiteChunk, LLM!Support, LLM!ToSet
    <3>2. LLM!CitesMalformed
      BY <2>6, <3>1 DEF LLM!CitesMalformed
    <3>3. LLM!CitesMalformed'
      BY <2>1, <3>2 DEF LLM!CitesMalformed, LLM!IsMalformed, LLM!Supports, LLM!Chunks
    <3>4. result'.kind = "read"
      BY <1>7, <2>6 DEF LLM!CiteChunk, LLM!WithoutSources, LLM!Result
    <3> QED
      BY <1>1, <2>1, <3>3, <3>4 DEF SourcesInv
  <2>7. CASE ~LLM!IsMalformed(i) /\ LLM!IsCited(i)
    <3>1. /\ result'.kind = "citing"
          /\ result'.sources = LLM!Cite(result.sources, LLM!Uri(reader, LLM!Chunks[i]),
                                        LLM!Support.text)
      BY <1>7, <2>7 DEF LLM!CiteChunk, LLM!Result
    <3>2. Lists(result'.sources, CitationsBefore(reader, r, k, j + 1))
      BY <2>1, <2>3, <2>4, <2>7, <3>1, CiteChunkLists
    <3> HIDE DEF k, j, i, r
    <3> QED
      BY <1>1, <2>1, <2>2, <2>5, <3>1, <3>2 DEF SourcesInv, r
  <2>8. CASE ~LLM!IsMalformed(i) /\ ~LLM!IsCited(i)
    <3>1. result' = result
      BY <1>7, <2>8 DEF LLM!CiteChunk
    <3>2. Lists(result'.sources, CitationsBefore(reader, r, k, j + 1))
      BY <2>1, <2>3, <2>8, <3>1, CiteChunkLists
    <3> HIDE DEF k, j, i, r
    <3> QED
      BY <1>1, <2>1, <2>2, <2>5, <3>1, <3>2 DEF SourcesInv, r
  <2> QED
    BY <2>6, <2>7, <2>8
<1>8. CASE LLM!NextSupport
  <2> DEFINE k == citation.support
             j == citation.index
             r == response
  <2>1. /\ result.kind = "citing" /\ UNCHANGED <<reader, response>>
        /\ reader \in LLM!Clients /\ response \in Responses
        /\ k \in Nat \ {0} /\ j \in Nat \ {0}
        /\ Lists(result.sources, CitationsBefore(reader, r, k, j))
    BY <1>1, <1>6, <1>8 DEF LLM!NextSupport, ServiceInv, SourcesInv
  <2>2. /\ citation'.support = k + 1 /\ citation'.index = 1
        /\ k \in DOMAIN r.grounding.supports
        /\ j \notin DOMAIN r.grounding.supports[k].indices
    BY <1>8 DEF LLM!NextSupport, LLM!Support, LLM!Supports
  <2>3. Lists(result.sources, CitationsBefore(reader, r, k + 1, 1))
    BY <2>1, <2>2, SameAtNext
  <2>4. k + 1 \in Nat \ {0}
    BY <2>1
  <2>5. result'.kind = "error" \/ result' = result
    BY <1>8 DEF LLM!NextSupport, LLM!Message, LLM!Result
  <2> HIDE DEF k, j, r
  <2> QED
    BY <1>1, <2>1, <2>2, <2>3, <2>4, <2>5 DEF SourcesInv, r
<1>9. CASE LLM!SourcesListed
  <2> DEFINE k == citation.support
             j == citation.index
             r == response
  <2>1. /\ result.kind = "citing" /\ UNCHANGED <<reader, response>>
        /\ reader \in LLM!Clients /\ response \in Responses
        /\ k \in Nat \ {0} /\ j \in Nat \ {0}
        /\ Lists(result.sources, CitationsBefore(reader, r, k, j))
    BY <1>1, <1>6, <1>9 DEF LLM!SourcesListed, ServiceInv, SourcesInv
  <2>2. k \notin DOMAIN r.grounding.supports
    BY <1>9 DEF LLM!SourcesListed, LLM!Supports
  <2>3. Lists(result.sources, CitationsOf(reader, r))
    BY <2>1, <2>2, AllAtEnd
  <2>4. result'.kind = "read" /\ result'.sources = result.sources
    BY <1>9 DEF LLM!SourcesListed, LLM!Result
  <2> HIDE DEF k, j, r
  <2> QED
    BY <1>1, <2>1, <2>3, <2>4 DEF SourcesInv, r
<1> QED
  BY <1>1, <1>2, <1>3, <1>4, <1>5, <1>7, <1>8, <1>9 DEF OrchestratorsNext, LLM!Next

(* The invariant of the list of sources. *)
THEOREM SourcesInvariance == OrchestratorsSpec => []SourcesInv
<1>1. OrchestratorsInit => SourcesInv
  BY DEF OrchestratorsInit, SourcesInv, LLM!Init, LLM!Message, LLM!Result, LLM!Clients
<1> QED
  BY <1>1, ServiceInvariance, SourcesStep, PTL DEF OrchestratorsSpec

(* The citations are those of the supports. *)
LEMMA CitationsAreThose ==
  ASSUME response \in Responses
  PROVE  LET citations == CitationsOf(reader, response) IN
         /\ \A d \in citations : /\ d.support \in DOMAIN LLM!Supports
                                /\ d.text = LLM!Supports[d.support].text
         /\ \A m \in DOMAIN LLM!Supports : \A uri :
               uri \in LLM!CitedBy(LLM!Supports[m]) <=>
                  \E d \in citations : d.support = m /\ d.uri = uri
         /\ \E l \in Nat : DOMAIN LLM!Supports = 1..l
<1> DEFINE c == reader
           r == response
<1>1. PICK l \in Nat : DOMAIN r.grounding.supports = 1..l
  BY ResponsesAssumption
<1>2. \A m, n \in Nat : /\ CitationAt(c, r, m, n).support = m
                        /\ CitationAt(c, r, m, n).text = r.grounding.supports[m].text
                        /\ CitationAt(c, r, m, n).uri = LLM!Uri(c, r.grounding.chunks[Index(r, m, n)])
  BY DEF CitationAt
<1>3. \A d \in CitationsOf(c, r) : /\ d.support \in DOMAIN r.grounding.supports
                                  /\ d.text = r.grounding.supports[d.support].text
  <2> SUFFICES ASSUME NEW m \in Nat, NEW n \in Nat, CitesAt(c, r, m, n)
               PROVE  LET d == CitationAt(c, r, m, n) IN
                      /\ d.support \in DOMAIN r.grounding.supports
                      /\ d.text = r.grounding.supports[d.support].text
    BY AllCitationsAre
  <2> QED
    BY <1>2 DEF CitesAt
<1>4. ASSUME NEW m \in DOMAIN r.grounding.supports, NEW uri
      PROVE  uri \in LLM!CitedBy(LLM!Supports[m]) <=>
                \E d \in CitationsOf(c, r) : d.support = m /\ d.uri = uri
  <2> DEFINE indices == r.grounding.supports[m].indices
             cited(i) == LLM!Uri(c, r.grounding.chunks[i])
  <2>1. m \in Nat
    BY <1>1
  <2>2. r.grounding.supports[m] \in ToSet(r.grounding.supports)
    BY DEF ToSet
  <2>3. \A n \in DOMAIN indices : n \in Nat
    BY <2>2, ResponsesAssumption
  <2>4. (\E d \in CitationsOf(c, r) : d.support = m /\ d.uri = uri) <=>
           \E n \in Nat : CitesAt(c, r, m, n) /\ cited(Index(r, m, n)) = uri
    <3>1. \A d : d \in CitationsOf(c, r) <=>
             \E h, n \in Nat : CitesAt(c, r, h, n) /\ d = CitationAt(c, r, h, n)
      BY AllCitationsAre
    <3>2. \A h, n \in Nat : CitesAt(c, r, h, n) => CitationAt(c, r, h, n) \in CitationsOf(c, r)
      BY <3>1
    <3>3. ASSUME NEW n \in Nat, CitesAt(c, r, m, n), cited(Index(r, m, n)) = uri
          PROVE  \E d \in CitationsOf(c, r) : d.support = m /\ d.uri = uri
      BY <1>2, <2>1, <3>2, <3>3
    <3>4. ASSUME NEW d \in CitationsOf(c, r), d.support = m, d.uri = uri
          PROVE  \E n \in Nat : CitesAt(c, r, m, n) /\ cited(Index(r, m, n)) = uri
      <4>1. PICK h \in Nat, n \in Nat : CitesAt(c, r, h, n) /\ d = CitationAt(c, r, h, n)
        BY <3>1
      <4>2. h = m /\ cited(Index(r, m, n)) = uri
        BY <1>2, <3>4, <4>1
      <4> QED
        BY <4>1, <4>2
    <3> QED
      BY <3>3, <3>4
  <2>5. \A n \in Nat : CitesAt(c, r, m, n) <=>
           /\ n \in DOMAIN indices /\ indices[n] \in DOMAIN r.grounding.chunks
           /\ ~(c = "generative" /\ cited(indices[n]) = NoUri)
    BY DEF CitesAt, Index
  <2>6. uri \in LLM!CitedBy(LLM!Supports[m]) <=>
           /\ \E n \in DOMAIN indices : /\ indices[n] \in DOMAIN r.grounding.chunks
                                       /\ cited(indices[n]) = uri
           /\ ~(c = "generative" /\ uri = NoUri)
    BY DEF LLM!CitedBy, LLM!Supports, LLM!Chunks, LLM!ToSet
  <2> QED
    BY <2>3, <2>4, <2>5, <2>6 DEF Index
<1> QED
  BY <1>1, <1>3, <1>4 DEF LLM!Supports

(* So a list of the citations is one of what the supports cite. *)
LEMMA ListedAreCited ==
  ASSUME response \in Responses, result.kind = "read",
         Lists(result.sources, CitationsOf(reader, response))
  PROVE  LLM!SourcesAreThoseCited
<1> DEFINE citations == CitationsOf(reader, response)
           supports == LLM!Supports
           sources == result.sources
           n == Len(sources)
           uris == UNION {LLM!CitedBy(s) : s \in LLM!ToSet(supports)}
           citing(uri) == {j \in DOMAIN supports : uri \in LLM!CitedBy(supports[j])}
<1>1. /\ \A d \in citations : d.support \in DOMAIN supports /\ d.text = supports[d.support].text
      /\ \A m \in DOMAIN supports : \A uri :
            uri \in LLM!CitedBy(supports[m]) <=>
               \E d \in citations : d.support = m /\ d.uri = uri
      /\ \E l \in Nat : DOMAIN supports = 1..l
  BY CitationsAreThose
<1>2. /\ n \in Nat /\ DOMAIN sources = 1..n
      /\ LLM!ToSet(sources) = {sources[i] : i \in DOMAIN sources}
      /\ LLM!ToSet(supports) = {supports[i] : i \in DOMAIN supports}
  BY LenProperties DEF Lists, IsSequence, LLM!ToSet
<1>3. Lists(sources, citations)
  OBVIOUS
<1> HIDE DEF citations, supports, sources, n
<1>4. \A uri : uri \in uris <=> \E d \in citations : d.uri = uri
  <2>1. \A uri : uri \in uris <=> \E m \in DOMAIN supports : uri \in LLM!CitedBy(supports[m])
    BY <1>2
  <2> QED
    BY <1>1, <2>1
<1>5. {s.uri : s \in LLM!ToSet(sources)} = uris
  <2>1. \A uri : uri \in {s.uri : s \in LLM!ToSet(sources)} <=>
                  \E i \in DOMAIN sources : sources[i].uri = uri
    BY <1>2
  <2>2. \A uri : (\E i \in DOMAIN sources : sources[i].uri = uri) <=>
                  \E d \in citations : d.uri = uri
    BY <1>3 DEF Lists
  <2> HIDE DEF uris
  <2> QED
    BY <1>4, <2>1, <2>2
<1>6. n = LLM!Cardinality(uris)
  <2> DEFINE f == [i \in 1..n |-> sources[i].uri]
  <2>1. \A i \in 1..n : sources[i].uri \in uris
    BY <1>2, <1>5
  <2>2. \A uri \in uris : \E i \in 1..n : sources[i].uri = uri
    BY <1>2, <1>5
  <2>3. \A i, j \in 1..n : sources[i].uri = sources[j].uri => i = j
    BY <1>2, <1>3 DEF Lists
  <2> HIDE DEF uris
  <2>4. f \in Bijection(1..n, uris)
    BY <2>1, <2>2, <2>3 DEF Bijection, Injection, IsInjective, Surjection
  <2>5. ExistsBijection(1..n, uris)
    BY <2>4 DEF ExistsBijection
  <2>6. Cardinality(uris) = n
    BY <1>2, <2>5, FS_CountingElements
  <2>7. LLM!Cardinality(uris) = Cardinality(uris)
    BY DEF LLM!Cardinality, Cardinality
  <2> QED
    BY <2>6, <2>7
<1>7. ASSUME NEW a \in DOMAIN sources, NEW b \in DOMAIN sources, a < b
      PROVE  LLM!Min(citing(sources[a].uri)) <= LLM!Min(citing(sources[b].uri))
  <2>1. \A uri : citing(uri) \in SUBSET Nat
    BY <1>1
  <2>2. \A uri : \A d \in citations : d.uri = uri => d.support \in citing(uri)
    BY <1>1
  <2>3. \A uri : \A j \in citing(uri) : \E d \in citations : d.uri = uri /\ d.support = j
    BY <1>1
  <2>4. ASSUME NEW uri, citing(uri) # {}
        PROVE  /\ LLM!Min(citing(uri)) \in citing(uri)
               /\ \A j \in citing(uri) : LLM!Min(citing(uri)) <= j
    <3>1. LLM!Min(citing(uri)) = Thinking!A!Min(citing(uri))
      BY DEF LLM!Min, Thinking!A!Min
    <3> QED
      BY <2>1, <2>4, <3>1, MinOf
  <2> HIDE DEF citing
  <2>5. /\ \E d \in citations : d.uri = sources[a].uri
        /\ \E d \in citations : d.uri = sources[b].uri
    BY <1>3 DEF Lists
  <2>6. citing(sources[a].uri) # {} /\ citing(sources[b].uri) # {}
    BY <2>2, <2>5
  <2>7. PICK d \in citations : /\ d.uri = sources[b].uri
                              /\ d.support = LLM!Min(citing(sources[b].uri))
    BY <2>3, <2>4, <2>6
  <2>8. PICK e \in citations : e.uri = sources[a].uri /\ e.support <= d.support
    BY <1>3, <1>7, <2>7 DEF Lists
  <2>9. LLM!Min(citing(sources[a].uri)) <= e.support
    BY <2>2, <2>4, <2>6, <2>8
  <2>10. /\ LLM!Min(citing(sources[a].uri)) \in Nat /\ e.support \in Nat
         /\ d.support \in Nat
    BY <2>1, <2>2, <2>4, <2>6, <2>7, <2>8
  <2> QED
    BY <2>7, <2>8, <2>9, <2>10
<1>8. ASSUME NEW i \in DOMAIN sources
      PROVE  /\ LLM!IsInjective(sources[i].excerpts)
             /\ LLM!ToSet(sources[i].excerpts) =
                  {t.text : t \in {t \in LLM!ToSet(supports) :
                     sources[i].uri \in LLM!CitedBy(t)}} \ {NoText}
  <2> DEFINE uri == sources[i].uri
             excerpts == sources[i].excerpts
             texts == {t.text : t \in {t \in LLM!ToSet(supports) : uri \in LLM!CitedBy(t)}}
  <2>1. Excerpts(excerpts, TextsCiting(citations, uri))
    BY <1>3 DEF Lists
  <2>2. LLM!IsInjective(excerpts)
    BY <2>1 DEF Excerpts, LLM!IsInjective
  <2>3. ASSUME NEW t
        PROVE  t \in texts <=> t \in TextsCiting(citations, uri)
    <3>1. t \in texts <=> \E m \in DOMAIN supports :
                            uri \in LLM!CitedBy(supports[m]) /\ supports[m].text = t
      BY <1>2
    <3>2. t \in TextsCiting(citations, uri) <=>
             \E d \in citations : d.uri = uri /\ d.text = t
      BY DEF TextsCiting
    <3> QED
      BY <1>1, <3>1, <3>2
  <2>4. \A t : t \in LLM!ToSet(excerpts) <=> \E k \in DOMAIN excerpts : excerpts[k] = t
    BY DEF LLM!ToSet
  <2> HIDE DEF uri, excerpts, texts
  <2>5. \A t : t \in LLM!ToSet(excerpts) <=> t \in texts \ {NoText}
    BY <2>1, <2>3, <2>4 DEF Excerpts
  <2>6. LLM!ToSet(excerpts) = texts \ {NoText}
    BY <2>5
  <2> QED
    BY <2>2, <2>6 DEF uri, excerpts, texts
<1>9. \A s \in LLM!ToSet(sources) : \E i \in DOMAIN sources : s = sources[i]
  BY <1>2
<1> HIDE DEF uris
<1> QED
  BY <1>5, <1>6, <1>7, <1>8, <1>9
     DEF LLM!SourcesAreThoseCited, uris, citations, supports, sources, n

(* The sources an LLM client lists, support by support and index by index, *)
(* are those cited, each once, in the order of their first citation and    *)
(* with the texts that cite them: for any chunks and supports              *)
(* (vertex-ai-llm.js:198-240, generative-ai-llm.js:213-258).               *)
THEOREM ListedSourcesAreCited == OrchestratorsSpec => []SourcesAreThoseCited
<1>1. ServiceInv /\ SourcesInv => SourcesAreThoseCited
  <2> SUFFICES ASSUME ServiceInv, SourcesInv, part = "service", result.kind = "read",
                      response.grounding.form = "chunks", ~LLM!CitesMalformed
               PROVE  LLM!SourcesAreThoseCited
    BY DEF SourcesAreThoseCited, LLM!SourcesAreThoseCited
  <2>1. reader \in LLM!Clients /\ response \in Responses
    BY DEF ServiceInv
  <2>2. Lists(result.sources, CitationsOf(reader, response))
    BY <2>1 DEF SourcesInv
  <2> QED
    BY <2>1, <2>2, ListedAreCited
<1> QED
  BY <1>1, ServiceInvariance, SourcesInvariance, PTL
=============================================================================
