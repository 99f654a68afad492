----------------------------- MODULE MatchProofs -----------------------------
(***************************************************************************)
(* What the language model can do to a match: proofs about explain_match   *)
(* for any incident, any ticket and any keyword table.  Only the semantic  *)
(* term reads the model's words, and it is worth at most a fifth of the    *)
(* whole.                                                                  *)
(***************************************************************************)
EXTENDS MatchExplanation, FiniteSetTheorems, TLAPS

\* Incidents and tickets as the matcher sees them.  Their words are finite sets.
IsIncident(i) ==
  /\ i.alerted \in Int
  /\ IsFiniteSet(i.fingerprint) /\ IsFiniteSet(i.title) /\ IsFiniteSet(i.summary)

IsTicket(t) ==
  /\ t.created \in Int
  /\ t.text \subseteq Terms
  /\ IsFiniteSet(t.words)

LEMMA SemanticBounded ==
  ASSUME NEW words, NEW t, IsFiniteSet(words), IsTicket(t)
  PROVE  SemanticOverlap(words, t) \in 0..20
<1>1. CASE words \cap t.words = {}
  BY <1>1 DEF SemanticOverlap
<1>2. CASE words \cap t.words # {}
  <2> DEFINE common == Cardinality(words \cap t.words)
             all    == Cardinality(words \cup t.words)
  <2>1. common \in Nat /\ all \in Nat
    BY FS_Union, FS_Intersection, FS_CardinalityType DEF IsTicket
  <2>2. all # 0
    BY <1>2, FS_Union, FS_EmptySet DEF IsTicket
  <2> HIDE DEF common, all
  <2>3. (60 * common) \div all \in Nat
    BY <2>1, <2>2
  <2>4. SemanticOverlap(words, t) = Smaller(20, (60 * common) \div all)
    BY <1>2 DEF SemanticOverlap, common, all
  <2> QED
    BY <2>3, <2>4 DEF Smaller
<1> QED
  BY <1>1, <1>2

LEMMA KeywordsBounded ==
  ASSUME NEW t, IsTicket(t)
  PROVE  KeywordScore(t) \in 0..20
<1>1. IsFiniteSet(Overlap(t.text))
  <2>1. Overlap(t.text) \subseteq Terms
    BY DEF Overlap, IsTicket
  <2> QED
    BY <2>1, FS_Subset, KeywordAssumption
<1>2. Cardinality(Overlap(t.text)) \in Nat
  BY <1>1, FS_CardinalityType
<1> QED
  BY <1>2 DEF KeywordScore, Smaller

LEMMA SignalsBounded ==
  ASSUME NEW i, NEW t, IsIncident(i), IsTicket(t)
  PROVE  Signals(i, t) \in 0..125
<1>1. TimeScore(i, t) \in 0..30
  BY DEF TimeScore
<1>2. /\ Worth(30, ActionMatch(i.action, t.text)) \in 0..30
      /\ Worth(20, CountryHit(i, t)) \in 0..20
      /\ Worth(15, Named(i.provider, t)) \in 0..15
      /\ Worth(10, Named(i.method, t)) \in 0..10
  BY DEF Worth
<1> QED
  BY <1>1, <1>2, KeywordsBounded DEF Signals

LEMMA WordsAreFinite ==
  ASSUME NEW i, IsIncident(i), NEW told \in BOOLEAN
  PROVE  IsFiniteSet(IncidentWords(i, told))
BY FS_Union DEF IncidentWords, IsIncident

LEMMA Shares ==
  ASSUME NEW i, NEW t, IsIncident(i), IsTicket(t), NEW told \in BOOLEAN
  PROVE  \E w \in 0..20 : ExplainMatch(i, t, told) = Smaller(100, Signals(i, t) + w)
BY WordsAreFinite, SemanticBounded DEF ExplainMatch

\* The summary and the title of the model, whatever they say, move a confidence
\* by at most 0.20 (explain_match, "a model hallucination alone can neither
\* fabricate nor destroy a match").
THEOREM SummaryMovesLittle ==
  ASSUME NEW i, NEW t, IsIncident(i), IsTicket(t), NEW told \in BOOLEAN, NEW other \in BOOLEAN
  PROVE  ExplainMatch(i, t, told) - ExplainMatch(i, t, other) <= 20
<1>1. PICK v \in 0..20 : ExplainMatch(i, t, told) = Smaller(100, Signals(i, t) + v)
  BY Shares
<1>2. PICK w \in 0..20 : ExplainMatch(i, t, other) = Smaller(100, Signals(i, t) + w)
  BY Shares
<1> QED
  BY <1>1, <1>2, SignalsBounded DEF Smaller

\* The signals that do not come from the model make up all but 0.20 of every
\* match, and a ticket whose signals exceed the threshold by themselves is matched
\* whatever the model says (explain_match, the same sentence).  At the threshold
\* itself nothing is promised: some sums of floats that should be 0.5 are less.
THEOREM SignalsDecide ==
  ASSUME NEW i, NEW t, IsIncident(i), IsTicket(t), NEW told \in BOOLEAN,
         NEW threshold \in 1..99
  PROVE  /\ ExplainMatch(i, t, told) >= threshold => Signals(i, t) >= threshold - 20
         /\ Signals(i, t) > threshold => ExplainMatch(i, t, told) > threshold
<1>1. PICK w \in 0..20 : ExplainMatch(i, t, told) = Smaller(100, Signals(i, t) + w)
  BY Shares
<1> QED
  BY <1>1, SignalsBounded DEF Smaller

\* Confidences are what FreshdeskRace assumes of them.
THEOREM ConfidenceTyped ==
  ASSUME NEW i, NEW t, IsIncident(i), IsTicket(t), NEW told \in BOOLEAN
  PROVE  ExplainMatch(i, t, told) \in 0..100
<1>1. PICK w \in 0..20 : ExplainMatch(i, t, told) = Smaller(100, Signals(i, t) + w)
  BY Shares
<1> QED
  BY <1>1, SignalsBounded DEF Smaller
=============================================================================
