-------------------------- MODULE MatchExplanation --------------------------
(***************************************************************************)
(* How surely a ticket is about an incident: explain_match in              *)
(* app/freshdesk/matcher.py with the keyword scan of app/taxonomy.py.      *)
(*                                                                         *)
(* The text of a ticket is the set of the terms that occur in it, its      *)
(* words the set of its content words: what is lower case, a substring or  *)
(* a stop word is settled there, and so is the shape of its tags.  Times   *)
(* are milliseconds and scores hundredths, rounded down once, by the       *)
(* semantic term.  Binary floating point adds four of the combinations     *)
(* that make 0.5 to a little less; the instances leave those out.          *)
(***************************************************************************)
EXTENDS Integers, FiniteSets

CONSTANTS Terms,         \* what may occur in a text
          KeywordGroups  \* the forms of each keyword group, by language

Languages == {"en", "es"}
Unknown   == "unknown"

ASSUME KeywordAssumption ==
  /\ IsFiniteSet(Terms)
  /\ KeywordGroups \in [DOMAIN KeywordGroups -> [Languages -> SUBSET Terms]]

Smaller(a, b) == IF a <= b THEN a ELSE b
Magnitude(n)  == IF n >= 0 THEN n ELSE -n

(***************************************************************************)
(* The keyword scan.                                                       *)
(***************************************************************************)
Groups == DOMAIN KeywordGroups

Overlap(text) == UNION {KeywordGroups[g][l] \cap text : g \in Groups, l \in Languages}

Found(g, text) == \E l \in Languages : KeywordGroups[g][l] \cap text # {}

\* The incident's own action, without its failure suffix.
ActionMatch(action, text) == action \in Groups /\ Found(action, text)

(***************************************************************************)
(* The signals.                                                            *)
(***************************************************************************)
Worth(points, holds) == IF holds THEN points ELSE 0

CountryHit(i, t) ==
  (i.countries \cup ({i.primary} \ {Unknown})) \cap t.tags # {}

Named(name, t) == name # Unknown /\ name \in t.text

TimeScore(i, t) ==
  LET delta == Magnitude(t.created - i.alerted) \div 1000
  IN  CASE delta <= 300  -> 30
        [] delta <= 900  -> 20
        [] delta <= 3600 -> 10
        [] OTHER         -> 0

KeywordScore(t) == Smaller(20, 5 * Cardinality(Overlap(t.text)))

\* Everything that does not come from the words of the incident.
Signals(i, t) ==
  Worth(30, ActionMatch(i.action, t.text)) + Worth(20, CountryHit(i, t))
  + Worth(15, Named(i.provider, t)) + Worth(10, Named(i.method, t))
  + TimeScore(i, t) + KeywordScore(t)

\* The model's summary brings its words, and its title replaces the first one.
IncidentWords(i, told) == i.fingerprint \cup (IF told THEN i.summary ELSE i.title)

SemanticOverlap(words, t) ==
  IF words \cap t.words = {} THEN 0
  ELSE Smaller(20, (60 * Cardinality(words \cap t.words))
                     \div Cardinality(words \cup t.words))

ExplainMatch(i, t, told) ==
  Smaller(100, Signals(i, t) + SemanticOverlap(IncidentWords(i, told), t))
=============================================================================
