-------------------------- MODULE WinddownRequest --------------------------
(***************************************************************************)
(* winddown.py: the strict parser of a wind-down request and of a bind     *)
(* request.  One step reads the envelope, one step reads each concept, and *)
(* every fault is an issue at a place: nothing is repaired or left out.    *)
(* Numbers out of Python's own reach raise instead, and end the reading.   *)
(*                                                                         *)
(* A text is [name, length, words, padded, odd]: what it says, its length  *)
(* and words without surrounding blanks, whether it has any of those, and  *)
(* whether what remains opens with a NUL or holds a lone surrogate.        *)
(***************************************************************************)
EXTENDS Integers, Sequences, FiniteSets, Functions

CONSTANTS
  NotText,       \* a JSON value that is no string, no integer or no object
  Huge,          \* an integer that float() cannot hold
  NoLocator, PartialLocator,
  WellFormed,    \* strings that match _TAG
  MaxConcepts    \* 8

RequestAssumption == MaxConcepts \in 1 .. 8

\* What JSON can hold in the places the parser looks at.
Text == [name : STRING, length : Nat, words : Nat, padded : BOOLEAN, odd : SUBSET {"nul", "lone"}]
Locator == [evidence : Text \cup {NotText}, start : Int \cup {NotText}, end : Int \cup {NotText}]
Quote == [fields : STRING, text : Text \cup {NotText}, locator : Locator \cup {NoLocator, PartialLocator}]
Concept ==
  [fields : STRING, kind : STRING, title : Text \cup {NotText}, description : Text \cup {NotText},
   tags : Seq(STRING), confidence : Int \cup {NotText, Huge}, quotes : Seq(Quote)]
Documents ==
  [purpose : {"winddown", "bind", "none"}, form : STRING, fields : STRING,
   concepts : Seq(Concept \cup {NotText}), quotes : Seq(Quote)]

VARIABLES
  document,  \* the request as sent
  reading,   \* "envelope", "concepts", and "read", or "raised" by an exception
  seat,      \* the concept read next
  canonical, \* seen_concepts, in order
  accepted,  \* the concepts parsed, in order
  issues     \* <<place, code>>; place 0 is the request itself

vars == <<document, reading, seat, canonical, accepted, issues>>

TypeOK ==
  /\ reading \in {"envelope", "concepts", "read", "raised"}
  /\ seat \in 1 .. Len(document.concepts) + 1
  /\ Len(accepted) = Len(canonical) /\ Len(accepted) < seat
  /\ \A i \in issues : i[1] \in 0 .. Len(document.concepts)

InitWith(documents) ==
  /\ document \in documents
  /\ reading = "envelope" /\ seat = 1
  /\ canonical = <<>> /\ accepted = <<>>
  /\ issues = {}

-----------------------------------------------------------------------------
(* The fields.                                                             *)

If(condition, code) == IF condition THEN {code} ELSE {}

\* _bounded_text: a blank text is refused, a long one is measured as it will
\* be stored.
TextIssues(t, field, max, trim) ==
  IF t = NotText THEN {field \o " type"}
  ELSE IF t.length = 0 THEN {field \o " blank"}
  ELSE If(t.length + (IF t.padded /\ ~trim THEN 1 ELSE 0) > max, field \o " long")

Strip(t) == [t EXCEPT !.padded = FALSE]

TagIssues(tags) ==
  If(Len(tags) < 2, "few tags") \cup If(Len(tags) > 5, "many tags")
  \cup If(Range(tags) \ WellFormed # {}, "tag format")
  \cup If(\E i, j \in DOMAIN tags : i < j /\ tags[i] = tags[j] /\ tags[i] \in WellFormed, "tag twice")

\* A quote alone; a locator is none, partial or there, and its offsets may be no
\* integers.
QuoteIssues(q) ==
  If(q.fields # "exact", "quote fields") \cup TextIssues(q.text, "quote", 2000, FALSE)
  \cup If(q.locator = PartialLocator, "incomplete locator")
  \cup IF q.locator \in {NoLocator, PartialLocator} THEN {}
       ELSE TextIssues(q.locator.evidence, "evidence", 128, TRUE)
            \cup If(NotText \in {q.locator.start, q.locator.end}, "offset type")
            \cup If(NotText \notin {q.locator.start, q.locator.end}
                      /\ ~(0 <= q.locator.start /\ q.locator.start < q.locator.end), "range")

\* The key of a valid quote; its evidence identity is stripped, its text is not.
Key(q) ==
  <<q.text, IF q.locator = NoLocator THEN NoLocator ELSE [q.locator EXCEPT !.evidence = Strip(@)]>>

\* _validate_quotes: the valid quotes must differ from each other.
QuotesIssues(quotes) ==
  If(Len(quotes) < 1, "few quotes") \cup If(Len(quotes) > 8, "many quotes")
  \cup (UNION {QuoteIssues(q) : q \in Range(quotes)})
  \cup If(\E i, j \in DOMAIN quotes :
            /\ i < j /\ QuoteIssues(quotes[i]) \cup QuoteIssues(quotes[j]) = {}
            /\ Key(quotes[i]) = Key(quotes[j]), "quote twice")

\* float() of the confidence comes before its comparison and outside any handler.
Raises(c) == c # NotText /\ c.confidence = Huge

\* A raw concept; a confidence is its value times 100.
ConceptIssues(c) ==
  IF c = NotText THEN {"concept type"}
  ELSE If(c.fields # "exact", "concept fields") \cup If(c.kind = "unknown", "kind")
       \cup TextIssues(c.title, "title", 120, TRUE)
       \cup If(c.title # NotText /\ c.title.length \in 1 .. 120 /\ c.title.words > 12, "title words")
       \cup TextIssues(c.description, "description", 4000, TRUE)
       \cup TagIssues(c.tags)
       \cup If(c.confidence \notin 50 .. 100, "confidence")
       \cup QuotesIssues(c.quotes)

Fields(c) == [kind |-> c.kind, title |-> Strip(c.title), description |-> Strip(c.description),
              tags |-> Range(c.tags), confidence |-> c.confidence]

\* Mutant of Canonical: the quotes are part of what makes a concept another one.
CanonicalWithQuotes(c) == <<Fields(c), c.quotes>>

\* The quotes are not.
Canonical(c) == <<Fields(c), <<>>>>

-----------------------------------------------------------------------------
\* _serialized and the fields of the request; what is not JSON, or no object,
\* ends the parsing with one issue.  An integer of too many digits, or a value
\* nested too deep, is an exception that json.loads lets through.
Envelope ==
  LET d == document
      extra == If(d.fields # "exact", <<0, "request fields">>)
  IN /\ reading = "envelope"
     /\ IF d.form = "unreadable" THEN reading' = "raised" /\ UNCHANGED issues
        ELSE IF d.form # "object"
          THEN reading' = "read" /\ issues' = {<<0, d.form>>}
          ELSE IF d.purpose = "bind"
            THEN reading' = "read" /\ issues' = extra \cup {<<0, i>> : i \in QuotesIssues(d.quotes)}
            ELSE /\ reading' = "concepts"
                 /\ issues' = extra \cup If(Len(d.concepts) > MaxConcepts, <<0, "many concepts">>)
     /\ UNCHANGED <<document, seat, canonical, accepted>>

\* A concept with an issue of its own is not compared with the others.
ReadConcept ==
  LET c == document.concepts[seat]
      own == ConceptIssues(c)
      twice == own = {} /\ Canonical(c) \in Range(canonical)
  IN /\ reading = "concepts" /\ seat <= Len(document.concepts) /\ ~Raises(c)
     /\ seat' = seat + 1
     /\ issues' = issues \cup {<<seat, i>> : i \in own} \cup If(twice, <<seat, "concept twice">>)
     /\ IF own = {} /\ ~twice
          THEN accepted' = Append(accepted, seat) /\ canonical' = Append(canonical, Canonical(c))
          ELSE UNCHANGED <<accepted, canonical>>
     /\ UNCHANGED <<document, reading>>

\* Whatever has been read so far is lost.
Overflow ==
  /\ reading = "concepts" /\ seat <= Len(document.concepts) /\ Raises(document.concepts[seat])
  /\ reading' = "raised"
  /\ UNCHANGED <<document, seat, canonical, accepted, issues>>

Finish ==
  /\ reading = "concepts" /\ seat > Len(document.concepts)
  /\ reading' = "read"
  /\ UNCHANGED <<document, seat, canonical, accepted, issues>>

Next == Envelope \/ ReadConcept \/ Overflow \/ Finish

-----------------------------------------------------------------------------
(* Properties.                                                             *)

\* length(trim(t)) > 0 of a text without surrounding blanks: for SQLite a text
\* ends at its first NUL.  A lone surrogate has no UTF-8 to bind.
ColumnTakes(t) == t.length > 0 /\ t.odd = {}

\* What the tables take (the checks and triggers of context_concepts).
TableTakes(c) ==
  /\ c.kind # "unknown"
  /\ ColumnTakes(c.title) /\ ColumnTakes(c.description)
  /\ Cardinality(Range(c.tags)) = Len(c.tags) /\ Len(c.tags) \in 2 .. 5 /\ Range(c.tags) \subseteq WellFormed
  /\ c.confidence \in 50 .. 100
  /\ Len(c.quotes) \in 1 .. 8

\* Of a request that does not raise: without issues it is taken whole, each of
\* its concepts accepted, in order, and no two the same concept quoted
\* differently; a concept that is not accepted has an issue at its own place;
\* and an accepted one fits the tables, unless its title or its description
\* opens with a NUL or holds a lone surrogate, which no issue tells.
RequestIsSound ==
  reading = "read" =>
    /\ document.purpose = "winddown" /\ document.form = "object" =>
         \A n \in DOMAIN document.concepts : n \in Range(accepted) \/ \E i \in issues : i[1] = n
    /\ \A n \in Range(accepted) :
         LET c == document.concepts[n]
         IN TableTakes(c) <=> c.title.odd = {} /\ c.description.odd = {}
    /\ \A m, n \in Range(accepted) : m # n => Fields(document.concepts[m]) # Fields(document.concepts[n])
    /\ issues = {} /\ document.purpose = "winddown" =>
         /\ accepted = [n \in DOMAIN document.concepts |-> n]
         /\ Len(accepted) <= 8
    /\ issues = {} /\ document.purpose = "bind" =>
         Len(document.quotes) \in 1 .. 8 /\ IsInjective(document.quotes)
=============================================================================
