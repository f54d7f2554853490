----------------------------- MODULE MCCommands -----------------------------
EXTENDS Commands, FiniteSets, Functions, TLC

(***************************************************************************)
(* recall: three concepts and pages of two, so that a short page, a full   *)
(* page followed by one, and a full page that is the last are all met.     *)
(* The names do not matter, so the order of the OR query counts up.  Which *)
(* sessions are visible is left to Hide.                                   *)
(***************************************************************************)
MCSource == [c \in Concepts |-> IF c = 1 THEN 2 ELSE IF c = 3 THEN 1 ELSE NoSession]

Upto(n) == [i \in 1 .. n |-> i]

MCRecallable ==
  {st \in [conceptAnd : Asking!Orders(Concepts), conceptOr : {Upto(n) : n \in 0 .. Cardinality(Concepts)},
           allowed : SUBSET Concepts, sessionAnd : {<<>>, <<2>>, <<2, 1>>}, sessionOr : {Upto(2)},
           visible : {Sessions}] :
     Range(st.conceptAnd) \subseteq Range(st.conceptOr)}

MCQuestions ==
  [k : 1 .. MaxK, searchable : {TRUE}] \cup [k : {0, 1, MaxK + 1}, searchable : {FALSE}]

\* Kept is SelectSeq, and of every ranking there is one best selection.
ASSUME KeptIsSelectSeq ==
  \A s \in Asking!Orders(Concepts), S \in SUBSET Concepts :
    Asking!Kept(s, S) = SelectSeq(s, LAMBDA c : c \in S)

ASSUME OneIsBest ==
  \A every, some \in Asking!Orders(Concepts), eligible \in SUBSET Concepts, k \in 0 .. MaxK :
    \E best \in Asking!Orders(Concepts) :
      {b \in Asking!Orders(Concepts) : Asking!Contract!IsBest(b, every, some, eligible, k)} = {best}

(***************************************************************************)
(* import: one file beside a folder with one in it, and one after it.      *)
(* Documents are one record, its copies that differ in one respect, and a  *)
(* file that is broken in each of the ways that are told apart.            *)
(***************************************************************************)
Record ==
  [size |-> "small", utf8 |-> TRUE, frontmatter |-> "there", yaml |-> "ok", mapping |-> TRUE,
   fields |-> "exact", kind |-> "known", title |-> "t", description |-> "d", body |-> "d",
   tags |-> <<"a", "b">>, confidence |-> "in range", actor |-> "me", source |-> "session",
   status |-> "machine-confirmed", verifier |-> "me"]

MCContent ==
  [d \in {"record", "reordered", "raised", "second", "twice", "binary", "large", "tagged", "plain", "date", "huge", "forged"} |->
     CASE d = "record" -> Record
       [] d = "reordered" -> [Record EXCEPT !.tags = <<"b", "a">>]
       [] d = "raised" -> [Record EXCEPT !.tags = <<"A", "b">>]
       [] d = "second" -> [Record EXCEPT !.body = "second"]
       [] d = "twice" -> [Record EXCEPT !.tags = <<"A", "a">>]
       [] d = "binary" -> [Record EXCEPT !.utf8 = FALSE]
       [] d = "large" -> [Record EXCEPT !.size = "large"]
       [] d = "tagged" -> [Record EXCEPT !.yaml = "tag"]
       [] d = "plain" -> [Record EXCEPT !.frontmatter = "none"]
       [] d = "date" -> [Record EXCEPT !.yaml = "impossible"]
       [] d = "huge" -> [Record EXCEPT !.confidence = "huge"]
       [] d = "forged" -> [Record EXCEPT !.verifier = "you", !.title = "blank", !.confidence = "low"]]

MCLower == [t \in {"a", "A", "b"} |-> IF t = "A" THEN "a" ELSE t]

MCEmptyTree == [e \in Entries |-> "absent"]

MCTree(x, y, z) ==
  [e \in Entries |-> CASE e = 1 -> x [] e = Folder -> "dir" [] e = 3 -> y [] OTHER -> z]

MCTrees ==
  {MCTree(x, y, "record") : x \in DOMAIN MCContent \cup {"link"}, y \in {"record", "twice"}}
  \cup {MCTree(x, y, "record") : x \in {"record", "reordered", "raised", "second"}, y \in {"raised", "second"}}
  \cup {MCTree(x, "record", "absent") : x \in {"record", "reordered", "second", "twice", "link"}}
  \cup {MCEmptyTree}

MCOptions == [dryRun : BOOLEAN, report : BOOLEAN] \ {[dryRun |-> TRUE, report |-> FALSE]}

(***************************************************************************)
(* winddown and bind: a good quote and a good concept, and what differs    *)
(* from them in one respect, at the code's own limits; requests of two     *)
(* concepts, and one of nine.                                              *)
(***************************************************************************)
Text(name, length) == [name |-> name, length |-> length, words |-> 1, padded |-> FALSE, odd |-> {}]

At(e, from, to) == [evidence |-> Text(e, 1), start |-> from, end |-> to]

Quote == [fields |-> "exact", text |-> Text("q", 2000), locator |-> NoLocator]

Quotes ==
  {Quote, [Quote EXCEPT !.text = Text("p", 1)], [Quote EXCEPT !.text.padded = TRUE],
   [Quote EXCEPT !.text.length = 0], [Quote EXCEPT !.text = NotText], [Quote EXCEPT !.fields = "extra"],
   [Quote EXCEPT !.locator = PartialLocator], [Quote EXCEPT !.locator = At("e", 0, 1)],
   [Quote EXCEPT !.locator = [At("e", 0, 1) EXCEPT !.evidence.padded = TRUE]],
   [Quote EXCEPT !.locator = At("e", 1, 1)], [Quote EXCEPT !.locator = At("e", NotText, 1)],
   [Quote EXCEPT !.locator = [At("e", 0, 1) EXCEPT !.evidence.length = 129]]}

Good ==
  [fields |-> "exact", kind |-> "known", title |-> Text("t", 120), description |-> Text("d", 4000),
   tags |-> <<"a", "b">>, confidence |-> 100, quotes |-> <<Quote>>]

Different ==
  {Good, [Good EXCEPT !.quotes = <<[Quote EXCEPT !.locator = At("e", 0, 1)]>>],
   [Good EXCEPT !.tags = <<"b", "a">>], [Good EXCEPT !.title.padded = TRUE],
   [Good EXCEPT !.confidence = 50], [Good EXCEPT !.tags = <<"a", "b", "c", "d", "e">>],
   [Good EXCEPT !.description.name = "other"], [Good EXCEPT !.title.words = 12],
   [Good EXCEPT !.title.odd = {"nul"}], [Good EXCEPT !.description.odd = {"lone"}]}

Bad ==
  {NotText, [Good EXCEPT !.fields = "missing"], [Good EXCEPT !.kind = "unknown"],
   [Good EXCEPT !.title.length = 0], [Good EXCEPT !.title.length = 121], [Good EXCEPT !.title.words = 13],
   [Good EXCEPT !.description = NotText], [Good EXCEPT !.description.length = 4001],
   [Good EXCEPT !.tags = <<"a">>], [Good EXCEPT !.tags = <<"a", "b", "c", "d", "e", "f">>],
   [Good EXCEPT !.tags = <<"a", "A">>], [Good EXCEPT !.tags = <<"a", "a">>],
   [Good EXCEPT !.confidence = 49], [Good EXCEPT !.confidence = 101], [Good EXCEPT !.confidence = NotText],
   [Good EXCEPT !.confidence = Huge],
   [Good EXCEPT !.quotes = <<>>], [Good EXCEPT !.quotes = <<Quote, Quote>>]}

Numbered(n) == [i \in 1 .. n |-> [Good EXCEPT !.title = Text(ToString(i), 1)]]
ManyQuotes(n) == [i \in 1 .. n |-> [Quote EXCEPT !.text = Text(ToString(i), 1)]]

MCNoDocument ==
  [purpose |-> "none", form |-> "object", fields |-> "exact", concepts |-> <<>>, quotes |-> <<>>]

MCRequests ==
  {[MCNoDocument EXCEPT !.purpose = "winddown", !.concepts = c] :
     c \in {<<>>, Numbered(8), Numbered(9)} \cup ((Different \cup Bad) \X (Different \cup Bad))
           \cup {<<x>> : x \in Different \cup Bad}}
  \cup {[MCNoDocument EXCEPT !.purpose = "bind", !.quotes = q] :
          q \in {<<>>, ManyQuotes(8), ManyQuotes(9)} \cup (Quotes \X Quotes) \cup {<<x>> : x \in Quotes}}
  \cup [purpose : {"winddown", "bind"}, form : {"object", "invalid_json", "request_too_large", "unreadable"},
        fields : {"extra", "missing"}, concepts : {<<Good>>}, quotes : {<<Quote>>}]

(* doctor: two writers race to install in the same store, one of them also *)
(* works on the copy.                                                      *)
MCUses == [p \in Procs |-> IF p = "first" THEN {Origin} ELSE Stores]

(* ... where one event is enough to meet an event of the origin's.          *)
MCMaxSeq == [s \in Stores |-> IF s = Origin THEN 2 ELSE 1]

MCRoots == {"c1", "c2"}

(* ... and where c1, which has no term of its own, answers for c2, which is  *)
(* first in order and not found by its own term.                           *)
MCRank == [c \in MCRoots |-> IF c = "c2" THEN 1 ELSE 2]
MCTerm == [c \in MCRoots |-> IF c = "c2" THEN "t" ELSE None]
MCMatches == [c \in MCRoots |-> IF c = "c2" THEN {} ELSE {"t"}]
=============================================================================
