------------------------------ MODULE OkfScan ------------------------------
(***************************************************************************)
(* okf.py: the scan of a directory of legacy concept files.  The walk      *)
(* lists and stats, the files are read afterwards in byte order, and the   *)
(* user may replace or remove entries at every point in between.  What is  *)
(* read is classified, counted, and kept unless it repeats a record.       *)
(***************************************************************************)
EXTENDS Integers, Sequences, FiniteSets, Functions, FiniteSetsExt

CONSTANTS
  Entries,     \* the places of a tree, numbered in the byte order of their paths
  Folder,      \* the entry that is a directory
  Inside,      \* the entries in it
  Content,     \* contents of files by name, as the parser sees them
  Placed,      \* those the user puts there during the scan
  Lower,       \* str.lower on the tags that occur
  WellFormed,  \* lower-case tags that match _TAG
  MaxErrors,   \* MAX_ERROR_ENTRIES
  MaxEdits     \* bound: entries the user edits during the scan

ScanAssumption ==
  /\ Entries \subseteq Nat /\ IsFiniteSet(Entries)
  /\ Folder \in Entries /\ Inside \subseteq Entries \ {Folder}
  /\ DOMAIN Content \cap {"absent", "link", "other", "dir", "unsafe"} = {}
  /\ Placed \subseteq DOMAIN Content
  /\ \A d \in DOMAIN Content : Content[d].tags \in Seq(DOMAIN Lower)
  /\ MaxErrors \in Nat /\ MaxEdits \in Nat

VARIABLES
  tree,      \* what is at each entry now
  at,        \* "list", "walk", "open", "read", "done", "aborted"
  todo,      \* entries listed and not yet looked at
  found,     \* _candidate_paths: candidate entries, those unsafe
  unsafe,
  read,      \* what each candidate was counted as: a document or why not
  counters,
  errors,    \* the reported errors, at most MaxErrors
  records,   \* the entries of the records kept, in order
  edits

vars == <<tree, at, todo, found, unsafe, read, counters, errors, records, edits>>

Files == Entries \ {Folder}
CounterNames == {"scanned", "parsed", "invalid_yaml", "invalid_schema", "unsafe_path", "duplicate_content",
                 "body_description_mismatch"}
Documents == DOMAIN Content
Things == Documents \cup {"absent", "link", "other"}

TypeOK ==
  /\ tree \in [Entries -> Things \cup {"dir"}]
  /\ at \in {"list", "walk", "open", "read", "done", "aborted"}
  /\ todo \subseteq Entries /\ found \subseteq Entries /\ unsafe \subseteq found
  /\ DOMAIN read \subseteq found
  /\ counters \in [CounterNames -> 0 .. Cardinality(Entries)]
  /\ Len(errors) <= MaxErrors
  /\ Range(records) \subseteq Files
  /\ edits \in 0 .. MaxEdits

InitWith(trees) ==
  /\ tree \in trees
  /\ at = "list"
  /\ todo = {} /\ found = {} /\ unsafe = {}
  /\ read = <<>>
  /\ counters = [n \in CounterNames |-> 0]
  /\ errors = <<>> /\ records = <<>>
  /\ edits = 0

-----------------------------------------------------------------------------
(* One document: the checks in the order the code makes them.              *)

\* _split_document and _load_frontmatter: "" when they return a value.
YamlFault(d) ==
  IF d.frontmatter = "none" THEN "invalid_yaml"
  ELSE CASE d.yaml \in {"anchor", "tag", "duplicate_key", "merge_key"} -> "unsafe_yaml"
         [] d.yaml = "malformed" -> "invalid_yaml"
         [] OTHER -> ""

\* _text: any value that is no text, blank or too long is one issue.
TextIssues(v, field) == IF v \in {"non-text", "blank", "long"} THEN {<<v, field>>} ELSE {}

LowerTags(d) == [i \in DOMAIN d.tags |-> Lower[d.tags[i]]]

TagIssues(d) ==
  LET t == LowerTags(d)
      ill == {j \in DOMAIN t : t[j] \notin WellFormed}
      twice == {j \in DOMAIN t \ ill : \E h \in 1 .. j - 1 : t[h] = t[j]}
  IN IF Len(t) \notin 2 .. 5 THEN {<<"invalid_count", 0>>}
     ELSE {<<"invalid_format", i>> : i \in ill} \cup {<<"duplicate_item", i>> : i \in twice}

\* _schema_record's issues, each with its field.
SchemaIssues(d) ==
  IF ~d.mapping THEN {<<"invalid_type", "/">>}
  ELSE (IF d.fields # "exact" THEN {<<d.fields, "/">>} ELSE {})
       \cup (IF d.kind # "known" THEN {<<"invalid_choice", "/type">>} ELSE {})
       \cup TextIssues(d.title, "/title") \cup TextIssues(d.description, "/description")
       \cup (IF d.body = "blank" THEN {<<"blank", "/body">>} ELSE {})
       \cup TagIssues(d)
       \cup (IF d.confidence # "in range" THEN {<<"out_of_range", "/confidence">>} ELSE {})
       \cup TextIssues(d.actor, "/actor")
       \cup (IF d.source # "session" THEN {<<"invalid_source", "/sources">>} ELSE {})
       \cup (IF d.status # "machine-confirmed" THEN {<<"invalid_choice", "/verified/status">>} ELSE {})
       \cup TextIssues(d.verifier, "/verified/by")
       \cup (IF TextIssues(d.actor, "") \cup TextIssues(d.verifier, "") = {} /\ d.actor # d.verifier
               THEN {<<"actor_mismatch", "/verified/by">>} ELSE {})

\* content_fingerprint: everything of the record but its bytes and its path.
Fingerprint(d) ==
  [d EXCEPT !.tags = Range(LowerTags(d)), !.verifier = "", !.yaml = "ok"]

\* _read_bounded and the decoding.
Decoded(d) == d.size # "large" /\ d.utf8

\* A value that PyYAML's own constructors reject (a date in month 13, an integer
\* of too many digits), and an integer that float() cannot hold.
Raises(d) == d.yaml = "impossible" \/ (d.mapping /\ d.confidence = "huge")

\* What a document that could be read counts as.
Class(d) ==
  IF ~Decoded(d) THEN "invalid_schema"
  ELSE IF YamlFault(d) # "" THEN "invalid_yaml"
  ELSE IF Raises(d) THEN "raises"
  ELSE IF SchemaIssues(d) = {} THEN "parsed" ELSE "invalid_schema"

\* The errors a rejected document is reported with.
Faults(d) ==
  IF ~Decoded(d) THEN {<<IF d.size = "large" THEN "file_too_large" ELSE "invalid_utf8", "/">>}
  ELSE IF YamlFault(d) # "" THEN {<<YamlFault(d), "/">>} ELSE SchemaIssues(d)

\* A record's tags that were not lower-case are reported, and nothing else of it.
Normalized(d) == {<<"normalized_tag", i>> : i \in {j \in DOMAIN d.tags : Lower[d.tags[j]] # d.tags[j]}}

-----------------------------------------------------------------------------
(* The walk.                                                               *)

Abort == at' = "aborted" /\ UNCHANGED <<tree, todo, found, unsafe, read, counters, errors, records, edits>>

ListRoot ==
  /\ at = "list"
  /\ at' = "walk"
  /\ todo' = {e \in Entries \ Inside : tree[e] # "absent"}
  /\ UNCHANGED <<tree, found, unsafe, read, counters, errors, records, edits>>

\* One name of a listing: gone, it ends the scan; a link is a candidate that
\* is not followed; the directory is opened next.
Look ==
  /\ at = "walk" /\ todo # {}
  /\ LET e == Min(todo)
     IN IF tree[e] = "absent" THEN Abort
        ELSE /\ todo' = todo \ {e}
             /\ at' = IF tree[e] = "dir" THEN "open" ELSE "walk"
             /\ found' = IF tree[e] = "dir" THEN found ELSE found \cup {e}
             /\ unsafe' = IF tree[e] \in {"link", "other"} THEN unsafe \cup {e} ELSE unsafe
             /\ UNCHANGED <<tree, read, counters, errors, records, edits>>

\* The directory may have gone since its stat.
OpenFolder ==
  /\ at = "open"
  /\ IF tree[Folder] # "dir" THEN Abort
     ELSE /\ at' = "walk"
          /\ todo' = todo \cup {f \in Inside : tree[f] # "absent"}
          /\ UNCHANGED <<tree, found, unsafe, read, counters, errors, records, edits>>

Walked ==
  /\ at = "walk" /\ todo = {}
  /\ at' = "read"
  /\ UNCHANGED <<tree, todo, found, unsafe, read, counters, errors, records, edits>>

-----------------------------------------------------------------------------
(* The files.                                                              *)

Count(names) == counters' = [n \in CounterNames |-> counters[n] + IF n \in names THEN 1 ELSE 0]

\* A description that is a text, although the body says something else; the
\* other fields of the record need not be valid.
Mismatch(d) ==
  IF Decoded(d) /\ YamlFault(d) = "" /\ d.mapping /\ TextIssues(d.description, "") = {} /\ d.body # d.description
    THEN {"body_description_mismatch"} ELSE {}

Extend(f, e, d) == [x \in DOMAIN f \cup {e} |-> IF x = e THEN d ELSE f[x]]

\* _append_error, for each issue in some order that the counters do not show.
Report(e, issues) ==
  LET left == MaxErrors - Len(errors)
      n == IF Cardinality(issues) < left THEN Cardinality(issues) ELSE left
  IN errors' = errors \o [i \in 1 .. n |-> e]

\* _read_bounded opens every component without following a link.
Openable(e) ==
  /\ e \notin unsafe /\ tree[e] \in Documents
  /\ e \in Inside => tree[Folder] = "dir"

\* Mutant of Repeats: only the file's bytes are compared.
SameBytes(d) == \E r \in Range(records) : read[r] = d

\* seen_ids and seen_content.
Repeats(d) ==
  \E r \in Range(records) : read[r] = d \/ Fingerprint(Content[read[r]]) = Fingerprint(Content[d])

ReadUnsafe(e) ==
  /\ ~Openable(e)
  /\ read' = Extend(read, e, "unsafe")
  /\ Count({"scanned", "unsafe_path"})
  /\ Report(e, {"unsafe_path"})
  /\ UNCHANGED <<at, records>>

ReadInvalid(e, d) ==
  /\ Class(Content[d]) \in {"invalid_yaml", "invalid_schema"}
  /\ read' = Extend(read, e, d)
  /\ Count({"scanned", Class(Content[d])} \cup Mismatch(Content[d]))
  /\ Report(e, Faults(Content[d]))
  /\ UNCHANGED <<at, records>>

ReadRecord(e, d) ==
  /\ Class(Content[d]) = "parsed"
  /\ read' = Extend(read, e, d)
  /\ IF Repeats(d)
       THEN /\ Count({"scanned", "parsed", "duplicate_content"} \cup Mismatch(Content[d]))
            /\ Report(e, Normalized(Content[d]) \cup {<<"duplicate_content", "/">>})
            /\ UNCHANGED records
       ELSE /\ Count({"scanned", "parsed"} \cup Mismatch(Content[d]))
            /\ Report(e, Normalized(Content[d]))
            /\ records' = Append(records, e)
  /\ UNCHANGED at

\* The next candidate in byte order.
Read ==
  /\ at = "read" /\ found # DOMAIN read
  /\ LET e == Min(found \ DOMAIN read)
     IN \/ ReadUnsafe(e) /\ UNCHANGED <<tree, todo, found, unsafe, edits>>
        \/ /\ Openable(e)
           /\ \/ /\ ReadInvalid(e, tree[e]) \/ ReadRecord(e, tree[e])
                 /\ UNCHANGED <<tree, todo, found, unsafe, edits>>
              \/ Class(Content[tree[e]]) = "raises" /\ Abort

Finish ==
  /\ at = "read" /\ found = DOMAIN read
  /\ at' = "done"
  /\ UNCHANGED <<tree, todo, found, unsafe, read, counters, errors, records, edits>>

\* The user replaces, removes or makes an entry.
Change(e) ==
  /\ at \in {"list", "walk", "open", "read"} /\ edits < MaxEdits
  /\ \E x \in IF e = Folder THEN {"absent", "link", "dir"} ELSE Placed \cup {"absent", "link", "other"} : tree' = [tree EXCEPT ![e] = x]
  /\ tree' # tree
  /\ edits' = edits + 1
  /\ UNCHANGED <<at, todo, found, unsafe, read, counters, errors, records>>

Scan == ListRoot \/ Look \/ OpenFolder \/ Walked \/ Read \/ Finish

-----------------------------------------------------------------------------
(* Properties.                                                             *)

Records == {e \in DOMAIN read : read[e] # "unsafe" /\ Class(Content[read[e]]) = "parsed"}

\* The report accounts for every candidate once, and what is kept is what the
\* records read, taken together, determine: the first of each content, in
\* byte order, whatever the user did to the tree meanwhile; a rejected or
\* dropped candidate has an error unless the errors are full.
ScanIsAccounted ==
  at = "done" =>
    /\ counters["scanned"] = Cardinality(found)
    /\ counters["scanned"] = counters["parsed"] + counters["invalid_yaml"]
                             + counters["invalid_schema"] + counters["unsafe_path"]
    /\ Range(records) = {e \in Records : \A f \in Records :
                           f < e => Fingerprint(Content[read[f]]) # Fingerprint(Content[read[e]])}
    /\ counters["parsed"] = Len(records) + counters["duplicate_content"]
    /\ \A i, j \in DOMAIN records : i < j => records[i] < records[j]
    /\ Len(errors) < MaxErrors => found \ Range(records) \subseteq Range(errors)

\* Every record kept passes the checks of context_concepts on its tags: two to
\* five, well formed, no two alike.
KeptFitsTheTable ==
  \A e \in Range(records) :
    LET t == LowerTags(Content[read[e]])
    IN Len(t) \in 2 .. 5 /\ Range(t) \subseteq WellFormed /\ IsInjective(t)
=============================================================================
