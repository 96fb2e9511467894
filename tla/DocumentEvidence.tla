------------------------- MODULE DocumentEvidence --------------------------
(***************************************************************************)
(* The callers of the document library: the export gate of                 *)
(* crates/bran-document/src/export.rs, the document evidence of query and  *)
(* packet in crates/bran-cli/src/document_evidence.rs, and an importer     *)
(* whose caller may cancel.  They share a file system with a user, and     *)
(* each system call is a step.                                             *)
(*                                                                         *)
(* A path is a sequence of tokens, its extension the last one.  A node is  *)
(* absent, a directory, a document, an ignore file with its lines, or a    *)
(* symbolic link to a path of the root or (path Root) to a document        *)
(* outside.  A document is the name of an entry of Documents.  The ignore  *)
(* rules come first.                                                       *)
(***************************************************************************)
EXTENDS PackageIntake, DocumentAdmission

(***************************************************************************)
(* Root ignore rules: crates/bran-core/src/scan/ignore.rs.  A path, and a  *)
(* line of an ignore file, is a sequence of tokens: "/" , "*" , "!" and    *)
(* the pieces of names between them.  A file that is not UTF-8 or too long *)
(* is the line sequence Unusable.                                          *)
(***************************************************************************)

Unusable == << <<"unusable">> >>
Builtin == {".git", ".bearing", "target", "node_modules", "vendor", "generated", "cache", "caches"}

\* The pieces of a path between its separators.
Components(path) ==
  LET slashes == {i \in DOMAIN path : path[i] = "/"}
      starts == {0} \cup slashes
      stop(i) == LET later == {j \in slashes : j > i} IN IF later = {} THEN Len(path) + 1
                                                         ELSE CHOOSE j \in later : \A k \in later : j <= k
  IN {SubSeq(path, i + 1, stop(i) - 1) : i \in starts}

Stripped(path) == LET kept == {i \in DOMAIN path : \E j \in 1..i : path[j] # "/"}
                  IN SubSeq(path, Len(path) - Cardinality(kept) + 1, Len(path))

\* Rule::parse: a second "/" at the front, no name, a dot component or a second
\* wildcard is an error.
RuleError(line) ==
  \/ Len(line) > 1 /\ line[1] = "/" /\ line[2] = "/"
  \/ Components(line) \subseteq {<<>>}
  \/ Components(line) \cap {<<".">>, <<"..">>} # {}
  \/ Cardinality({i \in DOMAIN line : line[i] = "*"}) > 1

Rule(line) ==
  LET body == Stripped(line)
      directory == Last(body) = "/"
      pattern == IF directory THEN Front(body) ELSE body
  IN [anchored |-> line[1] = "/", directory |-> directory, pattern |-> pattern,
      slash |-> "/" \in Range(pattern)]

\* wildcard_match: the one "*" stands for anything, separators too.
WildcardMatch(pattern, value) ==
  LET stars == {i \in DOMAIN pattern : pattern[i] = "*"}
  IN IF stars = {} THEN pattern = value
     ELSE LET at == CHOOSE i \in stars : TRUE
              prefix == SubSeq(pattern, 1, at - 1)
              suffix == SubSeq(pattern, at + 1, Len(pattern))
          IN /\ IsPrefix(prefix, value) /\ IsSuffix(suffix, value)
             /\ Len(value) >= Len(prefix) + Len(suffix)

MatchesTarget(rule, target) ==
  \/ WildcardMatch(rule.pattern, target)
  \/ rule.directory /\ \E i \in DOMAIN target : target[i] = "/" /\ WildcardMatch(rule.pattern, SubSeq(target, 1, i - 1))

RuleMatches(rule, path) ==
  CASE rule.anchored -> MatchesTarget(rule, path)
    [] ~rule.slash -> \E c \in Components(path) : MatchesTarget(rule, c)
    [] OTHER -> \/ MatchesTarget(rule, path)
                \/ \E i \in DOMAIN path : path[i] = "/" /\ MatchesTarget(rule, SubSeq(path, i + 1, Len(path)))

NoRules == [rules |-> <<>>, git |-> <<>>]

\* from_branignore: one bad line and the file is no rules at all.
Invalid(lines) == lines = Unusable \/ \E i \in DOMAIN lines : RuleError(lines[i])
FromBranignore(lines) == [rules |-> [i \in DOMAIN lines |-> Rule(lines[i])], git |-> <<>>]

\* add_gitignore: a bad line is skipped, "!" takes back.
AddGitignore(m, lines) ==
  LET negated(l) == l[1] = "!"
      pattern(l) == IF negated(l) THEN Tail(l) ELSE l
      usable == SelectSeq(lines, LAMBDA l : ~RuleError(pattern(l)))
  IN IF lines = Unusable THEN m
     ELSE [m EXCEPT !.git = [i \in DOMAIN usable |->
                               [rule |-> Rule(pattern(usable[i])), negated |-> negated(usable[i])]]]

\* is_ignored_relative: built-in names, then any rule, then the last .gitignore
\* rule that matches.
Ignored(m, path) ==
  LET hits == SelectSeq(m.git, LAMBDA g : RuleMatches(g.rule, path))
  IN \/ \E c \in Components(path) : Len(c) = 1 /\ c[1] \in Builtin
     \/ \E i \in DOMAIN m.rules : RuleMatches(m.rules[i], path)
     \/ hits # <<>> /\ ~Last(hits).negated

CONSTANTS Scenarios,     \* the files there are, and who is at work
          Documents,     \* what each document is: its length and its import
          PathOrder,     \* every path a file may have, in the order of the strings
          MaxFiles, MaxMatches, MaxDepth,   \* MAX_DOCUMENT_FILES, MAX_MATCHES, MAX_DEPTH
          MaxTries       \* temporary names write_new tries

VARIABLES scenario, fs,
          exporters,   \* calls of write_new
          serial,      \* TEMPORARY_SERIAL of each process
          query,       \* the call of document_evidence_json
          intake,      \* an import with a cancel flag
          cancelled,
          touched      \* history: paths the user or an export changed since the start
documentVars == <<scenario, fs, exporters, serial, query, intake, cancelled, touched>>

Paths == Range(PathOrder)
Root == <<>>
Missing == [kind |-> "absent"]
Document(d) == [kind |-> "document", doc |-> d]
Partial == <<"partial">>   \* a document cut short: its import fails

\* What is at a path, and the file system with a node put there.
NodeAt(p) == IF p \in DOMAIN fs THEN fs[p] ELSE Missing
Placed(p, node) == [q \in DOMAIN fs \cup {p} |-> IF q = p THEN node ELSE fs[q]]

Formats == [docx |-> ".docx", xlsx |-> ".xlsx", pptx |-> ".pptx", pdf |-> ".pdf"]

\* The documents that are exported, and those that are there to begin with or that
\* the user puts at a destination, are whole; one cut short fails its import.
ASSUME DocumentsAssumption ==
  /\ Documents[Partial].refusal # None
  /\ \A s \in Scenarios :
       /\ \A p \in DOMAIN s.files : p \in Paths /\ s.files[p] # Missing
       /\ \A x \in DOMAIN s.exports :
            LET call == s.exports[x]
            IN /\ call.process \in {"p", "q"} /\ call.dest \in Seq(STRING) /\ call.doc # Partial
               /\ call.format \in DOMAIN Formats
               /\ call.dest \in DOMAIN s.files => s.files[call.dest] # Document(Partial)
               /\ \A change \in s.changes : change.path = call.dest => change.to # Document(Partial)

(***************************************************************************)
(* write_new.                                                              *)
(***************************************************************************)

Calls == scenario.exports   \* a function from callers to what they ask for

\* The part of a path after its last separator, as many tokens as that is.
FileNameLen(path) == Cardinality({i \in DOMAIN path : \A j \in i..Len(path) : path[j] # "/"})

\* In the destination's directory; the serial number is written in strokes.
Temporary(dest, n) ==
  LET parent == Len(dest) - FileNameLen(dest)
  IN SubSeq(dest, 1, parent) \o <<".">> \o SubSeq(dest, parent + 1, Len(dest))
     \o <<".bran-export-">> \o [i \in 1..n |-> "I"]

\* The checks before the first write: emitted text, then the destination.
GateRefusal(c) ==
  CASE TextRefusal(c.emitted) # None -> TextRefusal(c.emitted)
    [] c.outside -> "ExportContainment"
    [] Last(c.dest) # Formats[c.format] -> "ExportFormatMismatch"
    [] OTHER -> None

Finish(x, result) == exporters' = [exporters EXCEPT ![x].pc = "done", ![x].result = result]
ExportAt(x, pc) == exporters' = [exporters EXCEPT ![x].pc = pc]

Gate(x) ==
  /\ exporters[x].pc = "gate"
  /\ LET refusal == GateRefusal(Calls[x])
     IN IF refusal = None THEN ExportAt(x, "create") ELSE Finish(x, refusal)
  /\ UNCHANGED <<scenario, fs, serial, query, intake, cancelled, touched>>

\* create_new under the next serial; a name that exists is skipped.
CreateTemporary(x) ==
  LET p == Calls[x].process
      name == Temporary(Calls[x].dest, serial[p])
  IN /\ exporters[x].pc = "create"
     /\ serial' = [serial EXCEPT ![p] = @ + 1]
     /\ \/ /\ NodeAt(name) # Missing
           /\ exporters' = [exporters EXCEPT ![x].tries = @ + 1,
                               ![x].pc = IF exporters[x].tries + 1 = MaxTries THEN "done" ELSE @,
                               ![x].result = IF exporters[x].tries + 1 = MaxTries THEN "ExportIo" ELSE @]
           /\ UNCHANGED <<fs, touched>>
        \/ /\ NodeAt(name) = Missing
           /\ fs' = Placed(name, Document(Partial))
           /\ exporters' = [exporters EXCEPT ![x].pc = "write", ![x].temporary = name]
           /\ touched' = touched \cup {name}
        \/ /\ scenario.faults
           /\ Finish(x, "ExportIo")
           /\ UNCHANGED <<fs, touched>>
     /\ UNCHANGED <<scenario, query, intake, cancelled>>

\* write_all and sync_all; on failure the file is left as it is for Remove.
WriteTemporary(x) ==
  /\ exporters[x].pc = "write"
  /\ \/ /\ fs' = Placed(exporters[x].temporary, Document(Calls[x].doc))
        /\ ExportAt(x, "link")
     \/ /\ scenario.faults
        /\ exporters' = [exporters EXCEPT ![x].pc = "remove", ![x].result = "ExportIo"]
        /\ UNCHANGED fs
  /\ UNCHANGED <<scenario, serial, query, intake, cancelled, touched>>

\* Mutant of LinkDestination: renames over what is there.
LinkDestinationOver(x) ==
  /\ exporters[x].pc = "link"
  /\ fs' = Placed(Calls[x].dest, NodeAt(exporters[x].temporary))
  /\ exporters' = [exporters EXCEPT ![x].pc = "remove", ![x].result = "ok"]
  /\ touched' = touched \cup {Calls[x].dest}
  /\ UNCHANGED <<scenario, serial, query, intake, cancelled>>

\* hard_link: atomic, and never over an existing file.
LinkDestination(x) ==
  LET dest == Calls[x].dest
  IN /\ exporters[x].pc = "link"
     /\ \/ /\ NodeAt(dest) = Missing
           /\ fs' = Placed(dest, NodeAt(exporters[x].temporary))
           /\ exporters' = [exporters EXCEPT ![x].pc = "remove", ![x].result = "ok"]
           /\ touched' = touched \cup {dest}
        \/ /\ NodeAt(dest) # Missing
           /\ exporters' = [exporters EXCEPT ![x].pc = "remove", ![x].result = "ExportExists"]
           /\ UNCHANGED <<fs, touched>>
        \/ /\ scenario.faults
           /\ exporters' = [exporters EXCEPT ![x].pc = "remove", ![x].result = "ExportIo"]
           /\ UNCHANGED <<fs, touched>>
     /\ UNCHANGED <<scenario, serial, query, intake, cancelled>>

\* remove_file, whose failure nobody is told.
RemoveTemporary(x) ==
  /\ exporters[x].pc = "remove"
  /\ \/ /\ fs' = Placed(exporters[x].temporary, Missing)
        /\ ExportAt(x, "done")
     \/ /\ scenario.faults
        /\ exporters' = [exporters EXCEPT ![x].pc = "done", ![x].left = TRUE]
        /\ UNCHANGED fs
  /\ UNCHANGED <<scenario, serial, query, intake, cancelled, touched>>

\* The process dies; what it had done so far stays.
CrashExport(x) ==
  /\ scenario.faults
  /\ exporters[x].pc # "done"
  /\ Finish(x, "crashed")
  /\ UNCHANGED <<scenario, fs, serial, query, intake, cancelled, touched>>

(***************************************************************************)
(* The user, who may remove, replace or turn into a link any file.         *)
(***************************************************************************)

Change ==
  \E change \in scenario.changes :
     /\ change.path \notin touched
     /\ NodeAt(change.path) # Missing
     /\ fs' = Placed(change.path, change.to)
     /\ touched' = touched \cup {change.path}
     /\ UNCHANGED <<scenario, exporters, serial, query, intake, cancelled>>

(***************************************************************************)
(* discover.                                                               *)
(***************************************************************************)

IgnoreFile(name) == IF NodeAt(<<name>>).kind = "lines" THEN NodeAt(<<name>>).lines ELSE <<>>

\* Sets of paths at which a call may fail, when the calls of the query may.
MayFail(sets) == IF scenario.unreadable THEN sets ELSE {{}}

\* matcher_for: .okfignore counts when .branignore is malformed.  A file that
\* cannot be read is as good as an empty one.
MatcherFor(unread) ==
  LET lines(name) == IF <<name>> \in unread THEN <<>> ELSE IgnoreFile(name)
      native == lines(".branignore")
      legacy == lines(".okfignore")
      base == IF ~Invalid(native) THEN FromBranignore(native)
              ELSE IF ~Invalid(legacy) THEN FromBranignore(legacy) ELSE NoRules
  IN AddGitignore(base, lines(".gitignore"))

\* read_ignore of the scanner (scan/mod.rs), without the files it refuses to
\* scan with: .okfignore counts when there is no .branignore.
ScannerMatcher ==
  LET legacy == NodeAt(<<".branignore">>) = Missing
  IN AddGitignore(FromBranignore(IgnoreFile(IF legacy THEN ".okfignore" ELSE ".branignore")),
                  IgnoreFile(".gitignore"))

\* format_for_path
FormatOf(path) == IF \E f \in DOMAIN Formats : Formats[f] = Last(path)
                  THEN CHOOSE f \in DOMAIN Formats : Formats[f] = Last(path) ELSE None

ChildOf(path, directory) ==
  LET rest == IF directory = Root THEN path ELSE SubSeq(path, Len(directory) + 2, Len(path))
  IN /\ path # Root
     /\ directory # Root => IsStrictPrefix(directory \o <<"/">>, path)
     /\ "/" \notin Range(rest)
Depth(path) == IF path = Root THEN 0 ELSE 1 + Cardinality({i \in DOMAIN path : path[i] = "/"})

Earlier(p, q) == \E i, j \in DOMAIN PathOrder : i < j /\ PathOrder[i] = p /\ PathOrder[j] = q
Sorted(set) == SelectSeq(PathOrder, LAMBDA p : p \in set)

BeginQuery ==
  /\ query.pc = "begin"
  /\ \E unread \in MayFail(SUBSET ({<<".branignore">>, <<".okfignore">>, <<".gitignore">>} \cap DOMAIN fs)) :
       query' = [query EXCEPT !.pc = "walk", !.matcher = MatcherFor(unread), !.todo = {Root}]
  /\ UNCHANGED <<scenario, fs, exporters, serial, intake, cancelled, touched>>

\* In place of a name, or of the part of one, that is not UTF-8.
NotUtf8 == "?"

\* One directory: too deep, gone, a link or impossible to list it is passed over;
\* its entries are kept, walked or passed over by kind.  An entry is passed over,
\* too, when its name is not UTF-8 and when it or its metadata cannot be read.
\* Nobody is told of any of them.  That the root itself has no canonical path is
\* the same as that it cannot be listed.
WalkDirectory ==
  /\ query.pc = "walk"
  /\ \E d \in query.todo :
       LET open == Depth(d) <= MaxDepth /\ (d = Root \/ NodeAt(d).kind = "dir")
           entries == {p \in Paths : /\ open /\ ChildOf(p, d) /\ NodeAt(p) # Missing
                                     /\ NotUtf8 \notin Range(p) /\ ~Ignored(query.matcher, p)}
       IN \E failed \in MayFail({{d}} \cup SUBSET entries) :
            LET seen == IF d \in failed THEN {} ELSE entries \ failed
                documents == {p \in seen : NodeAt(p).kind = "document" /\ FormatOf(p) # None}
            IN query' = [query EXCEPT
                           !.todo = (@ \ {d}) \cup {p \in seen : NodeAt(p).kind = "dir"},
                           !.found = @ \cup documents, !.passed = @ \cup failed]
  /\ UNCHANGED <<scenario, fs, exporters, serial, intake, cancelled, touched>>

\* Mutant of Discovered: the files over the cap are dropped without a count.
DiscoveredQuiet ==
  /\ query.pc = "walk"
  /\ query.todo = {}
  /\ query' = [query EXCEPT !.pc = "stat", !.files = SubSeq(Sorted(query.found), 1,
                               Smaller(MaxFiles, Cardinality(query.found)))]
  /\ UNCHANGED <<scenario, fs, exporters, serial, intake, cancelled, touched>>

Discovered ==
  /\ query.pc = "walk"
  /\ query.todo = {}
  /\ LET all == Sorted(query.found)
         shown == Smaller(MaxFiles, Len(all))
     IN query' = [query EXCEPT !.pc = "stat", !.files = SubSeq(all, 1, shown),
                               !.omittedFiles = Len(all) - shown]
  /\ UNCHANGED <<scenario, fs, exporters, serial, intake, cancelled, touched>>

(***************************************************************************)
(* Each file: validate_locator, contained, read_document, admit.           *)
(***************************************************************************)

Current == Head(query.files)
Refuse(code) == [query EXCEPT !.pc = "stat", !.files = Tail(@),
                              !.refusals = Append(@, [path |-> Current, code |-> code])]

\* contained and the metadata: a link is resolved, and read only inside the root.
StatDocument ==
  /\ query.pc = "stat"
  /\ query.files # <<>>
  /\ \/ LET at == IF NodeAt(Current).kind = "link" THEN NodeAt(Current).path ELSE Current
        IN query' = CASE TextRefusal(Current) # None -> Refuse(TextRefusal(Current))
                      [] at = Root \/ NodeAt(at).kind # "document" -> Refuse("unreadable")
                      [] Documents[NodeAt(at).doc].length > MaxPackageBytes -> Refuse("oversized")
                      [] OTHER -> [query EXCEPT !.pc = "read", !.at = at]
     \/ scenario.unreadable /\ TextRefusal(Current) = None /\ query' = Refuse("unreadable")
  /\ UNCHANGED <<scenario, fs, exporters, serial, intake, cancelled, touched>>

\* What the adapter makes of the bytes: intake refuses a package over the
\* limit even when the metadata had shown less.
Imported(d) ==
  IF Documents[d].length > MaxPackageBytes THEN [Documents[d] EXCEPT !.refusal = "Oversized"] ELSE Documents[d]

\* fs::read, which follows a link made since, and the admission of its bytes.
ReadDocument ==
  /\ query.pc = "read"
  /\ \/ LET node == NodeAt(query.at)
            admitted == Admit(FormatOf(Current), Imported(node.doc), Current)
        IN query' = IF node.kind \notin {"document", "link"} THEN Refuse("unreadable")
                    ELSE IF admitted.refusal # None THEN Refuse(admitted.refusal)
                    ELSE [query EXCEPT !.pc = "stat", !.files = Tail(@),
                            !.sources = Append(@, [path |-> Current, doc |-> node.doc,
                                                   envelope |-> admitted.envelope])]
     \/ scenario.unreadable /\ query' = Refuse("unreadable")
  /\ UNCHANGED <<scenario, fs, exporters, serial, intake, cancelled, touched>>

(***************************************************************************)
(* rank_matches and the excerpts.                                          *)
(***************************************************************************)

\* term_score, for the terms of the query.
Score(text) == Cardinality({t \in scenario.terms : Has(text, t)})

Candidates(sources) ==
  FlattenSeq([i \in DOMAIN sources |->
    LET anchors == sources[i].envelope.anchors
    IN [j \in DOMAIN anchors |-> [path |-> sources[i].path, doc |-> sources[i].doc, id |-> anchors[j].id,
                                  text |-> anchors[j].text, derivation |-> anchors[j].derivation,
                                  score |-> Score(anchors[j].text)]]])

ByPath(a, b) == IF a.path = b.path THEN a.id < b.id ELSE Earlier(a.path, b.path)
ByScore(a, b) == IF a.score = b.score THEN ByPath(a, b) ELSE a.score > b.score

\* Embedded text by score; OCR text after it, without a rank.
RankMatches(candidates) ==
  LET hits == SelectSeq(candidates, LAMBDA c : c.score > 0)
      embedded == SortSeq(SelectSeq(hits, LAMBDA c : c.derivation = "embedded"), ByScore)
      derived == SortSeq(SelectSeq(hits, LAMBDA c : c.derivation = "ocr"), ByPath)
  IN [i \in DOMAIN embedded |-> [match |-> embedded[i], rank |-> i]]
     \o [i \in DOMAIN derived |-> [match |-> derived[i], rank |-> 0]]

\* One excerpt within both budgets.
Excerpt(acc, m) ==
  LET text == TruncateBytes(m.match.text, Smaller(acc.remaining, scenario.perExcerpt))
  IN [remaining |-> acc.remaining - Utf8Bytes(text), bytes |-> acc.bytes + Utf8Bytes(text),
      truncated |-> acc.truncated \/ Len(text) < Len(m.match.text)]

\* None when nothing was discovered.
RankAndReport ==
  /\ query.pc = "stat"
  /\ query.files = <<>>
  /\ LET ordered == RankMatches(Candidates(query.sources))
         shown == SubSeq(ordered, 1, Smaller(MaxMatches, Len(ordered)))
         excerpts == FoldLeft(Excerpt, [remaining |-> scenario.excerptBudget, bytes |-> 0, truncated |-> FALSE], shown)
     IN query' = [query EXCEPT !.pc = "done", !.matches = shown,
                               !.omittedMatches = Len(ordered) - Len(shown), !.excerpts = excerpts,
                               !.some = query.sources # <<>> \/ query.refusals # <<>>]
  /\ UNCHANGED <<scenario, fs, exporters, serial, intake, cancelled, touched>>

(***************************************************************************)
(* An import and its cancel flag.                                          *)
(***************************************************************************)

Cancel ==
  /\ intake.pc # "done"
  /\ ~cancelled
  /\ cancelled' = TRUE
  /\ UNCHANGED <<scenario, fs, exporters, serial, query, intake, touched>>

StepIntake ==
  /\ intake.pc # "done"
  /\ intake' = IF cancelled /\ Checked(intake) THEN End(intake, "Cancelled") ELSE IntakeStep(intake)
  /\ UNCHANGED <<scenario, fs, exporters, serial, query, cancelled, touched>>

(***************************************************************************)
(* The specification.                                                      *)
(***************************************************************************)

\* passed is history: the paths that were passed over because a call failed.
NoQuery(pc) == [pc |-> pc, matcher |-> NoRules, todo |-> {}, found |-> {}, passed |-> {}, files |-> <<>>, at |-> Root,
                omittedFiles |-> 0, sources |-> <<>>, refusals |-> <<>>, matches |-> <<>>,
                omittedMatches |-> 0, excerpts |-> [remaining |-> 0, bytes |-> 0, truncated |-> FALSE],
                some |-> FALSE]

NoIntake == [pc |-> "done", result |-> None]

DocumentsInit ==
  /\ scenario \in Scenarios
  /\ fs = [p \in Paths |-> IF p \in DOMAIN scenario.files THEN scenario.files[p] ELSE Missing]
  /\ exporters = [x \in DOMAIN scenario.exports |->
                    [pc |-> "gate", tries |-> 0, temporary |-> Root, result |-> None, left |-> FALSE]]
  /\ serial = [p \in {"p", "q"} |-> 0]
  /\ query = NoQuery(IF scenario.terms = {} THEN "done" ELSE "begin")
  /\ intake \in IF scenario.archives = {} THEN {NoIntake} ELSE {Intake(z) : z \in scenario.archives}
  /\ cancelled = FALSE
  /\ touched = {}

Export(x) == \/ Gate(x) \/ CreateTemporary(x) \/ WriteTemporary(x) \/ LinkDestination(x)
             \/ RemoveTemporary(x) \/ CrashExport(x)
Query == \/ BeginQuery \/ WalkDirectory \/ Discovered \/ StatDocument \/ ReadDocument \/ RankAndReport

Done ==
  /\ query.pc = "done" /\ intake.pc = "done"
  /\ \A x \in DOMAIN exporters : exporters[x].pc = "done"
  /\ UNCHANGED documentVars

DocumentsNext == \/ \E x \in DOMAIN exporters : Export(x)
        \/ Change \/ Query \/ Cancel \/ StepIntake \/ Done

DocumentsSpec == DocumentsInit /\ [][DocumentsNext]_documentVars

(***************************************************************************)
(* Properties.                                                             *)
(***************************************************************************)

Ended(x) == exporters[x].pc = "done"

\* A file that was there is never replaced or removed.
NothingReplaced ==
  \A p \in DOMAIN scenario.files :
    p \notin {c.path : c \in scenario.changes} => NodeAt(p) = scenario.files[p]

\* The destination of a call that passes the gate is never a document cut short.
WholeOrNothing ==
  \A x \in DOMAIN exporters : GateRefusal(Calls[x]) = None => NodeAt(Calls[x].dest) # Document(Partial)

\* Of the calls for one destination at most one succeeds.
OneSucceeds ==
  \A x, y \in DOMAIN exporters :
    Calls[x].dest = Calls[y].dest /\ exporters[x].result = "ok" /\ exporters[y].result = "ok" => x = y

\* A call that ends by itself, and could remove it, leaves no temporary file: what
\* is there under its name is another call's.
NothingLeft ==
  \A x \in DOMAIN exporters :
    Ended(x) /\ exporters[x].result # "crashed" /\ exporters[x].temporary # Root /\ ~exporters[x].left =>
      \/ NodeAt(exporters[x].temporary) = Missing
      \/ \E y \in DOMAIN exporters \ {x} : exporters[y].temporary = exporters[x].temporary

\* No query cites a document cut short.
NoHalfCited == \A i \in DOMAIN query.sources : query.sources[i].doc # Partial

\* What write_new promises its callers, however calls, their crashes, the user's
\* changes and a query interleave.
ExportIsAtomic == NothingReplaced /\ WholeOrNothing /\ OneSucceeds /\ NothingLeft /\ NoHalfCited

\* A document nobody touches while the query runs, in a directory nobody
\* touches, not ignored by the rules the query could read, is in the report
\* exactly once, as a source or as a refusal, or is one of the counted files over
\* the cap.  The exceptions, of which nothing is said: a document deeper than
\* MaxDepth, one whose name or directory's name is not UTF-8, and one whose own
\* entry or metadata, or some directory above it, could not be read while the
\* tree was walked.  A file that cannot be read once it was found is no exception.
EveryDocumentAccounted ==
  query.pc = "done" /\ scenario.terms # {} =>
    LET above(p) == {SubSeq(p, 1, i - 1) : i \in {j \in DOMAIN p : p[j] = "/"}} \cup {p}
        steady == {p \in DOMAIN scenario.files :
                     /\ scenario.files[p].kind = "document" /\ FormatOf(p) # None
                     /\ Depth(p) <= MaxDepth + 1 /\ NotUtf8 \notin Range(p)
                     /\ (above(p) \cup {Root}) \cap query.passed = {}
                     /\ \A q \in above(p) : q \notin touched /\ ~Ignored(query.matcher, q)}
        told == [i \in DOMAIN query.sources |-> query.sources[i].path]
                \o [i \in DOMAIN query.refusals |-> query.refusals[i].path]
    IN /\ IsInjective(told)
       /\ Cardinality(steady \ Range(told)) <= query.omittedFiles
       /\ query.omittedFiles > 0 => Len(told) = MaxFiles
       /\ query.some <=> told # <<>>

\* The envelope says what it leaves out: every citable anchor is in it or
\* counted, its omitted bytes are those of the anchors left out and of the
\* text cut off, and it is marked truncated exactly when something is missing.
CutIsTold ==
  \A i \in DOMAIN query.sources :
    LET e == query.sources[i].envelope
        shown == SelectSeq(Documents[query.sources[i].doc].projection.anchors, LAMBDA a : ~BlankText(a.text))
        missing == Utf8Bytes(Joined(e.anchors)) - Utf8Bytes(e.text)
    IN /\ Len(e.anchors) + e.receipt.omitted = Len(shown)
       /\ e.receipt.omittedBytes = TotalBytes(shown) - TotalBytes(e.anchors) + missing
       /\ e.receipt.truncated <=> e.receipt.omitted > 0 \/ missing > 0

\* Text recognised by OCR is never ranked and never displaces embedded text from
\* the report; the ranked matches are the best ones, each citing the document
\* that was read.
RankIsHonest ==
  query.pc = "done" =>
    LET shown == query.matches
        cited == {shown[i].match : i \in DOMAIN shown}
        better == {c \in Range(Candidates(query.sources)) : c.score > 0 /\ c.derivation = "embedded"} \ cited
    IN /\ \A i \in DOMAIN shown : shown[i].match.derivation = "ocr" <=> shown[i].rank = 0
       /\ better # {} => \A i \in DOMAIN shown :
            shown[i].rank > 0 /\ \A c \in better : c.score <= shown[i].match.score
       /\ Len(shown) + query.omittedMatches =
            Len(SelectSeq(Candidates(query.sources), LAMBDA c : c.score > 0))
       /\ query.excerpts.bytes + query.excerpts.remaining \in {0, scenario.excerptBudget}

\* What the bounded writer accepts to write, the bounded reader admits: the same
\* parts, parts deflated or stored, under the same limits.
OwnPackagesReadBack ==
  \A entries \in scenario.writes :
    LET z == WriteBounded(entries)
    IN WriteRefusal(entries) = None =>
         /\ DirectoryRefusal(z) = None
         /\ \A j \in DOMAIN z.records :
               EntryRefusal(z.records[j], MaxTotalBytes - Sizes(SubSeq(entries, 1, j - 1))) = None

\* Violated: the module comment of document_evidence.rs says discovery mirrors
\* the scanner's walk rules, ignore files included.
IgnoreRulesAgree ==
  query.pc # "begin" /\ scenario.terms # {} =>
     \A p \in Paths : Ignored(query.matcher, p) <=> Ignored(ScannerMatcher, p)
=============================================================================
