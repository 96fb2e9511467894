---------------------------- MODULE MCDocuments ----------------------------
(***************************************************************************)
(* Instances of DocumentEvidence: exports that race a query, a repository  *)
(* that changes under a query, every small projection, the archives that   *)
(* meet each check of the intake, and what the bounded writer is given;    *)
(* and of PdfFile.  A behaviour is one of the one or of the other.         *)
(***************************************************************************)
EXTENDS DocumentEvidence

CONSTANTS PdfDepth, MaxNodes, MaxPages, MaxRevisions, Graphs, Shapes, Replacements

VARIABLES about,     \* which of the two it is
          file, startxref, current, revisions, damaged, result, probe

pdfVars == <<file, startxref, current, revisions, damaged, result, probe>>

PdfRun == INSTANCE MCPdfFile WITH MaxDepth <- PdfDepth

A == <<"a", ".docx">>
B == <<"b", ".pdf">>
C == <<"d", "/", "c", ".xlsx">>
Deep == <<"d", "/", "e", "/", "x", ".docx">>
Vendored == <<"vendor", "/", "v", ".pptx">>
Secret == <<"S", ".docx">>
Odd == <<"d", "/", NotUtf8, ".docx">>
Beneath == <<NotUtf8, "/", "c", ".xlsx">>
MCPathOrder == [i \in 1..4 |-> Temporary(A, i - 1)]
               \o << <<".branignore">>, <<".gitignore">>, <<".okfignore">>, Secret, A, B, <<"d">>, C,
                     <<"d", "/", "e">>, Deep, Odd, <<"vendor">>, Vendored, <<NotUtf8>>, Beneath >>

(***************************************************************************)
(* Documents.                                                              *)
(***************************************************************************)

Flow(n) == [family |-> "flow", section |-> <<"a">>, ordinal |-> n]
Page(n) == [family |-> "fixed-layout", page |-> 1, block |-> n, x0 |-> 5, y0 |-> -3, x1 |-> 2, y1 |-> 2000000]
Grid(n) == [family |-> "grid", sheet |-> <<"a">>, row |-> n, column |-> 1]
Anchor(n, role, locator, text, derivation) ==
  [id |-> n, role |-> role, locator |-> locator, text |-> text, derivation |-> derivation]
Good(schema, fidelity, anchors) ==
  [length |-> 20, refusal |-> None, codes |-> {},
   projection |-> [schema |-> schema, fidelity |-> fidelity, anchors |-> anchors]]
Docx(anchors) == Good("docx", <<>>, anchors)
Pdf(anchors) == Good("pdf", [f \in Features("pdf") |-> "approximated"], anchors)
Xlsx(anchors) == Good("xlsx", [f \in Features("xlsx") |-> IF f = "macros" THEN "unsupported" ELSE "exact"], anchors)
Bad(why) == [Docx(<<>>) EXCEPT !.refusal = why]

Texts == {<<"q">>, <<"_">>, <<"a", "e">>, <<"a", "e", "q", "e">>, <<"e", "S">>}
Generated == {<<"gen", t>> : t \in UNION {[1..n -> Texts] : n \in 0..4}}
Made(texts) == [Docx([i \in DOMAIN texts |->
                        Anchor(Len(texts) + 1 - i, "paragraph", Flow(i), texts[i], "absent")]) EXCEPT !.length = 30]

Par(n, text) == Anchor(n, "paragraph", Flow(n), text, "absent")
Block(n, text, derivation) == Anchor(n, "paragraph", Page(n), text, derivation)
Others ==
  { <<"small">>, <<"scan">>, <<"grid">>, Partial, <<"big">>, <<"leaky">>, <<"boundary">>, <<"odd">>,
     <<"twins">>, <<"lost">>, <<"hidden">>, <<"exact">>, <<"foreign">> }
NamedDocument(n) ==
  CASE n = <<"small">> -> Docx(<<Par(1, <<"q">>), Par(2, <<"a", "q">>)>>)
    [] n = <<"scan">> -> Pdf(<<Block(1, <<"q", "a">>, "ocr"), Block(2, <<"q">>, "embedded-text")>>)
    [] n = <<"grid">> -> Xlsx(<<Anchor(1, "cell", Grid(1), <<"q">>, "absent")>>)
    [] n = <<"big">> -> [Docx(<<Par(1, <<"q">>)>>) EXCEPT !.length = MaxPackageBytes + 1]
    [] n = <<"leaky">> -> [Docx(<<Par(1, <<"q">>)>>) EXCEPT !.codes = {"dlp-findings"}]
    [] n = <<"boundary">> -> [Docx(<<Par(1, <<"q">>)>>) EXCEPT !.codes = {"public-boundary-violation"}]
    [] n = <<"odd">> -> Pdf(<<Block(1, <<"q">>, "guessed")>>)
    [] n = <<"twins">> -> Docx(<<Par(1, <<"q">>), Par(1, <<"a">>)>>)
    [] n = <<"lost">> -> Xlsx(<<Anchor(1, "cell", Grid(0), <<"q">>, "absent")>>)
    [] n = <<"hidden">> -> Docx(<<[Par(1, <<"q">>) EXCEPT !.locator.section = <<"S">>]>>)
    [] n = <<"exact">> -> Good("xlsx", [f \in Features("xlsx") |-> "exact"], <<Anchor(1, "cell", Grid(1), <<"q">>, "absent")>>)
    [] n = <<"foreign">> -> Docx(<<Anchor(1, "cell", Flow(1), <<"q">>, "absent")>>)
    [] OTHER -> Bad("MalformedContainer")
MCDocuments == [n \in Others \cup Generated |-> IF Len(n) = 2 THEN Made(n[2]) ELSE NamedDocument(n)]

(***************************************************************************)
(* Archives.                                                               *)
(***************************************************************************)

E(name) == [name |-> name, mark |-> Unmarked]
Tok(t, e) == [t |-> t, e |-> e, hidden |-> FALSE, blank |-> FALSE]
Default(ext, type) == [name |-> "Default", key |-> ext, type |-> type, mark |-> Unmarked]
Override(name, type) == [name |-> "Override", key |-> name, type |-> type, mark |-> Unmarked]
Rel(id, segments) == [name |-> "Relationship", id |-> id, kind |-> "office", mode |-> "absent",
                      target |-> [absolute |-> FALSE, segments |-> segments], mark |-> Unmarked]
Wrap(tokens) == <<Tok("open", E("root"))>> \o tokens \o <<Tok("close", E("root"))>>
One(e) == Wrap(<<Tok("empty", e)>>)

TypesName == << <<"[content_types]", "xml">> >>
MainName == << <<"word">>, <<"main", "xml">> >>
RelsName == << <<"word">>, <<"_rels">>, <<"main", "xml", "RELS">> >>

Rec(name, at, data) ==
  [name |-> name, mark |-> Unmarked, encrypted |-> FALSE, descriptor |-> FALSE, local |-> "agrees", at |-> at,
   header |-> 2, method |-> 8, packed |-> 2, size |-> 3, intact |-> TRUE, data |-> data]
Types(tokens) == Rec(TypesName, 0, Wrap(tokens))
PlainTypes == Types(<<Tok("empty", Default("xml", "xml")), Tok("empty", Default("rels", "rels"))>>)
Main == Rec(MainName, 4, One(E("document")))
RelsOf(tokens) == Rec(RelsName, 8, tokens)
Archive(records) == [length |-> 40, end |-> "plain", directoryAt |-> 30, records |-> records]

\* The archive everything is well with, and what may be wrong with it.
Plain == Archive(<<PlainTypes, Main, RelsOf(One(Rel(1, <<<<"main", "xml">>>>)))>>)
WithMain(m) == [Plain EXCEPT !.records[2] = m]
WithTypes(tokens) == [Plain EXCEPT !.records[1] = Types(tokens)]
WithRels(tokens) == [Plain EXCEPT !.records[3] = RelsOf(tokens)]
XmlCases == {<<Tok("empty", E("x"))>>, <<Tok("empty", E("x")), Tok("empty", E("x"))>>, <<Tok("open", E("x"))>>,
             <<Tok("close", E("x"))>>, <<Tok("dtd", E("x"))>>, <<Tok("bad", E("x"))>>, <<Tok("other", E("x"))>>,
             Wrap(Wrap(Wrap(<<>>))), Wrap(<<Tok("text", E("x")), Tok("text", E("x"))>>),
             <<Tok("text", E("x"))>> \o Wrap(<<>>), <<[Tok("text", E("x")) EXCEPT !.blank = TRUE]>> \o Wrap(<<>>),
             Wrap([i \in 1..7 |-> Tok("empty", E("x"))])}
Ends == {[Plain EXCEPT !.end = e] : e \in {"compound", "missing", "zip64", "disks", "misplaced"}}
        \cup {[Plain EXCEPT !.length = MaxPackageBytes + 1],
              [Plain EXCEPT !.records = @ \o <<[Main EXCEPT !.name = <<<<"n">>>>], [Main EXCEPT !.name = <<<<"m">>>>]>>]}
Records == {WithMain(m) : m \in
  {[Main EXCEPT !.encrypted = TRUE], [Main EXCEPT !.method = 9], [Main EXCEPT !.intact = FALSE],
   [Main EXCEPT !.at = 2], [Main EXCEPT !.at = 28], [Main EXCEPT !.method = 0], [Main EXCEPT !.method = 0, !.packed = 3],
   [Main EXCEPT !.name = TypesName], [Main EXCEPT !.mark = "dlp"], [Main EXCEPT !.mark = "boundary"]}
  \cup {[Main EXCEPT !.local = l, !.descriptor = d] : l \in {"encrypted", "sizes", "name", "missing"}, d \in BOOLEAN}
  \cup {[Main EXCEPT !.method = m, !.size = n, !.packed = k] : m \in {0, 8}, n \in {4, 5, 6, 7, 8, 9}, k \in {2, 4, 6, 8}}}
Names == {WithMain([Main EXCEPT !.name = n, !.data = data]) :
            n \in {<<<<"word">>, <<"">>>>, <<<<"">>, <<"x", "xml">>>>, <<<<"", "", "">>, <<"x", "xml">>>>, <<<<"a%2Fb", "xml">>>>,
                   <<<<"word">>, <<"x", "">>>>, <<<<"x">>>>, <<<<"word">>, <<"_rels">>, <<"main", "xml", "rels">>>>,
                   <<<<"_rels">>, <<"", "rels">>>>, <<<<"x", "rels">>>>},
            data \in {<<>>, One(Rel(1, <<<<"x", "xml">>>>))}}
         \cup {[Plain EXCEPT !.records[1].name = MainName]}
Typings == {WithTypes(<<Tok("empty", Default("xml", "xml"))>> \o t) : t \in
  {<<>>, <<Tok("empty", Default("rels", "rels")), Tok("empty", Default("xml", "xml"))>>,
   <<Tok("empty", Default("rels", "rels")), Tok("empty", Override(MainName, "vba"))>>,
   <<Tok("empty", Default("rels", "connections"))>>,
   <<[Tok("empty", [Default("rels", "rels") EXCEPT !.mark = "dlp"]) EXCEPT !.hidden = TRUE]>>}}
  \cup {WithTypes(<<Tok("dtd", E("x"))>>)}
Rels == {WithRels(One(r)) : r \in
  {Rel(1, s) : s \in {<<DotDot, <<"x", "xml">>>>, <<DotDot, DotDot, <<"x", "xml">>>>, <<Dot, <<"main", "xml">>>>, <<<<"">>>>}}
  \cup {[Rel(1, <<<<"x">>>>) EXCEPT !.mode = m, !.kind = k, !.mark = mark] :
          m \in {"Internal", "External", "odd"}, k \in {"office", "hyperlink"}, mark \in {Unmarked, "dlp", "boundary"}}}
  \cup {WithRels(Wrap([i \in 1..2 |-> Tok("empty", Rel(i \div 2, <<<<"main", "xml">>>>))])),
        WithRels(Wrap([i \in 1..2 |-> Tok("empty", Rel(1, <<<<"main", "xml">>>>))])),
        WithRels(Wrap(<<[Tok("empty", [Rel(1, <<<<"x">>>>) EXCEPT !.mark = "boundary"]) EXCEPT !.hidden = TRUE]>>))}
Archives == {Plain} \cup Ends \cup Records \cup Names \cup Typings \cup Rels \cup {WithRels(x) : x \in XmlCases}

(***************************************************************************)
(* Scenarios.                                                              *)
(***************************************************************************)

Entry(n, size, deflated) == [name |-> <<<<"part">>, <<n>>>>, nameLen |-> 1, size |-> size, deflated |-> deflated, data |-> <<>>]
Entries1 == {<<n, k>> : n \in {0, 4, 5, 8, 9}, k \in {1, 2, 3}}
PartNames == <<"x", "y", "z", "u", "v">>
Writes == {[i \in DOMAIN w |-> Entry(PartNames[i], w[i][1], w[i][2])] :
             w \in UNION {[1..n -> Entries1] : n \in 0..3} \cup {[i \in 1..5 |-> <<0, 1>>]}}

Idle == [files |-> << >>, exports |-> << >>, changes |-> {}, terms |-> {}, archives |-> {},
         writes |-> {}, faults |-> FALSE, unreadable |-> FALSE, perExcerpt |-> 2, excerptBudget |-> 3]
Files(set, Node(_)) == [p \in set |-> Node(p)]
Dir == [kind |-> "dir"]
Lines(lines) == [kind |-> "lines", lines |-> lines]
Call(process, dest, doc) ==
  [process |-> process, dest |-> dest, doc |-> doc, format |-> "docx", emitted |-> <<"a">>, outside |-> FALSE]

Tree == [p \in {A, B, C, Deep, Vendored, Secret, <<"d">>, <<"d", "/", "e">>, <<"vendor">>, <<".gitignore">>} |->
           CASE p \in {<<"d">>, <<"d", "/", "e">>, <<"vendor">>} -> Dir
             [] p = <<".gitignore">> -> Lines(<<<<"a", "*">>, <<"!", "a", ".docx">>, <<"..">>>>)
             [] p = B -> Document(<<"scan">>) [] p = C -> Document(<<"grid">>)
             [] OTHER -> Document(<<"small">>)]
Changes == {[path |-> A, to |-> Missing], [path |-> B, to |-> Document(<<"big">>)],
            [path |-> C, to |-> [kind |-> "link", path |-> A, doc |-> <<"small">>]],
            [path |-> A, to |-> [kind |-> "link", path |-> Root, doc |-> <<"small">>]]}

Racing(files, calls) == [Idle EXCEPT !.files = files, !.exports = calls, !.faults = TRUE, !.terms = {"q"}]
Nothing == <<>>
Only(p, node) == [x \in {p} |-> node]

ExportScenarios ==
  {Racing(files, [x \in {"x", "y"} |-> Call(IF x = "y" /\ other THEN "q" ELSE "p", A,
                                            IF x = "x" THEN <<"small">> ELSE <<"twins">>)]) :
     files \in {Nothing, Only(A, Document(<<"grid">>)), Only(Temporary(A, 0), Document(<<"grid">>))}, other \in BOOLEAN}
  \cup {[Racing(Nothing, [x \in {"x"} |-> c]) EXCEPT !.terms = {}] :
          c \in {[Call("p", A, <<"small">>) EXCEPT !.emitted = <<"S">>], [Call("p", A, <<"small">>) EXCEPT !.outside = TRUE],
                 [Call("p", A, <<"small">>) EXCEPT !.format = "pdf"]}}
QueryScenarios ==
  {[Idle EXCEPT !.files = Tree, !.changes = Changes, !.terms = {"q", "a"}]}
  \cup {[Idle EXCEPT !.files = [p \in {A, B} |-> IF p = B THEN Document(<<"scan">>) ELSE Document(d)], !.terms = {"q", "a"}] :
          d \in Generated}
  \cup {[Idle EXCEPT !.files = Only(p, Document(d)) @@ Only(<<"d">>, Dir), !.terms = {"q"}] : d \in Others, p \in {A, B, C}}
  \cup {[Idle EXCEPT !.files = Tree @@ Only(<<".branignore">>, Lines(l)), !.terms = {"q"}] :
          l \in {Unusable, <<<<"/", "d", "/">>>>, <<<<"d", "/", "*">>>>, <<<<"/", "a", ".docx">>, <<"/", "/">>>>}}
\* Calls of the query that fail, in a tree at rest and in one that changes.
UnreadableScenarios ==
  LET odd == Only(Odd, Document(<<"small">>)) @@ Only(<<NotUtf8>>, Dir) @@ Only(Beneath, Document(<<"grid">>))
      few == [p \in {A, C, <<"d">>} |-> Tree[p]]
  IN {[Idle EXCEPT !.files = Tree @@ odd, !.terms = {"q"}, !.unreadable = TRUE],
      [Idle EXCEPT !.files = few, !.changes = Changes, !.terms = {"q"}, !.unreadable = TRUE],
      [Idle EXCEPT !.files = few @@ Only(<<".branignore">>, Lines(<<<<"/", "d", "/">>>>))
                                 @@ Only(<<".gitignore">>, Tree[<<".gitignore">>]),
                   !.terms = {"q"}, !.unreadable = TRUE]}
MCScenarios == ExportScenarios \cup QueryScenarios \cup UnreadableScenarios
               \cup {[Idle EXCEPT !.archives = {z}] : z \in Archives} \cup {[Idle EXCEPT !.writes = Writes]}

(***************************************************************************)
(* PDF files.                                                              *)
(***************************************************************************)

PdfFiles == INSTANCE MCPdfFile WITH MaxDepth <- 0, MaxNodes <- 0, MaxPages <- 0, MaxRevisions <- 0,
                                    Graphs <- {}, Shapes <- {}, Replacements <- <<>>
MCGraphs == PdfFiles!MCGraphs
MCShapes == PdfFiles!MCShapes
MCReplacements == PdfFiles!MCReplacements

NoPdf == /\ file = <<>> /\ startxref = 0 /\ current = <<>> /\ revisions = 0
         /\ damaged = FALSE /\ result = <<>> /\ probe = <<>>
NoDocuments ==
  /\ scenario = Idle /\ fs = <<>> /\ exporters = <<>> /\ serial = <<>>
  /\ query = NoQuery("done") /\ intake = NoIntake /\ cancelled = FALSE /\ touched = {}

MCInit == \/ about = "documents" /\ DocumentsInit /\ NoPdf
          \/ about = "pdf" /\ PdfRun!MCInit /\ NoDocuments

DocumentStep == about = "documents" /\ DocumentsNext /\ UNCHANGED <<about, pdfVars>>
PdfStep == about = "pdf" /\ (PdfRun!MCNext \/ PdfRun!Probed) /\ UNCHANGED <<about, documentVars>>

MCSpec == MCInit /\ [][DocumentStep \/ PdfStep]_<<about, documentVars, pdfVars>>

\* An intake nobody cancels.
RECURSIVE RunIntake(_)
RunIntake(s) == IF s.pc = "done" THEN s ELSE RunIntake(IntakeStep(s))

Inflated(z) == FoldLeft(LAMBDA n, r : n + r.size, 0, z.records)

\* A package intake returns has stayed within its budgets, its relationships
\* stay inside the package, and any marker in a string it emits is reported,
\* even one written with character references; a cancelled intake returns
\* nothing of the package.
IntakeIsSafe ==
  intake.pc = "done" /\ intake # NoIntake =>
    /\ intake.result \in {"Cancelled", RunIntake(Intake(intake.z)).result}
    /\ intake.result = "Cancelled" => cancelled
    /\ intake.result = "ok" =>
         /\ intake = RunIntake(Intake(intake.z))
         /\ Inflated(intake.z) <= MaxTotalBytes
         /\ \A r \in intake.relationships : ~r.external => ValidPartName(r.target)
         /\ \A p \in Range(intake.parts) : Finding(p.typeMark) \subseteq intake.codes
         /\ \A r \in intake.relationships : Finding(r.mark) \subseteq intake.codes

\* Evidence of documents: each document is read, or counted as left out with the
\* reason; a match or anchor that a budget cuts is told, and the ranking puts
\* what was extracted before what was recognised (document_evidence_json, admit).
EvidenceIsHonest == about = "documents" => EveryDocumentAccounted /\ CutIsTold /\ RankIsHonest

\* Packages: nothing hostile or over a budget passes the intake, and what the
\* bounded writer makes passes it (Package::open, write_package).
PackagesAreSafe == about = "documents" => IntakeIsSafe /\ OwnPackagesReadBack

\* A PDF is read as its producer meant it, whatever its layout, its cycles and its
\* damage (open, project_pdf).
PdfIsReadAsWritten ==
  about = "pdf" => /\ PdfRun!LayoutIsInvisible /\ PdfRun!StructureIsWhole
                   /\ PdfRun!DamageIsTold /\ PdfRun!SyntaxReadsBack
=============================================================================
