------------------------ MODULE DocumentConformance ------------------------
(***************************************************************************)
(* The conformance round trip of crates/bran-document/src/conformance.rs:  *)
(* an untrusted document is imported token by token, exported, and the     *)
(* export is imported again.  A scenario fixes the format, what the other  *)
(* parts of the package hold, and the tokens the document may have in each *)
(* context; the document itself is any sequence of them up to the          *)
(* scenario's bound.                                                       *)
(***************************************************************************)
EXTENDS Integers, Sequences, FiniteSets, SequencesExt

CONSTANTS Scenarios,          \* what the documents are made of
          MaxModelBytes,      \* limits.max_total_bytes
          MaxBlockNesting,    \* MAX_BLOCK_NESTING of the DOCX adapter
          MaxNesting,         \* MAX_NESTING of the PPTX adapter
          MaxRow, MaxColumn,  \* MAX_ROW and MAX_COLUMN of the XLSX adapter
          MaxLabelWork,       \* its budget for labels
          MaxDepth,           \* limits.max_xml_depth, for PDF
          MaxTextBytes,       \* limits.max_total_bytes, for PDF
          MaxCidWidths        \* MAX_CID_WIDTHS of the PDF adapter

D == INSTANCE DocxAdapter
P == INSTANCE PptxAdapter
X == INSTANCE XlsxAdapter
PDF == INSTANCE PdfAdapter

VARIABLES scenario,  \* the scenario this document follows
          input,     \* the tokens read so far, for every part
          imp,       \* the importer
          phase,     \* reading, imported, exported, checked
          out,       \* what the export returned
          again      \* the import of the export
vars == <<scenario, input, imp, phase, out, again>>

None == "none"

(***************************************************************************)
(* The Adapter trait: import, a token at a time, and export.               *)
(***************************************************************************)

Begin(sc) ==
  CASE sc.format = "docx" ->
         D!BeginPart(D!Note(D!Importer(sc.styles, sc.numbering), "styles", D!Normalized), "document")
    [] sc.format = "pptx" -> P!Deck(sc.authors)
    [] sc.format = "xlsx" -> X!Reader(sc.strings, sc.formats)
    [] sc.format = "pdf" -> PDF!Begin(sc.fonts, sc.forms, sc.title)

Context(s) == CASE scenario.format = "docx" -> D!Context(s)
                [] scenario.format = "pptx" -> P!Context(s)
                [] scenario.format = "xlsx" -> X!Context(s)
                [] scenario.format = "pdf" -> PDF!Context(s)
Step(s, t) == CASE scenario.format = "docx" -> D!Step(s, t)
                [] scenario.format = "pptx" -> P!Step(s, t)
                [] scenario.format = "xlsx" -> X!Step(s, t)
                [] scenario.format = "pdf" -> PDF!Step(s, t)
Finish(s) == CASE scenario.format = "docx" -> D!Finish(D!CloseAll(s))
               [] scenario.format = "pptx" -> P!Finish(P!CloseAll(s))
               [] scenario.format = "xlsx" -> X!Finish(s)
               [] scenario.format = "pdf" -> PDF!Finish(s)
ExportOf(s) == CASE scenario.format = "docx" -> D!Export(s.content)
                 [] scenario.format = "pptx" -> P!Export(s)
                 [] scenario.format = "xlsx" -> X!Export(s)
                 [] scenario.format = "pdf" -> PDF!Export(s)
Read(package) == CASE scenario.format = "docx" -> D!Read(package)
                   [] scenario.format = "pptx" -> P!Read(package)
                   [] scenario.format = "xlsx" -> X!Read(package)
                   [] scenario.format = "pdf" -> PDF!Read(package)

\* The anchors of an import, and the model a re-import must give back.
Citations(s) == CASE scenario.format = "docx" -> Range(D!Citations(s.content))
                  [] scenario.format = "pptx" -> Range(P!Citations(s))
                  [] scenario.format = "xlsx" -> X!Citations(s)
                  [] scenario.format = "pdf" -> Range(PDF!Citations(s))
Content(s) == CASE scenario.format = "docx" -> D!Shown(s)
                [] scenario.format = "pptx" -> P!Content(s)
                [] scenario.format = "xlsx" -> X!Content(s)
                [] scenario.format = "pdf" -> PDF!Content(s)

(***************************************************************************)
(* The check.                                                              *)
(***************************************************************************)

Init ==
  /\ scenario \in Scenarios
  /\ imp = Begin(scenario)
  /\ input = <<>>
  /\ phase = "reading"
  /\ out = [refusal |-> None]
  /\ again = [refusal |-> None]

\* The importer takes the next token.
ReadToken ==
  /\ phase = "reading"
  /\ imp.refusal = None
  /\ Len(input) < scenario.bound
  /\ Context(imp) \in DOMAIN scenario.tokens
  /\ \E t \in scenario.tokens[Context(imp)] :
       /\ input' = Append(input, t)
       /\ imp' = Step(imp, t)
  /\ UNCHANGED <<scenario, phase, out, again>>

\* A DOCX part ends and the next one the package has is read.
NextPart ==
  /\ phase = "reading"
  /\ imp.refusal = None
  /\ scenario.format = "docx"
  /\ \E i \in 2..4 :
       /\ D!Parts[i] \in scenario.parts
       /\ \A j \in 2..4 : D!Parts[j] = imp.part => j < i
       /\ imp' = D!BeginPart(D!CloseAll(imp), D!Parts[i])
  /\ UNCHANGED <<scenario, input, phase, out, again>>

\* The document ends here: elements still open are closed.
EndOfInput ==
  /\ phase = "reading"
  /\ imp' = Finish(imp)
  /\ phase' = "imported"
  /\ UNCHANGED <<scenario, input, out, again>>

Export ==
  /\ phase = "imported"
  /\ imp.refusal = None
  /\ out' = ExportOf(imp)
  /\ phase' = "exported"
  /\ UNCHANGED <<scenario, input, imp, again>>

Reimport ==
  /\ phase = "exported"
  /\ out.refusal = None
  /\ again' = Read(out.package)
  /\ phase' = "checked"
  /\ UNCHANGED <<scenario, input, imp, out>>

Done ==
  /\ \/ phase = "checked"
     \/ phase = "imported" /\ imp.refusal # None
     \/ phase = "exported" /\ out.refusal # None
  /\ UNCHANGED vars

Next == ReadToken \/ NextPart \/ EndOfInput \/ Export \/ Reimport \/ Done

Spec == Init /\ [][Next]_vars

(***************************************************************************)
(* Properties.                                                             *)
(***************************************************************************)

SameAs(a, b) == Citations(a) = Citations(b) /\ Content(a) = Content(b)

\* Two bookmarks whose names differ only in characters XML cannot carry: import
\* takes both, and gives them one name (docx.rs:1246-1254).
BookmarksCollide(s) ==
  LET marks == FlattenSeq([i \in DOMAIN D!AllParagraphs(s.content) |->
                 SelectSeq(D!AllParagraphs(s.content)[i].inlines, LAMBDA m : m.i = "bookmarkStart")])
  IN ~IsInjective([i \in DOMAIN marks |-> marks[i].name])

\* An escape that lacks only its last underscore, directly before a control
\* character: the escape written for that character completes it (xlsx.rs:1992-2007).
EscapeCompleted(text) ==
  \E i \in 1..(Len(text) - 2) : text[i] = "_" /\ text[i + 1] \in {"X", "X5"} /\ text[i + 2] = "c"

\* A cached result that is the empty string is written as a value without text,
\* which is no value (xlsx.rs:1734-1740).
EmptyResult(cell) == cell.hasFormula /\ cell.value = [type |-> "string", text |-> <<>>]

\* The documents that do not read back as they were.
NotSpelled(s) ==
  CASE scenario.format = "docx" -> BookmarksCollide(s)
    [] scenario.format = "xlsx" -> \/ \E text \in X!Texts(s) : EscapeCompleted(text)
                                   \/ \E cell \in X!AllCells(s) : EmptyResult(cell)
    [] OTHER -> FALSE

\* The round trip conformance::check asks of every adapter: what was exported
\* is admitted again and has the same citation anchors and, as the documents of
\* the adapters say of their exports, the same content.  What they say without
\* exception has three, in which it comes back otherwise, and no other: a text with
\* an unfinished escape before a control character (against xlsx.rs:1990 and
\* docs/enterprise-document-xlsx.md:143), an empty cached result (likewise) and
\* bookmarks whose names collapse (against docs/enterprise-document-docx-adapter.md:139).
\* And the model's byte budget may refuse it: what was one run may come back as several.
RoundTrip ==
  phase = "checked" /\ again.refusal \notin {"Oversized", "DecompressionLimit"} =>
     /\ again.refusal = None
     /\ SameAs(again, imp) <=> ~NotSpelled(imp)


TextFed == FoldLeft(LAMBDA n, t : IF t.e = "t" THEN n + Len(t.text) ELSE n, 0, input)
TextKept == LET ps == D!AllParagraphs(imp.content)
                chars(p) == SelectSeq(D!TextOf(p, TRUE), LAMBDA c : c \notin {"tab", "nl"})
            IN FoldLeft(LAMBDA n, p : n + Len(chars(p)), 0, ps)

\* Stands for a string shown while no font is chosen, or one the page does not have.
Unsayable == -2

\* What PDF content says, in its order and without its blanks, wherever on the page
\* it is: glyphs in the font chosen last or restored since, a replacement for a glyph
\* without a character, /ActualText once in place of all it stands for, and what the
\* forms say that are drawn.
RECURSIVE PdfReading(_, _)
PdfReading(reading, content) ==
  LET say(acc, str) ==
        IF acc.font = "" THEN [acc EXCEPT !.said = Append(@, Unsayable)]
        ELSE LET i == PDF!Innermost(acc.marks, LAMBDA a : a # PDF!NoText)
                 shown == PDF!GlyphText(PDF!glyphs(PDF!FontOf(scenario.fonts[acc.font]), str))
             IN IF i = 0 THEN [acc EXCEPT !.said = @ \o shown]
                ELSE [acc EXCEPT !.said = @ \o acc.marks[i], !.marks[i] = <<>>]
      draw(acc, form) ==
        LET drawn == PdfReading(acc, form.content)
        IN CASE form.subtype # "Form" -> acc
             [] form.subtype = "Form" /\ ~form.decodes -> [acc EXCEPT !.undecoded = TRUE]
             [] OTHER -> [drawn EXCEPT !.font = acc.font,
                            !.saved = SubSeq(@, 1, IF Len(@) < Len(acc.saved) THEN Len(@) ELSE Len(acc.saved))]
      step(acc, t) ==
        CASE t.op = "Tf" -> [acc EXCEPT !.font = IF t.name \in DOMAIN scenario.fonts THEN t.name ELSE ""]
          [] t.op = "q" -> [acc EXCEPT !.saved = Append(@, acc.font)]
          [] t.op = "Q" -> IF acc.saved = <<>> THEN acc
                           ELSE [acc EXCEPT !.font = Last(acc.saved), !.saved = Front(@)]
          [] t.op = "page" -> [acc EXCEPT !.font = "", !.saved = <<>>, !.marks = <<>>]
          [] t.op = "BDC" -> [acc EXCEPT !.marks = Append(@, t.actual)]
          [] t.op = "EMC" -> IF acc.marks = <<>> THEN acc ELSE [acc EXCEPT !.marks = Front(@)]
          [] t.op \in {"Tj", "quote"} -> say(acc, t.str)
          [] t.op = "TJ" -> FoldLeft(LAMBDA a, item : IF item.str = PDF!NoText THEN a ELSE say(a, item.str),
                                     acc, t.items)
          [] t.op = "Do" -> IF t.name \in DOMAIN scenario.forms THEN draw(acc, scenario.forms[t.name]) ELSE acc
          [] OTHER -> acc
  IN FoldLeft(step, reading, content)
PdfRead == PdfReading([font |-> "", saved |-> <<>>, marks |-> <<>>, said |-> <<>>, undecoded |-> FALSE], input)
Inked(text) == SelectSeq(text, LAMBDA c : ~PDF!IsSpace(c))
PdfKept == FlattenSeq([i \in DOMAIN PDF!Citations(imp) |-> PDF!Citations(imp)[i].text])

\* The blocks of a PDF page, cut at marked content, text objects and gaps, lose
\* and reorder nothing that its content says but the strings that no font can
\* say; a character that a font could not name and a form that could not be
\* decoded are reported.
PdfTextKept ==
  scenario.format = "pdf" /\ phase = "imported" /\ imp.refusal = None =>
     LET read == PdfRead
         kept == PdfKept
     IN /\ Inked(kept) = SelectSeq(Inked(read.said), LAMBDA c : c # Unsayable)
        /\ PDF!Replacement \in Range(kept) => "text-unmapped-glyphs" \in imp.receipts
        /\ read.undecoded => "stream-not-decoded" \in imp.receipts

\* Text of a DOCX document that did not reach the model, because it is a field's
\* code, in a note whose id repeats, or not expressible, never goes unsaid: some
\* feature of the fidelity receipt is then less than exact.
LossIsTold ==
  scenario.format = "docx" /\ phase = "imported" /\ imp.refusal = None /\ TextKept < TextFed =>
     \E f \in DOMAIN imp.fidelity \ {"styles"} : imp.fidelity[f] # D!Exact

\* No two anchors of an admitted document share an id, whatever ids the shapes,
\* notes and tables of the untrusted file carry.
AnchorsUnique ==
  phase = "imported" /\ imp.refusal = None /\ scenario.format # "pdf" =>
     CASE scenario.format = "docx" -> IsInjective([i \in DOMAIN D!Citations(imp.content) |->
                                                     D!Citations(imp.content)[i].id])
       [] scenario.format = "pptx" -> IsInjective([i \in DOMAIN imp.anchors |-> imp.anchors[i].id])
       [] OTHER -> \A a, b \in imp.anchors : a.id = b.id => a = b

\* Whether the formula, read from left to right, has an active token where no
\* string literal is open.
RECURSIVE Reaches(_, _)
Reaches(formula, literal) ==
  IF formula = <<>> THEN FALSE
  ELSE IF Head(formula) = "quote" THEN Reaches(Tail(formula), ~literal)
  ELSE (~literal /\ Head(formula) # "F") \/ Reaches(Tail(formula), literal)

\* An exported document shows no private marker in any text a reader sees, even
\* when its characters come from several runs or around deleted text, and no
\* exported workbook reaches outside itself when it is calculated.
NothingUnsafeLeaves ==
  phase = "checked" =>
     /\ \A a \in Citations(again) :
          ~(IF scenario.format = "pdf" THEN PDF!Private(a.text) ELSE X!HasMarker(a.text))
     /\ scenario.format = "xlsx" =>
          \A i \in DOMAIN out.package.tokens :
             LET t == out.package.tokens[i] IN t.e = "c" => ~Reaches(t.f.text, FALSE)

\* What import cannot keep it says: text of a DOCX document that is not in the model
\* has its entry in the fidelity receipt; of a PDF all text is in the model.  The
\* exception is a string shown in no font or an unknown one: it is dropped without a
\* receipt (pdf_text.rs:777-779), against docs/enterprise-document-conformance.md:215.
NothingIsLostSilently == LossIsTold /\ PdfTextKept

\* What the model says of a document, and what leaves with its export, is safe to
\* cite: anchors are unambiguous, and no marker or active formula gets out.
AnchorsAndExportAreSafe == AnchorsUnique /\ NothingUnsafeLeaves
=============================================================================
