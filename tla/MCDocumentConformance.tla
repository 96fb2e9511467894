----------------------- MODULE MCDocumentConformance -----------------------
EXTENDS DocumentConformance

CONSTANTS Tiny, Short, Long   \* how many tokens a document may have

Close == [e |-> "close"]
T(text) == [e |-> "t", text |-> text]
Fld(type) == [e |-> "fldChar", type |-> type]
Par == [e |-> "p"]
Run == [e |-> "r"]

Docx(bound, tokens) ==
  [format |-> "docx", bound |-> bound, styles |-> <<>>, numbering |-> <<>>, parts |-> {},
   tokens |-> tokens]

\* Nested and unterminated fields, a drawing inside a field code.
Fields == Docx(Short,
  [story |-> {Par}, p |-> {Run},
   run |-> {T(<<"s">>), T(<<"k">>), Fld("begin"), Fld("separate"), Fld("end"),
            [e |-> "drawing", asset |-> "img"], Close}])

\* Runs inside links and tracked changes, also nested.
Wrappers == Docx(Long,
  [story |-> {Par},
   p |-> {Run, [e |-> "hyperlink", target |-> "u"], [e |-> "change", kind |-> "ins"],
          [e |-> "change", kind |-> "del"], Close},
   run |-> {T(<<"s">>), T(<<"k">>), Close}])

\* Tables, content controls, sections, cells without a last paragraph.
Props(style, num, section) ==
  [e |-> "pPr", props |-> [style |-> style, num |-> num, level |-> 0, outline |-> 9,
                           section |-> section]]
Tables == Docx(Long,
  [story |-> {Par, [e |-> "tbl"], [e |-> "sdt"], Close}, tbl |-> {[e |-> "tr"], Close},
   row |-> {[e |-> "tc", span |-> 2, merge |-> "single"], Close},
   p |-> {Run, Props("none", 0, TRUE), Close}, run |-> {T(<<"x">>), Close}])

\* Styles that are based on each other, lists and headings.
Style(id, name, based, num) ==
  [id |-> id, name |-> name, based |-> based, outline |-> 9, num |-> num, default |-> id = "n"]
Kinds == [Docx(Short,
  [story |-> {Par},
   p |-> {Run, Props("a", 0, FALSE), Props("b", 0, TRUE), Props("none", 1, FALSE),
          Props("c", 2, FALSE), Close},
   run |-> {T(<<"x">>), T(<<"bad">>), Close}])
  EXCEPT !.styles = <<Style("n", "none", "none", 0), Style("a", "none", "b", 0),
                      Style("b", "none", "a", 1), Style("c", "heading", "a", 0)>>,
         !.numbering = <<[num |-> 1, format |-> "bullet"]>>]

\* Footnotes and comments: repeated ids, separators, references that dangle.
Item(id, sep) == [e |-> "item", id |-> id, separator |-> sep]
Notes(bound, parts) == [Docx(bound,
  [story |-> {Par, Close}, p |-> {Run, [e |-> "commentRange", id |-> 1], Close},
   part |-> {Item(0, TRUE), Item(0, FALSE), Item(1, FALSE)},
   run |-> {T(<<"x">>), [e |-> "ref", to |-> "footnotes", id |-> 1],
            [e |-> "ref", to |-> "comments", id |-> 1], Close}])
  EXCEPT !.parts = parts]

\* Bookmarks that repeat a name or an id, differ only in what XML cannot carry,
\* or never end.
Mark(id, name) == [e |-> "bookmarkStart", id |-> id, name |-> name]
Bookmarks == Docx(Short,
  [story |-> {Par, [e |-> "bookmarkEnd", id |-> 1]},
   p |-> {Mark(1, <<"x">>), Mark(1, <<"y">>), Mark(2, <<"x">>), Mark(2, <<"x", "bad">>), [e |-> "bookmarkEnd", id |-> 1],
          [e |-> "bookmarkEnd", id |-> 2], Close}, run |-> {}])

\* Breaks, bold runs, fields and content controls around runs, what is skipped.
Inlines == Docx(Tiny,
  [story |-> {Par},
   p |-> {Run, [e |-> "wrapper", feature |-> "fields"], [e |-> "unsupported", feature |-> "math"], Close},
   run |-> {[e |-> "rPr", bold |-> TRUE], [e |-> "break", char |-> "tab", plain |-> TRUE],
            [e |-> "break", char |-> "nl", plain |-> FALSE], T(<<"s">>), T(<<"k">>), Close}])

\* Shapes with repeated and missing ids, groups, alternate content, notes.
Shape(kind, id, alt, asset) ==
  [e |-> kind, id |-> id, alt |-> alt, link |-> "none", asset |-> asset]
PptxRun(kind, text, link) == [e |-> kind, text |-> text, link |-> link]
Pptx(bound, tokens) ==
  [format |-> "pptx", bound |-> bound, authors |-> <<"ann">>, tokens |-> tokens]
Tree == {Shape("sp", 2, <<"x">>, "none"), Shape("grpSp", 2, <<>>, "none"),
         Shape("pic", 0, <<"x">>, "img"), Shape("pic", 3, <<"k">>, "video"),
         [e |-> "alternate", fallback |-> TRUE], [e |-> "chart"], Close}
Shapes == Pptx(Short,
  [deck |-> {[e |-> "sld", id |-> 256], [e |-> "sld", id |-> 257]},
   tree |-> Tree, grp |-> Tree, alt |-> Tree, body |-> {Close}, slide |-> {Close}])

\* Text bodies of shapes, notes and tables, with links, fields and breaks.
Comments == {[e |-> "cm", author |-> 1, text |-> <<"x">>, reply |-> TRUE],
             [e |-> "cm", author |-> 7, text |-> <<"y">>, reply |-> FALSE]}
Bodies == Pptx(Long,
  [deck |-> {[e |-> "sld", id |-> 256]},
   tree |-> {Shape("sp", 2, <<>>, "none"), Shape("tbl", 3, <<>>, "none"), Close},
   tbl |-> {[e |-> "tr"]}, row |-> {[e |-> "tc"], Close},
   body |-> {[e |-> "p", level |-> 1], Close},
   p |-> {PptxRun("r", <<"s">>, "none"), PptxRun("r", <<"k">>, "url"), PptxRun("fld", <<"k">>, "elsewhere"),
          [e |-> "br"], PptxRun("r", <<"x">>, "macro"), Close},
   slide |-> Comments \cup {[e |-> "notes", id |-> 4], Close}, comments |-> Comments \cup {Close}])

\* Cells of every type, formulas and their cached results, rows and columns
\* given or counted.
NoF == [has |-> FALSE, kind |-> "none", si |-> 0, text |-> <<>>]
F(kind, si, text) == [has |-> TRUE, kind |-> kind, si |-> si, text |-> text]
Cell(column, t, text, style, f) ==
  [e |-> "c", row |-> 0, column |-> column, t |-> t, has |-> TRUE, index |-> 1, text |-> text,
   style |-> style, f |-> f]
Comment(row, column) ==
  [e |-> "comment", at |-> <<row, column>>, author |-> "ann", known |-> TRUE, text |-> <<"x">>]
Name(key, case) == [key |-> key, case |-> case]
Sheet(name, id, worksheet) ==
  [e |-> "sheet", name |-> name, id |-> id, state |-> "visible", worksheet |-> worksheet]
Xlsx(bound, tokens) ==
  [format |-> "xlsx", bound |-> bound, strings |-> <<<<"x">>>>, formats |-> <<0, 14, 1000>>,
   tokens |-> tokens]
Cells == Xlsx(Short,
  [workbook |-> {Sheet(Name("a", "A"), 1, TRUE)},
   sheet |-> {[e |-> "row", row |-> 0], [e |-> "row", row |-> 2]},
   row |-> {Cell(0, "s", <<>>, 0, NoF), Cell(2, "inlineStr", <<"_", "X5", "_">>, 1, NoF),
            Cell(0, "n", <<"7">>, 2, F("none", 0, <<"F">>)),
            Cell(0, "str", <<"_", "X", "_">>, 0, F("shared", 1, <<"F">>)),
            Cell(1, "n", <<>>, 0, F("shared", 1, <<>>)), Cell(2, "n", <<>>, 0, NoF),
            Cell(0, "b", <<"1">>, 1, F("none", 0, <<"quote", "pipe", "quote", "call">>)),
            Cell(0, "inlineStr", <<"s", "k">>, 0, NoF),
            [e |-> "row", row |-> 0], [e |-> "row", row |-> 2]}])

\* Texts that hold escapes, whole and without their end, and control characters; a
\* cached result that is empty; comments, validations and merged ranges.
Escapes == Xlsx(Tiny,
  [workbook |-> {Sheet(Name("a", "A"), 1, TRUE)},
   sheet |-> {[e |-> "row", row |-> 0], [e |-> "merge", range |-> <<1, 1>>],
              [e |-> "validation", formula |-> <<"F">>], [e |-> "layout", code |-> "layout"]},
   row |-> {Cell(0, "inlineStr", <<"_", "X5", "_", "X", "_">>, 0, NoF),            \* _X_
            Cell(0, "inlineStr", <<"_", "X5", "_", "X", "_", "X", "_">>, 0, NoF),  \* _X and a control character
            Cell(0, "inlineStr", <<"_", "X5", "_", "X5", "_", "X", "_">>, 0, NoF),
            Cell(0, "s", <<>>, 0, F("none", 0, <<"F">>)),
            Cell(0, "inlineStr", <<>>, 0, F("none", 0, <<"F">>)), Cell(0, "inlineStr", <<>>, 0, NoF),
            [Comment(2, 1) EXCEPT !.text = <<"_", "X5", "_", "X", "_", "X", "_">>],
            [Comment(1, 2) EXCEPT !.text = <<"_", "X", "_", "X", "_">>]}])

\* Tables and their labels, comments, links, sheets and names with scopes.
Table(id, name, left) ==
  [e |-> "table", id |-> id, name |-> name, top |-> 1, left |-> left, bottom |-> 2, right |-> 2,
   header |-> TRUE, columns |-> IF left = 1 THEN <<"h", "g">> ELSE <<"h">>]
Defined(name, scope, target) ==
  [e |-> "definedName", name |-> name, scope |-> scope, value |-> <<"F">>, target |-> target]
Grid == {[e |-> "row", row |-> 0], Table(1, Name("t", "T"), 1), Table(2, Name("t", "t"), 2),
         Table(2, Name("u", "u"), 2), Comment(2, 1), Comment(1, 2),
         [e |-> "hyperlink", target |-> "web"], [e |-> "hyperlink", target |-> "file"], Close}
Names == {Defined(Name("n", "N"), 0, Name("a", "A")), Defined(Name("n", "n"), 2, Name("b", "B")),
          Defined(Name("n", "n"), 1, Name("c", "C"))}
Sheets == Xlsx(Short,
  [workbook |-> {Sheet(Name("a", "A"), 1, TRUE), Sheet(Name("a", "a"), 2, TRUE),
                 Sheet(Name("b", "B"), 2, FALSE), Sheet(Name("c", "C"), 3, TRUE)} \cup Names,
   names |-> Names,
   sheet |-> Grid,
   row |-> Grid \cup {Cell(0, "s", <<>>, 0, NoF), Cell(2, "s", <<>>, 0, NoF)}])

\* Text on a PDF page: lines, blocks, marked content, gaps, private text.
Op(op) == [op |-> op]
Tj(str) == [op |-> "Tj", str |-> str]
Td(y) == [op |-> "Td", x |-> 0, y |-> y]
Tf(name) == [op |-> "Tf", name |-> name, n |-> 10]
BDC(tag, mcid, actual) == [op |-> "BDC", tag |-> tag, mcid |-> mcid, actual |-> actual]
Simple(encoding, subtype) ==
  [subtype |-> subtype, symbolic |-> FALSE, encoding |-> encoding, differences |-> <<>>,
   to_unicode |-> PDF!Nothing, first_char |-> 0, widths |-> <<>>, w |-> <<>>, default_width |-> 500]
Piece(str, adjust) == [str |-> str, adjust |-> adjust]
Pdf(bound, fonts, forms, tokens) ==
  [format |-> "pdf", bound |-> bound, fonts |-> fonts, forms |-> forms, title |-> PDF!NoText,
   tokens |-> [nofont |-> {Tf("F1")}, page |-> tokens]]
Layout == Pdf(Tiny, [F1 |-> Simple("WinAnsiEncoding", "Type1")], <<>>,
  {Tj(<<115>>), Tj(<<107, 32>>), Tj(<<32, 160>>), Td(-14), Td(-40), Op("BT"), BDC("H1", 0, PDF!NoText),
   Op("EMC"), Op("page"),
   [op |-> "TJ", items |-> <<Piece(<<107>>, 0), Piece(PDF!NoText, -250), Piece(<<115>>, 0)>>]})

\* The graphics state: rotation, spacing, forms that leave it unbalanced or draw themselves.
Form(content) ==
  [subtype |-> "Form", decodes |-> TRUE, matrix |-> <<1, 0, 0, 1, 5, 0>>, content |-> content]
Forms == [A |-> Form(<<Op("Q"), [op |-> "Tz", n |-> 200], Tj(<<115>>), Op("q"), Op("q")>>),
          B |-> Form(<<[op |-> "Do", name |-> "B"]>>),
          C |-> [Form(<<>>) EXCEPT !.decodes = FALSE], I |-> [Form(<<>>) EXCEPT !.subtype = "Image"]]
Drawing == [Pdf(Tiny, [F1 |-> Simple("", "TrueType")], Forms,
  {Tj(<<107, 120>>), Op("q"), Op("Q"),
   [op |-> "cm", m |-> <<0, 1, -1, 0, 0, 0>>], [op |-> "TD", x |-> 0, y |-> -12],
   [op |-> "quote", ws |-> 3, cs |-> 1, str |-> <<120, 32>>], [op |-> "Ts", n |-> 4]}
   \cup {[op |-> "Do", name |-> n] : n \in {"A", "B", "C", "I"}}) EXCEPT !.title = <<8151>>]

\* Lines without an offset, inline images and forms that are not there.
Graphics == Pdf(Tiny, [F1 |-> Simple("", "TrueType")], <<>>,
  {Tj(<<107, 120>>), Op("q"), Op("Q"), Op("BI"), Op("T*"), [op |-> "Do", name |-> "none"]})

\* Strings shown before a font is chosen, after an unknown one, and after a restore;
\* a form that restores what its page saved.
Unfonted == [Pdf(Tiny, [F1 |-> Simple("WinAnsiEncoding", "Type1")],
                 [A |-> Form(<<Op("Q"), Tj(<<120>>)>>)],
  {Tj(<<107>>), Tf("F3"), Op("q"), Op("Q"), BDC("P", 0, <<115>>), Op("EMC"), Op("page"), [op |-> "Do", name |-> "A"]})
  EXCEPT !.tokens.nofont = {Tf("F1"), Tj(<<65>>), Op("q"), Op("Q"), BDC("P", 0, <<115>>), Op("EMC")}]

\* Codes without a character, ToUnicode maps, /Differences, composite fonts, /ActualText.
Unicode == [spaces |-> {[len |-> 1, lo |-> 0, hi |-> 99], [len |-> 2, lo |-> 25600, hi |-> 25700]},
            single |-> (<<1, 65>> :> <<115>>),
            ranges |-> <<[len |-> 1, lo |-> 66, hi |-> 70, many |-> FALSE, to |-> <<102, 107>>],
                         [len |-> 2, lo |-> 25600, hi |-> 25601, many |-> TRUE, to |-> <<<<107>>>>]>>]
Coded == Pdf(Tiny,
  [F1 |-> [Simple("", "Type1") EXCEPT !.differences = <<[name |-> "", code |-> 65],
            [name |-> "bullet"], [name |-> "g17"]>>],
   F2 |-> [Simple("", "Type0") EXCEPT !.to_unicode = Unicode,
            !.w = <<[first |-> 65, list |-> <<500, 1000>>], [first |-> 67, list |-> <<>>, last |-> 70, width |-> 0]>>]],
  <<>>,
  {Tj(<<65>>), Tj(<<39, 66>>), Tj(<<100, 0, 65, 67>>), Tj(<<129>>), Tf("F2"), Tf("F3"), Op("EMC"),
   BDC("P", 1, <<107, 10, 10, 32, 120>>), BDC("Span", PDF!NoChar, <<115, 9>>)})

MCScenarios == {Layout, Drawing, Graphics, Coded, Unfonted, Fields, Wrappers, Tables, Kinds, Bookmarks, Inlines,
                Notes(Long, {"footnotes"}), Notes(Long, {"comments"}), Notes(Short, {"footnotes", "comments"}),
                Shapes, Bodies, Cells, Escapes, Sheets}
=============================================================================
