---------------------------- MODULE XlsxAdapter ----------------------------
(***************************************************************************)
(* The XLSX adapter of crates/bran-document/src/xlsx.rs.  A workbook is    *)
(* its shared strings, the number format of every style, and one sequence  *)
(* of tokens: sheets with their rows, cells, links, comments and tables,   *)
(* then the defined names.  Step reads one token, Write gives the tokens   *)
(* of the export.  A text is a sequence of characters; of the escape       *)
(* _xHHHH_ the part between the underscores is one character: "X" spells   *)
(* the control character "c", "X5" spells the underscore itself.  A        *)
(* document with two reasons to be refused is refused for the first met.   *)
(***************************************************************************)
EXTENDS Naturals, Sequences, FiniteSets, SequencesExt

CONSTANTS MaxRow, MaxColumn,   \* MAX_ROW, MAX_COLUMN
          MaxLabelWork         \* 64 * limits.max_xml_nodes

None == "none"
NoValue == [type |-> None, text |-> <<>>]
NoFormula == [kind |-> None, text |-> <<>>, si |-> 0, quarantined |-> FALSE]

\* Number formats: 0 is General, 1..163 a built-in, from 1000 on a custom code.
FirstCustom == 1000

\* struct Reader with the sheet, row and cell it stands at.
Reader(strings, formats) ==
  [strings |-> strings, formats |-> formats, sheets |-> <<>>, open |-> FALSE,
   cells |-> <<>>, merged |-> <<>>, validations |-> <<>>, links |-> <<>>, comments |-> <<>>,
   tables |-> <<>>, row |-> 0, column |-> 0, tableIds |-> {}, tableNames |-> {},
   positions |-> <<>>, named |-> FALSE, names |-> {}, anchors |-> {}, codes |-> {}, refusal |-> None]

Refuse(s, why) == [s EXCEPT !.refusal = why]
Malformed(s) == Refuse(s, "MalformedContainer")
Tell(s, code) == [s EXCEPT !.codes = @ \cup {code}]

(***************************************************************************)
(* Texts and formulas.                                                     *)
(***************************************************************************)

\* xstring_escape_at
EscapeAt(text, i) ==
  /\ i + 2 <= Len(text)
  /\ text[i] = "_" /\ text[i + 1] \in {"X", "X5"} /\ text[i + 2] = "_"

\* encode_xstring: looks for an escape in the text that is encoded, not in
\* what has been written.
Encode(text) ==
  FlattenSeq([i \in DOMAIN text |->
    IF EscapeAt(text, i) THEN <<"_", "X5", "_">>
    ELSE IF text[i] = "c" THEN <<"_", "X", "_">> ELSE <<text[i]>>])

\* decode_xstring: escapes are replaced from left to right.
RECURSIVE Decode(_)
Decode(text) ==
  IF text = <<>> THEN <<>>
  ELSE IF EscapeAt(text, 1)
  THEN <<IF text[2] = "X" THEN "c" ELSE "_">> \o Decode(SubSeq(text, 4, Len(text)))
  ELSE <<text[1]>> \o Decode(Tail(text))

\* active_formula: DDE, another workbook or a calling function outside string
\* literals.
ActiveFormula(formula) ==
  \E i \in DOMAIN formula :
     /\ formula[i] \in {"pipe", "external", "call"}
     /\ Cardinality({j \in 1..(i - 1) : formula[j] = "quote"}) % 2 = 0

Quarantine(s, formula) == IF ActiveFormula(formula) THEN Tell(s, "formula-quarantined") ELSE s

(***************************************************************************)
(* Cells.                                                                  *)
(***************************************************************************)

\* An element without text gives no value; an inline string is there even so.
Given(t) == t.has /\ (t.t \in {"inlineStr", "s"} \/ t.text # <<>>)

\* shared_strings and rich_texts: the runs of an item are one text.
SharedString(s, index) == Decode(s.strings[index])

\* The typed value of typed_cell, or the reason there is none.
ValueWellFormed(s, t) ==
  CASE t.t = "s" -> t.index \in DOMAIN s.strings
    [] t.t = "b" -> t.text \in {<<"0">>, <<"1">>}
    [] t.t = "n" -> t.text = <<"7">>
    [] OTHER -> TRUE
Typed(s, t) ==
  CASE ~Given(t) -> NoValue
    [] t.t = "s" -> [type |-> "string", text |-> SharedString(s, t.index)]
    [] t.t \in {"inlineStr", "str"} -> [type |-> "string", text |-> Decode(t.text)]
    [] OTHER -> [type |-> t.t, text |-> t.text]

\* A style that is missing is only accepted as the default one.
FormatOf(s, t) == IF t.style + 1 \in DOMAIN s.formats THEN s.formats[t.style + 1] ELSE 0
StyleKnown(s, t) == t.style = 0 \/ t.style + 1 \in DOMAIN s.formats

\* The <c> element of worksheet, and typed_cell: its place, its value, its
\* style and its formula.  A cell with neither value nor formula is dropped.
CellToken(s, t) ==
  LET column == IF t.column = 0 THEN s.column + 1 ELSE t.column
      at == <<s.row, column>>
      value == Typed(s, t)
      formula == [kind |-> t.f.kind, text |-> t.f.text, si |-> t.f.si,
                  quarantined |-> ActiveFormula(t.f.text)]
      tableTold == IF t.f.kind = "dataTable" THEN Tell(s, "unsupported-data-table-formula") ELSE s
      told == IF ~t.f.has THEN s
              ELSE IF value.type = None THEN Quarantine(tableTold, t.f.text)
              ELSE Tell(Quarantine(tableTold, t.f.text), "formula-cached-result-not-recalculated")
      cell == [format |-> FormatOf(s, t), value |-> value, hasFormula |-> t.f.has,
               formula |-> IF t.f.has THEN formula ELSE NoFormula]
      placed == [told EXCEPT !.column = column]
  IN IF t.row \notin {0, s.row} \/ column > MaxColumn \/ ~StyleKnown(s, t) THEN Malformed(s)
     ELSE IF Given(t) /\ ~ValueWellFormed(s, t) THEN Malformed(s)
     ELSE IF ~t.f.has /\ ~Given(t) THEN [s EXCEPT !.column = column]
     ELSE IF at \in DOMAIN s.cells THEN Malformed(s)
     ELSE [placed EXCEPT !.cells = [x \in DOMAIN @ \cup {at} |-> IF x = at THEN cell ELSE @[x]]]

\* The <row> element: without a number it follows the row before it.
RowToken(s, t) ==
  LET row == IF t.row = 0 THEN s.row + 1 ELSE t.row
  IN IF row > MaxRow THEN Malformed(s) ELSE [s EXCEPT !.row = row, !.column = 0]

(***************************************************************************)
(* The rest of a sheet.                                                    *)
(***************************************************************************)

\* hyperlink: a target that is not a web or mail address is quarantined.
SafeLink(target) == target \in {None, "web"}
LinkToken(s, t) ==
  LET told == IF SafeLink(t.target) THEN s ELSE Tell(s, "hyperlink-quarantined")
  IN [told EXCEPT !.links = Append(@, [target |-> t.target, quarantined |-> ~SafeLink(t.target)])]

\* dataValidation, with the quarantine of its formula.
ValidationToken(s, t) ==
  [Quarantine(s, t.formula) EXCEPT
     !.validations = Append(@, [formula |-> t.formula, quarantined |-> ActiveFormula(t.formula)])]

\* comments: the author must be known; they are kept in the order of their cells.
Before(a, b) == a[1] < b[1] \/ (a[1] = b[1] /\ a[2] < b[2])
CommentToken(s, t) ==
  IF ~t.known THEN Malformed(s)
  ELSE LET c == [at |-> t.at, author |-> t.author, text |-> Decode(t.text)]
           n == Cardinality({i \in DOMAIN s.comments : ~Before(t.at, s.comments[i].at)})
       IN [s EXCEPT !.comments = InsertAt(@, n + 1, c)]

\* table: as many columns as the range is wide, and a new id and display name.
TableToken(s, t) ==
  IF \/ t.bottom < t.top \/ t.right < t.left \/ Len(t.columns) # t.right - t.left + 1
     \/ t.id \in s.tableIds \/ t.name.key \in s.tableNames
  THEN Malformed(s)
  ELSE LET table == [id |-> t.id, name |-> t.name, top |-> t.top, left |-> t.left,
                     bottom |-> t.bottom, right |-> t.right, header |-> t.header,
                     columns |-> t.columns]
           n == Cardinality({i \in DOMAIN s.tables :
                               ~Before(<<t.top, t.left>>, <<s.tables[i].top, s.tables[i].left>>)})
       IN [s EXCEPT !.tables = InsertAt(@, n + 1, table), !.tableIds = @ \cup {t.id},
                    !.tableNames = @ \cup {t.name.key}]

Blank(text) == \A i \in DOMAIN text : text[i] = " "

\* cell_text: a formula cell shows its formula and its cached result.
CellText(cell) ==
  LET f == cell.formula
      shown == IF f.text = <<>> /\ f.si # 0 THEN <<"=", "shared">> ELSE <<"=">> \o f.text
  IN IF ~cell.hasFormula THEN cell.value.text
     ELSE IF cell.value.type = None THEN shown
     ELSE shown \o <<"[cached:">> \o cell.value.text \o <<"]">>

\* The header row of a cell: its table's, otherwise the first row.
HeaderRow(tables, at) ==
  LET over == {i \in DOMAIN tables : /\ tables[i].header
                                     /\ at[2] \in tables[i].left..tables[i].right
                                     /\ at[1] \in tables[i].top..tables[i].bottom}
  IN IF over = {} THEN 1 ELSE tables[CHOOSE i \in over : \A j \in over : i <= j].top

\* label_and_anchor: the labels of a cell.
Labels(cells, tables, at) ==
  LET string(p) == /\ p \in DOMAIN cells /\ ~cells[p].hasFormula
                   /\ cells[p].value.type = "string" /\ ~Blank(cells[p].value.text)
      label(p, there) == IF there /\ string(p) THEN cells[p].value.text ELSE <<>>
      header == HeaderRow(tables, at)
  IN [column |-> label(<<header, at[2]>>, at[1] > header),
      row |-> label(<<at[1], 1>>, at[2] > 1)]

\* The end of a sheet: its anchors are added and the sheet is kept.  Anchors
\* whose text is blank are not citable.
CloseSheet(s) ==
  LET sheet == Last(s.positions)
      labelled == [at \in DOMAIN s.cells |->
                     [cell |-> s.cells[at], labels |-> Labels(s.cells, s.tables, at)]]
      anchors == {[id |-> <<sheet.id, "sheet", 0, 0>>, text |-> <<sheet.name.case>>]}
        \cup {[id |-> <<sheet.id, "cell", at[1], at[2]>>, text |-> CellText(s.cells[at])] :
                at \in DOMAIN s.cells}
        \cup {[id |-> <<sheet.id, "table", s.tables[i].id, 0>>,
               text |-> <<s.tables[i].name.case>> \o s.tables[i].columns] : i \in DOMAIN s.tables}
      kept == [name |-> sheet.name, id |-> sheet.id, state |-> sheet.state, cells |-> labelled,
               merged |-> s.merged, validations |-> s.validations, links |-> s.links,
               comments |-> s.comments, tables |-> s.tables]
  IN IF Cardinality(DOMAIN s.cells) * Len(s.tables) > MaxLabelWork THEN Refuse(s, "XmlNodeLimit")
     ELSE [s EXCEPT !.open = FALSE, !.sheets = Append(@, kept),
                    !.anchors = @ \cup {a \in anchors : ~Blank(a.text)}]

(***************************************************************************)
(* The workbook.                                                           *)
(***************************************************************************)

\* The sheets of workbook: name and id are new and the state is one of three;
\* what is no worksheet keeps its position only.
SheetToken(s, t) ==
  LET entry == [name |-> t.name, id |-> t.id, state |-> t.state, worksheet |-> t.worksheet]
      at == [s EXCEPT !.positions = Append(@, entry)]
  IN IF \/ t.state \notin {"visible", "hidden"}
        \/ \E i \in DOMAIN s.positions : \/ s.positions[i].name.key = t.name.key
                                         \/ s.positions[i].id = t.id
     THEN Malformed(s)
     ELSE IF ~t.worksheet THEN Tell(at, "unsupported-sheet")
     ELSE [at EXCEPT !.open = TRUE, !.cells = <<>>, !.merged = <<>>, !.validations = <<>>,
                     !.links = <<>>, !.comments = <<>>, !.tables = <<>>, !.row = 0, !.column = 0]

\* A defined name: local to the sheet at a position, unique with its scope, and
\* anchored when it names cells of a sheet that was read.
NameToken(s, t) ==
  LET local == t.scope # 0
      sheet == s.positions[t.scope]
      scope == IF local THEN sheet.name ELSE [key |-> None, case |-> None]
      scopeId == IF local THEN sheet.id ELSE 0
      name == [name |-> t.name, value |-> t.value, target |-> t.target, scope |-> scope,
               quarantined |-> ActiveFormula(t.value)]
      read == {s.positions[i].name : i \in {j \in DOMAIN s.positions : s.positions[j].worksheet}}
      anchor == [id |-> <<scopeId, "name", t.name.case, 0>>, text |-> <<t.name.case, "=">> \o t.value]
  IN IF local /\ t.scope \notin DOMAIN s.positions THEN Malformed(s)
     ELSE IF local /\ ~sheet.worksheet THEN Tell(s, "unsupported-defined-name")
     ELSE IF \E n \in s.names : n.name.key = t.name.key /\ n.scope.key = scope.key THEN Malformed(s)
     ELSE [Quarantine(s, t.value) EXCEPT
             !.names = @ \cup {name},
             !.anchors = IF t.target \in read THEN @ \cup {anchor} ELSE @]

\* Names are worked out once all sheets are read.
Context(s) == IF s.open THEN (IF s.row = 0 THEN "sheet" ELSE "row")
              ELSE IF s.named THEN "names" ELSE "workbook"

\* One token.
Step(s, t) ==
  CASE s.refusal # None -> s
    [] t.e = "sheet" -> SheetToken(s, t)
    [] t.e = "row" -> RowToken(s, t)
    [] t.e = "c" -> CellToken(s, t)
    [] t.e = "merge" -> [s EXCEPT !.merged = Append(@, t.range)]
    [] t.e = "validation" -> ValidationToken(s, t)
    [] t.e = "hyperlink" -> LinkToken(s, t)
    [] t.e = "comment" -> CommentToken(s, t)
    [] t.e = "table" -> TableToken(s, t)
    [] t.e = "layout" -> Tell(s, t.code)   \* layout, settings and what leftovers reports
    [] t.e = "close" -> CloseSheet(s)
    [] t.e = "definedName" -> NameToken([s EXCEPT !.named = TRUE], t)

HasMarker(text) == \E i \in 1..(Len(text) - 1) : text[i] = "s" /\ text[i + 1] = "k"

\* Every text the projection carries (collect_strings).
Texts(s) ==
  UNION {{s.sheets[i].cells[at].cell.value.text : at \in DOMAIN s.sheets[i].cells}
         \cup {s.sheets[i].comments[j].text : j \in DOMAIN s.sheets[i].comments} :
           i \in DOMAIN s.sheets}

\* import after the last token.
Finish(s) ==
  LET closed == IF s.open THEN CloseSheet(s) ELSE s
  IN IF s.refusal # None THEN s
     ELSE IF \E text \in Texts(closed) : HasMarker(text)
     THEN Tell(closed, "public-boundary-violation") ELSE closed

Citations(s) == s.anchors
Content(s) == [sheets |-> s.sheets, names |-> s.names]

(***************************************************************************)
(* The export.                                                             *)
(***************************************************************************)

\* The <f> element of Writer::cell.
WriteFormula(f) == [has |-> TRUE, kind |-> f.kind, si |-> f.si, text |-> f.text]

\* value_xml: how a value is typed; strings are inline, a formula's cached
\* string is a plain value.
WrittenType(cell) ==
  CASE cell.value.type = "string" -> IF cell.hasFormula THEN "str" ELSE "inlineStr"
    [] cell.value.type = None -> "n"
    [] OTHER -> cell.value.type

\* Writer::cell
WriteCell(at, cell, formats) ==
  LET v == cell.value
      string == v.type = "string"
  IN [e |-> "c", row |-> at[1], column |-> at[2], index |-> 0,
      t |-> WrittenType(cell),
      has |-> v.type # None,
      text |-> IF string THEN Encode(v.text) ELSE v.text,
      style |-> IF cell.format = 0 THEN 0
                ELSE (CHOOSE i \in DOMAIN formats : formats[i] = cell.format) - 1,
      f |-> IF cell.hasFormula THEN WriteFormula(cell.formula)
            ELSE [has |-> FALSE, kind |-> None, si |-> 0, text |-> <<>>]]

\* The styles of Writer::workbook: General, then every format a cell uses.
FormatsOf(sheets) ==
  LET used == UNION {{sheets[i].cells[at].cell.format : at \in DOMAIN sheets[i].cells} :
                       i \in DOMAIN sheets} \ {0}
  IN <<0>> \o SetToSortSeq(used, <)

\* Writer::worksheet: rows and cells in order, then the rest of the sheet.
WriteSheet(sheet, formats) ==
  LET rows == SetToSortSeq({at[1] : at \in DOMAIN sheet.cells}, <)
      columns(r) == SetToSortSeq({at[2] : at \in {x \in DOMAIN sheet.cells : x[1] = r}}, <)
      cells(r) == [i \in DOMAIN columns(r) |->
                     WriteCell(<<r, columns(r)[i]>>, sheet.cells[<<r, columns(r)[i]>>].cell, formats)]
      row(r) == <<[e |-> "row", row |-> r]>> \o cells(r)
      comment(c) == [e |-> "comment", at |-> c.at, author |-> c.author, known |-> TRUE,
                     text |-> Encode(c.text)]
      table(t) == [e |-> "table", id |-> t.id, name |-> t.name, top |-> t.top, left |-> t.left,
                   bottom |-> t.bottom, right |-> t.right, header |-> t.header,
                   columns |-> t.columns]
  IN <<[e |-> "sheet", name |-> sheet.name, id |-> sheet.id, state |-> sheet.state,
        worksheet |-> TRUE]>>
     \o FlattenSeq([i \in DOMAIN rows |-> row(rows[i])])
     \o [i \in DOMAIN sheet.merged |-> [e |-> "merge", range |-> sheet.merged[i]]]
     \o [i \in DOMAIN sheet.validations |->
           [e |-> "validation", formula |-> sheet.validations[i].formula]]
     \o [i \in DOMAIN sheet.links |-> [e |-> "hyperlink", target |-> sheet.links[i].target]]
     \o [i \in DOMAIN sheet.comments |-> comment(sheet.comments[i])]
     \o [i \in DOMAIN sheet.tables |-> table(sheet.tables[i])]
     \o <<[e |-> "close"]>>

\* The defined names of Writer::workbook; a scope is written as the position
\* its sheet has in the export.
WriteNames(s) ==
  LET position(scope) == IF scope.key = None THEN 0
                         ELSE CHOOSE i \in DOMAIN s.sheets : s.sheets[i].name.key = scope.key
      name(n) == [e |-> "definedName", name |-> n.name, value |-> n.value, target |-> n.target,
                  scope |-> position(n.scope)]
      all == SetToSeq(s.names)
  IN [i \in DOMAIN all |-> name(all[i])]

AllCells(s) ==
  UNION {{s.sheets[i].cells[at].cell : at \in DOMAIN s.sheets[i].cells} : i \in DOMAIN s.sheets}

\* What would run or reach out when the workbook is opened.
Active(s) ==
  \/ \E c \in AllCells(s) : ActiveFormula(c.formula.text)
  \/ \E n \in s.names : ActiveFormula(n.value)
  \/ \E i \in DOMAIN s.sheets :
       \/ \E j \in DOMAIN s.sheets[i].validations : ActiveFormula(s.sheets[i].validations[j].formula)
       \/ \E j \in DOMAIN s.sheets[i].links : ~SafeLink(s.sheets[i].links[j].target)

\* What the writer has no form for.
Unsupported(s) ==
  \/ s.sheets = <<>>
  \/ \E i \in DOMAIN s.sheets : s.sheets[i].id = 0
  \/ \E c \in AllCells(s) : \/ c.format \in 164..(FirstCustom - 1)
                            \/ c.formula.kind \notin {None, "shared", "array"}

\* export
Export(s) ==
  IF "public-boundary-violation" \in s.codes THEN [refusal |-> "PublicBoundary"]
  ELSE IF Unsupported(s) THEN [refusal |-> "ExportUnsupported"]
  ELSE IF Active(s) THEN [refusal |-> "ActiveContent"]
  ELSE LET formats == FormatsOf(s.sheets)
       IN [refusal |-> None,
           package |-> [formats |-> formats,
                        tokens |-> FlattenSeq([i \in DOMAIN s.sheets |->
                                     WriteSheet(s.sheets[i], formats)]) \o WriteNames(s)]]

Read(package) == Finish(FoldLeft(Step, Reader(<<>>, package.formats), package.tokens))
=============================================================================
