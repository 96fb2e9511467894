----------------------------- MODULE PdfAdapter -----------------------------
(***************************************************************************)
(* The pages of a PDF, as crates/bran-document/src/pdf.rs projects them,   *)
(* and the tagged PDF it writes from the projection: one text object and   *)
(* one structure element per block.  The projection is read one content    *)
(* operator at a time; the operator "page" ends a page.  The interpreter of *)
(* the content streams comes first.                                        *)
(***************************************************************************)
EXTENDS Integers, Sequences, FiniteSets, SequencesExt, FiniteSetsExt, Functions

(***************************************************************************)
(* Text extraction from the content streams of a PDF page                  *)
(* (crates/bran-document/src/pdf_text.rs) and the tagged export that the   *)
(* same interpreter must read back (export in pdf.rs).  A content stream   *)
(* is a sequence of operators with their operands; a character is its code *)
(* point, a character code its number.  Coordinates are integers and the   *)
(* matrices are axis-aligned, so that lengths are exact; the scale of Tz   *)
(* is a percentage.                                                        *)
(***************************************************************************)

CONSTANTS MaxDepth,        \* limits.max_xml_depth
          MaxTextBytes,    \* limits.max_total_bytes
          MaxCidWidths     \* MAX_CID_WIDTHS

None == "none"           \* no refusal
Nothing == [none |-> TRUE] \* no record
NoChar == -1
NoText == <<NoChar>>

(***************************************************************************)
(* Geometry.                                                               *)
(***************************************************************************)

Identity == <<1, 0, 0, 1, 0, 0>>
Shift(x, y) == <<1, 0, 0, 1, x, y>>

multiply(m, n) ==
  <<m[1] * n[1] + m[2] * n[3], m[1] * n[2] + m[2] * n[4],
    m[3] * n[1] + m[4] * n[3], m[3] * n[2] + m[4] * n[4],
    m[5] * n[1] + m[6] * n[3] + n[5], m[5] * n[2] + m[6] * n[4] + n[6]>>

apply(m, x, y) == <<m[1] * x + m[3] * y + m[5], m[2] * x + m[4] * y + m[6]>>

bounds_of(m, x0, y0, x1, y1) ==
  LET corners == {apply(m, x, y) : x \in {x0, x1}, y \in {y0, y1}}
      xs == {c[1] : c \in corners}
      ys == {c[2] : c \in corners}
  IN <<Min(xs), Min(ys), Max(xs), Max(ys)>>

union(a, b) == <<Min({a[1], b[1]}), Min({a[2], b[2]}), Max({a[3], b[3]}), Max({a[4], b[4]})>>

Abs(n) == IF n < 0 THEN -n ELSE n
Length(x, y) == Max({Abs(x), Abs(y)})

(***************************************************************************)
(* Characters and fonts.                                                   *)
(***************************************************************************)

Blank == 32
NewLine == 10
Replacement == 65533
IsControl(c) == c < 32 \/ c \in 127..159
IsSpace(c) == c \in {9, 10, 13, 32, 133, 160}

\* WinAnsiEncoding: Latin-1 but for 128..159, where five codes are unused.
win_ansi(byte) ==
  CASE byte \in (32..126) \cup (160..255) -> byte
    [] byte \in (128..159) \ {129, 141, 143, 144, 157} -> 8000 + byte
    [] OTHER -> NoChar

\* The text of a code of the given length, or NoText.  A ToUnicode map holds code
\* spaces, single codes and ranges of codes.
CMapLookup(map, length, code) ==
  LET hits == {i \in DOMAIN map.ranges : /\ map.ranges[i].len = length
                                         /\ code \in map.ranges[i].lo .. map.ranges[i].hi}
      range == map.ranges[Min(hits)]
      base == range.to
  IN CASE <<length, code>> \in DOMAIN map.single -> map.single[<<length, code>>]
       [] <<length, code>> \notin DOMAIN map.single /\ hits # {} ->
            IF range.many
            THEN IF code - range.lo + 1 \in DOMAIN base THEN base[code - range.lo + 1] ELSE <<>>
            ELSE [base EXCEPT ![Len(base)] = (@ + code - range.lo) % 65536]
       [] OTHER -> NoText

\* What a simple font's encoding makes of a byte before /Differences.
BaseEncoding(dict, byte) ==
  LET standard == dict.encoding = "" /\ dict.subtype = "Type1"
  IN CASE dict.symbolic -> NoChar
       [] ~dict.symbolic /\ dict.encoding = "WinAnsiEncoding" -> win_ansi(byte)
       [] ~dict.symbolic /\ dict.encoding # "WinAnsiEncoding" ->
            CASE standard /\ byte = 39 -> 8146
              [] standard /\ byte = 96 -> 8145
              [] ~(standard /\ byte \in {39, 96}) /\ byte \in 32..126 -> byte
              [] byte \notin 32..126 /\ dict.encoding = "" /\ ~standard -> win_ansi(byte)
              [] OTHER -> NoChar

\* The glyph names that are known, a few of each kind: a letter, a name of the
\* table, a code point.
GlyphNames == [s |-> 115, k |-> 107, space |-> 32, bullet |-> 8149, quoteright |-> 8146, uni006B |-> 107]
glyph_char(name) == IF name \in DOMAIN GlyphNames THEN GlyphNames[name] ELSE NoChar

\* /Differences: a number sets the code, each glyph name takes one.  A name that
\* is not known leaves its code unmapped, also where the base encoding had one.
Differences(items) ==
  FoldLeft(LAMBDA acc, item :
             IF item.name = "" THEN [acc EXCEPT !.code = item.code]
             ELSE [code |-> acc.code + 1,
                   map |-> [c \in DOMAIN acc.map \cup {acc.code} |->
                              IF c = acc.code THEN glyph_char(item.name) ELSE acc.map[c]]],
           [code |-> 0, map |-> <<>>], items).map

\* The widths of a composite font: a list from a first code on, or one width
\* for a range of codes.  Past the bound the default width stands.
cid_widths(spec) ==
  LET put(map, codes, Width(_)) ==
        [c \in DOMAIN map \cup codes |-> IF c \in codes THEN Width(c) ELSE map[c]]
  IN FoldLeft(LAMBDA map, item :
                IF Cardinality(DOMAIN map) >= MaxCidWidths THEN map
                ELSE IF item.list # <<>>
                THEN put(map, {item.first + i - 1 : i \in 1..Min({Len(item.list), MaxCidWidths})},
                         LAMBDA c : item.list[c - item.first + 1])
                ELSE put(map, item.first .. Min({item.last,
                                item.first + MaxCidWidths - Cardinality(DOMAIN map) - 1}),
                         LAMBDA c : item.width),
              <<>>, spec)

\* Font::load.
FontOf(dict) ==
  LET changed == Differences(dict.differences)
  IN [composite |-> dict.subtype = "Type0",
      to_unicode |-> dict.to_unicode,
      encoding |-> [byte \in 0..255 |-> IF byte \in DOMAIN changed THEN changed[byte]
                                        ELSE BaseEncoding(dict, byte)],
      first_char |-> dict.first_char,
      widths |-> dict.widths,
      cid_widths |-> cid_widths(dict.w),
      default_width |-> dict.default_width]

Code(bytes) == FoldLeft(LAMBDA v, b : v * 256 + b, 0, bytes)

\* How many of the bytes the next code takes.
code_length(font, bytes) ==
  LET fits(n) == /\ font.to_unicode # Nothing
                 /\ \E s \in font.to_unicode.spaces :
                      s.len = n /\ Code(SubSeq(bytes, 1, n)) \in s.lo .. s.hi
      lengths == {n \in 1..Min({4, Len(bytes)}) : fits(n)}
  IN IF lengths # {} THEN Min(lengths) ELSE IF font.composite THEN 2 ELSE 1

\* The first bytes of a string as a glyph, with its text (or NoText) and its width.
Glyph(font, slice, code) ==
  [len |-> Len(slice), code |-> code,
   text |-> IF font.to_unicode # Nothing THEN CMapLookup(font.to_unicode, Len(slice), code)
            ELSE IF font.composite \/ font.encoding[code] = NoChar THEN NoText
            ELSE <<font.encoding[code]>>,
   width |-> CASE font.composite /\ code \in DOMAIN font.cid_widths -> font.cid_widths[code]
               [] ~font.composite /\ code - font.first_char + 1 \in DOMAIN font.widths ->
                    font.widths[code - font.first_char + 1]
               [] OTHER -> font.default_width]

RECURSIVE glyphs(_, _)
\* The string cut into codes.
glyphs(font, bytes) ==
  IF bytes = <<>> THEN <<>>
  ELSE LET length == Min({code_length(font, bytes), Len(bytes)})
       IN <<Glyph(font, SubSeq(bytes, 1, length), Code(SubSeq(bytes, 1, length)))>>
          \o glyphs(font, SubSeq(bytes, length + 1, Len(bytes)))

(***************************************************************************)
(* The interpreter.                                                        *)
(***************************************************************************)

Interpreter(fonts, forms) ==
  [refusal |-> None, fonts |-> fonts, forms |-> forms,
   gs |-> [ctm |-> Identity, font |-> "", size |-> 0, char_space |-> 0, word_space |-> 0,
           scale |-> 100, leading |-> 0, rise |-> 0],
   stack |-> <<>>, marked |-> <<>>, tm |-> Identity, tlm |-> Identity, text_objects |-> 0,
   open |-> Nothing, blocks |-> <<>>, images |-> 0, unmapped |-> FALSE, undecoded |-> FALSE,
   spent |-> 0, pages |-> <<>>]

Refuse(s, why) == [s EXCEPT !.refusal = why]

\* Doc::spend.
spend(s, bytes) ==
  LET t == [s EXCEPT !.spent = @ + bytes]
  IN IF t.spent > MaxTextBytes THEN Refuse(t, "DecompressionLimit") ELSE t

TrimEnd(t) == LET kept == {i \in DOMAIN t : ~IsSpace(t[i])}
              IN IF kept = {} THEN <<>> ELSE SubSeq(t, 1, Max(kept))
Trim(t) == LET kept == {i \in DOMAIN t : ~IsSpace(t[i])}
           IN IF kept = {} THEN <<>> ELSE SubSeq(t, Min(kept), Max(kept))

RECURSIVE Lines(_)
Lines(t) == LET ends == {i \in DOMAIN t : t[i] = NewLine}
            IN IF t = <<>> THEN <<>>
               ELSE IF ends = {} THEN <<t>>
               ELSE <<SubSeq(t, 1, Min(ends) - 1)>> \o Lines(SubSeq(t, Min(ends) + 1, Len(t)))

JoinLines(ls) == FoldLeft(LAMBDA acc, l : IF acc = <<>> THEN l ELSE acc \o <<NewLine>> \o l, <<>>, ls)

\* Trailing blanks and empty lines are dropped, and an empty block altogether.
Tidy(text) == Trim(JoinLines(SelectSeq([i \in DOMAIN Lines(text) |-> TrimEnd(Lines(text)[i])], LAMBDA l : l # <<>>)))
CloseBlock(s, text) ==
  [s EXCEPT !.open = Nothing,
            !.blocks = IF text = <<>> THEN @
                       ELSE Append(@, [text |-> text, bbox |-> s.open.bbox, heading |-> s.open.heading])]
close_block(s) == IF s.open = Nothing THEN s ELSE CloseBlock(s, Tidy(s.open.text))

Innermost(marked, Test(_)) == LET hits == {i \in DOMAIN marked : Test(marked[i])}
                              IN IF hits = {} THEN 0 ELSE Max(hits)
HasMcid(m) == m.mcid # NoChar
block_key(s) == LET i == Innermost(s.marked, HasMcid)
                IN IF i # 0 THEN <<"mcid", s.marked[i].mcid>> ELSE <<"text", s.text_objects>>
heading(s) == LET i == Innermost(s.marked, HasMcid) IN i # 0 /\ s.marked[i].tag \in {"H", "H1", "Title"}

\* Where the run starts, measured along and across the last run's baseline.
Offset(start, last) ==
  LET dx == start[1] - last.x
      dy == start[2] - last.y
  IN [along |-> dx * last.ux + dy * last.uy, across |-> Abs(dx * last.uy - dy * last.ux)]

\* The text joins the open block after a line break, a blank or nothing.
Joined(open, text, start, size) ==
  LET o == Offset(start, open.last)
      breaks == 2 * o.across > Max({open.last.size, size})
      blank == /\ open.gap \/ 100 * o.along > 15 * size
               /\ Last(open.text) # Blank
               /\ Head(text) # Blank
  IN IF open.last = Nothing THEN open.text \o text
     ELSE IF breaks THEN open.text \o <<NewLine>> \o text
     ELSE IF blank THEN open.text \o <<Blank>> \o text
     ELSE open.text \o text

\* A different marked-content sequence or text object, or a gap wider than one
\* and a half lines, starts a new block.
Apart(s, piece) ==
  /\ s.open # Nothing
  /\ \/ s.open.key # block_key(s)
     \/ 2 * Offset(piece.start, s.open.last).across > 3 * Max({s.open.last.size, piece.size})
Join(s, open, text, piece) ==
  [s EXCEPT !.open = [open EXCEPT !.text = Joined(open, text, piece.start, piece.size),
                                  !.bbox = union(@, piece.bbox),
                                  !.last = piece.last,
                                  !.gap = FALSE]]
Place(s, text, piece) ==
  IF s.open # Nothing /\ ~Apart(s, piece) THEN Join(s, s.open, text, piece)
  ELSE Join(close_block(s),
            [key |-> block_key(s), text |-> <<>>, bbox |-> piece.bbox, heading |-> heading(s),
             last |-> Nothing, gap |-> FALSE], text, piece)

\* /ActualText stands for everything shown in its sequence, and is said once.
ActualText(s, shown) ==
  LET i == Innermost(s.marked, LAMBDA m : m.actual # NoText)
  IN IF i = 0 THEN [s |-> s, text |-> shown]
     ELSE [s |-> [s EXCEPT !.marked[i].actual = <<>>], text |-> s.marked[i].actual]

GlyphText(gs) ==
  FlattenSeq([i \in DOMAIN gs |-> IF gs[i].text = NoText THEN <<Replacement>>
                                  ELSE SelectSeq(gs[i].text, LAMBDA c : ~IsControl(c))])

\* How far the glyphs move along the line, and where what they show lies.
Advance(g, all) ==
  FoldLeft(LAMBDA n, x : n + (((x.width * g.size) \div 1000 + g.char_space
                               + (IF x.len = 1 /\ x.code = 32 THEN g.word_space ELSE 0)) * g.scale) \div 100, 0, all)
PieceAt(g, render, advance, end, size, across) ==
  [start |-> apply(render, 0, 0), size |-> size,
   bbox |-> bounds_of(render, 0, g.rise - g.size \div 5, advance, g.rise + (4 * g.size) \div 5),
   last |-> [x |-> end[1], y |-> end[2], size |-> size,
             ux |-> IF across = 0 THEN 0 ELSE render[1] \div across,
             uy |-> IF across = 0 THEN 0 ELSE render[2] \div across]]
Piece(g, render, advance) ==
  PieceAt(g, render, advance, apply(render, advance, 0), Abs(g.size) * Length(render[3], render[4]),
          Length(render[1], render[2]))

PlaceSaid(said, piece) == IF Trim(said.text) = <<>> THEN said.s ELSE Place(said.s, said.text, piece)
ShowAcross(s, all, advance) ==
  IF s.refusal # None THEN s
  ELSE PlaceSaid(ActualText([s EXCEPT !.tm = multiply(Shift(advance, 0), @),
                                      !.unmapped = @ \/ \E i \in DOMAIN all : all[i].text = NoText],
                            GlyphText(all)),
                 Piece(s.gs, multiply(s.tm, s.gs.ctm), advance))
ShowGlyphs(s, all) ==
  ShowAcross(spend(s, FoldLeft(LAMBDA n, x : n + (IF x.text = NoText THEN 1 ELSE Len(x.text)), 0, all)),
             all, Advance(s.gs, all))

\* Shows one string; without a font nothing is shown.
show(s, bytes) == IF s.gs.font = "" THEN s ELSE ShowGlyphs(s, glyphs(FontOf(s.fonts[s.gs.font]), bytes))

move_line(s, x, y) == LET m == multiply(Shift(x, y), s.tlm) IN [s EXCEPT !.tlm = m, !.tm = m]

\* TJ: strings and adjustments in turn; a wide negative adjustment is a gap.
ShowItem(s, item) ==
  IF s.refusal # None THEN s
  ELSE IF item.str # NoText THEN show(s, item.str)
  ELSE LET t == [s EXCEPT !.tm = multiply(Shift((-item.adjust * s.gs.size * s.gs.scale) \div 100000, 0), @)]
       IN IF item.adjust < -200 /\ t.open # Nothing THEN [t EXCEPT !.open.gap = TRUE] ELSE t

RECURSIVE Operator(_, _, _), xobject(_, _, _), run(_, _, _)
\* One operator with its operands.  depth counts the forms that are being drawn.
Operator(s, t, depth) ==
  CASE t.op = "q" -> IF Len(s.stack) >= MaxDepth THEN Refuse(s, "PdfDepthLimit")
                     ELSE [s EXCEPT !.stack = Append(@, s.gs)]
    [] t.op = "Q" -> IF s.stack = <<>> THEN s
                     ELSE [s EXCEPT !.gs = Last(s.stack), !.stack = Front(@)]
    [] t.op = "cm" -> [s EXCEPT !.gs.ctm = multiply(t.m, @)]
    [] t.op = "BT" -> [s EXCEPT !.tm = Identity, !.tlm = Identity, !.text_objects = @ + 1]
    [] t.op = "Tf" -> [s EXCEPT !.gs.size = t.n,
                                !.gs.font = IF t.name \in DOMAIN s.fonts THEN t.name ELSE ""]
    [] t.op = "Tc" -> [s EXCEPT !.gs.char_space = t.n]
    [] t.op = "Tw" -> [s EXCEPT !.gs.word_space = t.n]
    [] t.op = "Tz" -> [s EXCEPT !.gs.scale = t.n]
    [] t.op = "TL" -> [s EXCEPT !.gs.leading = t.n]
    [] t.op = "Ts" -> [s EXCEPT !.gs.rise = t.n]
    [] t.op = "Td" -> move_line(s, t.x, t.y)
    [] t.op = "TD" -> move_line([s EXCEPT !.gs.leading = -t.y], t.x, t.y)
    [] t.op = "Tm" -> [s EXCEPT !.tlm = t.m, !.tm = t.m]
    [] t.op = "T*" -> move_line(s, 0, -s.gs.leading)
    [] t.op = "Tj" -> show(s, t.str)
    [] t.op = "'" -> show(move_line(s, 0, -s.gs.leading), t.str)
    [] t.op = "quote" -> show(move_line([s EXCEPT !.gs.word_space = t.ws, !.gs.char_space = t.cs],
                                        0, -s.gs.leading), t.str)
    [] t.op = "TJ" -> FoldLeft(ShowItem, s, t.items)
    [] t.op = "BDC" -> IF Len(s.marked) >= MaxDepth THEN Refuse(s, "PdfDepthLimit")
                       ELSE [s EXCEPT !.marked = Append(@, [tag |-> t.tag, mcid |-> t.mcid,
                                                            actual |-> t.actual])]
    [] t.op = "EMC" -> IF s.marked = <<>> THEN s ELSE [s EXCEPT !.marked = Front(@)]
    [] t.op = "BI" -> [s EXCEPT !.images = @ + 1]
    [] t.op = "Do" -> xobject(s, t.name, depth)
    [] OTHER -> s

\* What Do draws: an image is recorded, a form is run with the graphics state
\* and the depth of the stack put back afterwards.
xobject(s, name, depth) ==
  IF name \notin DOMAIN s.forms THEN s
  ELSE LET form == s.forms[name]
           inner == run([s EXCEPT !.gs.ctm = multiply(form.matrix, @)], form.content, depth + 1)
       IN CASE form.subtype = "Image" -> [s EXCEPT !.images = @ + 1]
            [] form.subtype = "Form" /\ depth >= MaxDepth -> Refuse(s, "PdfDepthLimit")
            [] form.subtype = "Form" /\ depth < MaxDepth /\ ~form.decodes -> [s EXCEPT !.undecoded = TRUE]
            [] form.subtype = "Form" /\ depth < MaxDepth /\ form.decodes ->
                 IF inner.refusal # None THEN inner
                 ELSE [inner EXCEPT !.gs = s.gs,
                                    !.stack = SubSeq(@, 1, Min({Len(@), Len(s.stack)}))]
            [] OTHER -> s

\* Every run of a content stream counts against the byte budget.
run(s, content, depth) ==
  FoldLeft(LAMBDA t, o : IF t.refusal # None THEN t ELSE Operator(t, o, depth),
           spend(s, Len(content)), content)

Begin(fonts, forms, title) ==
  Interpreter(fonts, forms) @@ [title |-> title, receipts |-> {}]

\* Only a stream that has chosen a font shows anything.
Context(s) == IF s.gs.font = "" THEN "nofont" ELSE "page"

\* The shared check of every emitted string: the marker "sk" is private.
Private(text) == \E i \in 1..Len(text) - 1 : text[i] = 115 /\ text[i + 1] = 107

\* The page is done: its blocks are numbered, and a page that shows images and
\* no text says that no text was recognised.
Told(s) == (IF s.blocks = <<>> /\ s.images > 0 THEN {"ocr-not-run"} ELSE {})
           \cup (IF s.undecoded THEN {"stream-not-decoded"} ELSE {})
           \cup (IF s.unmapped THEN {"text-unmapped-glyphs"} ELSE {})
NextPage(s) ==
  [Interpreter(s.fonts, s.forms) EXCEPT
     !.spent = s.spent, !.pages = Append(s.pages, [blocks |-> s.blocks, images |-> s.images])]
  @@ [title |-> s.title, receipts |-> s.receipts \cup Told(s)]
EndPage(s) == NextPage(close_block(s))

\* The page's content is counted when it is decoded and again when it is run.
Step(s, t) ==
  IF t.op = "page" THEN EndPage(s)
  ELSE LET u == spend(s, 2) IN IF u.refusal # None THEN u ELSE Operator(u, t, 0)

Emitted(s) ==
  (IF s.title = NoText THEN <<>> ELSE <<s.title>>)
  \o FlattenSeq([p \in DOMAIN s.pages |-> [b \in DOMAIN s.pages[p].blocks |-> s.pages[p].blocks[b].text]])

Checked(s) ==
  [s EXCEPT !.receipts = @ \cup IF \E i \in DOMAIN Emitted(s) : Private(Emitted(s)[i]) THEN {"dlp-findings"} ELSE {}]
Finish(s) == IF s.refusal # None THEN s ELSE Checked(EndPage(s))

\* A literal string in WinAnsiEncoding; NoText when a character has no code.
literal(text) ==
  LET codes(c) == {b \in 32..255 : win_ansi(b) = c}
  IN IF \E i \in DOMAIN text : codes(text[i]) = {} THEN NoText
     ELSE [i \in DOMAIN text |-> Min(codes(text[i]))]

\* The operators that show one block, its lines under one another.
BlockContent(block, mcid) ==
  LET size == IF block.heading THEN 16 ELSE 11
      leading == IF block.heading THEN 20 ELSE 14
      lines == Lines(block.text)
      line(i) == (IF i > 1 THEN <<[op |-> "Td", x |-> 0, y |-> -leading]>> ELSE <<>>)
                 \o <<[op |-> "Tj", str |-> literal(lines[i])]>>
  IN <<[op |-> "BDC", tag |-> IF block.heading THEN "H1" ELSE "P", mcid |-> mcid, actual |-> NoText],
       [op |-> "BT"], [op |-> "Tf", name |-> "F1", n |-> size],
       [op |-> "Td", x |-> block.bbox[1], y |-> block.bbox[4] - size]>>
     \o FlattenSeq([i \in DOMAIN lines |-> line(i)])
     \o <<[op |-> "ET"], [op |-> "EMC"]>>

PageContent(page) == FlattenSeq([i \in DOMAIN page.blocks |-> BlockContent(page.blocks[i], i - 1)])

\* The only font of an export.
Helvetica == [F1 |-> [subtype |-> "Type1", symbolic |-> FALSE, encoding |-> "WinAnsiEncoding",
                      differences |-> <<>>, to_unicode |-> Nothing, first_char |-> 0, widths |-> <<>>,
                      w |-> <<>>, default_width |-> 500]]

\* Writes the projection as a new tagged PDF, or refuses: private text never
\* leaves, and text that the font cannot say is not replaced.
Export(s) ==
  LET no(why) == [refusal |-> why]
      lines == FlattenSeq([p \in DOMAIN s.pages |->
                 FlattenSeq([b \in DOMAIN s.pages[p].blocks |-> Lines(s.pages[p].blocks[b].text)])])
  IN CASE "dlp-findings" \in s.receipts \/ (\E i \in DOMAIN Emitted(s) : Private(Emitted(s)[i])) ->
            no("DlpFindings")
       [] OTHER ->
            IF \E i \in DOMAIN lines : literal(lines[i]) = NoText THEN no("ExportUnsupported")
            ELSE [refusal |-> None,
                  removed |-> {f \in {"images"} : \E p \in DOMAIN s.pages : s.pages[p].images > 0},
                  package |-> [title |-> s.title,
                               pages |-> [p \in DOMAIN s.pages |-> PageContent(s.pages[p])]]]

\* The import of such an export.
Read(package) ==
  LET page(s, content) == FoldLeft(LAMBDA t, o : IF t.refusal # None THEN t ELSE Step(t, o), s, content)
      turn(s) == IF s.refusal # None THEN s ELSE EndPage(s)
  IN Finish(FoldLeft(LAMBDA s, i : page(IF i = 1 THEN s ELSE turn(s), package.pages[i]),
                     Begin(Helvetica, <<>>, package.title), [i \in DOMAIN package.pages |-> i]))

\* One anchor per block: its locator and what it says.
Citations(s) ==
  FlattenSeq([p \in DOMAIN s.pages |->
     [b \in DOMAIN s.pages[p].blocks |-> [id |-> <<p, b>>, text |-> s.pages[p].blocks[b].text]]])

\* What an export promises to keep.
Content(s) ==
  [title |-> s.title,
   pages |-> [p \in DOMAIN s.pages |->
                [b \in DOMAIN s.pages[p].blocks |-> [text |-> s.pages[p].blocks[b].text,
                                                     heading |-> s.pages[p].blocks[b].heading]]]]
=============================================================================
