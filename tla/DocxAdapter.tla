---------------------------- MODULE DocxAdapter ----------------------------
(***************************************************************************)
(* The DOCX adapter of crates/bran-document/src/docx.rs: WordprocessingML  *)
(* to the flow model and back.  A package is a record of what the parts    *)
(* hold: paragraph styles, list definitions, and one sequence of XML       *)
(* tokens for the body, the footnotes, the endnotes and the comments.  A   *)
(* token is an opening tag with the attributes that are read; the elements *)
(* the code skips whole are one token.  Begin, Step and Finish are the     *)
(* import, Write is the export.  A text is a sequence of characters: "bad" *)
(* is one that XML cannot carry, and "s" directly before "k" is a marker   *)
(* that the public boundary refuses.                                       *)
(***************************************************************************)
EXTENDS Naturals, Sequences, FiniteSets, SequencesExt

CONSTANTS MaxModelBytes,    \* limits.max_total_bytes, in the bytes counted here
          MaxBlockNesting   \* MAX_BLOCK_NESTING

Exact == 0
Normalized == 1
Approximated == 2
Unsupported == 3

None == "none"

\* The parts that carry text, in the order read visits them.
Parts == <<"document", "footnotes", "endnotes", "comments">>

NoRun == [open |-> FALSE]
NoProps == [style |-> None, num |-> 0, level |-> 0, outline |-> 9, section |-> FALSE]
NoPar == [open |-> FALSE, body |-> FALSE, props |-> NoProps, inlines |-> <<>>]

EmptyContent == [document |-> <<>>, footnotes |-> <<>>, endnotes |-> <<>>,
                 comments |-> <<>>, assets |-> {}]

\* struct Importer, with the open elements of the recursive descent: stack
\* holds the block containers, frames the inline wrappers of the paragraph.
Importer(styles, numbering) ==
  [part |-> "", stack |-> <<>>, par |-> NoPar, frames |-> <<>>, run |-> NoRun,
   fields |-> <<>>, bookmarks |-> <<>>, names |-> {}, ids |-> {},
   styles |-> styles, numbering |-> numbering,
   content |-> EmptyContent, fidelity |-> <<>>, bytes |-> 0, refusal |-> None]

Refuse(s, why) == [s EXCEPT !.refusal = why]

\* Importer::note: the worst status of a feature wins.
Note(s, feature, status) ==
  LET old == IF feature \in DOMAIN s.fidelity THEN s.fidelity[feature] ELSE status
      worst == IF old > status THEN old ELSE status
  IN [s EXCEPT !.fidelity = [f \in DOMAIN @ \cup {feature} |->
                                IF f = feature THEN worst ELSE @[f]]]

\* Importer::reserve_model
Reserve(s, bytes) ==
  IF s.bytes + bytes > MaxModelBytes THEN Refuse(s, "Oversized")
  ELSE [s EXCEPT !.bytes = @ + bytes]

CleanText(text) == SelectSeq(text, LAMBDA c : c # "bad")

\* Mutant of Clean: what is dropped is not recorded.
CleanSilently(s, text) == s

\* Importer::clean: what XML 1.0 cannot carry is dropped, and that is recorded.
Clean(s, text) == IF CleanText(text) = text THEN s ELSE Note(s, "text", Normalized)

(***************************************************************************)
(* Styles and numbering.                                                   *)
(***************************************************************************)

\* read_styles: the first definition of an id counts, and so does the first
\* paragraph style marked as default.
FirstWith(entries, Test(_)) ==
  LET hits == {i \in DOMAIN entries : Test(entries[i])}
  IN IF hits = {} THEN [id |-> None]
     ELSE entries[CHOOSE i \in hits : \A j \in hits : i <= j]
StyleOf(s, id) == FirstWith(s.styles, LAMBDA e : e.id = id)
DefaultStyle(s) == FirstWith(s.styles, LAMBDA e : e.default).id

\* The styles kind visits: along based_on, stopping at an unknown style, at one
\* seen before and at the nesting limit.
RECURSIVE StyleChain(_, _, _)
StyleChain(s, id, seen) ==
  LET style == StyleOf(s, id)
  IN IF style.id = None \/ id \in seen \/ Cardinality(seen) >= MaxBlockNesting THEN <<>>
     ELSE <<style>> \o StyleChain(s, style.based, seen \cup {id})

\* The first value along the chain that is set; 0 (num), 9 (outline) and None
\* (name) stand for an absent one.
FirstSet(values, unset) ==
  LET set == SelectSeq(values, LAMBDA v : v # unset) IN IF set = <<>> THEN unset ELSE set[1]

\* Importer::kind with the features it records.
KindOf(s, props) ==
  LET start == IF props.style # None THEN props.style ELSE DefaultStyle(s)
      chain == StyleChain(s, start, {})
      outline == FirstSet(<<props.outline>> \o [i \in DOMAIN chain |-> chain[i].outline], 9)
      num == FirstSet(<<props.num>> \o [i \in DOMAIN chain |-> chain[i].num], 0)
      named == FirstSet([i \in DOMAIN chain |-> chain[i].name], None)
      formats == {e \in Range(s.numbering) : e.num = num}
  IN IF outline < 9 \/ named = "heading"
     THEN [kind |-> "heading", level |-> IF outline < 9 THEN outline + 1 ELSE 1,
           notes |-> IF num # 0 THEN {"headings", "lists"} ELSE {"headings"}]
     ELSE IF named \in {"title", "caption"}
     THEN [kind |-> named, level |-> 0,
           notes |-> {IF named = "title" THEN "headings" ELSE "captions"}]
     ELSE IF num = 0 THEN [kind |-> "body", level |-> 0, notes |-> {}]
     ELSE IF formats = {} THEN [kind |-> "body", level |-> 0, notes |-> {"lists"}]
     ELSE [kind |-> "list", num |-> num, level |-> props.level,
           format |-> (CHOOSE e \in formats : TRUE).format, notes |-> {"lists"}]

NoteAll(s, features) == FoldSet(LAMBDA f, acc : Note(acc, f, Normalized), s, features)

(***************************************************************************)
(* Block containers.                                                       *)
(***************************************************************************)

Top(s) == Last(s.stack)
Push(s, frame) == [s EXCEPT !.stack = Append(@, frame)]
Pop(s) == [s EXCEPT !.stack = Front(@)]
AddTo(s, item) == [s EXCEPT !.stack[Len(s.stack)].out = Append(@, item)]

\* Importer::blocks at its entry.
OpenStory(s, of, depth, body, att) ==
  IF depth > MaxBlockNesting THEN Refuse(s, "XmlDepthLimit")
  ELSE Push(s, [k |-> "story", of |-> of, depth |-> depth, body |-> body, att |-> att,
                out |-> <<>>])

\* Importer::enter: an unterminated bookmark or field of the part left behind
\* is recorded, and neither survives the part.
Enter(s, part) ==
  LET a == IF s.bookmarks = <<>> THEN s ELSE Note(s, "bookmarks", Normalized)
      b == IF a.fields = <<>> THEN a ELSE Note(a, "fields", Approximated)
  IN [b EXCEPT !.bookmarks = <<>>, !.fields = <<>>, !.ids = {}, !.part = part]

\* body, notes and comments up to their first token.
BeginPart(s, part) ==
  LET e == Enter(s, part)
  IN IF part = "document" THEN OpenStory(e, "body", 0, TRUE, None) ELSE e

EmptyParagraph == [b |-> "p", kind |-> [kind |-> "body", level |-> 0], section |-> FALSE,
                   inlines |-> <<>>]

\* Importer::story: a cell, note or comment ends with a paragraph.
Story(s, feature) ==
  LET blocks == Top(s).out
  IN IF blocks # <<>> /\ Last(blocks).b = "p" THEN s
     ELSE AddTo(Note(s, feature, Normalized), EmptyParagraph)

\* The end of a container: what it built goes to the container around it.
CloseContainer(s) ==
  LET f == Top(s)
      told == CASE f.k = "story" /\ f.of = "item" -> Story(s, s.part)
                [] f.k = "story" /\ f.of = "cell" -> Story(s, "tables")
                [] OTHER -> s
      out == Top(told).out
      p == Pop(told)
  IN CASE f.k = "row" -> IF out = <<>> THEN p ELSE AddTo(p, out)
       [] f.k = "tbl" -> IF out = <<>> THEN p ELSE AddTo(p, [b |-> "tbl", rows |-> out])
       [] f.of = "body" -> [p EXCEPT !.content.document = out]
       [] f.of = "item" ->
            [p EXCEPT !.content[s.part] = Append(@, [id |-> f.att, blocks |-> out])]
       [] f.of = "cell" -> AddTo(p, [span |-> f.att.span, merge |-> f.att.merge, blocks |-> out])
       [] f.of = "sdt" -> [p EXCEPT !.stack[Len(p.stack)].out = @ \o out]

\* A child of a story: Importer::blocks.
BlockToken(s, t) ==
  LET f == Top(s)
  IN CASE t.e = "p" -> [s EXCEPT !.par = [NoPar EXCEPT !.open = TRUE, !.body = f.body]]
       [] t.e = "tbl" -> IF f.depth + 1 > MaxBlockNesting THEN Refuse(s, "XmlDepthLimit")
                         ELSE Push(Note(s, "tables", Normalized),
                                   [k |-> "tbl", depth |-> f.depth + 1, out |-> <<>>])
       [] t.e = "sdt" -> OpenStory(Note(s, "content-controls", Normalized), "sdt",
                                   f.depth + 1, f.body, None)
       [] t.e = "sectPr" -> Note(s, "sections", Normalized)
       [] t.e \in {"bookmarkStart", "bookmarkEnd"} -> Note(s, "bookmarks", Normalized)
       [] t.e = "commentRange" -> Note(s, "comments", Normalized)
       [] t.e = "unsupported" -> Note(s, t.feature, Unsupported)

\* A child of a table or of a row: Importer::table, row and cell.  A span
\* outside 1..63 counts as 1.
TableToken(s, t) ==
  LET f == Top(s)
  IN CASE t.e = "tr" -> Push(s, [k |-> "row", depth |-> f.depth, out |-> <<>>])
       [] t.e = "tc" -> OpenStory(s, "cell", f.depth, FALSE,
                          [span |-> IF t.span \in 1..63 THEN t.span ELSE 1, merge |-> t.merge])
       [] t.e = "trPr" -> Note(s, "table-row-changes", Unsupported)
       [] t.e = "unsupported" -> Note(s, t.feature, Unsupported)

\* A child of a notes or comments part: separators are layout, and an id that
\* repeats (or does not parse) is skipped with its text.
ItemToken(s, t) ==
  IF t.separator THEN s
  ELSE LET n == Note(s, s.part, Normalized)
       IN IF t.id \in s.ids THEN n
          ELSE OpenStory([n EXCEPT !.ids = @ \cup {t.id}], "item", 0, FALSE, t.id)

(***************************************************************************)
(* Paragraphs and runs.                                                    *)
(***************************************************************************)

InnermostOf(s, what) ==
  LET hits == {i \in DOMAIN s.frames : s.frames[i].what = what}
  IN IF hits = {} THEN None ELSE s.frames[CHOOSE i \in hits : \A j \in hits : j <= i].val

AddInline(s, inline) == [s EXCEPT !.par.inlines = Append(@, inline)]

\* link_bytes and change_bytes, with one byte for a target and for an author.
MetadataBytes(link, change) == (IF link = None THEN 0 ELSE 1) + (IF change = None THEN 0 ELSE 1)

\* Importer::emit
Emit(s, content, payload) ==
  AddInline(Reserve(s, payload + MetadataBytes(s.run.link, s.run.change)),
            [i |-> "run", content |-> content, bold |-> s.run.bold,
             link |-> s.run.link, change |-> s.run.change])

\* Text read so far is emitted before an image or a reference, and at the end.
Flush(s) ==
  IF s.run.text = <<>> THEN s
  ELSE [Emit(s, [c |-> "text", text |-> s.run.text], Len(s.run.text)) EXCEPT !.run.text = <<>>]

\* A bookmark needs an id and a name not used before in any part.
BookmarkStart(s, t) ==
  IF t.name \in s.names THEN Note(s, "bookmarks", Normalized)
  ELSE LET name == CleanText(t.name)
           n == Note(Clean([s EXCEPT !.names = @ \cup {t.name}], t.name), "bookmarks", Exact)
       IN AddInline([n EXCEPT !.bookmarks = [x \in DOMAIN @ \cup {t.id} |->
                                                IF x = t.id THEN name ELSE @[x]]],
                    [i |-> "bookmarkStart", name |-> name])

BookmarkEnd(s, t) ==
  IF t.id \notin DOMAIN s.bookmarks THEN Note(s, "bookmarks", Normalized)
  ELSE AddInline([s EXCEPT !.bookmarks = [x \in DOMAIN @ \ {t.id} |-> @[x]]],
                 [i |-> "bookmarkEnd", name |-> s.bookmarks[t.id]])

\* Importer::link: an id that names no external hyperlink gives no link.
LinkOf(t) == IF t.target = "dangling" THEN None ELSE t.target

\* A child of a paragraph: Importer::paragraph, with paragraph_properties,
\* link and change.
ParagraphToken(s, t) ==
  CASE t.e = "pPr" ->
         [NoteAll(s, IF t.props.section THEN {"sections"} ELSE {}) EXCEPT !.par.props = t.props]
    [] t.e = "hyperlink" ->
         [Note(s, "hyperlinks", IF LinkOf(t) = None THEN Normalized ELSE Exact)
            EXCEPT !.frames = Append(@, [what |-> "link", val |-> LinkOf(t)])]
    [] t.e = "change" ->
         [Note(s, "tracked-changes",
               IF InnermostOf(s, "change") = None THEN Exact ELSE Approximated)
            EXCEPT !.frames = Append(@, [what |-> "change", val |-> t.kind])]
    [] t.e = "wrapper" ->   \* fldSimple, sdt, sdtContent, smartTag and the like
         [IF t.feature = None THEN s ELSE Note(s, t.feature, Normalized)
            EXCEPT !.frames = Append(@, [what |-> "plain", val |-> None])]
    [] t.e = "bookmarkStart" -> BookmarkStart(s, t)
    [] t.e = "bookmarkEnd" -> BookmarkEnd(s, t)
    [] t.e = "commentRange" -> AddInline(s, [i |-> "commentRange", id |-> t.id])
    [] t.e = "unsupported" -> Note(s, t.feature, Unsupported)
    [] t.e = "r" ->
         LET link == InnermostOf(s, "link")
             change == InnermostOf(s, "change")
         IN [Reserve(s, MetadataBytes(link, change)) EXCEPT
               !.run = [open |-> TRUE, bold |-> FALSE, link |-> link, change |-> change,
                        text |-> <<>>]]

\* Content between a field's begin and its separate is the field's code.
Hidden(s) == \E i \in DOMAIN s.fields : s.fields[i]

AddText(s, text) == IF Hidden(s) THEN s ELSE [s EXCEPT !.run.text = @ \o text]

\* Importer::drawing: an image whose part is missing is recorded and dropped;
\* the bytes of one that is there become an asset even inside a field code.
Drawing(s, t) ==
  IF t.asset = None THEN Note(s, t.feature, Unsupported)
  ELSE LET n == [Note(s, "images", Exact) EXCEPT !.content.assets = @ \cup {t.asset}]
       IN IF Hidden(s) THEN n ELSE Emit(Flush(n), [c |-> "image", asset |-> t.asset], 1)

\* A child of a run: Importer::run.
RunToken(s, t) ==
  CASE t.e = "rPr" -> [s EXCEPT !.run.bold = t.bold]
    [] t.e = "t" -> IF Hidden(s) THEN s ELSE AddText(Clean(s, t.text), CleanText(t.text))
    [] t.e = "break" -> AddText(IF t.plain THEN s ELSE Note(s, "breaks", Normalized), <<t.char>>)
    [] t.e = "fldChar" ->
         LET n == Note(s, "fields", Normalized)
         IN [n EXCEPT !.fields =
               CASE t.type = "begin" -> Append(@, TRUE)
                 [] t.type = "separate" -> IF @ = <<>> THEN @ ELSE [@ EXCEPT ![Len(@)] = FALSE]
                 [] t.type = "end" -> IF @ = <<>> THEN @ ELSE Front(@)]
    [] t.e = "drawing" -> Drawing(s, t)
    [] t.e = "ref" -> IF Hidden(s) THEN s
                      ELSE Emit(Flush(s), [c |-> "ref", to |-> t.to, id |-> t.id], 0)
    [] t.e = "mark" -> s    \* footnoteRef, instrText and the like
    [] t.e = "unsupported" -> Note(s, t.feature, Unsupported)

\* The end of a paragraph: its kind is worked out with the styles at hand, and
\* only a paragraph of the body may end a section.
CloseParagraph(s) ==
  LET kind == KindOf(s, s.par.props)
      block == [b |-> "p",
                kind |-> [x \in DOMAIN kind \ {"notes"} |-> kind[x]],
                section |-> s.par.body /\ s.par.props.section,
                inlines |-> s.par.inlines]
  IN AddTo([NoteAll(s, kind.notes) EXCEPT !.par = NoPar], block)

CloseElement(s) ==
  IF s.run.open THEN [Flush(s) EXCEPT !.run = NoRun]
  ELSE IF s.frames # <<>> THEN [s EXCEPT !.frames = Front(@)]
  ELSE IF s.par.open THEN CloseParagraph(s)
  ELSE CloseContainer(s)

\* Which element's children the next token is among.
Context(s) ==
  IF s.run.open THEN "run" ELSE IF s.par.open THEN "p"
  ELSE IF s.stack # <<>> THEN Top(s).k
  ELSE IF s.part = "document" THEN "end" ELSE "part"

\* One token.  A refusal ends the import.
Step(s, t) ==
  IF s.refusal # None THEN s
  ELSE IF t.e = "close" THEN CloseElement(s)
  ELSE CASE Context(s) = "run" -> RunToken(s, t)
         [] Context(s) = "p" -> ParagraphToken(s, t)
         [] Context(s) = "story" -> BlockToken(s, t)
         [] Context(s) \in {"tbl", "row"} -> TableToken(s, t)
         [] Context(s) = "part" -> ItemToken(s, t)

\* The rest of the part is closing tags only.
RECURSIVE CloseAll(_)
CloseAll(s) ==
  IF s.refusal # None \/ Context(s) \in {"part", "end"} THEN s ELSE CloseAll(CloseElement(s))

(***************************************************************************)
(* The end of the import.                                                  *)
(***************************************************************************)

IdsOf(content, part) == {content[part][i].id : i \in DOMAIN content[part]}

\* Importer::prune: references to notes and comments that do not exist go.
RECURSIVE PruneBlocks(_, _)
PruneBlocks(blocks, content) ==
  LET kept(inline) ==
        CASE inline.i = "commentRange" -> inline.id \in IdsOf(content, "comments")
          [] inline.i = "run" -> \/ inline.content.c # "ref"
                                 \/ inline.content.id \in IdsOf(content, inline.content.to)
          [] OTHER -> TRUE
      row(r) == [i \in DOMAIN r |-> [r[i] EXCEPT !.blocks = PruneBlocks(@, content)]]
  IN [i \in DOMAIN blocks |->
        IF blocks[i].b = "p" THEN [blocks[i] EXCEPT !.inlines = SelectSeq(@, kept)]
        ELSE [blocks[i] EXCEPT !.rows = [j \in DOMAIN @ |-> row(@[j])]]]

Prune(s) ==
  LET items(part) == [i \in DOMAIN s.content[part] |->
                        [s.content[part][i] EXCEPT !.blocks = PruneBlocks(@, s.content)]]
      pruned == [document |-> PruneBlocks(s.content.document, s.content),
                 footnotes |-> items("footnotes"), endnotes |-> items("endnotes"),
                 comments |-> items("comments"), assets |-> s.content.assets]
  IN IF pruned = s.content THEN s
     ELSE [Note(s, "references", Normalized) EXCEPT !.content = pruned]

RECURSIVE Paragraphs(_)
Paragraphs(blocks) ==
  FlattenSeq([i \in DOMAIN blocks |->
     IF blocks[i].b = "p" THEN <<blocks[i]>>
     ELSE FlattenSeq([r \in DOMAIN blocks[i].rows |->
            FlattenSeq([c \in DOMAIN blocks[i].rows[r] |->
               Paragraphs(blocks[i].rows[r][c].blocks)])])])

AllParagraphs(content) ==
  Paragraphs(content.document) \o
  FlattenSeq([k \in 1..3 |-> LET items == content[Parts[k + 1]]
                             IN FlattenSeq([i \in DOMAIN items |-> Paragraphs(items[i].blocks)])])

Removes(change) == change \in {"del", "moveFrom"}

\* Paragraph::collect: deleted text only when asked for.
TextOf(p, removed) ==
  FlattenSeq([i \in DOMAIN p.inlines |->
     LET r == p.inlines[i]
     IN IF /\ r.i = "run" /\ r.content.c = "text"
           /\ removed \/ ~Removes(r.change)
        THEN r.content.text ELSE <<>>])

HasMarker(text) == \E i \in 1..(Len(text) - 1) : text[i] = "s" /\ text[i + 1] = "k"

\* emitted_texts and check_texts: runs are joined first, so a marker split over
\* two runs is found, with and without the deleted text between them.
BoundaryClean(content) ==
  \A i \in DOMAIN AllParagraphs(content) :
     LET p == AllParagraphs(content)[i]
     IN ~HasMarker(TextOf(p, TRUE)) /\ ~HasMarker(TextOf(p, FALSE))

\* read after the last part: enter("") and prune.
Finish(s) == IF s.refusal # None THEN s ELSE Prune(Enter(s, ""))

Join(texts, sep) ==
  FlattenSeq([i \in DOMAIN texts |-> IF i = 1 THEN texts[i] ELSE <<sep>> \o texts[i]])

\* Block::text and blocks_text
RECURSIVE BlocksText(_)
BlocksText(blocks) ==
  Join([i \in DOMAIN blocks |->
          IF blocks[i].b = "p" THEN TextOf(blocks[i], FALSE)
          ELSE Join([r \in DOMAIN blocks[i].rows |->
                 Join([c \in DOMAIN blocks[i].rows[r] |->
                         BlocksText(blocks[i].rows[r][c].blocks)], "tab")], "nl")], "nl")

\* Document::citations: blocks by section and ordinal, then notes, then comments.
Citations(content) ==
  LET blocks == content.document
      breaks(i) == {j \in 1..(i - 1) : blocks[j].b = "p" /\ blocks[j].section}
      lastBreak(i) == IF breaks(i) = {} THEN 0 ELSE CHOOSE j \in breaks(i) : \A k \in breaks(i) : k <= j
      body == [i \in DOMAIN blocks |->
                 [id |-> <<"s", Cardinality(breaks(i)) + 1, i - lastBreak(i)>>,
                  text |-> BlocksText(<<blocks[i]>>)]]
      items(part) == [i \in DOMAIN content[part] |->
                        [id |-> <<part, content[part][i].id, 0>>,
                         text |-> BlocksText(content[part][i].blocks)]]
  IN SelectSeq(body \o items("footnotes") \o items("endnotes") \o items("comments"),
               LAMBDA c : c.text # <<>>)

(***************************************************************************)
(* The export.                                                             *)
(***************************************************************************)

Close == [e |-> "close"]
Element(open, children) == <<open>> \o children \o <<Close>>

\* Document::canonical carries the content, the fidelity and the boundary's
\* verdict; from_canonical refuses content whose image has no asset.
ImagesOf(content) ==
  UNION {{r.content.asset : r \in {x \in Range(AllParagraphs(content)[i].inlines) :
                                     x.i = "run" /\ x.content.c = "image"}} :
           i \in DOMAIN AllParagraphs(content)}
FromCanonical(content) == ImagesOf(content) \subseteq content.assets

\* Writer::run: the text is written in pieces, its breaks as elements.
WriteRun(r) ==
  LET props == IF r.bold THEN <<[e |-> "rPr", bold |-> TRUE]>> ELSE <<>>
      piece(c) == IF c \in {"tab", "nl"} THEN [e |-> "break", char |-> c, plain |-> TRUE]
                  ELSE [e |-> "t", text |-> <<c>>]
      content == CASE r.content.c = "text" ->
                        [i \in DOMAIN r.content.text |-> piece(r.content.text[i])]
                   [] r.content.c = "image" -> <<[e |-> "drawing", asset |-> r.content.asset]>>
                   [] r.content.c = "ref" -> <<[e |-> "ref", to |-> r.content.to, id |-> r.content.id]>>
  IN Element([e |-> "r"], props \o content)

\* Writer::marker: a bookmark's written id stands for its name.
WriteMarker(m) ==
  CASE m.i = "bookmarkStart" -> [e |-> "bookmarkStart", id |-> m.name, name |-> m.name]
    [] m.i = "bookmarkEnd" -> [e |-> "bookmarkEnd", id |-> m.name]
    [] m.i = "commentRange" -> [e |-> "commentRange", id |-> m.id]

\* The maximal groups of neighbours that agree (map_while and chunk_by).
Groups(seq, Same(_, _)) ==
  LET starts == SetToSortSeq({i \in DOMAIN seq : i = 1 \/ ~Same(seq[i - 1], seq[i])}, <)
      end(g) == IF g = Len(starts) THEN Len(seq) ELSE starts[g + 1] - 1
  IN [g \in DOMAIN starts |-> SubSeq(seq, starts[g], end(g))]

\* Mutant of WriteInlines: the change elements are written around the links.
WriteInlinesUnlinked(inlines) ==
  FlattenSeq([i \in DOMAIN inlines |->
     IF inlines[i].i # "run" THEN <<WriteMarker(inlines[i])>>
     ELSE WriteRun([inlines[i] EXCEPT !.change = None])])

\* Writer::inlines: one hyperlink per stretch of runs with the same link, and
\* inside it one change element per stretch with the same change.
WriteInlines(inlines) ==
  LET sameLink(x, y) == IF x.i = "run" /\ y.i = "run" THEN x.link = y.link ELSE x = y
      sameChange(x, y) == x.change = y.change
      runs(group) == FlattenSeq([i \in DOMAIN group |-> WriteRun(group[i])])
      changed(group) == IF group[1].change = None THEN runs(group)
                        ELSE Element([e |-> "change", kind |-> group[1].change], runs(group))
      linked(group) ==
        LET inner == FlattenSeq([i \in DOMAIN Groups(group, sameChange) |->
                                   changed(Groups(group, sameChange)[i])])
        IN IF group[1].i # "run" THEN [i \in DOMAIN group |-> WriteMarker(group[i])]
           ELSE IF group[1].link = None THEN inner
           ELSE Element([e |-> "hyperlink", target |-> group[1].link], inner)
  IN FlattenSeq([i \in DOMAIN Groups(inlines, sameLink) |-> linked(Groups(inlines, sameLink)[i])])

HeadingStyle == <<"h1", "h2", "h3", "h4", "h5", "h6", "h7", "h8", "h9">>

StyleFor(kind) ==
  CASE kind.kind = "body" -> None
    [] kind.kind = "heading" -> HeadingStyle[kind.level]
    [] OTHER -> kind.kind

\* Writer::paragraph
WriteParagraph(p, mark) ==
  LET props == [style |-> StyleFor(p.kind), section |-> p.section, outline |-> 9,
                num |-> IF p.kind.kind = "list" THEN p.kind.num ELSE 0,
                level |-> IF p.kind.kind = "list" THEN p.kind.level ELSE 0]
  IN Element([e |-> "p"],
       (IF props.style = None /\ ~p.section THEN <<>> ELSE <<[e |-> "pPr", props |-> props]>>)
       \o (IF mark THEN Element([e |-> "r"], <<[e |-> "mark"]>>) ELSE <<>>)
       \o WriteInlines(p.inlines))

\* Writer::blocks and Writer::table; mark is the note's reference mark.
RECURSIVE WriteBlocks(_, _)
WriteBlocks(blocks, mark) ==
  LET cell(c) == Element([e |-> "tc", span |-> c.span, merge |-> c.merge],
                         WriteBlocks(c.blocks, FALSE))
      row(r) == Element([e |-> "tr"], FlattenSeq([i \in DOMAIN r |-> cell(r[i])]))
  IN FlattenSeq([i \in DOMAIN blocks |->
       IF blocks[i].b = "p" THEN WriteParagraph(blocks[i], mark /\ i = 1)
       ELSE Element([e |-> "tbl"], FlattenSeq([r \in DOMAIN blocks[i].rows |->
                                                 row(blocks[i].rows[r])]))])

\* Writer::notes and Writer::comments: notes start with the two separators
\* unless a note already has one of their ids.
WriteItems(content, part) ==
  LET items == content[part]
      item(id, sep) == [e |-> "item", id |-> id, separator |-> sep]
      separators == IF part # "comments" /\ items # <<>> /\ 0 \notin IdsOf(content, part)
                    THEN <<item(0, TRUE)>> ELSE <<>>
  IN separators \o FlattenSeq([i \in DOMAIN items |->
        Element(item(items[i].id, FALSE), WriteBlocks(items[i].blocks, part # "comments"))])

\* numbering_xml: the first format met for a list counts.
NumberingOf(content) ==
  LET lists == SelectSeq(AllParagraphs(content), LAMBDA p : p.kind.kind = "list")
  IN [i \in DOMAIN lists |-> [num |-> lists[i].kind.num, format |-> lists[i].kind.format]]

\* styles_xml: the fixed style sheet, with its default style first.
ExportStyles ==
  LET style(id, name, outline) == [id |-> id, name |-> name, based |-> "normal",
                                   outline |-> outline, num |-> 0, default |-> FALSE]
  IN <<[style("normal", None, 9) EXCEPT !.based = None, !.default = TRUE],
       style("title", "title", 9), style("caption", "caption", 9), style("list", None, 9)>>
     \o [l \in 1..9 |-> style(HeadingStyle[l], "heading", l - 1)]

\* write_docx: the parts the exporter hands over, the body with its section.
Write(content) ==
  [styles |-> ExportStyles, numbering |-> NumberingOf(content),
   document |-> WriteBlocks(content.document, FALSE) \o <<[e |-> "sectPr"]>>,
   footnotes |-> WriteItems(content, "footnotes"),
   endnotes |-> WriteItems(content, "endnotes"),
   comments |-> WriteItems(content, "comments")]

\* read, on a whole package.
ReadPart(s, part, tokens) ==
  IF s.refusal # None \/ (part # "document" /\ tokens = <<>>) THEN s
  ELSE CloseAll(FoldLeft(Step, BeginPart(s, part), tokens))
Read(package) ==
  Finish(FoldLeft(LAMBDA s, part : ReadPart(s, part, package[part]),
                  Note(Importer(package.styles, package.numbering), "styles", Normalized), Parts))

\* What a re-import must give back: an image read inside a field code is an
\* asset that no paragraph shows, and is not written.
Shown(s) == [s.content EXCEPT !.assets = ImagesOf(s.content)]

\* prepare: nothing with a marker leaves, whatever the receipt said.
Export(content) ==
  IF ~FromCanonical(content) THEN [refusal |-> "MalformedContainer"]
  ELSE IF ~BoundaryClean(content) THEN [refusal |-> "PublicBoundary"]
  ELSE [refusal |-> None, package |-> Write(content)]
=============================================================================
