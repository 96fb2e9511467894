---------------------------- MODULE PptxAdapter ----------------------------
(***************************************************************************)
(* The PPTX adapter of crates/bran-document/src/pptx.rs.  A deck is the    *)
(* comment authors and one sequence of tokens: slides, their shape trees,  *)
(* text bodies, notes and comments.  Step reads one token, Write gives the *)
(* tokens the export writes.  Texts are sequences of characters as in      *)
(* DocxAdapter; " " is blank.  A slide is scanned for running actions      *)
(* before its shapes are read: a document with two reasons to be refused   *)
(* is refused here for the one met first.                                  *)
(***************************************************************************)
EXTENDS Naturals, Sequences, FiniteSets, SequencesExt

CONSTANTS MaxModelBytes,   \* limits.max_total_bytes, for the projection's copies
          MaxNesting       \* MAX_NESTING of shape groups

None == "none"
NoNotes == [has |-> FALSE, shape |-> 0, paragraphs |-> <<>>]

\* struct Deck: what is open (stack), the slide being read, its z-order and
\* shape ids, and what has been built.
Deck(authors) ==
  [authors |-> authors, stack |-> <<>>, slide |-> 0, number |-> 0, z |-> 0, shapeIds |-> {},
   slides |-> <<>>, slideIds |-> {}, anchors |-> <<>>, assets |-> {}, codes |-> {},
   bytes |-> 0, refusal |-> None]

Refuse(s, why) == [s EXCEPT !.refusal = why]
Tell(s, code) == [s EXCEPT !.codes = @ \cup {code}]

\* Deck::reserve
Reserve(s, bytes) ==
  IF s.bytes + bytes > MaxModelBytes THEN Refuse(s, "Oversized") ELSE [s EXCEPT !.bytes = @ + bytes]

Top(s) == Last(s.stack)
Push(s, frame) == [s EXCEPT !.stack = Append(@, frame)]
Pop(s) == [s EXCEPT !.stack = Front(@)]
Collect(s, item) == [s EXCEPT !.stack[Len(s.stack)].out = Append(@, item)]

Blank(text) == \A i \in DOMAIN text : text[i] \in {" ", "nl", "tab"}

\* Deck::anchor: blank text is not citable.
AddAnchor(s, key, suffix, text) ==
  IF Blank(text) THEN s
  ELSE [Reserve(s, 2 * Len(text)) EXCEPT
          !.anchors = Append(@, [id |-> <<s.slide, key, suffix>>, text |-> text])]

\* check_action: programs and macros.
Running(link) == link = "macro"

\* Deck::link: a running action refuses the deck, an id with
\* no relationship too, and a target that is no slide is left out.
Link(s, link) ==
  CASE Running(link) -> Refuse(s, "ActiveContent")
    [] link = "dangling" -> Refuse(s, "MalformedContainer")
    [] link = "elsewhere" -> Tell(s, "link-target-omitted")
    [] OTHER -> s
\* What the content keeps of the link: an action without a target is "bare".
KeptLink(link) == IF link \in {"elsewhere", "empty"} THEN "bare" ELSE link

\* Mutant of Common: a repeated id keys the shape by the id alone.
CommonById(s, t) ==
  LET key == IF t.id = 0 THEN <<"z", 0, s.z>> ELSE <<"id", t.id, 0>>
      placed == [s EXCEPT !.z = @ + 1, !.shapeIds = @ \cup ({t.id} \ {0})]
  IN [s |-> AddAnchor(Link(placed, t.link), key, "alt", t.alt), key |-> key]

\* Deck::common: the shape takes the next place in z-order, and its key is its
\* id, its id and place when the id repeats, or its place when it has none.
Common(s, t) ==
  LET z == s.z
      key == CASE t.id = 0 -> <<"z", 0, z>>
               [] t.id \notin s.shapeIds -> <<"id", t.id, 0>>
               [] OTHER -> <<"id-z", t.id, z>>
      told == CASE t.id = 0 -> Tell(s, "shape-identity-missing")
                [] t.id \notin s.shapeIds -> s
                [] OTHER -> Tell(s, "duplicate-shape-id")
      placed == [told EXCEPT !.z = @ + 1, !.shapeIds = @ \cup ({t.id} \ {0})]
  IN [s |-> AddAnchor(Link(placed, t.link), key, "alt", t.alt), key |-> key]

\* Deck::asset: only images are kept.
ImageOf(t) == IF t.asset = "video" THEN None ELSE t.asset

Shape(t) == [kind |-> t.e, id |-> t.id, alt |-> t.alt, link |-> KeptLink(t.link)]

\* Deck::shapes on one child of the tree.  Charts and other frames are told
\* and take no place; alternate content is read from its fallback.
ShapeToken(s, t) ==
  CASE t.e = "sp" ->
         LET c == Common(s, t)
         IN Push(c.s, [k |-> "body", of |-> "sp", key |-> c.key, att |-> Shape(t), out |-> <<>>])
    [] t.e = "cxnSp" -> Collect(Common(s, t).s, Shape(t))
    [] t.e = "pic" ->
         LET c == Common(s, t).s
             image == ImageOf(t)
             told == IF t.asset = "video" THEN Tell(c, "unsupported-media") ELSE c
         IN Collect([told EXCEPT !.assets = @ \cup ({image} \ {None})],
                    [x \in DOMAIN Shape(t) \cup {"image"} |->
                       IF x = "image" THEN image ELSE Shape(t)[x]])
    [] t.e = "grpSp" ->
         IF Cardinality({i \in DOMAIN s.stack : s.stack[i].k \in {"grp", "alt"}}) >= MaxNesting
         THEN Refuse(s, "XmlDepthLimit")
         ELSE Push(Common(s, t).s, [k |-> "grp", att |-> Shape(t), out |-> <<>>])
    [] t.e = "tbl" ->
         LET c == Common(Tell(s, "table-formatting-normalized"), t)
         IN Push(c.s, [k |-> "tbl", key |-> c.key, att |-> Shape(t), out |-> <<>>])
    [] t.e = "chart" -> Tell(s, "unsupported-chart")
    [] t.e = "alternate" ->
         IF ~t.fallback THEN Tell(s, "alternate-content-omitted")
         ELSE IF Cardinality({i \in DOMAIN s.stack : s.stack[i].k \in {"grp", "alt"}}) >= MaxNesting
         THEN Refuse(s, "XmlDepthLimit")
         ELSE Push(Tell(s, "alternate-content-fallback"), [k |-> "alt", out |-> <<>>])

\* Deck::paragraphs on one item: runs, fields (as text) and line breaks.  The
\* run and the joined paragraph each take a copy.
RunToken(s, t) ==
  LET text == IF t.e = "br" THEN <<"nl">> ELSE t.text
      told == IF t.e = "fld" THEN Tell(s, "field-as-text") ELSE s
      link == IF t.e = "br" THEN None ELSE t.link
  IN IF t.e = "textAlternate" THEN Tell(s, "alternate-content-omitted")
     ELSE Collect(Reserve(Link(told, link), 2 * Len(text)),
                  [text |-> text, link |-> KeptLink(link)])

Joined(texts, sep) ==
  FlattenSeq([i \in DOMAIN texts |-> IF i = 1 THEN texts[i] ELSE <<sep>> \o texts[i]])
LineText(p) == FlattenSeq([i \in DOMAIN p.runs |-> p.runs[i].text])
BodyText(ps) == Joined([i \in DOMAIN ps |-> LineText(ps[i])], "nl")
TableText(rows) ==
  Joined([r \in DOMAIN rows |-> Joined([c \in DOMAIN rows[r] |-> BodyText(rows[r][c])], "tab")], "nl")

With(f, key, val) == [x \in DOMAIN f \cup {key} |-> IF x = key THEN val ELSE f[x]]

\* The end of an element: text bodies are joined and anchored, and what was
\* built goes to the element around it.
CloseElement(s) ==
  LET f == Top(s)
      p == Pop(s)
      joined == Reserve(p, Len(BodyText(f.out)) + Len(f.out))
  IN CASE f.k = "p" -> Collect(p, [level |-> f.level, runs |-> f.out])
       [] f.k = "body" /\ f.of = "sp" ->
            Collect(AddAnchor(joined, f.key, "", BodyText(f.out)), With(f.att, "paragraphs", f.out))
       [] f.k = "body" /\ f.of = "cell" -> Collect(joined, f.out)
       [] f.k = "body" /\ f.of = "notes" ->
            [AddAnchor(joined, <<"notes", 0, 0>>, "", BodyText(f.out)) EXCEPT
               !.stack[Len(p.stack)].notes = [has |-> TRUE, shape |-> f.att, paragraphs |-> f.out]]
       [] f.k = "row" -> Collect(p, f.out)
       [] f.k = "tbl" -> Collect(AddAnchor(p, f.key, "", TableText(f.out)), With(f.att, "rows", f.out))
       [] f.k = "grp" -> Collect(p, With(f.att, "children", f.out))
       [] f.k = "alt" -> [p EXCEPT !.stack[Len(p.stack)].out = @ \o f.out]
       [] f.k = "tree" -> Push(p, [k |-> "slide", shapes |-> f.out, notes |-> NoNotes, out |-> <<>>])
       [] f.k = "slide" ->
            [p EXCEPT !.slides = Append(@, [id |-> s.slide, shapes |-> f.shapes,
                                            notes |-> f.notes, comments |-> f.out])]

\* slide_list and the head of Deck::slide: ids are in range and do not repeat.
SlideToken(s, t) ==
  IF t.id < 256 \/ t.id \in s.slideIds THEN Refuse(s, "MalformedContainer")
  ELSE Push([s EXCEPT !.slide = t.id, !.number = @ + 1, !.z = 0, !.shapeIds = {},
                      !.slideIds = @ \cup {t.id}],
            [k |-> "tree", out |-> <<>>])

\* Deck::authors
AuthorOf(s, t) == IF t.author \in DOMAIN s.authors THEN s.authors[t.author] ELSE None

\* Deck::comments: the author is looked up, and unknown ones are left blank.
CommentToken(s, t) ==
  LET index == Len(Top(s).out) + 1
      told == IF t.reply THEN Tell(s, "comment-threads-flattened") ELSE s
  IN Collect(AddAnchor(Reserve(Tell(told, "comment-metadata-normalized"), Len(t.text)),
                       <<"comment", index, 0>>, "", t.text),
             [author |-> AuthorOf(s, t), text |-> t.text])

\* What follows the shape tree of a slide: its notes (the first notes part
\* only), then its comments.
SlidePartToken(s, t) ==
  CASE t.e = "notes" -> Push(s, [k |-> "body", of |-> "notes", att |-> t.id, out |-> <<>>])
    [] t.e = "cm" -> CommentToken(s, t)

Context(s) ==
  CASE s.stack = <<>> -> "deck"
    [] s.stack # <<>> /\ Top(s).k = "slide" ->
         IF Top(s).notes.has \/ Top(s).out # <<>> THEN "comments" ELSE "slide"
    [] OTHER -> Top(s).k

Step(s, t) ==
  IF s.refusal # None THEN s
  ELSE IF t.e = "close" THEN CloseElement(s)
  ELSE CASE Context(s) = "deck" -> SlideToken(s, t)
         [] Context(s) \in {"tree", "grp", "alt"} -> ShapeToken(s, t)
         [] Context(s) \in {"slide", "comments"} -> SlidePartToken(s, t)
         [] Context(s) = "tbl" -> Push(s, [k |-> "row", out |-> <<>>])
         [] Context(s) = "row" -> Push(s, [k |-> "body", of |-> "cell", out |-> <<>>])
         [] Context(s) = "body" -> Push(s, [k |-> "p", level |-> t.level, out |-> <<>>])
         [] Context(s) = "p" -> RunToken(s, t)

RECURSIVE CloseAll(_)
CloseAll(s) == IF s.refusal # None \/ s.stack = <<>> THEN s ELSE CloseAll(CloseElement(s))

HasMarker(text) == \E i \in 1..(Len(text) - 1) : text[i] = "s" /\ text[i + 1] = "k"

\* import after the slides: the anchors are counted once more, and the
\* canonical content, where paragraphs are joined, is scanned for markers.
Finish(s) ==
  LET counted == Reserve(s, FoldLeft(LAMBDA n, a : n + Len(a.text), 0, s.anchors))
  IN IF s.refusal # None THEN s
     ELSE IF \E i \in DOMAIN s.anchors : HasMarker(s.anchors[i].text)
     THEN Tell(counted, "public-boundary-violation") ELSE counted

Citations(s) == s.anchors
Content(s) == [slides |-> s.slides, assets |-> s.assets]

(***************************************************************************)
(* The export.                                                             *)
(***************************************************************************)

Close == [e |-> "close"]
Element(open, children) == <<open>> \o children \o <<Close>>
Each(Op(_), seq) == FlattenSeq([i \in DOMAIN seq |-> Op(seq[i])])

\* Writer::link: a link without a target is written with an empty id.
WrittenLink(link) == IF link = "bare" THEN "empty" ELSE link

\* Writer::paragraphs: a lone line break is written as a break.
WriteParagraphs(ps) ==
  LET run(r) == IF r.text = <<"nl">> /\ r.link = None THEN <<[e |-> "br"]>>
                ELSE <<[e |-> "r", text |-> r.text, link |-> WrittenLink(r.link)]>>
      paragraph(p) == Element([e |-> "p", level |-> p.level], Each(run, p.runs))
  IN Each(paragraph, ps)

\* Writer::shape
RECURSIVE WriteShapes(_)
WriteShapes(shapes) ==
  LET head(x) == [e |-> x.kind, id |-> x.id, alt |-> x.alt, link |-> WrittenLink(x.link),
                  asset |-> IF x.kind = "pic" THEN x.image ELSE None]
      cell(ps) == Element([e |-> "tc"], WriteParagraphs(ps))
      row(cells) == Element([e |-> "tr"], Each(cell, cells))
      shape(x) == CASE x.kind = "sp" -> Element(head(x), WriteParagraphs(x.paragraphs))
                    [] x.kind \in {"cxnSp", "pic"} -> <<head(x)>>
                    [] x.kind = "grpSp" -> Element(head(x), WriteShapes(x.children))
                    [] x.kind = "tbl" -> Element(head(x), Each(row, x.rows))
  IN Each(shape, shapes)

\* The authors of Writer::deck, in first-use order.
AuthorsOf(slides) ==
  LET all == FlattenSeq([i \in DOMAIN slides |->
               [j \in DOMAIN slides[i].comments |-> slides[i].comments[j].author]])
      first == SetToSortSeq({i \in DOMAIN all : \A j \in 1..(i - 1) : all[j] # all[i]}, <)
  IN [i \in DOMAIN first |-> all[first[i]]]

\* Writer::notes
WriteNotes(notes) ==
  IF ~notes.has THEN <<>>
  ELSE Element([e |-> "notes", id |-> notes.shape], WriteParagraphs(notes.paragraphs))

\* Writer::deck, one slide.  Comments are written as legacy
\* ones.
WriteSlide(slide, authors) ==
  LET authorId(a) == CHOOSE i \in DOMAIN authors : authors[i] = a
      comment(c) == <<[e |-> "cm", author |-> authorId(c.author), text |-> c.text, reply |-> FALSE]>>
  IN Element([e |-> "sld", id |-> slide.id],
             WriteShapes(slide.shapes) \o <<Close>> \o WriteNotes(slide.notes) \o Each(comment, slide.comments))

\* A shape without an identity cannot be projected.
RECURSIVE Identified(_)
Identified(shapes) ==
  \A i \in DOMAIN shapes : /\ shapes[i].id # 0
                           /\ shapes[i].kind = "grpSp" => Identified(shapes[i].children)

\* Writer::finish: the parts of the package.
Package(s) ==
  [authors |-> AuthorsOf(s.slides),
   tokens |-> FlattenSeq([i \in DOMAIN s.slides |-> WriteSlide(s.slides[i], AuthorsOf(s.slides))])]

\* export: the receipt's verdict first, then the shapes, then
\* the texts the deck would carry.
Export(s) ==
  IF "public-boundary-violation" \in s.codes THEN [refusal |-> "PublicBoundary"]
  ELSE IF \E i \in DOMAIN s.slides :
            \/ ~Identified(s.slides[i].shapes)
            \/ s.slides[i].notes.has /\ s.slides[i].notes.shape = 0
  THEN [refusal |-> "ExportUnsupported"]
  ELSE [refusal |-> None, package |-> Package(s)]

Read(package) ==
  Finish(CloseAll(FoldLeft(Step, Deck(package.authors), package.tokens)))
=============================================================================
