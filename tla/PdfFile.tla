------------------------------ MODULE PdfFile ------------------------------
(***************************************************************************)
(* A PDF over its life: a producer writes it, later revisions add, replace *)
(* and delete objects, in object streams or not, each with a               *)
(* cross-reference table, a cross-reference stream or both; the chain of   *)
(* sections may get damaged; and import (crates/bran-document/src/pdf.rs)  *)
(* reads what is there.  The reader of objects comes first, then what      *)
(* import makes of them, then the file.                                    *)
(***************************************************************************)
EXTENDS Integers, Sequences, FiniteSets, SequencesExt, FiniteSetsExt, Functions, TLC

(***************************************************************************)
(* The bounded PDF object reader (crates/bran-document/src/pdf_syntax.rs): *)
(* lexer, objects, cross-reference sections, repair, object streams.       *)
(*                                                                         *)
(* A file is a sequence of items, an offset the place of an item in it:    *)
(* an indirect object, or a cross-reference table with its trailer.  The   *)
(* lexer is modelled over characters given by their codes, the parser over *)
(* tokens.                                                                 *)
(***************************************************************************)

CONSTANTS MaxDepth,       \* limits.max_xml_depth
          MaxNodes        \* limits.max_xml_nodes

None == "none"
Malformed == "PdfMalformed"

(***************************************************************************)
(* Objects.                                                                *)
(***************************************************************************)

Null == [t |-> "null"]
Num(n) == [t |-> "int", n |-> n]
Name(v) == [t |-> "name", v |-> v]
Str(v) == [t |-> "str", v |-> v]
Arr(items) == [t |-> "arr", items |-> items]
Dict(d) == [t |-> "dict", d |-> d]
Ref(n) == [t |-> "ref", n |-> n]
Stream(d, data) == [t |-> "stream", d |-> d, data |-> data]

key(d, k) == IF k \in DOMAIN d THEN d[k] ELSE Null
RECURSIVE Ascending(_)
\* The numbers in order, as a BTreeMap or BTreeSet gives them.
Ascending(S) == IF S = {} THEN <<>> ELSE <<Min(S)>> \o Ascending(S \ {Min(S)})

is_name(d, k, v) == k \in DOMAIN d /\ d[k] = Name(v)

(***************************************************************************)
(* Lexer::literal_string: the bytes of a string whose opening parenthesis  *)
(* has been read, and where it ends.                                       *)
(***************************************************************************)

Open == 40
Close == 41
Backslash == 92
CR == 13
LF == 10
Octal(c) == c \in 48..55

\* The codes of the named escapes n, r, t, b and f.
Escapes == (110 :> 10) @@ (114 :> 13) @@ (116 :> 9) @@ (98 :> 8) @@ (102 :> 12)

RECURSIVE OctalRun(_, _, _)
\* Up to that many further octal digits.
OctalRun(data, at, room) == IF room > 0 /\ at \in DOMAIN data /\ Octal(data[at])
                            THEN 1 + OctalRun(data, at + 1, room - 1) ELSE 0

RECURSIVE literal_string(_, _, _, _)
literal_string(data, at, depth, out) ==
  LET two(i) == IF i + 1 \in DOMAIN data /\ data[i + 1] = LF THEN i + 2 ELSE i + 1
      c == data[at]
      e == data[at + 1]
      digits == 1 + OctalRun(data, at + 2, 2)
      value == FoldLeft(LAMBDA v, d : v * 8 + d - 48, 0, SubSeq(data, at + 1, at + digits)) % 256
  IN IF at \notin DOMAIN data THEN [ok |-> FALSE, bytes |-> <<>>, at |-> at]
     ELSE CASE c = Close /\ depth = 1 -> [ok |-> TRUE, bytes |-> out, at |-> at + 1]
            [] c = Close /\ depth > 1 -> literal_string(data, at + 1, depth - 1, Append(out, c))
            [] c = Open -> literal_string(data, at + 1, depth + 1, Append(out, c))
            [] c = CR -> literal_string(data, two(at), depth, Append(out, LF))
            [] c = Backslash ->
                 IF at + 1 \notin DOMAIN data THEN [ok |-> FALSE, bytes |-> <<>>, at |-> at]
                 ELSE CASE e \in DOMAIN Escapes -> literal_string(data, at + 2, depth, Append(out, Escapes[e]))
                        [] Octal(e) -> literal_string(data, at + 1 + digits, depth, Append(out, value))
                        [] e = CR -> literal_string(data, two(at + 1), depth, out)
                        [] e = LF -> literal_string(data, at + 2, depth, out)
                        [] OTHER -> literal_string(data, at + 2, depth, Append(out, e))
            [] OTHER -> literal_string(data, at + 1, depth, Append(out, c))

\* How export writes a string: parentheses and the backslash escaped, what is
\* not printable as three octal digits.  The closing parenthesis is included.
literal(bytes) ==
  LET digit(b, place) == 48 + ((b \div place) % 8)
      char(b) == CASE b \in {Open, Close, Backslash} -> <<Backslash, b>>
                   [] b \in (32..126) \ {Open, Close, Backslash} -> <<b>>
                   [] OTHER -> <<Backslash, digit(b, 64), digit(b, 8), digit(b, 1)>>
  IN FlattenSeq([i \in DOMAIN bytes |-> char(bytes[i])]) \o <<Close>>

(***************************************************************************)
(* parse_object: one object from the tokens at the given place.  Two       *)
(* tokens of lookahead turn `n g R' into a reference.                      *)
(***************************************************************************)

Token(t) == [t |-> t]
Failed(why) == [refusal |-> why, obj |-> Null, at |-> 0, nodes |-> 0]
Parsed(obj, at, nodes) == [refusal |-> None, obj |-> obj, at |-> at, nodes |-> nodes]

RECURSIVE parse_object(_, _, _, _), Items(_, _, _, _, _), Entries(_, _, _, _, _)
parse_object(tokens, at, depth, nodes) ==
  LET first == tokens[at]
      is(i, t) == i \in DOMAIN tokens /\ tokens[i].t = t
  IN CASE at \notin DOMAIN tokens -> Failed(Malformed)
       [] at \in DOMAIN tokens /\ depth > MaxDepth -> Failed("PdfDepthLimit")
       [] at \in DOMAIN tokens /\ depth <= MaxDepth /\ nodes + 1 > MaxNodes -> Failed("PdfObjectLimit")
       [] OTHER ->
            CASE first.t = "int" -> IF is(at + 1, "int") /\ is(at + 2, "R") /\ first.n >= 0
                                    THEN Parsed(Ref(first.n), at + 3, nodes + 1)
                                    ELSE Parsed(first, at + 1, nodes + 1)
              [] first.t \in {"name", "str", "null"} -> Parsed(first, at + 1, nodes + 1)
              [] first.t = "[" -> Items(tokens, at + 1, depth, nodes + 1, <<>>)
              [] first.t = "<<" -> Entries(tokens, at + 1, depth, nodes + 1, <<>>)
              [] OTHER -> Failed(Malformed)

Items(tokens, at, depth, nodes, items) ==
  IF at \notin DOMAIN tokens THEN Failed(Malformed)
  ELSE IF tokens[at].t = "]" THEN Parsed(Arr(items), at + 1, nodes)
  ELSE LET item == parse_object(tokens, at, depth + 1, nodes)
       IN IF item.refusal # None THEN item
          ELSE Items(tokens, item.at, depth, item.nodes, Append(items, item.obj))

\* A key without a value ends the dictionary, as readers do.
Entries(tokens, at, depth, nodes, d) ==
  CASE at \notin DOMAIN tokens -> Failed(Malformed)
    [] at \in DOMAIN tokens /\ tokens[at].t = ">>" -> Parsed(Dict(d), at + 1, nodes)
    [] at \in DOMAIN tokens /\ tokens[at].t = "name" ->
         IF at + 1 \in DOMAIN tokens /\ tokens[at + 1].t = ">>" THEN Parsed(Dict(d), at + 2, nodes)
         ELSE LET value == parse_object(tokens, at + 1, depth + 1, nodes)
              IN IF value.refusal # None THEN value
                 ELSE Entries(tokens, value.at, depth, value.nodes, (tokens[at].v :> value.obj) @@ d)
    [] OTHER -> Failed(Malformed)

(***************************************************************************)
(* The PNG predictor: each row is a filter kind and its bytes.  paeth is   *)
(* the estimate of its fourth kind.                                        *)
(***************************************************************************)

Distance(a, b) == IF a < b THEN b - a ELSE a - b

paeth(left, up, upper_left) ==
  LET estimate == left + up - upper_left
      a == Distance(estimate, left)
      b == Distance(estimate, up)
      c == Distance(estimate, upper_left)
  IN IF a <= b /\ a <= c THEN left ELSE IF b <= c THEN up ELSE upper_left

\* What the filter adds to a byte, from the bytes left of it, above and between.
Prediction(kind, left, up, upper_left) ==
  CASE kind = 0 -> 0
    [] kind = 1 -> left
    [] kind = 2 -> up
    [] kind = 3 -> (left + up) \div 2
    [] kind = 4 -> paeth(left, up, upper_left)

png_row(row, previous, pixel) ==
  LET out[i \in DOMAIN row.bytes] ==
        LET left == IF i > pixel THEN out[i - pixel] ELSE 0
            upper_left == IF i > pixel THEN previous[i - pixel] ELSE 0
        IN (row.bytes[i] + Prediction(row.kind, left, previous[i], upper_left)) % 256
  IN out

png_predictor(rows, pixel) ==
  FoldLeft(LAMBDA acc, row : Append(acc, png_row(row, IF acc = <<>> THEN [i \in DOMAIN row.bytes |-> 0]
                                                     ELSE Last(acc), pixel)),
           <<>>, rows)

(***************************************************************************)
(* Cross-reference sections.  An entry says where an object is: at an      *)
(* offset, in an object stream, or nowhere.                                *)
(***************************************************************************)

At(p) == [e |-> "at", p |-> p]
In(p) == [e |-> "in", p |-> p]
Free == [e |-> "free", p |-> 0]

\* The number of the object whose header is at that offset, or 0.
header_at(file, p) == IF p \in DOMAIN file /\ file[p].k = "obj" THEN file[p].num ELSE 0

\* Whether Doc::decode knows the stream's filter.
decodes(d) == "Filter" \notin DOMAIN d \/ is_name(d, "Filter", "FlateDecode")

\* Where a stream's data ends: where /Length says, if the end marker is there, or
\* else at the first marker.  A length that is a reference to a packed object
\* cannot be known yet, and looking for the marker is then not a repair.
stream_end(length, markers) ==
  IF length.known /\ length.n \in markers THEN [end |-> length.n, repaired |-> FALSE]
  ELSE [end |-> Min(markers), repaired |-> length.known \/ ~length.ref]

\* A table, or the dictionary and entries of a cross-reference stream.
xref_section(file, p) ==
  IF file[p].k = "table" THEN <<file[p].section>>
  ELSE IF file[p].k = "obj" /\ file[p].obj.t = "stream" /\ is_name(file[p].obj.d, "Type", "XRef")
          /\ decodes(file[p].obj.d)
  THEN <<file[p].obj.data>> ELSE <<>>

Unread == [read |-> FALSE, entries |-> <<>>, trailer |-> <<>>]

\* Mutant of Older: an older section replaces what a newer one said.
OlderWins(known, section) == section @@ known

\* What a further, older section adds to what is known.
Older(known, section) == known @@ section

RECURSIVE XrefChain(_, _, _, _, _)
\* Newer sections first: the section's own stream, then what it says came
\* before.  A section met twice, or outside the file, is damage.
XrefChain(file, pending, seen, entries, trailer) ==
  IF pending = <<>> THEN [read |-> TRUE, entries |-> entries, trailer |-> trailer]
  ELSE LET p == Last(pending)
           section == xref_section(file, p)
           d == section[1].trailer
           next(k) == IF k \in DOMAIN d THEN <<d[k].n>> ELSE <<>>
       IN IF p \in seen \/ p \notin DOMAIN file \/ section = <<>> THEN Unread
          ELSE XrefChain(file, Front(pending) \o next("Prev") \o next("XRefStm"), seen \cup {p},
                         Older(entries, section[1].entries), Older(trailer, d))

read_xref(file, startxref) ==
  IF startxref = 0 THEN Unread ELSE XrefChain(file, <<startxref>>, {}, <<>>, <<>>)

offsets_valid(file, entries) ==
  \A n \in DOMAIN entries : entries[n].e = "at" => header_at(file, entries[n].p) = n

\* The table rebuilt from the object headers; the last one of a number stands.
RebuiltEntries(file) ==
  FoldLeft(LAMBDA map, p : IF file[p].k = "obj" THEN (file[p].num :> At(p)) @@ map ELSE map,
           <<>>, [p \in DOMAIN file |-> p])

\* The trailer rebuilt: the last one that names a root or encryption; without a
\* root, the catalog and what the cross-reference streams say.
RebuiltTrailer(file, entries) ==
  LET named(d) == "Root" \in DOMAIN d \/ "Encrypt" \in DOMAIN d
      tables == {p \in DOMAIN file : file[p].k = "table" /\ named(file[p].section.trailer)}
      trailer == IF tables = {} THEN <<>> ELSE file[Max(tables)].section.trailer
      add(d, n) == LET o == file[entries[n].p].obj
                   IN CASE o.t = "dict" /\ is_name(o.d, "Type", "Catalog") -> ("Root" :> Ref(n)) @@ d
                        [] o.t = "stream" /\ is_name(o.d, "Type", "XRef") -> d @@ o.data.trailer
                        [] OTHER -> d
  IN IF "Root" \in DOMAIN trailer THEN trailer
     ELSE FoldLeft(add, trailer, Ascending(DOMAIN entries))

(***************************************************************************)
(* Loading.                                                                *)
(***************************************************************************)

\* Whether a packed object is the one the cross-reference data means; a repaired
\* file has no such data for it, and then an object of its own is preferred.
Belongs(entries, number, stream, repaired, objects) ==
  \/ number \in DOMAIN entries /\ entries[number] = In(stream)
  \/ number \notin DOMAIN entries /\ repaired /\ number \notin DOMAIN objects

\* Every object of the file; those of object streams after the others.
load(file, entries, repaired) ==
  LET plain == [n \in {m \in DOMAIN entries : entries[m].e = "at"
                                             /\ header_at(file, entries[m].p) = m} |->
                  file[entries[n].p].obj]
      packed == {entries[n].p : n \in {m \in DOMAIN entries : entries[m].e = "in"}}
                \cup {n \in DOMAIN plain : repaired /\ plain[n].t = "stream"
                                                    /\ is_name(plain[n].d, "Type", "ObjStm")}
      streams == Ascending({s \in packed : s \in DOMAIN plain /\ plain[s].t = "stream"})
      unpack(objects, s) ==
        FoldLeft(LAMBDA acc, pair : IF Belongs(entries, pair[1], s, repaired, acc)
                                    THEN (pair[1] :> pair[2]) @@ acc ELSE acc,
                 objects, plain[s].data)
      read == SelectSeq(streams, LAMBDA s : decodes(plain[s].d))
  IN [objects |-> FoldLeft(unpack, plain, read),
      receipts |-> IF read # streams THEN {"stream-not-decoded"} ELSE {}]

\* Doc::open.  A damaged table is rebuilt and reported.
open(file, startxref) ==
  LET read == read_xref(file, startxref)
      sound == read.read /\ "Root" \in DOMAIN read.trailer /\ offsets_valid(file, read.entries)
      entries == IF sound THEN read.entries ELSE RebuiltEntries(file)
      trailer == IF sound THEN read.trailer ELSE RebuiltTrailer(file, entries)
      no(why) == [refusal |-> why, objects |-> <<>>, trailer |-> <<>>, receipts |-> {}]
  IN CASE "Encrypt" \in DOMAIN trailer -> no("Encrypted")
       [] "Encrypt" \notin DOMAIN trailer /\ "Root" \notin DOMAIN trailer -> no(Malformed)
       [] OTHER -> LET loaded == load(file, entries, ~sound)
                   IN [refusal |-> None, objects |-> loaded.objects, trailer |-> trailer,
                       receipts |-> loaded.receipts \cup IF sound THEN {} ELSE {"xref-repaired"}]

RECURSIVE Resolve(_, _, _)
\* Doc::get: the eighth reference of a chain is not followed, a missing object is
\* null.
Resolve(objects, object, hops) ==
  IF object.t # "ref" THEN object
  ELSE IF hops = 0 \/ object.n \notin DOMAIN objects THEN Null
  ELSE Resolve(objects, objects[object.n], hops - 1)
get(objects, object) == Resolve(objects, object, 7)
lookup(objects, d, k) == get(objects, key(d, k))
\* Doc::dict, as a sequence with the dictionary in it or nothing.
dict(objects, object) == LET o == get(objects, object)
                         IN IF o.t \in {"dict", "stream"} THEN <<o.d>> ELSE <<>>

(***************************************************************************)
(* What import in crates/bran-document/src/pdf.rs makes of the objects of  *)
(* a PDF: active content anywhere is refused, then the page tree, the      *)
(* destinations, the outline and the form fields are walked.  The object   *)
(* graph is untrusted: any of them may be cyclic, shared or missing.       *)
(***************************************************************************)

CONSTANTS MaxPages          \* limits.max_parts

(***************************************************************************)
(* scan: refuses active content and references out of the file.            *)
(***************************************************************************)

ActiveActions == {"JavaScript", "Launch", "SubmitForm", "GoToE"}
ActiveAnnotations == {"Movie", "Sound", "Screen", "RichMedia", "3D"}

\* An entry is one of the names, also when it is a reference to the name.
Named(objects, d, k, names) == LET o == lookup(objects, d, k) IN o.t = "name" /\ o.v \in names

RECURSIVE scan(_, _)
\* What one object, with everything written inside it, is refused for or tells.
scan(objects, o) ==
  LET inside == IF o.t = "arr" THEN {o.items[i] : i \in DOMAIN o.items}
                ELSE {o.d[k] : k \in DOMAIN o.d}
      deep == UNION {scan(objects, x) : x \in inside}
  IN CASE o.t \notin {"arr", "dict", "stream"} -> {}
       [] o.t = "stream" /\ "F" \in DOMAIN o.d -> {"ExternalReference"}
       [] o.t = "arr" -> deep
       [] OTHER ->
            CASE \/ {"JS", "JavaScript", "XFA"} \cap DOMAIN o.d # {}
                 \/ Named(objects, o.d, "S", ActiveActions)
                 \/ Named(objects, o.d, "Subtype", ActiveAnnotations) -> {"ActiveContent"}
              [] \/ Named(objects, o.d, "S", {"GoToR"})
                 \/ Named(objects, o.d, "FS", {"URL"})
                 \/ (Named(objects, o.d, "Subtype", {"Form"}) /\ "Ref" \in DOMAIN o.d) ->
                   {"ExternalReference"}
              [] OTHER ->
                   deep
                   \cup (IF Named(objects, o.d, "S", {"URI"}) THEN {"hyperlink-not-fetched"} ELSE {})
                   \cup (IF is_name(o.d, "Type", "EmbeddedFile") \/ dict(objects, key(o.d, "EF")) # <<>>
                         THEN {"embedded-file-not-extracted"} ELSE {})

(***************************************************************************)
(* walk_pages: the leaves of the page tree in order, with what they        *)
(* inherit.  A node met twice is a malformed tree.                         *)
(***************************************************************************)

NoPages(why) == [refusal |-> why, seen |-> {}, out |-> <<>>]

RECURSIVE walk_pages(_, _, _, _, _)
walk_pages(objects, node, media, depth, acc) ==
  LET o == get(objects, node)
      seen == IF node.t = "ref" THEN acc.seen \cup {node.n} ELSE acc.seen
      own == lookup(objects, o.d, "MediaBox")
      box == IF own.t = "arr" THEN own.items ELSE media
      kids == lookup(objects, o.d, "Kids")
      step(a, kid) == IF a.refusal # None THEN a ELSE walk_pages(objects, kid, box, depth + 1, a)
  IN CASE depth > MaxDepth -> NoPages("PdfDepthLimit")
       [] depth <= MaxDepth /\ ((node.t = "ref" /\ node.n \in acc.seen) \/ o.t # "dict") -> NoPages(Malformed)
       [] OTHER ->
            CASE is_name(o.d, "Type", "Pages") ->
                   IF kids.t # "arr" THEN NoPages(Malformed)
                   ELSE FoldLeft(step, [acc EXCEPT !.seen = seen], kids.items)
              [] is_name(o.d, "Type", "Page") ->
                   IF Len(acc.out) >= MaxPages THEN NoPages("PdfPageLimit")
                   ELSE IF box = <<>> THEN NoPages(Malformed)
                   ELSE [refusal |-> None, seen |-> seen,
                         out |-> Append(acc.out, [ref |-> IF node.t = "ref" THEN node.n ELSE 0,
                                                  d |-> o.d, media |-> box])]
              [] OTHER -> NoPages(Malformed)

\* The page number of every page that has an object number.
PageNumbers(pages) ==
  [n \in {pages[i].ref : i \in DOMAIN pages} \ {0} |-> Max({i \in DOMAIN pages : pages[i].ref = n})]

(***************************************************************************)
(* Destinations, outline and fields.                                       *)
(***************************************************************************)

Target(field, page, name) == [refusal |-> None, field |-> field, page |-> page, name |-> name]
NoTarget == Target("none", 0, "")

RECURSIVE target_bounded(_, _, _, _, _)
\* A destination through references and /D entries: a page of this file or a
\* name.  A cycle refuses the file.
target_bounded(objects, o, numbers, depth, seen) ==
  CASE depth > MaxDepth -> [NoTarget EXCEPT !.refusal = "PdfDepthLimit"]
    [] depth <= MaxDepth /\ o.t = "arr" ->
         IF o.items # <<>> /\ o.items[1].t = "ref" /\ o.items[1].n \in DOMAIN numbers
         THEN Target("target_page", numbers[o.items[1].n], "") ELSE NoTarget
    [] depth <= MaxDepth /\ o.t = "ref" ->
         IF o.n \in seen THEN [NoTarget EXCEPT !.refusal = Malformed]
         ELSE target_bounded(objects, get(objects, o), numbers, depth + 1, seen \cup {o.n})
    [] depth <= MaxDepth /\ o.t \in {"name", "str"} -> Target("target_name", 0, o.v)
    [] depth <= MaxDepth /\ o.t = "dict" /\ "D" \in DOMAIN o.d ->
         target_bounded(objects, o.d["D"], numbers, depth + 1, seen)
    [] OTHER -> NoTarget

\* The destination of a link or an outline item: its own, or its GoTo action's.
link_fields(objects, d, numbers) ==
  LET action == dict(objects, key(d, "A"))
      goes == action # <<>> /\ is_name(action[1], "S", "GoTo") /\ "D" \in DOMAIN action[1]
  IN CASE "Dest" \in DOMAIN d -> target_bounded(objects, d["Dest"], numbers, 0, {})
       [] "Dest" \notin DOMAIN d /\ goes -> target_bounded(objects, action[1]["D"], numbers, 0, {})
       [] OTHER -> NoTarget

\* The annotations of a page; popups and what is no dictionary are passed over.
annotations(objects, page, numbers) ==
  LET items == lookup(objects, page, "Annots")
      shown == SelectSeq(IF items.t = "arr" THEN items.items ELSE <<>>,
                         LAMBDA i : /\ dict(objects, i) # <<>>
                                    /\ ~Named(objects, dict(objects, i)[1], "Subtype", {"Popup"}))
  IN [i \in DOMAIN shown |-> link_fields(objects, dict(objects, shown[i])[1], numbers)]

RECURSIVE outline(_, _, _, _, _)
\* The items from `first' on, each before its children.  An item met again ends
\* the list it is met in.
outline(objects, first, level, numbers, acc) ==
  LET item == dict(objects, first)
      link == link_fields(objects, item[1], numbers)
      here == [acc EXCEPT !.visited = @ \cup {first.n},
                          !.out = Append(@, [item |-> first.n, level |-> level, page |-> link.page])]
      below == outline(objects, key(item[1], "First"), level + 1, numbers, here)
  IN CASE acc.refusal # None -> acc
       [] acc.refusal = None /\ level > MaxDepth -> [acc EXCEPT !.refusal = "PdfDepthLimit"]
       [] acc.refusal = None /\ level <= MaxDepth /\ (first.t # "ref" \/ first.n \in acc.visited) -> acc
       [] OTHER ->
            IF item = <<>> THEN [acc EXCEPT !.visited = @ \cup {first.n}]
            ELSE IF link.refusal # None THEN [acc EXCEPT !.refusal = link.refusal]
            ELSE outline(objects, key(item[1], "Next"), level, numbers, below)

RECURSIVE fields(_, _, _, _, _, _)
\* The form fields below a node: a field's name is that of its ancestors and its
\* own, its type inherited; only children with a name of their own are fields.
fields(objects, node, parent, kind, depth, acc) ==
  LET d == dict(objects, node)[1]
      name == LET t == lookup(objects, d, "T") IN IF t.t = "str" THEN Append(parent, t.v) ELSE parent
      ft == LET t == lookup(objects, d, "FT") IN IF t.t = "name" THEN t.v ELSE kind
      all == lookup(objects, d, "Kids")
      kids == SelectSeq(IF all.t = "arr" THEN all.items ELSE <<>>,
                        LAMBDA k : dict(objects, k) # <<>> /\ "T" \in DOMAIN dict(objects, k)[1])
      seen == [acc EXCEPT !.visited = IF node.t = "ref" THEN @ \cup {node.n} ELSE @]
      value == lookup(objects, d, "V")
      step(a, kid) == IF a.refusal # None THEN a ELSE fields(objects, kid, name, ft, depth + 1, a)
  IN CASE depth > MaxDepth -> [acc EXCEPT !.refusal = "PdfDepthLimit"]
       [] depth <= MaxDepth /\ node.t = "ref" /\ node.n \in acc.visited -> acc
       [] OTHER ->
            IF dict(objects, node) = <<>> THEN seen
            ELSE IF kids # <<>> THEN FoldLeft(step, seen, kids)
            ELSE IF ft = "Sig" /\ value.t = "dict"
            THEN [seen EXCEPT !.signatures = Append(@, [field |-> name, signed |-> value.d])]
            ELSE [seen EXCEPT !.forms = Append(@, [field |-> name, kind |-> ft])]

(***************************************************************************)
(* import.                                                                 *)
(***************************************************************************)

Refusals == {"ActiveContent", "ExternalReference"}
Nothing(why) == [refusal |-> why, receipts |-> {}, pages |-> <<>>, numbers |-> <<>>, links |-> <<>>,
                 outline |-> <<>>, forms |-> <<>>, signatures |-> <<>>]

\* The parts of an opened file in the order in which import reads them; the first
\* refusal is the result.
Project(doc) ==
  LET objects == doc.objects
      told == UNION {scan(objects, objects[n]) : n \in DOMAIN objects}
      catalog == lookup(objects, doc.trailer, "Root")
      pages == walk_pages(objects, key(catalog.d, "Pages"), <<>>, 0,
                          [refusal |-> None, seen |-> {}, out |-> <<>>])
      numbers == PageNumbers(pages.out)
      links == [i \in DOMAIN pages.out |-> annotations(objects, pages.out[i].d, numbers)]
      badlinks == SelectSeq(FlattenSeq(links), LAMBDA l : l.refusal # None)
      root == dict(objects, key(catalog.d, "Outlines"))
      items == outline(objects, IF root = <<>> THEN Null ELSE key(root[1], "First"), 1, numbers,
                       [refusal |-> None, visited |-> {}, out |-> <<>>])
      acro == dict(objects, key(catalog.d, "AcroForm"))
      roots == IF acro = <<>> THEN Null ELSE lookup(objects, acro[1], "Fields")
      forms == FoldLeft(LAMBDA a, r : IF a.refusal # None THEN a ELSE fields(objects, r, <<>>, "", 0, a),
                        [refusal |-> None, visited |-> {}, forms |-> <<>>, signatures |-> <<>>],
                        IF roots.t = "arr" THEN roots.items ELSE <<>>)
      receipts == (told \ Refusals) \cup doc.receipts
                  \cup (IF forms.signatures # <<>> THEN {"signature-not-verified"} ELSE {})
  IN CASE doc.refusal # None -> Nothing(doc.refusal)
       [] doc.refusal = None /\ told \cap Refusals # {} ->
            Nothing(CHOOSE r \in told \cap Refusals : TRUE)
       [] OTHER ->
            IF catalog.t # "dict" THEN Nothing(Malformed)
            ELSE IF pages.refusal # None THEN Nothing(pages.refusal)
            ELSE IF badlinks # <<>> THEN Nothing(badlinks[1].refusal)
            ELSE IF items.refusal # None THEN Nothing(items.refusal)
            ELSE IF forms.refusal # None THEN Nothing(forms.refusal)
            ELSE [refusal |-> None, receipts |-> receipts, pages |-> pages.out, numbers |-> numbers,
                  links |-> links, outline |-> items.out, forms |-> forms.forms,
                  signatures |-> forms.signatures]

CONSTANTS Graphs,         \* the object graphs of files that are revised
          Shapes,         \* the object graphs of files that are read as written
          Replacements,   \* the objects a revision may write, by number
          MaxRevisions    \* bound on the revisions

VARIABLES file,        \* the items in their order
          startxref,   \* where the newest section is, 0 when it cannot be found
          current,     \* the objects the producer means, by number
          revisions,   \* how often the file was written
          damaged,     \* the sections no longer describe the file
          result       \* what import returned, or NotRead
vars == <<file, startxref, current, revisions, damaged, result>>

NotRead == Nothing("not-read")

Object(n, o) == [k |-> "obj", num |-> n, obj |-> o]
Table(entries, trailer) == [k |-> "table", num |-> 0, section |-> [entries |-> entries, trailer |-> trailer]]
XrefStream(n, entries, trailer) ==
  Object(n, Stream("Type" :> Name("XRef"), [entries |-> entries, trailer |-> trailer]))

\* The object numbers a revision uses for its own streams.
StmNumber(r) == 100 + r
XrefNumber(r) == 200 + r

\* The items one revision appends at the end of a file: the objects, as they are
\* or packed in an object stream, and its sections.  Deleted objects are free.
Written(base, r, objects, deleted, packed, form, previous) ==
  LET numbers == Ascending(DOMAIN objects)
      plain == IF packed THEN <<Object(StmNumber(r), Stream("Type" :> Name("ObjStm"),
                                  [i \in DOMAIN numbers |-> <<numbers[i], objects[numbers[i]]>>]))>>
               ELSE [i \in DOMAIN numbers |-> Object(numbers[i], objects[numbers[i]])]
      ats == [n \in {plain[i].num : i \in DOMAIN plain} |->
                At(base + CHOOSE i \in DOMAIN plain : plain[i].num = n)]
      ins == IF packed THEN [n \in DOMAIN objects |-> In(StmNumber(r))] ELSE <<>>
      frees == [n \in deleted |-> Free]
      trailer == ("Root" :> Ref(1)) @@ (IF previous = 0 THEN <<>> ELSE "Prev" :> Num(previous))
      here == base + Len(plain) + 1
  IN CASE form = "table" -> plain \o <<Table(ats @@ frees, trailer)>>
       [] form = "stream" ->
            plain \o <<XrefStream(XrefNumber(r), (XrefNumber(r) :> At(here)) @@ ats @@ ins @@ frees, trailer)>>
       [] form = "hybrid" ->
            plain \o <<XrefStream(XrefNumber(r), ins, <<>>),
                       Table(ats @@ frees, ("XRefStm" :> Num(here)) @@ trailer)>>

\* An object in an object stream needs a cross-reference stream.
Forms(packed) == IF packed THEN {"stream", "hybrid"} ELSE {"table", "stream"}

Init ==
  /\ \E graph \in Graphs \cup Shapes, packed \in BOOLEAN : \E form \in Forms(packed) :
       /\ current = graph
       /\ file = Written(0, 0, graph, {}, packed, form, 0)
       /\ revisions = IF graph \in Graphs THEN 1 ELSE MaxRevisions + 1
       /\ graph \notin Graphs => form = "table"
  /\ startxref = Len(file)
  /\ damaged = FALSE
  /\ result = NotRead

\* An incremental update replaces one object and may delete another.
Revise ==
  /\ revisions <= MaxRevisions
  /\ ~damaged
  /\ result = NotRead
  /\ \E n \in DOMAIN Replacements, packed \in BOOLEAN : \E form \in Forms(packed) :
     \E o \in Replacements[n], deleted \in SUBSET (DOMAIN current \ {1, n}) :
       /\ Cardinality(deleted) <= 1
       /\ file' = file \o Written(Len(file), revisions, n :> o, deleted, packed, form, startxref)
       /\ current' = [m \in (DOMAIN current \cup {n}) \ deleted |-> IF m = n THEN o ELSE current[m]]
  /\ startxref' = Len(file')
  /\ revisions' = revisions + 1
  /\ UNCHANGED <<damaged, result>>

\* The offsets of the objects that the sections point to.
InUse == {entry.p : entry \in {e \in Range(read_xref(file, startxref).entries) : e.e = "at"}}

\* The pointer to the newest section is lost, the chain runs in a circle, or the
\* offsets of objects are wrong.
Damage ==
  /\ ~damaged
  /\ result = NotRead
  /\ \/ startxref' = 0 /\ file' = file
     \/ /\ file[startxref].k = "table"
        /\ file' = [file EXCEPT ![startxref].section.trailer = ("Prev" :> Num(startxref)) @@ @]
        /\ startxref' = startxref
     \/ /\ file' = <<[k |-> "other", num |-> 0]>> \o file   \* every offset is off
        /\ startxref' = startxref
     \/ \E p, q \in InUse :                               \* two objects changed places
          /\ p # q
          /\ file' = [file EXCEPT ![p] = file[q], ![q] = file[p]]
          /\ startxref' = startxref
  /\ damaged' = TRUE
  /\ UNCHANGED <<current, revisions, result>>

Import ==
  /\ result = NotRead
  /\ result' = Project(open(file, startxref))
  /\ UNCHANGED <<file, startxref, current, revisions, damaged>>

Done == result # NotRead /\ UNCHANGED vars

Next == Revise \/ Damage \/ Import \/ Done

Spec == Init /\ [][Next]_vars

(***************************************************************************)
(* Properties.                                                             *)
(***************************************************************************)

Clean == [refusal |-> None, objects |-> current, trailer |-> "Root" :> Ref(1), receipts |-> {}]

\* Whatever the layout of the file and its revisions, import sees the objects as
\* the producer last left them: the projection is that of a fresh file with
\* just those objects, and nothing is reported as repaired.
LayoutIsInvisible == result # NotRead /\ ~damaged => result = Project(Clean)

RECURSIVE Reached(_, _)
\* The objects that edges, a function from numbers to sets of them, reach.
Reached(seen, edges) ==
  LET more == seen \cup UNION {edges[n] : n \in seen \cap DOMAIN edges}
  IN IF more = seen THEN seen ELSE Reached(more, edges)

RefsIn(o) == IF o.t = "arr" THEN {o.items[i].n : i \in {j \in DOMAIN o.items : o.items[j].t = "ref"}}
             ELSE IF o.t = "ref" THEN {o.n} ELSE {}
Edges(keys) == [n \in DOMAIN current |-> IF current[n].t # "dict" THEN RefsIn(current[n])
                                         ELSE UNION {RefsIn(key(current[n].d, k)) : k \in keys}]
Starts(k) == LET o == key(current[1].d, k)
             IN IF o.t = "dict" THEN RefsIn(key(o.d, "First")) ELSE RefsIn(o)
Typed(n, type) == n \in DOMAIN current /\ current[n].t = "dict" /\ is_name(current[n].d, "Type", type)

\* Over any object graph, shared and cyclic ones too: an admitted file has every
\* page that its tree reaches exactly once, every outline item and every field
\* at most once and the reachable items all, and a link to a page gives the
\* number of the page it names.  Nothing active is anywhere in it.
StructureIsWhole ==
  result # NotRead /\ ~damaged /\ result.refusal = None =>
     /\ LET refs == [i \in DOMAIN result.pages |-> result.pages[i].ref]
        IN /\ IsInjective(refs)
           /\ Range(refs) = {n \in Reached(Starts("Pages"), Edges({"Kids"})) : Typed(n, "Page")}
     /\ LET items == [i \in DOMAIN result.outline |-> result.outline[i].item]
        IN /\ IsInjective(items)
           /\ Range(items) = {n \in Reached(Starts("Outlines"), Edges({"First", "Next"})) :
                                Typed(n, "Item")}
     /\ \A i \in DOMAIN result.outline :
          LET d == current[result.outline[i].item].d
          IN result.outline[i].page # 0 =>
               result.pages[result.outline[i].page].ref \in Reached(RefsIn(key(d, "Dest")), Edges({"D"}))
     /\ IsInjective(result.forms) /\ IsInjective(result.signatures)
     /\ \A n \in DOMAIN current :
          current[n].t = "dict" /\ "S" \in DOMAIN current[n].d =>
            \A m \in {n} \cup Reached(RefsIn(current[n].d["S"]), <<>>) :
               m \in DOMAIN current => current[m] # Name("Launch")

\* A file whose sections do not describe it is never read in silence.
DamageIsTold ==
  result # NotRead /\ damaged /\ result.refusal = None => "xref-repaired" \in result.receipts

\* rebuild_xref: later definitions win, as incremental updates require.  No
\* deletion is in the way: those are not to be seen in a file without its table.
\* Only the pointer is lost here, the objects are all in the order they were
\* written in.
RepairKeepsNewest ==
  result # NotRead /\ startxref = 0 /\ result.refusal = None =>
     \A n \in DOMAIN current : open(file, startxref).objects[n] = current[n]
=============================================================================
