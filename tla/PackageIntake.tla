--------------------------- MODULE PackageIntake ---------------------------
(***************************************************************************)
(* Intake of an untrusted OPC package: the bounded ZIP reader and writer   *)
(* of crates/bran-document/src/zip.rs, the XML reader of xml.rs and the    *)
(* package checks of opc.rs.                                               *)
(*                                                                         *)
(* An archive is its length and what its records say, not its bytes.  A    *)
(* name is a sequence of segments, a segment the sequence of the pieces    *)
(* its dots separate: <<"main", "xml">>; "", ".", ".." and "x." are the    *)
(* segments whose last piece is "".  Part data is a sequence of XML        *)
(* tokens.  A string carries a mark: what the export validator finds in    *)
(* it once its character references are decoded.  A package with several   *)
(* faults is refused here for the one that is first in ZIP order; the code *)
(* looks at the types of the parts in name order.                          *)
(***************************************************************************)
EXTENDS Naturals, Integers, Sequences, FiniteSets, SequencesExt, FiniteSetsExt

CONSTANTS MaxPackageBytes, MaxParts, MaxPartBytes, MaxTotalBytes, MaxRatio,
          MaxXmlDepth, MaxXmlNodes   \* struct Limits

None == "none"
Unmarked == "clean"

(***************************************************************************)
(* zip::read.                                                              *)
(***************************************************************************)

\* How the local header disagrees with the central record, if it does; with a
\* data descriptor its CRC and sizes are not compared.
LocalRefusal(r) ==
  CASE r.local = "encrypted" -> "Encrypted"
    [] r.local = "sizes" /\ r.descriptor -> None
    [] r.local # "agrees" -> "MalformedContainer"
    [] OTHER -> None

RecordRefusal(records, i, directoryAt) ==
  LET r == records[i]
  IN CASE \E j \in 1..(i - 1) : records[j].name = r.name -> "DuplicatePart"
       [] r.encrypted -> "Encrypted"
       [] r.method \notin {0, 8} -> "UnsupportedContainer"
       [] LocalRefusal(r) # None -> LocalRefusal(r)
       [] r.at + r.header + r.packed > directoryAt -> "MalformedContainer"
       [] OTHER -> None

Overlap(records) ==
  \E i, j \in DOMAIN records :
     i # j /\ records[i].at <= records[j].at
           /\ records[i].at + records[i].header + records[i].packed > records[j].at

FirstRefusal(n, Refusal(_)) ==
  LET bad == {i \in 1..n : Refusal(i) # None} IN IF bad = {} THEN None ELSE Refusal(Min(bad))

\* Everything the reader checks before it inflates the first entry.
DirectoryRefusal(z) ==
  CASE z.length > MaxPackageBytes -> "Oversized"
    [] z.end = "compound" -> "Encrypted"
    [] z.end = "missing" -> "MalformedContainer"
    [] z.end \in {"zip64", "disks"} -> "UnsupportedContainer"
    [] Len(z.records) > MaxParts -> "TooManyParts"
    [] z.end = "misplaced" -> "MalformedContainer"
    [] OTHER -> LET per(i) == RecordRefusal(z.records, i, z.directoryAt)
                    first == FirstRefusal(Len(z.records), per)
                IN IF first # None THEN first
                   ELSE IF Overlap(z.records) THEN "MalformedContainer" ELSE None

Smaller(a, b) == IF a < b THEN a ELSE b
Larger(a, b) == IF a < b THEN b ELSE a

\* One entry: its size against what is left of the budgets, and its data.
EntryRefusal(r, remaining) ==
  LET budget == Smaller(MaxPartBytes, remaining)
  IN CASE r.method = 0 /\ r.size # r.packed -> "MalformedContainer"
       [] r.method = 0 /\ r.size > budget -> "Oversized"
       [] r.method = 8 /\ (r.size > budget \/ r.size > MaxRatio * Larger(r.packed, 1)) -> "DecompressionLimit"
       [] ~r.intact -> "MalformedContainer"
       [] OTHER -> None

(***************************************************************************)
(* zip::write_bounded: entries as the exporters give them, with the size   *)
(* deflate makes of each.                                                  *)
(***************************************************************************)

LocalHeader == 30
CentralHeader == 46
EndRecord == 22

\* An entry whose ratio intake would refuse is stored.
Packed(e) == IF e.size > MaxRatio * Larger(e.deflated, 1)
             THEN [method |-> 0, packed |-> e.size] ELSE [method |-> 8, packed |-> e.deflated]

Sizes(entries) == FoldLeft(LAMBDA n, e : n + e.size, 0, entries)
PartsWritten(entries) == FoldLeft(LAMBDA n, e : n + LocalHeader + e.nameLen + Packed(e).packed, 0, entries)
PackageSize(entries) ==
  PartsWritten(entries) + FoldLeft(LAMBDA n, e : n + CentralHeader + e.nameLen, 0, entries) + EndRecord

WriteRefusal(entries) ==
  CASE Len(entries) > MaxParts -> "TooManyParts"
    [] \E i \in DOMAIN entries : entries[i].size > MaxPartBytes -> "Oversized"
    [] Sizes(entries) > MaxTotalBytes -> "Oversized"
    [] PackageSize(entries) > MaxPackageBytes -> "Oversized"
    [] OTHER -> None

WriteBounded(entries) ==
  [length |-> PackageSize(entries), end |-> "plain", directoryAt |-> PartsWritten(entries),
   records |-> [i \in DOMAIN entries |->
     LET e == entries[i]
     IN [name |-> e.name, mark |-> Unmarked, encrypted |-> FALSE, descriptor |-> FALSE, local |-> "agrees",
         at |-> PartsWritten(SubSeq(entries, 1, i - 1)), header |-> LocalHeader + e.nameLen,
         method |-> Packed(e).method, packed |-> Packed(e).packed, size |-> e.size,
         intact |-> TRUE, data |-> e.data]]]

(***************************************************************************)
(* xml::parse, a token at a time.                                          *)
(***************************************************************************)

NoXml == [depth |-> 0, nodes |-> 0, roots |-> 0, events |-> <<>>, refusal |-> None]

Count(x) == IF x.nodes + 1 > MaxXmlNodes THEN [x EXCEPT !.refusal = "XmlNodeLimit"]
            ELSE [x EXCEPT !.nodes = @ + 1]

OpenElement(x, e, empty) ==
  LET roots == IF x.depth = 0 THEN x.roots + 1 ELSE x.roots
  IN CASE roots > 1 -> [x EXCEPT !.refusal = "MalformedXml"]
       [] x.depth + 1 > MaxXmlDepth -> [x EXCEPT !.refusal = "XmlDepthLimit"]
       [] OTHER -> LET c == Count(x)
                   IN [c EXCEPT !.roots = roots, !.events = Append(@, e),
                                !.depth = IF empty THEN @ ELSE @ + 1]

\* text_event: merged with the text before it, and only blank outside the root.
TextEvent(x, blank) ==
  CASE x.depth = 0 -> IF blank THEN x ELSE [x EXCEPT !.refusal = "MalformedXml"]
    [] x.events # <<>> /\ Last(x.events).name = "text" -> x
    [] OTHER -> [Count(x) EXCEPT !.events = Append(@, [name |-> "text"])]

XmlToken(x, t) ==
  CASE x.refusal # None -> x
    [] t.t \in {"open", "empty"} -> OpenElement(x, t.e, t.t = "empty")
    [] t.t = "close" -> IF x.depth = 0 THEN [x EXCEPT !.refusal = "MalformedXml"]
                        ELSE [x EXCEPT !.depth = @ - 1, !.events = Append(@, [name |-> "close"])]
    [] t.t = "text" -> TextEvent(x, t.blank)
    [] t.t = "dtd" -> [x EXCEPT !.refusal = "XmlDtdRefused"]
    [] t.t = "bad" -> [x EXCEPT !.refusal = "MalformedXml"]
    [] OTHER -> x

Parse(tokens) ==
  LET x == FoldLeft(XmlToken, NoXml, tokens)
  IN IF x.refusal = None /\ (x.depth # 0 \/ x.roots # 1) THEN [x EXCEPT !.refusal = "MalformedXml"] ELSE x

(***************************************************************************)
(* Part names and relationship targets.                                    *)
(***************************************************************************)

\* to_ascii_lowercase, over the pieces the names here are made of.
LowerCase == [RELS |-> "rels", Main |-> "main"]
Lower(name) == [i \in DOMAIN name |-> [j \in DOMAIN name[i] |->
                  IF name[i][j] \in DOMAIN LowerCase THEN LowerCase[name[i][j]] ELSE name[i][j]]]

\* Pieces with a backslash, a control character or an encoded separator.
Hostile == {"a%2Fb"}

\* validate_part_name
ValidPartName(name) ==
  /\ name # <<>>
  /\ \A i \in DOMAIN name : Last(name[i]) # "" /\ Range(name[i]) \cap Hostile = {}

Dot == <<"", "">>
DotDot == <<"", "", "">>

\* One segment of a target: <<>> is the root, and Above, no part name, is past it.
Above == << <<"above", "">> >>
Climb(at, segment) ==
  CASE at = Above \/ segment = Dot -> at
    [] segment = DotDot -> IF at = <<>> THEN Above ELSE Front(at)
    [] OTHER -> Append(at, segment)

\* resolve_target: relative to the source part's directory unless it starts at
\* the root; a target that climbs out or is no part name is refused.
ResolveTarget(source, target) ==
  FoldLeft(LAMBDA at, s : Climb(at, s),
           IF target.absolute \/ source = <<>> THEN <<>> ELSE Front(source), target.segments)

IsRels(segment) == Lower(<<segment>>)[1] = <<"_rels">>

\* relationship_source: dir/_rels/name.rels describes dir/name, and _rels/.rels
\* the package, which has the empty name.
NoSource == << <<"no source">> >>
RelationshipSource(name) ==
  LET file == Last(name)
      stem == Front(file)
      directory == Front(name)
  IN IF Len(file) < 2 \/ Last(Lower(<<file>>)[1]) # "rels" \/ directory = <<>> \/ ~IsRels(Last(directory))
     THEN NoSource
     ELSE IF stem = <<"">> THEN Front(directory) ELSE Append(Front(directory), stem)

(***************************************************************************)
(* opc::open.                                                              *)
(***************************************************************************)

\* dlp_scan of one string.
Finding(mark) == CASE mark = "dlp" -> {"dlp-findings"}
                   [] mark = "boundary" -> {"public-boundary-violation"}
                   [] OTHER -> {}

\* The raw scan of an entry sees its name and the marks no character reference
\* hides.
RawFindings(entry) ==
  Finding(entry.mark)
  \cup UNION {Finding(entry.data[i].e.mark) : i \in {j \in DOMAIN entry.data :
                entry.data[j].t \in {"open", "empty"} /\ ~entry.data[j].hidden}}

IsDirectory(entry) == Last(entry.name) = <<"">> /\ Len(entry.name) > 1 /\ entry.data = <<>>
PartName(entry) == IF IsDirectory(entry) THEN Front(entry.name) ELSE entry.name

NameRefusal(entries, i) ==
  CASE ~ValidPartName(PartName(entries[i])) -> "UnsafePartPath"
    [] \E j \in 1..(i - 1) : Lower(PartName(entries[j])) = Lower(PartName(entries[i])) -> "DuplicatePart"
    [] OTHER -> None

ContentTypes == << <<"[content_types]", "xml">> >>
IsTypes(entry) == Lower(entry.name) = ContentTypes

\* content_types: Default by extension and Override by part name, each once.
TypeTable(events, tag) ==
  LET tagged == SelectSeq(events, LAMBDA e : e.name = tag)
  IN [k \in {tagged[i].key : i \in DOMAIN tagged} |->
        LET hit == {i \in DOMAIN tagged : tagged[i].key = k} IN tagged[Min(hit)]]
RepeatedType(events) ==
  \E tag \in {"Default", "Override"} :
     LET tagged == SelectSeq(events, LAMBDA e : e.name = tag)
     IN \E i, j \in DOMAIN tagged : i # j /\ tagged[i].key = tagged[j].key

NoType == [type |-> None, mark |-> Unmarked]
TypeOf(name, defaults, overrides) ==
  LET lower == Lower(name)
      extension == IF Len(Last(lower)) > 1 THEN Last(Last(lower)) ELSE ""
  IN IF lower \in DOMAIN overrides THEN overrides[lower]
     ELSE IF extension \in DOMAIN defaults THEN defaults[extension] ELSE NoType

TypeRefusal(type) == CASE type = None -> "MalformedContainer"
                       [] type = "vba" -> "ActiveContent"
                       [] type = "connections" -> "ExternalReference"
                       [] OTHER -> None

\* read_relationships, one Relationship element after another.
AddRelationship(acc, e, source, names) ==
  LET resolved == ResolveTarget(source, e.target)
      external == e.mode = "External"
      refusal == CASE e.id \in acc.ids \/ e.mode = "odd" -> "MalformedContainer"
                   [] external /\ e.kind # "hyperlink" -> "ExternalReference"
                   [] ~external /\ ~ValidPartName(resolved) -> "UnsafePartPath"
                   [] OTHER -> None
  IN IF acc.refusal # None \/ e.name # "Relationship" THEN acc
     ELSE IF refusal # None THEN [acc EXCEPT !.refusal = refusal]
     ELSE [acc EXCEPT
             !.ids = @ \cup {e.id},
             !.all = @ \cup {[source |-> source, id |-> e.id, external |-> external, mark |-> e.mark,
                              target |-> IF external THEN e.target ELSE resolved]},
             !.codes = @ \cup (IF external THEN {"hyperlink-not-fetched"}
                               ELSE IF Lower(resolved) \in names THEN {} ELSE {"missing-relationship-target"})]

Relationships(part, names) ==
  LET x == Parse(part.data)
      none == [ids |-> {}, all |-> {}, codes |-> {}, refusal |-> x.refusal]
  IN FoldLeft(LAMBDA acc, e : AddRelationship(acc, e, RelationshipSource(part.name), names), none, x.events)

(***************************************************************************)
(* The intake as it runs: a step ends where the cancel flag is looked at,  *)
(* before the archive, each entry and each XML part.                       *)
(***************************************************************************)

Intake(z) == [z |-> z, pc |-> "read", i |-> 1, remaining |-> MaxTotalBytes, defaults |-> <<>>,
              parts |-> <<>>, relationships |-> {}, codes |-> {}, result |-> None]

End(s, result) == [s EXCEPT !.pc = "done", !.result = result]

Entries(s) == s.z.records
NamesOf(s) == {Lower(PartName(s.z.records[i])) : i \in DOMAIN s.z.records}
RelParts(s) == SelectSeq(s.parts, LAMBDA p : RelationshipSource(p.name) # NoSource)

\* Mutant of Package: only the raw bytes are scanned.
PackageRawOnly(s) == End(s, "ok")

\* The last scan is over the canonical bytes, where every string is decoded.
Package(s) ==
  LET emitted == {p.typeMark : p \in Range(s.parts)} \cup {r.mark : r \in s.relationships}
  IN End([s EXCEPT !.codes = @ \cup UNION {Finding(m) : m \in emitted}], "ok")

\* The name checks of opc::open, and the step after them.
Named(s) ==
  LET per(i) == NameRefusal(Entries(s), i)
      refusal == FirstRefusal(Len(Entries(s)), per)
      found == UNION {RawFindings(Entries(s)[i]) : i \in DOMAIN Entries(s)}
  IN IF refusal # None THEN End(s, refusal)
     ELSE IF \A i \in DOMAIN Entries(s) : ~IsTypes(Entries(s)[i]) THEN End(s, "MalformedContainer")
     ELSE [s EXCEPT !.codes = found, !.pc = "types"]

\* The types part read, every other file becomes a part of its type.
Typed(s) ==
  LET x == Parse((CHOOSE r \in Range(Entries(s)) : IsTypes(r)).data)
      defaults == TypeTable(x.events, "Default")
      overrides == TypeTable(x.events, "Override")
      files == SelectSeq(Entries(s), LAMBDA r : ~IsDirectory(r) /\ ~IsTypes(r))
      type(i) == TypeOf(files[i].name, defaults, overrides)
      per(i) == TypeRefusal(type(i).type)
      refusal == FirstRefusal(Len(files), per)
  IN CASE x.refusal # None -> End(s, x.refusal)
       [] RepeatedType(x.events) -> End(s, "MalformedContainer")
       [] refusal # None -> End(s, refusal)
       [] OTHER -> [s EXCEPT !.pc = "rels", !.i = 1,
                      !.parts = [i \in DOMAIN files |->
                        [name |-> files[i].name, data |-> files[i].data, typeMark |-> type(i).mark]]]

IntakeStep(s) ==
  CASE s.pc = "read" ->
         LET refusal == DirectoryRefusal(s.z)
         IN IF refusal # None THEN End(s, refusal) ELSE [s EXCEPT !.pc = "entries"]
    [] s.pc = "entries" /\ s.i <= Len(Entries(s)) ->
         LET r == Entries(s)[s.i]
             refusal == EntryRefusal(r, s.remaining)
         IN IF refusal # None THEN End(s, refusal)
            ELSE [s EXCEPT !.i = @ + 1, !.remaining = @ - r.size]
    [] s.pc = "entries" -> Named(s)
    [] s.pc = "types" -> Typed(s)
    [] s.pc = "rels" /\ s.i <= Len(RelParts(s)) ->
         LET got == Relationships(RelParts(s)[s.i], NamesOf(s))
         IN IF got.refusal # None THEN End(s, got.refusal)
            ELSE [s EXCEPT !.i = @ + 1, !.relationships = @ \cup got.all, !.codes = @ \cup got.codes]
    [] OTHER -> Package(s)

\* Cancel::check stands before each step that inflates or parses; the checks of
\* names and the last scan run to their end.
Checked(s) == \/ s.pc = "read"
              \/ s.pc = "entries" /\ s.i <= Len(Entries(s))
              \/ s.pc = "types"
              \/ s.pc = "rels" /\ s.i <= Len(RelParts(s))
=============================================================================
