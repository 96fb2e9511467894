------------------------- MODULE DocumentAdmission -------------------------
(***************************************************************************)
(* Admission of an adapter's projection into the evidence envelope:        *)
(* crates/bran-document/src/admit.rs.                                      *)
(*                                                                         *)
(* A text is a sequence of characters: "a" and the query term "q" of one   *)
(* byte, "e" of two, "_" blank, "n" the line feed, "S" a private marker    *)
(* and "B" one of the public boundary.  Ids are numbers in their order; id *)
(* 0 is one valid_id refuses.  A projection is what Json::parse gives back *)
(* of the canonical bytes.                                                 *)
(***************************************************************************)
EXTENDS Naturals, Integers, Sequences, FiniteSets, SequencesExt

CONSTANTS MaxAnchors,         \* MAX_ANCHORS
          MaxTextBytes,       \* MAX_TEXT_BYTES
          MaxEnvelopeBytes,   \* MAX_ENVELOPE_BYTES
          MaxOriginalBytes,   \* 20 MiB, of the document
          MaxOmittedBytes     \* and of the omitted text

NoRefusal == "none"

Width(c) == IF c = "e" THEN 2 ELSE 1
Utf8Bytes(text) == FoldLeft(LAMBDA n, c : n + Width(c), 0, text)
BlankText(text) == Range(text) \subseteq {"_", "n"}
Has(text, c) == c \in Range(text)

\* validate_locator, of paths, texts and every string of the envelope.
TextRefusal(text) == CASE Has(text, "S") -> "DlpFindings"
                       [] Has(text, "B") -> "PublicBoundary"
                       [] OTHER -> NoRefusal

\* truncate_bytes: the longest prefix within the bound that splits no character.
TruncateBytes(text, max) ==
  LET fits == {n \in 0..Len(text) : Utf8Bytes(SubSeq(text, 1, n)) <= max}
  IN SubSeq(text, 1, CHOOSE n \in fits : \A m \in fits : m <= n)

(***************************************************************************)
(* read_projection.                                                        *)
(***************************************************************************)

Family(format) == CASE format = "docx" -> "flow" [] format = "xlsx" -> "grid"
                    [] format = "pptx" -> "presentation" [] format = "pdf" -> "fixed-layout"

ValidRole(format, role) ==
  role \in CASE format = "docx" -> {"heading", "paragraph", "table", "list", "header", "footer", "title"}
             [] format = "xlsx" -> {"sheet", "cell", "range", "table", "header", "chart"}
             [] format = "pptx" -> {"heading", "paragraph", "table", "list", "title", "notes", "shape"}
             [] format = "pdf" -> {"heading", "paragraph", "table", "figure", "header", "footer", "title", "list"}

Levels == {"exact", "normalized", "approximated", "unsupported"}
ValidFidelity(f) == DOMAIN f # {} /\ Range(f) \subseteq Levels

\* docx_envelope_fidelity: what the DOCX adapter can carry, whatever it observed.
DocxFidelity == [headers_footers |-> "unsupported", headings |-> "normalized", lists |-> "normalized",
                 macros |-> "unsupported", paragraphs |-> "normalized", tables |-> "normalized",
                 text |-> "normalized"]

Far == 1000000
Within(n, low, high) == low <= n /\ n <= high
Clamped(n) == IF n < 0 THEN 0 ELSE IF n > Far THEN Far ELSE n
MaxOf(a, b) == IF a < b THEN b ELSE a

\* The native identity of one anchor, as far as its format's reader checks it.
ReadableLocator(format, l) ==
  CASE format = "docx" -> l.section # <<>> /\ Within(l.ordinal, 1, Far)
    [] format = "pptx" -> Within(l.slide, 1, Far) /\ Within(l.shape, 1, Far) /\ Within(l.z, 0, Far)
    [] format = "pdf" -> l.page >= 1 /\ l.block >= 1
    [] OTHER -> TRUE

\* A bounding box is approximated, so it is clamped rather than refused.
NativeLocator(format, l) ==
  IF format # "pdf" THEN l
  ELSE LET x0 == Clamped(l.x0)  y0 == Clamped(l.y0)
       IN [l EXCEPT !.x0 = x0, !.y0 = y0, !.x1 = MaxOf(Clamped(@), x0), !.y1 = MaxOf(Clamped(@), y0)]

Derivation(format, a) ==
  CASE format # "pdf" \/ a.derivation \in {"embedded-text", "absent"} -> "embedded"
    [] a.derivation \in {"ocr", "ocr-layer"} -> "ocr"
    [] OTHER -> "unknown"

ReadableAnchor(format, a) ==
  /\ a.locator.family = Family(format)
  /\ ReadableLocator(format, a.locator)
  /\ a.id # 0 /\ ValidRole(format, a.role)
  /\ Derivation(format, a) # "unknown"

Readable(format, p) ==
  /\ p.schema = format
  /\ IF format = "docx" THEN Range(p.fidelity) \subseteq Levels ELSE ValidFidelity(p.fidelity)
  /\ \A i \in DOMAIN p.anchors : ReadableAnchor(format, p.anchors[i])

ReadAnchors(format, p) ==
  [i \in DOMAIN p.anchors |->
     LET a == p.anchors[i]
     IN [id |-> a.id, role |-> a.role, text |-> a.text, locator |-> NativeLocator(format, a.locator),
         derivation |-> Derivation(format, a)]]

ReadFidelity(format, p) == IF format = "docx" THEN DocxFidelity ELSE p.fidelity

(***************************************************************************)
(* apply_anchor_budgets.                                                   *)
(***************************************************************************)

TotalBytes(anchors) == FoldLeft(LAMBDA n, a : n + Utf8Bytes(a.text), 0, anchors)

\* Blank anchors go silently, long ones and those over the count are counted.
ApplyAnchorBudgets(anchors) ==
  LET sorted == SortSeq(anchors, LAMBDA a, b : a.id < b.id)
      shown == SelectSeq(sorted, LAMBDA a : ~BlankText(a.text))
      long == SelectSeq(shown, LAMBDA a : Utf8Bytes(a.text) > MaxTextBytes)
      short == SelectSeq(shown, LAMBDA a : Utf8Bytes(a.text) <= MaxTextBytes)
      over == SubSeq(short, MaxAnchors + 1, Len(short))
  IN [kept |-> SubSeq(short, 1, Len(short) - Len(over)),
      omitted |-> Len(long) + Len(over), omittedBytes |-> TotalBytes(long) + TotalBytes(over)]

(***************************************************************************)
(* validate_built_envelope.                                                *)
(***************************************************************************)

AnchorOverhead == 1   \* the JSON around one anchor
EnvelopeBytes(e) ==
  Utf8Bytes(e.text) + FoldLeft(LAMBDA n, a : n + AnchorOverhead + Utf8Bytes(a.text), 0, e.anchors)

ValidNativeLocator(format, l) ==
  /\ l.family = Family(format)
  /\ CASE format = "docx" -> ~BlankText(l.section) /\ Within(l.ordinal, 1, Far)
       [] format = "xlsx" -> ~BlankText(l.sheet) /\ Within(l.row, 1, 1048576) /\ Within(l.column, 1, 16384)
       [] format = "pptx" -> Within(l.slide, 1, Far) /\ Within(l.shape, 1, Far) /\ Within(l.z, 0, Far)
       [] format = "pdf" -> /\ Within(l.page, 1, Far) /\ Within(l.block, 1, Far)
                            /\ Within(l.x0, 0, l.x1) /\ Within(l.y0, 0, l.y1)
                            /\ l.x1 <= Far /\ l.y1 <= Far

Features(format) ==
  CASE format = "docx" -> DOMAIN DocxFidelity
    [] format = "xlsx" -> {"text", "sheets", "cells", "formulas", "charts", "macros"}
    [] format = "pptx" -> {"text", "slides", "shapes", "speaker_notes", "z_order", "macros", "animations"}
    [] format = "pdf" -> {"text", "reading_order", "bounding_boxes", "tables", "figures", "ocr", "javascript"}

LocatorTexts(format, l) == CASE format = "docx" -> <<l.section>> [] format = "xlsx" -> <<l.sheet>> [] OTHER -> <<>>

\* Every string the envelope holds, in no order that matters.
Strings(format, e) ==
  <<e.locator, e.text>> \o FlattenSeq([i \in DOMAIN e.anchors |->
                              <<e.anchors[i].text>> \o LocatorTexts(format, e.anchors[i].locator)])
UnsafeStrings(strings) == SelectSeq(strings, LAMBDA t : TextRefusal(t) # NoRefusal)

EnvelopeRefusal(format, e) ==
  CASE EnvelopeBytes(e) > MaxEnvelopeBytes \/ ~Within(e.length, 1, MaxOriginalBytes) -> "Oversized"
    [] e.receipt.omitted > MaxAnchors \/ e.receipt.omittedBytes > MaxOmittedBytes -> "Oversized"
    [] \E i \in DOMAIN e.anchors :
          \/ i > 1 /\ e.anchors[i].id <= e.anchors[i - 1].id
          \/ ~ValidNativeLocator(format, e.anchors[i].locator) -> "MalformedContainer"
    [] DOMAIN e.fidelity # Features(format) -> "MalformedContainer"
    [] \E k \in {"macros", "formulas", "javascript", "animations"} \cap DOMAIN e.fidelity :
          e.fidelity[k] = "exact" -> "UnsupportedContainer"
    [] UnsafeStrings(Strings(format, e)) # <<>> -> TextRefusal(Head(UnsafeStrings(Strings(format, e))))
    [] OTHER -> NoRefusal

(***************************************************************************)
(* admit.                                                                  *)
(***************************************************************************)

Joined(anchors) == FlattenSeq([i \in DOMAIN anchors |->
                                 IF i = 1 THEN anchors[i].text ELSE <<"n">> \o anchors[i].text])

\* The truncation receipt.
Receipt(budget, joined, text) ==
  [truncated |-> Len(text) # Len(joined) \/ budget.omitted > 0, omitted |-> budget.omitted,
   omittedBytes |-> budget.omittedBytes + Utf8Bytes(joined) - Utf8Bytes(text)]

Envelope(format, document, locator, budget) ==
  LET joined == Joined(budget.kept)
      text == TruncateBytes(joined, MaxTextBytes)
  IN [locator |-> locator, length |-> document.length, anchors |-> budget.kept, text |-> text,
      fidelity |-> ReadFidelity(format, document.projection), receipt |-> Receipt(budget, joined, text)]

Refused(why) == [refusal |-> why]

\* A document is what its import gives: a refusal, or receipt codes and a
\* projection.
Admit(format, document, locator) ==
  LET budget == ApplyAnchorBudgets(ReadAnchors(format, document.projection))
      envelope == Envelope(format, document, locator, budget)
      emitted == [i \in DOMAIN budget.kept |-> budget.kept[i].text] \o <<locator, envelope.text>>
  IN IF BlankText(locator) THEN Refused("MalformedContainer")
     ELSE IF TextRefusal(locator) # NoRefusal THEN Refused(TextRefusal(locator))
     ELSE IF document.refusal # NoRefusal THEN Refused(document.refusal)
     ELSE CASE "dlp-findings" \in document.codes -> Refused("DlpFindings")
            [] "public-boundary-violation" \in document.codes -> Refused("PublicBoundary")
            [] ~Readable(format, document.projection) -> Refused("UnsupportedContainer")
            [] budget.kept = <<>> -> Refused("NoAdmissibleText")
            [] UnsafeStrings(emitted) # <<>> -> Refused(TextRefusal(Head(UnsafeStrings(emitted))))
            [] EnvelopeRefusal(format, envelope) # NoRefusal -> Refused(EnvelopeRefusal(format, envelope))
            [] OTHER -> [refusal |-> NoRefusal, envelope |-> envelope]
=============================================================================
