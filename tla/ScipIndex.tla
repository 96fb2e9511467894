----------------------------- MODULE ScipIndex -----------------------------
(***************************************************************************)
(* Exact symbol navigation from an existing SCIP index                     *)
(* (crates/bran-core/src/scip.rs) and what a query reports of it           *)
(* (SymbolNavigation in crates/bran-cli/src/main.rs).                      *)
(*                                                                         *)
(* A protobuf message is the sequence of its fields: a number n, a wire    *)
(* type t and a value v (a number, a nested message, a text, or the        *)
(* numbers of a packed field).  A symbol is a number, in the order of the  *)
(* symbols' texts, and SymbolText gives its characters.  Paths, texts and  *)
(* names are numbers as well.                                              *)
(***************************************************************************)
EXTENDS Integers, Sequences, FiniteSets, SequencesExt, FiniteSetsExt

CONSTANTS MaxSymbols,      \* MAX_SYMBOLS: symbols selected, and pairs tracked
          MaxCandidates,   \* MAX_CANDIDATES: facts examined
          MaxCoordinate,   \* MAX_COORDINATE
          Groups,          \* bytes of the longest varint; 10 in the code
          SymbolText       \* the characters of every symbol

(***************************************************************************)
(* The wire format.                                                        *)
(***************************************************************************)

Bad == [ok |-> FALSE]
Good(v) == [ok |-> TRUE, v |-> v]

RECURSIVE Varint(_, _, _)
\* Reader::varint from a byte on, `shift' groups in: the last group of the longest
\* one holds a single bit.  The value and the bytes used.
Varint(bytes, at, shift) ==
  IF at \notin DOMAIN bytes \/ shift = Groups THEN Bad
  ELSE LET byte == bytes[at]
           rest == Varint(bytes, at + 1, shift + 1)
       IN IF shift = Groups - 1 /\ byte > 1 THEN Bad
          ELSE IF byte < 128 THEN Good(<<byte * 2^(7 * shift), at + 1>>)
          ELSE IF ~rest.ok THEN Bad
          ELSE Good(<<(byte - 128) * 2^(7 * shift) + rest.v[1], rest.v[2]>>)

\* The last value of a field, or what stands for one that is absent.
LastOf(message, n, absent) ==
  LET at == {i \in DOMAIN message : message[i].n = n}
  IN IF at = {} THEN absent ELSE message[Max(at)].v

\* The fields `n' of a message must all be of the wire type.
Typed(message, n, t) == \A i \in DOMAIN message : message[i].n = n => message[i].t = t

(***************************************************************************)
(* Occurrences, symbol information and documents.                          *)
(***************************************************************************)

\* A range of three numbers is within one line.
Coordinates(numbers) == IF Len(numbers) = 3 THEN <<numbers[1], numbers[2], numbers[1], numbers[3]>>
                        ELSE numbers

\* occurrence: the deprecated range, packed or not, unless a typed one is there.
occurrence(message) ==
  LET ranges == SelectSeq(message, LAMBDA f : f.n = 1)
      numbers == FlattenSeq([i \in DOMAIN ranges |->
                               IF ranges[i].t = "bytes" THEN ranges[i].v ELSE <<ranges[i].v>>])
      typed == {i \in DOMAIN message : message[i].n \in {8, 9}}
      range == IF typed = {} THEN numbers ELSE message[Max(typed)].v
      c == Coordinates(range)
  IN IF \/ ~Typed(message, 2, "bytes") \/ ~Typed(message, 3, "varint") \/ Len(numbers) > 4
        \/ Len(range) \notin {3, 4}
        \/ \E i \in 1..4 : c[i] > MaxCoordinate
        \/ c[3] < c[1] \/ (c[3] = c[1] /\ c[4] < c[2])
     THEN Bad
     ELSE Good([symbol |-> LastOf(message, 2, 0), definition |-> LastOf(message, 3, 0) % 2 = 1,
                start |-> c[1], end |-> c[3]])

\* information: the symbols it implements, and its kind.  A symbol is required.
information(message) ==
  LET relations == SelectSeq(message, LAMBDA f : f.n = 4)
      implementing == SelectSeq(relations, LAMBDA f : LastOf(f.v, 3, 0) # 0)
  IN IF ~Typed(message, 1, "bytes") \/ ~Typed(message, 4, "bytes") \/ LastOf(message, 1, 0) = 0 THEN Bad
     ELSE Good([symbol |-> LastOf(message, 1, 0), kind |-> LastOf(message, 5, 0),
                implements |-> [i \in DOMAIN implementing |-> LastOf(implementing[i].v, 1, 0)]])

\* What decoding every message gave: a message that is malformed refuses them all.
Every(decoded) == IF \E i \in DOMAIN decoded : ~decoded[i].ok THEN Bad
                  ELSE Good([i \in DOMAIN decoded |-> decoded[i].v])
FieldsOf(message, n) == SelectSeq(message, LAMBDA f : f.n = n)
Occurrences(message) == LET m == FieldsOf(message, 2) IN Every([i \in DOMAIN m |-> occurrence(m[i].v)])
Informations(message) == LET m == FieldsOf(message, 3) IN Every([i \in DOMAIN m |-> information(m[i].v)])

\* document, with the occurrences and the symbol information in it.
DocumentOf(message, occurrences, infos) ==
  IF (\E n \in {1, 2, 3, 5} : ~Typed(message, n, "bytes")) \/ ~occurrences.ok \/ ~infos.ok THEN Bad
  ELSE Good([path |-> LastOf(message, 1, 0), text |-> LastOf(message, 5, 0),
             occurrences |-> occurrences.v, infos |-> infos.v])
document(message) == DocumentOf(message, Occurrences(message), Informations(message))

\* decode_index: anything malformed anywhere refuses the index.
DocumentsIn(message) == LET m == FieldsOf(message, 2) IN Every([i \in DOMAIN m |-> document(m[i].v)])
IndexOf(message, documents, external) ==
  IF (\E n \in {2, 3} : ~Typed(message, n, "bytes")) \/ ~documents.ok \/ ~external.ok THEN Bad
  ELSE Good([documents |-> documents.v, external |-> external.v])
decode_index(message) == IndexOf(message, DocumentsIn(message), Informations(message))

(***************************************************************************)
(* symbol_name: the last descriptor that names something, and whether the  *)
(* symbol is that thing.                                                   *)
(***************************************************************************)

NoName == [found |-> FALSE, name |-> "", navigable |-> FALSE]

\* The place after the first `c' from `at' on, 0 when there is none.
After(text, at, c) == LET found == {i \in DOMAIN text : i >= at /\ text[i] = c}
                      IN IF found = {} THEN 0 ELSE Min(found) + 1

RECURSIVE SkipPart(_, _)
\* The place after the space that ends a part; a double space is part of it.
SkipPart(text, at) ==
  LET next == After(text, at, " ")
  IN IF next = 0 THEN 0
     ELSE IF next \in DOMAIN text /\ text[next] = " " THEN SkipPart(text, next + 1) ELSE next

RECURSIVE Parts(_, _, _)
Parts(text, at, n) == IF n = 0 \/ at = 0 THEN at ELSE Parts(text, SkipPart(text, at), n - 1)

RECURSIVE Descriptors(_, _, _, _)
\* One descriptor after another: a name (one character here) and its suffix; the
\* parameters of a method belong to its suffix, brackets name nothing.
Descriptors(text, at, name, navigable) ==
  LET here == text[at]
      suffix == text[at + 1]
      ends == {i \in DOMAIN text : i >= at + 2 /\ i < Len(text) /\ text[i] = ")" /\ text[i + 1] = "."}
  IN IF at > Len(text) THEN IF name = "" THEN NoName
                            ELSE [found |-> TRUE, name |-> name, navigable |-> navigable]
     ELSE CASE here = "[" \/ here = "(" ->
                 LET close == After(text, at + 1, IF here = "[" THEN "]" ELSE ")")
                 IN IF close = 0 THEN NoName ELSE Descriptors(text, close, name, FALSE)
            [] OTHER ->
                 IF at + 1 > Len(text) THEN NoName
                 ELSE CASE suffix \in {"/", "#", ".", "!"} -> Descriptors(text, at + 2, here, TRUE)
                        [] suffix = "(" -> IF ends = {} THEN NoName
                                           ELSE Descriptors(text, Min(ends) + 2, here, TRUE)
                        [] suffix = ":" -> Descriptors(text, at + 2, name, FALSE)
                        [] OTHER -> NoName

symbol_name(symbol) ==
  LET text == SymbolText[symbol]
      at == Parts(text, 1, 4)
  IN IF text[1] = "local" \/ at = 0 THEN NoName ELSE Descriptors(text, at, "", FALSE)

(***************************************************************************)
(* Index::freshness and Index::evidence.                                   *)
(***************************************************************************)

\* Mutant of freshness: the first document that cannot be verified decides.
freshnessEarly(index, scanned) ==
  LET unsure(d) == d.path \notin DOMAIN scanned \/ d.text = 0
      docs == index.documents
      first == {i \in DOMAIN docs : unsure(docs[i]) \/ scanned[docs[i].path] # docs[i].text}
  IN IF first = {} THEN "fresh" ELSE IF unsure(docs[Min(first)]) THEN "unverified" ELSE "stale"

\* A recorded text that differs from the scanned file decides, wherever it is.
freshness(index, scanned) ==
  LET docs == ToSet(index.documents)
      unsure(d) == d.path \notin DOMAIN scanned \/ d.text = 0
  IN IF \E d \in docs : ~unsure(d) /\ scanned[d.path] # d.text THEN "stale"
     ELSE IF \E d \in docs : unsure(d) THEN "unverified" ELSE "fresh"

Infos(index) == FlattenSeq([i \in DOMAIN index.documents |-> index.documents[i].infos]) \o index.external

Matches(symbol, names) ==
  LET n == symbol_name(symbol) IN n.found /\ n.navigable /\ n.name \in names

\* The symbols selected by name, the first MaxSymbols in the order of the index.
Selected(index, names) ==
  LET mentioned == FlattenSeq([i \in DOMAIN index.documents |->
                        [j \in DOMAIN index.documents[i].occurrences |->
                           index.documents[i].occurrences[j].symbol]])
                   \o [i \in DOMAIN Infos(index) |-> Infos(index)[i].symbol]
      step(acc, s) == IF acc.full \/ s \in acc.symbols \/ ~Matches(s, names) THEN acc
                      ELSE IF Cardinality(acc.symbols) = MaxSymbols THEN [acc EXCEPT !.full = TRUE]
                      ELSE [acc EXCEPT !.symbols = @ \cup {s}]
  IN FoldLeft(step, [symbols |-> {}, full |-> FALSE], mentioned)

\* The (implementing symbol, selected symbol) pairs.
Implemented(index, selected) ==
  LET pairs == FlattenSeq([i \in DOMAIN Infos(index) |->
                    LET info == Infos(index)[i]
                    IN [j \in DOMAIN info.implements |-> <<info.symbol, info.implements[j]>>]])
      step(acc, p) == IF p[2] \notin selected \/ p \in acc.pairs THEN acc
                      ELSE IF Cardinality(acc.pairs) = MaxSymbols THEN [acc EXCEPT !.full = TRUE]
                      ELSE [acc EXCEPT !.pairs = @ \cup {p}]
  IN FoldLeft(step, [pairs |-> {}, full |-> FALSE], pairs)

Definition == 1
Implementation == 2
Reference == 3

\* The facts of one occurrence, of its own symbol first.
FactsOf(d, o, rank, selected, pairs) ==
  LET fact(role, implements) == <<rank, d.path, o.start, o.end, role, o.symbol, implements>>
      targets == IF o.definition THEN {p[2] : p \in {q \in pairs : q[1] = o.symbol}} ELSE {}
  IN (IF o.symbol \notin selected THEN <<>>
      ELSE <<fact(IF o.definition THEN Definition ELSE Reference, 0)>>)
     \o [i \in 1..Cardinality(targets) |->
           fact(Implementation, CHOOSE t \in targets : Cardinality({u \in targets : u < t}) = i - 1)]

Before(a, b) == \E i \in 1..7 : a[i] < b[i] /\ \A j \in 1..(i - 1) : a[j] = b[j]
LastFact(S) == CHOOSE f \in S : \A g \in S \ {f} : Before(g, f)
RECURSIVE InOrder(_)
InOrder(S) == IF S = {} THEN <<>> ELSE Append(InOrder(S \ {LastFact(S)}), LastFact(S))

\* A fact that is met: at most `limit' of them are kept, the first in order.
KeepFirst(kept, limit) == IF Cardinality(kept) > limit THEN kept \ {LastFact(kept)} ELSE kept
Keep(acc, f, limit) ==
  IF acc.stopped THEN acc
  ELSE IF acc.seen = MaxCandidates THEN [acc EXCEPT !.stopped = TRUE, !.truncated = TRUE]
  ELSE [acc EXCEPT !.seen = @ + 1, !.kept = KeepFirst(@ \cup {f}, limit),
                   !.truncated = @ \/ Cardinality(acc.kept \cup {f}) > limit]

\* The facts of one document.  Those of a document that is not ranked are left out.
Unranked == 0
Visit(acc, facts, rank, limit) ==
  IF acc.stopped THEN acc
  ELSE IF rank = Unranked THEN [acc EXCEPT !.truncated = @ \/ facts # <<>>]
  ELSE FoldLeft(LAMBDA a, f : Keep(a, f, limit), acc, facts)
FactsIn(d, rank, selected, pairs) ==
  FlattenSeq([i \in DOMAIN d.occurrences |-> FactsOf(d, d.occurrences[i], rank, selected, pairs)])
Found(index, ranked, selected, pairs, limit) ==
  LET rank(d) == IF d.path \in DOMAIN ranked THEN ranked[d.path] ELSE Unranked
  IN FoldLeft(LAMBDA acc, d : Visit(acc, FactsIn(d, rank(d), selected, pairs), rank(d), limit),
              [kept |-> {}, seen |-> 0, stopped |-> FALSE, truncated |-> FALSE], index.documents)

KindOf(index, s) == LET of == SelectSeq(Infos(index), LAMBDA i : i.symbol = s)
                    IN IF of = <<>> THEN 0 ELSE of[1].kind
Listed(index, list) ==
  [i \in DOMAIN list |-> [locator |-> list[i][2], start |-> list[i][3] + 1, end |-> list[i][4] + 1,
                          role |-> list[i][5], symbol |-> list[i][6], kind |-> KindOf(index, list[i][6]),
                          implements |-> list[i][7]]]
Evidence(index, found, full) ==
  [facts |-> Listed(index, InOrder(found.kept)), truncated |-> found.truncated \/ full]
EvidenceOf(index, selected, implemented, ranked, limit) ==
  Evidence(index, Found(index, ranked, selected.symbols, implemented.pairs, limit), selected.full \/ implemented.full)
EvidenceOn(index, selected, ranked, limit) ==
  EvidenceOf(index, selected, Implemented(index, selected.symbols), ranked, limit)

\* The first `limit' facts in rank, locator and line order, with the lines counted
\* from one, and whether the index holds more.
evidence(index, names, ranked, limit) == EvidenceOn(index, Selected(index, names), ranked, limit)

(***************************************************************************)
(* SymbolNavigation: the status a query reports, with the facts of the     *)
(* sources that the result keeps.                                          *)
(***************************************************************************)

NoIndex == [file |-> "missing"]
Unavailable(status, reason) == [status |-> status, reason |-> reason, facts |-> <<>>, truncated |-> FALSE]

Navigation(fresh, found) ==
  IF fresh = "stale" THEN Unavailable("stale", "index_stale")
  ELSE [status |-> IF fresh = "fresh" THEN "available" ELSE "partial",
        reason |-> IF fresh = "fresh" THEN "none" ELSE "freshness_unverified",
        facts |-> found.facts, truncated |-> found.truncated]
Resolved(decoded, scanned, names, ranked, limit) ==
  IF ~decoded.ok THEN Unavailable("unavailable", "index_unreadable")
  ELSE Navigation(freshness(decoded.v, scanned), evidence(decoded.v, names, ranked, limit))
resolve(stored, scanned, names, ranked, limit) ==
  CASE stored.file = "missing" -> Unavailable("unavailable", "index_missing")
    [] stored.file = "regular" -> Resolved(decode_index(stored.message), scanned, names, ranked, limit)
    [] OTHER -> Unavailable("unavailable", "index_unreadable")

\* What is reported when the result keeps the selected sources.
Reported(navigation, selected) ==
  LET retained == SelectSeq(navigation.facts, LAMBDA f : f.locator \in selected)
  IN [outcome |-> IF navigation.status \notin {"available", "partial"} THEN "unavailable"
                  ELSE IF retained = <<>> THEN "miss" ELSE "hit",
      facts |-> retained,
      truncated |-> navigation.truncated \/ Len(navigation.facts) > Len(retained)]
=============================================================================
