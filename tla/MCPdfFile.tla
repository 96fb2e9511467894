----------------------------- MODULE MCPdfFile -----------------------------
EXTENDS PdfFile

VARIABLE probe     \* what the lexer, the parser or the predictor is tried on

Page(media) == Dict(("Type" :> Name("Page")) @@ (IF media THEN "MediaBox" :> Arr(<<Num(9)>>) ELSE <<>>))
Pages(kids) == Dict(("Type" :> Name("Pages")) @@ ("Kids" :> Arr([i \in DOMAIN kids |-> Ref(kids[i])])))
Catalog(more) == Dict(("Type" :> Name("Catalog")) @@ ("Pages" :> Ref(2)) @@ more)
Lists(set) == {<<>>} \cup {<<a>> : a \in set} \cup {<<a, b>> : a, b \in set}

\* Files that are revised: one page whose content and annotation change.
Action(o) == Dict("S" :> o)
MCGraphs == {(1 :> Catalog(<<>>)) @@ (2 :> Pages(<<3>>)) @@ (3 :> Page(TRUE)) @@ (4 :> Name("GoTo"))}
MCReplacements == (3 :> {Page(TRUE), Page(FALSE)}) @@ (4 :> {Name("Launch")})
                  @@ (2 :> {Pages(<<3, 5>>)}) @@ (5 :> {Page(TRUE), Action(Ref(4))})

\* Page trees: shared, cyclic, missing nodes, boxes inherited or missing.
Trees == {(1 :> Catalog(<<>>)) @@ (2 :> root) @@ (3 :> left) @@ (4 :> right) :
            root \in {Pages(l) : l \in Lists({2, 3, 4, 9})} \cup {Page(TRUE)},
            left \in {Pages(l) : l \in Lists({2, 4})} \cup {Page(TRUE), Page(FALSE)},
            right \in {Page(TRUE), Pages(<<>>), Name("Page")}}

\* Outlines: items that follow and contain one another in any way.
To(k, n) == IF n = 0 THEN <<>> ELSE k :> Ref(n)
Item(first, next, dest) ==
  Dict(("Type" :> Name("Item")) @@ To("First", first) @@ To("Next", next) @@ ("Dest" :> dest))
OnePage == (2 :> Pages(<<8, 9>>)) @@ (8 :> Page(TRUE)) @@ (9 :> Page(TRUE))
Outlines == {OnePage @@ (1 :> Catalog("Outlines" :> Dict("First" :> Ref(3))))
             @@ (3 :> Item(a, b, Arr(<<Ref(9)>>))) @@ (4 :> Item(c, d, Ref(6))) @@ (6 :> Arr(<<Ref(8)>>))
             @@ (5 :> Item(e, 0, Name("n"))) :
               a, b, c, d, e \in {0, 3, 4, 5}}

\* Destinations through references and dictionaries, also in circles.
Dests == {OnePage @@ (1 :> Catalog("Outlines" :> Dict("First" :> Ref(3)))) @@ (3 :> Item(0, 0, Ref(4)))
          @@ (4 :> a) @@ (5 :> b) : a, b \in {Ref(4), Ref(5), Dict("D" :> Ref(5)), Dict("D" :> Ref(4)),
                                             Arr(<<Ref(8)>>), Arr(<<Ref(7)>>), Str("x"), Num(1)}}

\* Form fields: nested, shared, cyclic, signatures.
Field(kids, more) == Dict(("T" :> Str("f")) @@ ("Kids" :> Arr([i \in DOMAIN kids |-> Ref(kids[i])])) @@ more)
Sig == ("FT" :> Name("Sig")) @@ ("V" :> Dict("ByteRange" :> Null))
Fields == {OnePage @@ (1 :> Catalog("AcroForm" :> Dict("Fields" :> Arr(<<Ref(3), Ref(4)>>))))
           @@ (3 :> Field(l, "FT" :> Name("Tx"))) @@ (4 :> Field(m, Sig)) @@ (5 :> Field(<<>>, <<>>)) :
             l, m \in Lists({3, 4, 5})}
\* Strings that export writes, nested objects, filtered rows.
Bytes == {40, 41, 92, 13, 10, 110, 48, 200, 128}
Leaves == {Num(1), Num(0), Ref(1), Name("a"), Str("s"), Null}
Objects == LET small == {Arr(l) : l \in Lists(Leaves)} \cup {Dict("a" :> x) : x \in Leaves}
           IN small \cup {Arr(<<x, y>>) : x \in small, y \in Leaves}
              \cup {Dict(("b" :> x) @@ ("a" :> y)) : x \in {Arr(<<>>), Dict("a" :> Ref(1))}, y \in Leaves}
Rows == {<<[kind |-> k, bytes |-> <<a, b>>], [kind |-> m, bytes |-> <<c, a>>]>> :
           k \in 0..4, m \in 0..4, a, b, c \in {0, 1, 128, 255}}
Probes == {[kind |-> "none"]} \cup {[kind |-> "bytes", of |-> <<a, b, c>>] : a, b, c \in Bytes}
          \cup {[kind |-> "stream", markers |-> m, length |-> [known |-> k, ref |-> r, n |-> n]] :
                  m \in SUBSET (1..3) \ {{}}, k, r \in BOOLEAN, n \in 0..3}
          \cup {[kind |-> "object", of |-> o] : o \in Objects} \cup {[kind |-> "rows", of |-> r] : r \in Rows}

\* How an object is written, in tokens.
RECURSIVE Written_(_)
Written_(o) ==
  CASE o.t = "ref" -> <<Num(o.n), Num(0), Token("R")>>
    [] o.t = "arr" -> <<Token("[")>> \o FlattenSeq([i \in DOMAIN o.items |-> Written_(o.items[i])])
                      \o <<Token("]")>>
    [] o.t = "dict" -> <<Token("<<")>>
                       \o FlattenSeq([i \in 1..Cardinality(DOMAIN o.d) |->
                            LET k == SetToSeq(DOMAIN o.d)[i] IN <<Name(k)>> \o Written_(o.d[k])])
                       \o <<Token(">>")>>
    [] OTHER -> <<o>>

\* The rows as an encoder filters them: each byte less its prediction.
Filtered(rows) ==
  [r \in DOMAIN rows |-> [kind |-> rows[r].kind, bytes |->
     [i \in DOMAIN rows[r].bytes |->
        LET above(j) == IF r = 1 \/ j < 1 THEN 0 ELSE rows[r - 1].bytes[j]
            left == IF i = 1 THEN 0 ELSE rows[r].bytes[i - 1]
        IN (rows[r].bytes[i] - Prediction(rows[r].kind, left, above(i), above(i - 1))) % 256]]]

\* What export writes as a string is read back byte for byte; an object is parsed
\* as it was written unless it is over a limit; a stream whose right length is
\* known is read to its end, whatever end markers its data holds, and one whose
\* length is wrong is reported (a length that happens to end at a marker, or
\* cannot be known yet, is not); and the predictor undoes every filter, byte by
\* byte modulo 256.
SyntaxReadsBack ==
  CASE probe.kind = "bytes" ->
         literal_string(literal(probe.of), 1, 1, <<>>) =
           [ok |-> TRUE, bytes |-> probe.of, at |-> Len(literal(probe.of)) + 1]
    [] probe.kind = "object" ->
         LET tokens == Written_(probe.of)
             parsed == parse_object(tokens, 1, 0, 0)
         IN \/ parsed.refusal = None /\ parsed.obj = probe.of /\ parsed.at = Len(tokens) + 1
            \/ parsed.refusal = "PdfObjectLimit"
    [] probe.kind = "stream" ->
         LET found == stream_end(probe.length, probe.markers)
         IN IF probe.length.known /\ probe.length.n = Max(probe.markers)
            THEN found = [end |-> Max(probe.markers), repaired |-> FALSE]
            ELSE \/ found.end = Max(probe.markers) \/ found.repaired
                 \/ probe.length.ref \/ probe.length.n \in probe.markers
    [] probe.kind = "rows" ->
         png_predictor(Filtered(probe.of), 1) = [r \in DOMAIN probe.of |-> probe.of[r].bytes]
    [] OTHER -> TRUE

MCInit == Init /\ probe \in IF current \in Graphs /\ file[Len(file)].k = "table" THEN Probes
                           ELSE {[kind |-> "none"]}
MCNext == probe.kind = "none" /\ Next /\ UNCHANGED probe
Probed == probe.kind # "none" /\ UNCHANGED <<vars, probe>>
MCSpec == MCInit /\ [][MCNext \/ Probed]_<<vars, probe>>

MCShapes == Trees \cup Outlines \cup Dests \cup Fields
=============================================================================
