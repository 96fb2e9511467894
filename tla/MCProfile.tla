----------------------------- MODULE MCProfile -----------------------------
(***************************************************************************)
(* Policies, bundles and policy files that the profiles are tried on.      *)
(***************************************************************************)
EXTENDS ProfileValidation

CONSTANTS MaxPaths, MaxLines, Numbers, Digests

Policy == INSTANCE PolicyFile

VARIABLE trial     \* what the profiles or the reader of the policy are tried on

(***************************************************************************)
(* Policies: their trees, with the paths of the documents as texts.        *)
(***************************************************************************)

A == <<"a.md">>
B == <<"d", "/", "b.md">>
C == <<"d", "/", "c.md">>
X == <<"x.rs">>
Path(text) == Policy!SplitPath(text)

Tree(roots, native, canonical, legacy, bridge, excluded, state) ==
  LET lists == (<<"roots">> :> roots) @@ (<<"native_bundle">> :> native) @@ (<<"canonical_documents">> :> canonical)
               @@ (<<"legacy_documents">> :> legacy) @@ (<<"bridge_targets">> :> bridge)
      coverage == [k \in DOMAIN lists |-> Policy!Seq_(lists[k])]
                  @@ (<<"excluded_documents">> :> Policy!Map([p \in excluded |-> Policy!Scalar(<<"why">>)]))
  IN Policy!Map((<<"schema_version">> :> Policy!Scalar(<<"1">>))
                @@ (<<"document_coverage">> :> Policy!Map(coverage))
                @@ IF state = "" THEN <<>>
                   ELSE <<"frontmatter">> :>
                          Policy!Map(<<"canonical_docs_frontmatter_state">> :> Policy!Scalar(<<state>>)))

Classes == {Tree(roots, native, canonical, legacy, bridge, excluded, state) :
              roots \in {<< <<".">> >>, << <<"d">> >>}, native \in {<<>>, <<A>>, <<A, B>>},
              canonical \in {<<>>, <<C>>, <<A>>}, legacy \in {<<>>, <<B>>, <<C>>}, bridge \in {<<>>, <<X>>, <<B>>},
              excluded \in {{}, {C}}, state \in {"", "legacy_baseline", "strict"}}
Linked == Tree(<<>>, <<A, B>>, <<C>>, <<>>, <<X>>, {}, "")

(***************************************************************************)
(* Documents.                                                              *)
(***************************************************************************)

To(parts) == RelativeTo(parts)
Other(scheme) == [scheme |-> scheme, parts |-> <<>>, prefix |-> ""]
Item(form, date, target, line, image) ==
  [form |-> form, date |-> date, target |-> target, line |-> line, image |-> image]
Link(target) == Item("link", <<>>, target, 0, FALSE)
Cite(target, line) == Item("cite", <<>>, target, line, FALSE)
Mark(form) == Item(form, <<>>, NoTarget, 0, FALSE)
Dated(date) == Item("heading", date, NoTarget, 0, FALSE)

List(values) == Value("sequence", "", <<>>, NoTarget, values, <<>>)
Mapping(fields) == Value("mapping", "", <<>>, NoTarget, <<>>, fields)
Complete == [k \in {"type", "title", "timestamp", "resource"} |-> Text("x")]
            @@ ("okf_status" :> Text("active")) @@ ("tags" :> List(<<>>)) @@ ("public_boundary" :> Text("internal"))
Concept(map, body) == [kind |-> "concept", ok |-> TRUE, absent |-> FALSE, map |-> map, body |-> body, lines |-> 2]
Broken == [Concept(<<>>, <<>>) EXCEPT !.ok = FALSE]
Reserved(kind, body) == [Concept(<<>>, body) EXCEPT !.kind = kind, !.absent = TRUE]

NoDocument == [kind |-> "none"]
Here(documents) == [p \in {q \in DOMAIN documents : documents[q] # NoDocument} |-> documents[p]]

\* Every document is complete, incomplete or missing.
Covered(tree) == {[tree |-> tree, bundle |-> Here((Path(A) :> a) @@ (Path(B) :> b) @@ (Path(C) :> c))] :
                    a \in {NoDocument, Concept(Complete, <<Link(To(<<"d", "b.md">>))>>)},
                    b \in {NoDocument, Concept(Complete, <<Link(To(<<"..", "a.md">>))>>), Concept(<<>>, <<>>)},
                    c \in {NoDocument, Concept(Complete, <<Link(To(<<"b.md">>))>>), Broken}}

Targets == {To(<<"d", "b.md">>), To(<<"b.md">>), To(<<".", "a.md">>), To(<<"..", "a.md">>), To(<<"c.md">>),
            To(<<"..", "d", "c.md">>), To(<<"d", "..", "d", "c.md">>), To(<<"..", "x.rs">>), To(<<"x.rs">>),
            To(<<"..", "..", "a.md">>), Other("absolute"), Other("http")}
Cites == {Mark("text"), Mark("stale")} \cup {Cite(To(p), n) : p \in {Path(C), Path(X), <<"c.md">>}, n \in 0..3}
         \cup {Cite(Other("absolute"), 1)}

\* Two native pages that link and cite, a canonical document and a source file.
Linking(a) == {[tree |-> Linked, bundle |-> Here((Path(A) :> Concept(Complete, <<Link(a), cite>>))
                                                 @@ (Path(B) :> Concept(Complete, <<Link(b), Link(To(<<"c.md">>))>>))
                                                 @@ (Path(C) :> c))] :
                 b \in Targets, cite \in Cites,
                 c \in {NoDocument, Concept(Complete, <<Link(To(<<"b.md">>))>>),
                        Concept(Complete, <<Link(To(<<"b.md">>)), Cite(To(Path(X)), 0)>>)}}

\* Packets: two with a name in common, and one that refers to them.
Packet(status, target) ==
  Concept(Complete @@ ("status" :> Text(status)) @@ ("origin" :> [Text("x") EXCEPT !.target = target]),
          <<Link(To(<<"d", "b.md">>))>>)
Packets == {[tree |-> Tree(<<>>, <<>>, <<>>, <<>>, <<>>, {}, ""),
             bundle |-> (Path(A) :> Packet(x, To(<<"d", "c.md">>))) @@ (Path(C) :> Packet(y, t))
                        @@ (<<"c.md">> :> Packet(z, To(<<"x.rs">>)))] :
              x, y, z \in {"active", "superseded", "draft"},
              t \in {To(<<"c.md">>), To(<<"a.md">>), To(<<"..", "a.md">>), To(<<"..", "c.md">>), To(<<"d", "c.md">>)}}

(***************************************************************************)
(* Reserved files, families and dates.                                     *)
(***************************************************************************)

Bodies(items, n) == UNION {[1..k -> items] : k \in 0..n}
Days == {<<2023, 2, 28>>, <<2023, 2, 29>>, <<2024, 2, 29>>, <<2024, 1, 31>>}
Logs == Bodies({Dated(d) : d \in Days} \cup {Dated(<<>>), Mark("text")}, 4)
Indexes == Bodies({Mark("heading"), Link(To(<<"a.md">>)), Mark("text")}, 5)
Dates == {<<y, m, d>> : y \in {1900, 2000, 2023, 2024}, m \in 0..13, d \in {0, 1, 28, 29, 30, 31, 32}}

Values == {Text(""), Text("x"), Text("stable"), List(<<>>), List(<<Mapping("resource" :> Text("x"))>>),
           List(<<Text("x")>>), Mapping(<<>>), Mapping("by" :> Text("x")),
           Mapping(("by" :> Text("x")) @@ ("at" :> Text(""))), Mapping(("by" :> Text("x")) @@ ("at" :> Text("y"))),
           Mapping(("resource" :> Text("x")) @@ ("receipt" :> Text("x"))),
           Mapping(("from" :> Text("x")) @@ ("to" :> Text("y"))),
           [Text("x") EXCEPT !.date = <<2024, 2, 29>>], [Text("x") EXCEPT !.date = <<2023, 2, 29>>]}
Families == {"sources", "usage_window", "generated", "verified", "status", "stale_after"}
Computed == {"runtime", "parameters", "computation", "executor", "attester"}
Maps(k) == {("type" :> Text(type)) @@ (k :> v) @@ (l :> w) :
              type \in {"", "x", "Attested Computation"}, l \in {"verified", "runtime"}, v, w \in Values}

(***************************************************************************)
(* Policy files.                                                           *)
(***************************************************************************)

Characters == {"a", "\"", "'", "\\", ",", "#", ":", " ", "["}
Texts == Bodies(Characters, 3)
Line(indent, text) == [indent |-> indent, text |-> text]
Lines == {Line(i, t) : i \in {0, 2, 4}, t \in {<<"k", ":">>, <<"l", ":">>, <<"l", ":", "y">>, <<"-", " ", "z">>}}

\* Exceptions of single lines: of one path or two, a bridge or not.
Exact(fields) == [Linked EXCEPT !.fields = @ @@ (<<"public_boundary">> :>
                    Policy!Map(<<"exact_allowlist">> :> Policy!Map(fields)))]
Exceptions == {Exact([p \in paths |-> Policy!Map(code :> Policy!Map([n \in lines |-> Policy!Scalar(digest)]))]) :
                 paths \in SUBSET {A, X, <<"..", "/", "x.rs">>}, code \in {<<"private_home_path">>, <<"other">>},
                 lines \in SUBSET {<<"0">>, <<"1">>, <<"2">>}, digest \in {<<"digest">>, <<"x">>}}

\* What is tried on, in parts.
Of(kind, set) == {[kind |-> kind, of |-> x] : x \in set}
Parts == Of("covered", Classes) \cup Of("linking", Targets) \cup Of("packets", {0}) \cup Of("logs", {0})
         \cup Of("families", Families \cup Computed) \cup Of("texts", {0}) \cup Of("layouts", Lines)
TrialsOf(part) ==
  CASE part.kind = "covered" -> Of("bundle", Covered(part.of))
    [] part.kind = "linking" -> Of("bundle", Linking(part.of))
    [] part.kind = "packets" -> Of("bundle", Packets)
    [] part.kind = "logs" -> Of("log", Logs) \cup Of("index", Indexes) \cup Of("date", Dates)
    [] part.kind = "families" -> Of("map", Maps(part.of))
    [] part.kind = "texts" -> Of("text", Texts) \cup Of("exact", Exceptions)
    [] part.kind = "layouts" -> Of("layout", {<<part.of>> \o lines : lines \in Bodies(Lines, 3)})
    [] OTHER -> {}

(***************************************************************************)
(* Properties.                                                             *)
(***************************************************************************)

Loaded == Policy!from_parsed(trial.of.tree)
Result == validate_with_policy(trial.of.bundle, Loaded.v)
Passes == trial.kind = "bundle" /\ Loaded.ok /\ selected_passed(Result, "strict")

\* Where the names of a path lead from a directory: "." stays, ".." leaves the
\* last directory, and nothing leaves the bundle.
RECURSIVE Walk(_, _)
Walk(at, names) ==
  IF names = <<>> THEN {at}
  ELSE IF Head(names) = "." THEN Walk(at, Tail(names))
  ELSE IF Head(names) # ".." THEN Walk(Append(at, Head(names)), Tail(names))
  ELSE IF at = <<>> THEN {} ELSE Walk(Front(at), Tail(names))
Leads(from, target) == IF target.scheme # "path" THEN {} ELSE Walk(Front(from), target.parts)

\* A bundle that passes the strict profile under a policy that loads is whole: each
\* document under a root is in exactly one class, each document of a class is
\* there, a native page has what the portable profile asks for, nothing is
\* legacy once migration is over, and no active document leads to a superseded
\* one, but where the name, read from the root, is that of another.
StrictMeansChecked ==
  Passes =>
    LET bundle == trial.of.bundle
        c == Loaded.v.coverage
        classes == <<ToSet(c.native), ToSet(c.canonical), ToSet(c.legacy), ToSet(c.bridge), DOMAIN c.excluded>>
        status(p, s) == bundle[p].ok /\ IsString(bundle[p].map, "status", {s})
        under(p) == \E root \in ToSet(c.roots) : root = <<".">> \/ root = SubSeq(p, 1, Len(root))
    IN /\ \A p \in DOMAIN bundle : under(p) => Cardinality({i \in 1..5 : p \in classes[i]}) = 1
       /\ UNION {classes[i] : i \in 1..3} \subseteq DOMAIN bundle
       /\ \A p \in ToSet(c.native) : bundle[p].ok /\ has_nonblank_string(bundle[p].map, "type")
       /\ Result.v1 # {} => c.native = <<>>
       /\ Loaded.v.frontmatter.state = "strict" => c.legacy = <<>>
       /\ \A p \in DOMAIN bundle : status(p, "active") =>
            \A t \in collect_references(bundle[p]) : \A q \in Leads(p, t) \cap DOMAIN bundle :
               status(q, "superseded") => t.parts \in DOMAIN bundle

\* Under the strict profile every link of a native page leads to a document that
\* is there or to a bridge, every native page but the first is led to by another,
\* every citation names a line that is there, or a bridge, and no page that is
\* validated is marked stale.
LinksAndCitationsHold ==
  Passes /\ trial.of.tree = Linked =>
    LET bundle == trial.of.bundle
        links(p) == {i.target : i \in {j \in ToSet(bundle[p].body) : j.form = "link" /\ j.target.scheme # "http"}}
    IN /\ \A p \in {Path(A), Path(B)} : \A t \in links(p) :
            Leads(p, t) \cap (DOMAIN bundle \cup {Path(X)}) # {}
       /\ \E t \in links(Path(A)) : Path(B) \in Leads(Path(A), t)
       /\ \A p \in DOMAIN bundle : \A i \in ToSet(bundle[p].body) :
            /\ i.form # "stale"
            /\ i.form = "cite" => /\ i.line > 0
                                  /\ \/ i.target.parts \in DOMAIN bundle /\ i.line <= bundle[i.target.parts].lines
                                     \/ i.target.parts = Path(X)

\* The days of a month: the distance to the first day of the next one, when days
\* are counted on from a year 0 that begins in March.
FirstDay(y, m) ==
  LET year == IF m <= 2 THEN y - 1 ELSE y
      month == IF m <= 2 THEN m + 9 ELSE m - 3
  IN 365 * year + year \div 4 - year \div 100 + year \div 400 + (153 * month + 2) \div 5
DaysOf(y, m) == IF m = 12 THEN FirstDay(y + 1, 1) - FirstDay(y, 12) ELSE FirstDay(y, m + 1) - FirstDay(y, m)

\* A log: a title at most, and then groups of entries under real dates, the
\* newest first.
IsLog(body) ==
  LET real(i) == body[i].date # <<>> /\ is_iso_date(body[i].date)
      head == {i \in DOMAIN body : body[i].form = "heading"}
      dates == {i \in head : real(i)}
      entry(i) == i + 1 \in DOMAIN body /\ i + 1 \notin head
  IN /\ dates # {}
     /\ Cardinality(head \ dates) <= 1
     /\ \A i \in dates : entry(i)
     /\ \A i \in DOMAIN body \ dates : i \notin head => \E j \in dates : j < i
     /\ \A i \in head \ dates : \A j \in dates : i < j
     /\ \A i, j \in dates : i < j => Later(body[i].date, body[j].date)

\* An index: sections with a link each, no link outside one.
IsIndex(body) ==
  LET head == {i \in DOMAIN body : body[i].form = "heading"}
      link == {i \in DOMAIN body : body[i].form = "link"}
  IN /\ head # {} /\ link # {}
     /\ \A i \in link : \E h \in head : h < i
     /\ \A h \in head : \E i \in link : h < i /\ \A g \in head : g <= h \/ g > i

\* The portable profiles agree: log.md and index.md pass exactly when they have
\* their form, dates are those of the calendar, what v0.1 reports v0.2 reports
\* too and nothing else without one of its families, no family is needed for
\* another, and one verification needs no list.
PortableProfilesAgree ==
  CASE trial.kind = "log" -> okf_log_diagnostics(trial.of) = {} <=> IsLog(trial.of)
    [] trial.kind = "index" -> okf_index_diagnostics(trial.of) = {} <=> IsIndex(trial.of)
    [] trial.kind = "date" -> is_iso_date(trial.of) <=>
         trial.of[2] \in 1..12 /\ trial.of[3] \in 1..DaysOf(trial.of[1], trial.of[2])
    [] trial.kind = "map" ->
         LET codes(map) == okf_v0_2_family_diagnostics(map)
             without(k) == [l \in DOMAIN trial.of \ {k} |-> trial.of[l]]
         IN /\ \A k \in DOMAIN trial.of \ {"runtime", "type"} : codes(without(k)) \subseteq codes(trial.of)
            /\ Families \cap DOMAIN trial.of = {} /\ trial.of["type"].s # "Attested Computation" => codes(trial.of) = {}
            /\ Has(trial.of, "verified") /\ trial.of["verified"].t = "mapping" =>
                 codes(trial.of) = codes([trial.of EXCEPT !["verified"] = List(<<@>>)])
    [] trial.kind = "bundle" /\ Loaded.ok -> Result.v1 \subseteq Result.v2
    [] OTHER -> TRUE

\* How a text is written between quotes, with an escape for what needs one.
Quoted(text, quote) ==
  LET escape == IF quote = "'" THEN "'" ELSE "\\"
  IN <<quote>> \o FlattenSeq([i \in DOMAIN text |-> IF text[i] \in {quote, escape} THEN <<escape, text[i]>>
                                                    ELSE <<text[i]>>]) \o <<quote>>

\* The leaves of a layout: each line that has a value, under the lines before it
\* that are indented less.
Above(lines, i, j) == j < i /\ \A k \in (j + 1)..i : lines[k].indent > lines[j].indent
Chain(lines, i) ==
  FoldLeft(LAMBDA acc, j : IF Above(lines, i, j) THEN Append(acc, <<lines[j].text[1]>>) ELSE acc, <<>>,
           [j \in DOMAIN lines |-> j])
LeafOf(lines, i) == IF lines[i].text[1] = "-" THEN <<Chain(lines, i), <<lines[i].text[3]>>>>
                    ELSE <<Append(Chain(lines, i), <<lines[i].text[1]>>), <<lines[i].text[3]>>>>

RECURSIVE LeavesOf(_, _)
LeavesOf(node, at) ==
  CASE node.t = "scalar" -> {<<at, node.s>>}
    [] node.t = "seq" -> {<<at, s>> : s \in ToSet(node.items)}
    [] OTHER -> UNION {LeavesOf(node.fields[k], Append(at, k)) : k \in DOMAIN node.fields}

\* A key without a value at the left margin, and another key below it there too.
MarginTaken(lines) ==
  \E i \in DOMAIN lines : /\ i + 1 \in DOMAIN lines
                          /\ lines[i].indent = 0 /\ Len(lines[i].text) = 2 /\ lines[i + 1].indent = 0

\* The policy that is read is the one that was written: a quoted text comes back as
\* it was or is refused, alone, in a list and after a key, and a layout that is
\* accepted means what its indentation says, but for keys at the left margin
\* that follow one without a value.  A line is excepted from the public boundary
\* only in a bridge, by its number and digest.
PolicyReadsBack ==
  CASE trial.kind = "text" ->
         \A quote \in {"'", "\""} :
            LET written == Quoted(trial.of, quote)
                line == Policy!parse_policy_yaml(<<Line(0, <<"k", ":", " ">> \o written)>>)
                flow == Policy!parse_policy_yaml(
                          <<Line(0, <<"k", ":", " ", "[">> \o written \o <<",", " ", "x", "]", " ", "#", "c">>)>>)
                entry == Policy!parse_policy_yaml(<<Line(0, <<"k", ":">>), Line(2, <<"-", " ">> \o written)>>)
            IN /\ Policy!parse_scalar(written) = Policy!Good(trial.of)
               /\ line.ok => line.v.fields[<<"k">>] = Policy!Scalar(trial.of)
               /\ flow.ok => flow.v.fields[<<"k">>].items = <<trial.of, <<"x">>>>
               /\ entry.ok => entry.v.fields[<<"k">>].items = <<trial.of>>
    [] trial.kind = "layout" ->
         LET read == Policy!parse_policy_yaml(trial.of)
         IN read.ok /\ ~MarginTaken(trial.of) =>
              LeavesOf(read.v, <<>>) = {LeafOf(trial.of, i) : i \in {j \in DOMAIN trial.of : Len(trial.of[j].text) = 3}}
    [] trial.kind = "exact" ->
         LET paths == trial.of.fields[<<"public_boundary">>].fields[<<"exact_allowlist">>].fields
         IN Policy!from_parsed(trial.of).ok =>
              /\ DOMAIN paths \subseteq {X}
              /\ \A p \in DOMAIN paths : \A code \in DOMAIN paths[p].fields :
                   LET lines == paths[p].fields[code].fields
                   IN /\ Cardinality(DOMAIN lines) \in 1..MaxLines
                      /\ \A n \in DOMAIN lines : n # <<"0">> /\ lines[n].s = <<"digest">>
    [] OTHER -> TRUE

Init == trial \in Parts
Next == trial' \in TrialsOf(trial)
MCSpec == Init /\ [][Next]_trial
=============================================================================
