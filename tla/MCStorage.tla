------------------------------ MODULE MCStorage ------------------------------
(***************************************************************************)
(* The two sides of the database boundary and the repairs, side by side:   *)
(* FileStateStore with one handle and objects of one, two and three bytes, *)
(* Repair, whose maintainers propose bytes of their own, and               *)
(* DatabaseEvidence with a table of three versions.  They share nothing; a *)
(* behaviour is one of one of them.                                        *)
(***************************************************************************)
EXTENDS FileStateStore, Repair, Integers, Sequences, TLC

CONSTANTS a, b, c, h1, m1, m2, r1, r2

CONSTANTS Names, Paths, ValidParts, DefaultRows, MostRows, DefaultBytes, MostBytes, MaxTokens, MaxColumns,
          Table, CatalogOf, DatabaseRequests, Unset

VARIABLES part,       \* which of the three it is
          asked, stage, revision, cancel, expired, gated, reading, ending, evidence, offered, interrupted_before

Database == INSTANCE DatabaseEvidence

extractionVars == <<asked, stage, revision, cancel, expired, gated, reading, ending, evidence, offered,
                    interrupted_before>>

Lengths == a :> 1 @@ b :> 2 @@ c :> 3
Proposed == m1 :> r1 @@ m2 :> r2

(***************************************************************************)
(* The descriptors, statements and requests of DatabaseEvidence.           *)
(***************************************************************************)
Orders == <<"main", "orders">>
Secret == <<"main", "secret">>
W(t) == <<"Word", t>>
S(t) == <<"Symbol", t>>
Dotted(r) == <<W(r[1]), S("."), W(r[2])>>
Digest(v) == [digest |-> TRUE, of |-> v]

\* Descriptors: one that is right, and others that differ from it in one field.
Plain == [kind |-> "evidence-source", unknown_key |-> FALSE, id |-> "orders", engine |-> "sqlite",
          database |-> "data/orders", credential |-> <<"absent", "">>, access |-> "bounded-rows",
          relations |-> <<Orders>>, queries |-> <<>>, snapshot |-> Unset, max_rows |-> -1, max_bytes |-> -1]
Postgres == [Plain EXCEPT !.engine = "postgresql", !.database = "orders", !.credential = <<"evidence", "orders">>]
Descriptors ==
  {Postgres, [Plain EXCEPT !.kind = "state-store"], [Plain EXCEPT !.unknown_key = TRUE],
   [Plain EXCEPT !.id = "absent"], [Plain EXCEPT !.engine = "other"], [Plain EXCEPT !.database = "orders"],
   [Plain EXCEPT !.credential = <<"evidence", "orders">>], [Plain EXCEPT !.access = "other"],
   [Plain EXCEPT !.relations = << <<"absent">> >>], [Plain EXCEPT !.relations = <<Orders, Orders>>],
   [Plain EXCEPT !.relations = << <<"orders">> >>], [Plain EXCEPT !.max_rows = 0], [Plain EXCEPT !.max_bytes = 99],
   [Plain EXCEPT !.snapshot = [digest |-> FALSE, of |-> 1]], [Plain EXCEPT !.queries = <<[digest |-> FALSE, of |-> <<>>]>>],
   [Postgres EXCEPT !.credential = <<"state", "orders">>], [Postgres EXCEPT !.credential = <<"plain", "orders">>],
   [Postgres EXCEPT !.credential = <<"absent", "">>]}

\* Statements: a list of one or two relations, each named in some way and followed by
\* something, a condition and an order.  reads: the relations SQLite would read.
Tables == {Orders, Secret}
Named(r) == {Dotted(r), <<<<"Quoted", r[1]>>, S("."), W(r[2])>>}
Followers == {<<>>, <<W("o")>>, <<W("as"), W("o")>>}
Hints == {<<W("not"), W("indexed")>>, <<W("indexed"), W("by"), W("i")>>, <<W("o"), W("using"), S("("), W("id"), S(")")>>}
Joins == {<<S(",")>>, <<W("join")>>, <<W("left"), W("outer"), W("join")>>, <<W("natural"), W("join")>>}
Lists ==
  {[text |-> Dotted(first) \o f, reads |-> {first}, ordinary |-> TRUE] : first \in Tables, f \in Followers}
  \cup {[text |-> n \o f \o j \o Dotted(second), reads |-> {Orders, second}, ordinary |-> f \in Followers /\ j[1] # W("natural")] :
           n \in Named(Orders), f \in Followers \cup Hints, j \in Joins, second \in Tables}
  \cup {[text |-> Dotted(Orders) \o <<S(","), S("(")>> \o Dotted(Secret) \o <<S(")")>>, reads |-> {Orders, Secret}, ordinary |-> FALSE],
        [text |-> Dotted(Orders) \o <<W("join")>> \o Dotted(Orders) \o <<W("on"), S("("), W("id"), S(")"), S(",")>> \o Dotted(Secret),
         reads |-> {Orders, Secret}, ordinary |-> TRUE],
        [text |-> <<W("orders")>>, reads |-> {Orders}, ordinary |-> FALSE],
        [text |-> <<W("other"), S(".")>> \o Dotted(Orders), reads |-> {<<"other", "main">>}, ordinary |-> FALSE]}
Conditions ==
  {[text |-> <<>>, reads |-> {}, ordinary |-> TRUE],
   [text |-> <<W("where"), W("id"), W("in"), S("("), <<"Literal", "1">>, S(")")>>, reads |-> {}, ordinary |-> TRUE],
   [text |-> <<W("where"), W("id"), W("in")>> \o Dotted(Secret), reads |-> {Secret}, ordinary |-> FALSE],
   [text |-> <<W("where"), W("id"), W("in"), S("("), W("select"), W("id"), W("from")>> \o Dotted(Secret) \o <<S(")")>>,
    reads |-> {Secret}, ordinary |-> FALSE]}
Sorting == <<W("order"), W("by"), <<"Literal", "1">>>>
Statement(what, l, cond, order) ==
  [sql |-> <<W("select")>> \o what \o <<W("from")>> \o l.text \o cond.text \o order,
   reads |-> l.reads \cup cond.reads, ordinary |-> l.ordinary /\ cond.ordinary /\ order # <<>> /\ what = <<W("id")>>]
Listed == Statement(<<W("id")>>, [text |-> Dotted(Orders), reads |-> {Orders}, ordinary |-> TRUE],
                    [text |-> <<>>, reads |-> {}, ordinary |-> TRUE], Sorting)
Statements ==
  {Statement(<<W("id")>>, l, cond, Sorting) : l \in Lists, cond \in Conditions}
  \cup {Statement(w, l, [text |-> <<>>, reads |-> {}, ordinary |-> TRUE], o) :
          l \in {m \in Lists : Len(m.text) <= 4}, o \in {<<>>, Sorting},
          w \in {<<W("count"), S("("), S("*"), S(")")>>, <<W("main"), S("."), W("count"), S("("), S("*"), S(")")>>,
                 <<W("load"), S("("), S("*"), S(")")>>, <<W("first"), S("("), W("id"), S(")")>>,
                 Dotted(Orders) \o <<S("."), S("*")>>,
                 <<<<"Error", "Comment">>>>, <<W("id"), <<"Error", "MultiStatement">>>>, <<<<"Error", "Backslash">>>>}}
  \cup {[sql |-> q, reads |-> {}, ordinary |-> FALSE] :
          q \in {<<>>, <<W("delete")>> \o Dotted(Orders), <<W("with")>>, <<W("select"), S(")")>>, <<W("select"), W("from")>>,
                 [i \in 1 .. 41 |-> W("select")]}}

NoRows == [kind |-> "none"]
Columns(r, cs) == [kind |-> "projection", relation |-> r, columns |-> cs]
Sql(s) == [kind |-> "sql", sql |-> s.sql, reads |-> s.reads, ordinary |-> s.ordinary]
Request(d, r, attests, private) ==
  [descriptor |-> d, rows |-> r, engine |-> TRUE, attests |-> attests, private |-> private, dlp |-> "Passed"]
Bounded(rows, bytes) == [Plain EXCEPT !.max_rows = rows, !.max_bytes = bytes]
MCDatabaseRequests ==
  {Request(d, NoRows, "digest", {}) : d \in Descriptors}
  \cup {Request([Bounded(r, bytes) EXCEPT !.snapshot = p], Columns(Orders, <<"id">>), attests, {}) :
          r \in {2, 3}, bytes \in {4, 9}, p \in {Unset, Digest(1)}, attests \in {"digest", "text", "nothing"}}
  \cup {Request(Plain, r, "digest", x) : r \in {NoRows, Columns(Orders, <<"id">>)}, x \in {{}, {<<1, 2>>}, {<<2, 1>>}, {<<1, 0>>}}}
  \cup {Request(Plain, Columns(r, columns), "digest", {}) : r \in Tables, columns \in {<<>>, <<"id", "id">>, <<"id", "main">>, <<"Id">>, <<"id", "main", "orders">>}}
  \cup {Request([Plain EXCEPT !.access = "absent"], r, "digest", {}) : r \in {NoRows, Columns(Orders, <<"id">>)}}
  \cup {[Request(Plain, NoRows, "digest", {}) EXCEPT !.engine = FALSE]}
  \cup {Request([Plain EXCEPT !.queries = <<Digest(Listed.sql)>>], Sql(s), "digest", {}) : s \in Statements}

MCTable == <<<<1, 3, 2>>, <<2, 2>>, <<4>>>>
MCCatalog == <<2, 1>>

ExtractionIdle ==
  /\ asked = Unset /\ stage = "asked" /\ revision = 1 /\ cancel = FALSE /\ expired = FALSE
  /\ gated = Unset /\ reading = Unset /\ ending = "none" /\ evidence = Unset /\ offered = Unset
  /\ interrupted_before = FALSE

MCInit ==
  /\ Init /\ RepairInit
  /\ \/ part \in {"store", "repair"} /\ ExtractionIdle
     \/ part = "extraction" /\ version = "absent" /\ Database!Init

StoreStep == part = "store" /\ Next /\ UNCHANGED <<part, repairVars, extractionVars>>
RepairStep == part = "repair" /\ RepairNext /\ UNCHANGED <<part, vars, extractionVars>>
ExtractionStep == part = "extraction" /\ Database!Next /\ UNCHANGED <<part, vars, repairVars>>

MCSpec == MCInit /\ [][StoreStep \/ RepairStep \/ ExtractionStep]_<<vars, part, repairVars, extractionVars>>

\* extract: evidence that is admitted is what one version of the database holds of
\* the relations that were allowed, read without an interruption, and nothing that
\* the check for private data found is left in any outcome.
ExtractionIsHonest ==
  part = "extraction" => /\ Database!OneSnapshot
                         /\ Database!PinnedAndUninterrupted
                         /\ Database!OnlyCheckedIsKept
                         /\ Database!GateIsExact
=============================================================================
