-------------------------- MODULE DatabaseEvidence --------------------------
(***************************************************************************)
(* Evidence from a database: crates/bran-core/src/database/ (mod.rs,       *)
(* sql.rs, evidence.rs).  A descriptor is parsed, the request is gated,    *)
(* and the engine is asked four times: for its snapshot, its catalog, the  *)
(* rows, and its snapshot again.  Meanwhile others commit to the database, *)
(* the caller cancels and the deadline passes.                             *)
(*                                                                         *)
(* SQL is a sequence of tokens <<kind, text>>, its words in lower case; a  *)
(* token of kind Error stands for what the lexer refuses.  What is read    *)
(* from the database is a pair of the version it was read in and a number: *)
(* of a relation for the catalog, of a row for the rows.  A digest is what *)
(* it is a digest of.                                                      *)
(***************************************************************************)
EXTENDS Integers, Sequences, FiniteSets, SequencesExt, FiniteSetsExt

CONSTANTS
  Names, Paths, ValidParts,    \* valid_name, safe_relative_path, valid_part
  DefaultRows, MostRows,       \* of max_rows
  DefaultBytes, MostBytes,     \* of max_bytes
  MaxTokens,                   \* MAX_SQL_TOKENS
  MaxColumns,
  Table,                       \* Table[v]: the sizes of the rows of version v
  CatalogOf,                   \* the relations of the engine's catalog, as numbers, in its order
  DatabaseRequests,            \* what callers ask
  Unset                        \* no value

VARIABLES
  asked,        \* the request
  stage,        \* the next step of extract
  revision,      \* of the database
  cancel, expired,
  gated,        \* [kind, query]: how the rows are asked for, and the statement
  reading,      \* Run, with the bytes so far and what the sink and the engine said
  ending,       \* the outcome so far
  evidence,     \* DatabaseEvidence, or Unset
  offered,      \* what packet_evidence returned, or Unset
  interrupted_before  \* history: an interruption came before the last attestation

extraction == <<asked, stage, revision, cancel, expired, gated, reading, ending, evidence, offered,
                interrupted_before>>

(***************************************************************************)
(* EvidenceSourceDescriptor::parse.  A text that is absent is "absent",    *)
(* one that is another kind of value is "other"; an absent number is 0 - 1 *)
(* and an absent list << <<"absent">> >>.                                  *)
(***************************************************************************)
AbsentNumber == -1
AbsentList == << <<"absent">> >>

CredentialError(c) ==
  IF c[1] = "absent" THEN "none"
  ELSE IF c[1] = "other" THEN "InvalidValue"
  ELSE IF c[1] \notin {"evidence", "state"} \/ c[2] \notin Names THEN "CredentialNotReference"
  ELSE IF c[1] # "evidence" THEN "CredentialScope" ELSE "none"

RequiredError(text, valid) ==
  IF text = "absent" THEN "MissingKey" ELSE IF text \notin valid THEN "InvalidValue" ELSE "none"

\* An engine and the database and credential it takes.
EngineError(f) ==
  IF f.database = "absent" THEN "MissingKey"
  ELSE IF CredentialError(f.credential) # "none" THEN CredentialError(f.credential)
  ELSE IF f.database \notin (IF f.engine = "sqlite" THEN Paths ELSE Names) THEN "InvalidValue"
  ELSE IF f.engine = "sqlite" /\ f.credential[1] # "absent" THEN "CredentialNotAllowed"
  ELSE IF f.engine = "postgresql" /\ f.credential[1] = "absent" THEN "MissingKey" ELSE "none"

IsRelationName(name) == Len(name) = 2 /\ ToSet(name) \subseteq ValidParts

ListError(f) ==
  IF f.relations = AbsentList THEN "MissingKey"
  ELSE IF \/ f.relations = <<>> \/ ~ IsInjective(f.relations)
          \/ \E name \in ToSet(f.relations) : ~ IsRelationName(name) THEN "InvalidValue"
  ELSE IF \E q \in ToSet(f.queries) : ~ q.digest THEN "InvalidValue"
  ELSE IF f.snapshot # Unset /\ ~ f.snapshot.digest THEN "InvalidValue" ELSE "none"

NumberError(n, most) == IF n # AbsentNumber /\ n \notin 1 .. most THEN "LimitOutOfRange" ELSE "none"

FirstError(errors) ==
  LET found == {i \in DOMAIN errors : errors[i] # "none"}
  IN IF found = {} THEN "none" ELSE errors[Min(found)]

DescriptorError(f) ==
  FirstError(<<
    IF f.kind = "absent" THEN "MissingKey" ELSE IF f.kind # "evidence-source" THEN "WrongKind" ELSE "none",
    IF f.unknown_key THEN "UnknownKey" ELSE "none",
    RequiredError(f.id, Names),
    RequiredError(f.engine, {"sqlite", "postgresql"}),
    EngineError(f),
    IF f.access \in {"absent", "introspection", "bounded-rows"} THEN "none" ELSE "InvalidValue",
    ListError(f),
    NumberError(f.max_rows, MostRows),
    NumberError(f.max_bytes, MostBytes)>>)

OrDefault(n, default) == IF n = AbsentNumber THEN default ELSE n

Source(f) ==
  [access |-> IF f.access = "bounded-rows" THEN "BoundedRows" ELSE "Introspection",
   relations |-> ToSet(f.relations), queries |-> {q.of : q \in ToSet(f.queries)},
   snapshot |-> f.snapshot,
   max_rows |-> OrDefault(f.max_rows, DefaultRows), max_bytes |-> OrDefault(f.max_bytes, DefaultBytes)]

(***************************************************************************)
(* The SQL gate.                                                           *)
(***************************************************************************)
External == {"attach", "detach", "load", "import", "openrowset", "openquery", "opendatasource",
             "dblink", "dblink_exec", "dblink_connect"}
Write == {"insert", "update", "delete", "merge", "replace", "upsert", "create", "drop", "alter",
          "truncate", "grant", "revoke", "copy", "into", "returning", "vacuum", "reindex", "analyze",
          "comment", "rename", "cluster", "refresh"}
Session == {"set", "reset", "pragma", "begin", "commit", "rollback", "savepoint", "release", "start",
            "transaction", "lock", "for", "listen", "notify", "unlisten", "discard", "use", "declare",
            "fetch", "close", "prepare", "deallocate", "checkpoint"}
Procedure == {"call", "exec", "execute", "do"}
Compound == {"union", "intersect", "except"}
Grammar == {"select", "distinct", "all", "from", "where", "and", "or", "not", "as", "join", "inner",
            "left", "outer", "cross", "on", "group", "by", "order", "asc", "desc", "limit", "offset",
            "having", "is", "null", "in", "between", "like", "true", "false", "nulls", "first", "last"}
Openers == {"select", "distinct", "where", "and", "or", "not", "in", "on", "having", "by", "between",
            "limit", "offset"}                        \* EXPRESSION_OPENERS
AllowedFunctions == {"abs", "avg", "coalesce", "count", "length", "lower", "max", "min", "round",
                     "sum", "upper"}
OperatorSymbols == {"(", ",", "=", "<", ">", "<=", ">=", "<>", "!=", "+", "-", "*", "/", "%", "||"}
FromEnd == {"where", "group", "order", "having", "limit", "offset"}
RelationFollowers == FromEnd \cup {"join", "inner", "left", "outer", "cross", "on"}

Word(text) == <<"Word", text>>
Symbol(text) == <<"Symbol", text>>
IsName(token) == token[1] = "Quoted" \/ (token[1] = "Word" /\ token[2] \notin Grammar)
At(tokens, i) == IF i \in DOMAIN tokens THEN tokens[i] ELSE <<"None", "">>

\* tokenize: the first thing the lexer refuses, or too many tokens.
LexError(sql) ==
  LET bad == {i \in DOMAIN sql : sql[i][1] = "Error"}
  IN IF \E i \in bad : sql[i][2] = "Backslash" THEN "UnsupportedCharacter"
     ELSE IF bad # {} /\ Min(bad) <= MaxTokens + 1 THEN sql[Min(bad)][2]
     ELSE IF Len(sql) > MaxTokens THEN "TooLarge" ELSE "none"

Forbidden(word) ==
  IF word \in External THEN "ExternalReference" ELSE IF word \in Write THEN "WriteOrDdl"
  ELSE IF word \in Session THEN "SessionMutation" ELSE IF word \in Procedure THEN "ProcedureCall"
  ELSE IF word \in Compound THEN "Compound" ELSE "none"

\* A word in front of "(", or a "(" that may not be there.
CallError(tokens, i) ==
  LET token == tokens[i]
      permitted == \/ /\ token[1] = "Word" /\ token[2] \in AllowedFunctions
                      /\ At(tokens, i - 1) # Symbol(".")
                   \/ token \in {Word(t) : t \in Openers} \cup {Symbol(t) : t \in OperatorSymbols}
  IN IF tokens[i + 1] # Symbol("(") THEN IF token = Word("in") THEN "Malformed" ELSE "none"
     ELSE IF permitted THEN "none" ELSE "UnsafeFunction"

\* chain: the number of parts of the dotted name at i, and where it ends.
ChainLength(tokens, i) ==
  Max({n \in 0 .. Len(tokens) : \A k \in 0 .. n - 1 :
         /\ IsName(At(tokens, i + 2 * k)) \/ (k > 0 /\ At(tokens, i + 2 * k) = Symbol("*"))
         /\ k > 0 => At(tokens, i + 2 * k - 1) = Symbol(".")})
ChainEnd(tokens, i) ==
  LET n == ChainLength(tokens, i)
  IN IF n = 0 THEN i ELSE IF At(tokens, i + 2 * n - 1) = Symbol(".") THEN i + 2 * n ELSE i + 2 * n - 1

\* Why the relation named at i may not be read.
NamedError(tokens, i, allowed) ==
  LET n == ChainLength(tokens, i)
      name == <<tokens[i][2], At(tokens, i + 2)[2]>>
  IN IF n = 0 THEN "Malformed" ELSE IF n = 1 THEN "UnqualifiedRelation"
     ELSE IF n > 2 THEN "ExternalReference"
     ELSE IF IsRelationName(name) /\ name \in allowed THEN "none" ELSE "RelationNotAllowed"

\* The index after the relation that ends before i, and after its alias; 0: a bad alias.
AfterAlias(tokens, i) ==
  IF At(tokens, i) = Word("as") THEN IF IsName(At(tokens, i + 1)) THEN i + 2 ELSE 0
  ELSE IF IsName(At(tokens, i)) THEN i + 1 ELSE i

MayFollow(token) ==
  token[1] = "None" \/ token = Symbol(",") \/ (token[1] = "Word" /\ token[2] \in RelationFollowers)

\* The index at which the walk goes on after the relation named at i; 0: malformed.
AfterRelation(tokens, i) ==
  LET next == AfterAlias(tokens, ChainEnd(tokens, i))
  IN IF next # 0 /\ MayFollow(At(tokens, next)) THEN next ELSE 0

\* relations: from token i on, at this depth of parentheses, in a FROM list or not.
RECURSIVE Relations(_, _, _, _, _, _)
Relations(tokens, allowed, i, depth, in_from, found) ==
  LET token == At(tokens, i)
      deeper == IF token = Symbol("(") THEN depth + 1 ELSE IF token = Symbol(")") THEN depth - 1 ELSE depth
      listing == in_from /\ ~ (depth = 0 /\ token[1] = "Word" /\ token[2] \in FromEnd)
      starts == deeper = 0 /\ (token = Word("from") \/ (listing /\ token \in {Word("join"), Symbol(",")}))
      error == NamedError(tokens, i + 1, allowed)
      next == AfterRelation(tokens, i + 1)
      refused(e) == [error |-> e, relations |-> {}]
  IN IF i > Len(tokens) THEN IF depth # 0 THEN refused("Malformed") ELSE [error |-> "none", relations |-> found]
     ELSE IF deeper < 0 THEN refused("Malformed")
     ELSE IF ~ starts
          THEN IF ChainLength(tokens, i) > 3 THEN refused("ExternalReference")
               ELSE Relations(tokens, allowed, Max({ChainEnd(tokens, i), i + 1}), deeper, listing, found)
     ELSE IF error # "none" THEN refused(error)
     ELSE IF next = 0 THEN refused("Malformed")
     ELSE Relations(tokens, allowed, next, 0, TRUE, found \cup {<<tokens[i + 1][2], tokens[i + 3][2]>>})

\* gate_as: the words, the shape and the calls, before the relations.
ShapeError(tokens) ==
  LET forbidden == {i \in DOMAIN tokens : tokens[i][1] = "Word" /\ Forbidden(tokens[i][2]) # "none"}
      calls == [i \in 1 .. Len(tokens) - 1 |-> CallError(tokens, i)]
  IN IF tokens = <<>> THEN "Empty"
     ELSE IF forbidden # {} THEN Forbidden(tokens[Min(forbidden)][2])
     ELSE IF Cardinality({i \in DOMAIN tokens : tokens[i] = Word("select")}) > 1 THEN "Compound"
     ELSE IF tokens[1] # Word("select") THEN "NotSelect"
     ELSE FirstError(calls)

Ordered(tokens) == \E i \in 1 .. Len(tokens) - 1 : tokens[i] = Word("order") /\ tokens[i + 1] = Word("by")

GateAs(sql, allowed) ==
  LET read == Relations(sql, allowed, 1, 0, FALSE, {})
      refused(e) == [error |-> e, relations |-> {}]
  IN IF LexError(sql) # "none" THEN refused(LexError(sql))
     ELSE IF ShapeError(sql) # "none" THEN refused(ShapeError(sql))
     ELSE IF read.error = "none" /\ ~ Ordered(sql) THEN refused("Unordered") ELSE read

\* project: the statement for the columns of one relation.
Projection(relation, columns) ==
  LET list(item(_)) == FlattenSeq([i \in DOMAIN columns |-> IF i = 1 THEN <<item(i)>> ELSE <<Symbol(","), item(i)>>])
  IN <<Word("select")>> \o list(LAMBDA i : <<"Quoted", columns[i]>>)
     \o <<Word("from"), <<"Quoted", relation[1]>>, Symbol("."), <<"Quoted", relation[2]>>, Word("order"), Word("by")>>
     \o list(LAMBDA i : <<"Literal", ToString(i)>>)

ProjectionError(columns) ==
  IF columns = <<>> \/ Len(columns) > MaxColumns \/ ~ IsInjective(columns) \/ ~ ToSet(columns) \subseteq ValidParts
  THEN "InvalidProjection" ELSE "none"

(***************************************************************************)
(* extract and collect.                                                    *)
(***************************************************************************)
EngineFailures == {"Unavailable", "Cancelled", "Timeout"}
Admitted(outcome) == outcome \in {"SchemaOnly", "BoundedRows", "Truncated"}

NoRun == [snapshot |-> Unset, catalog |-> <<>>, rows |-> <<>>, truncated |-> FALSE, bytes |-> 0,
          stopped |-> "none", result |-> "none"]
NoQuery == [kind |-> "schema-only", query |-> <<>>, relations |-> {}]

Init ==
  /\ asked \in DatabaseRequests
  /\ stage = "asked" /\ revision = 1
  /\ cancel = FALSE /\ expired = FALSE
  /\ gated = NoQuery /\ reading = NoRun /\ ending = "none"
  /\ evidence = Unset /\ offered = Unset
  /\ interrupted_before = FALSE

From == Source(asked.descriptor)

\* Why extract refuses the request; the engine is not contacted.
Refusal ==
  LET r == asked.rows
      projected == GateAs(Projection(r.relation, r.columns), From.relations).error
      sql == GateAs(r.sql, From.relations).error
  IN IF DescriptorError(asked.descriptor) # "none" THEN DescriptorError(asked.descriptor)
     ELSE IF r.kind = "none" THEN "none"
     ELSE IF From.access = "Introspection" THEN "RowsNotPermitted"
     ELSE IF r.kind = "projection"
          THEN IF ProjectionError(r.columns) # "none" THEN ProjectionError(r.columns) ELSE projected
     ELSE IF sql # "none" THEN sql
     ELSE IF r.sql \notin From.queries THEN "QueryNotAllowlisted" ELSE "none"

\* The statement that passed the gate.
Gated ==
  LET r == asked.rows
      query == IF r.kind = "projection" THEN Projection(r.relation, r.columns) ELSE r.sql
  IN IF r.kind = "none" THEN NoQuery
     ELSE [kind |-> r.kind, query |-> query, relations |-> GateAs(query, From.relations).relations]

Surroundings == UNCHANGED <<asked, revision, cancel, expired, interrupted_before>>
Goto(next) == stage' = next
End(outcome) == Goto("finish") /\ ending' = outcome

Ask ==
  /\ stage = "asked"
  /\ IF Refusal # "none" THEN Goto("refused") /\ ending' = Refusal /\ UNCHANGED gated
     ELSE /\ gated' = Gated
          /\ IF asked.engine THEN Goto("entered") /\ UNCHANGED ending ELSE End("Unavailable")
  /\ UNCHANGED <<reading, evidence, offered>> /\ Surroundings

Interrupted == IF cancel THEN "Cancelled" ELSE IF expired THEN "Timeout" ELSE "none"

\* The interruption is looked for at a stage; when there is none, Continue.
Enter ==
  /\ stage = "entered"
  /\ IF Interrupted # "none" THEN End(Interrupted) ELSE Goto("snapshot") /\ UNCHANGED ending
  /\ UNCHANGED <<gated, reading, evidence, offered>> /\ Surroundings

\* What the engine attests of a version: a digest, another text, or nothing.
Attested(v) == IF asked.attests = "nothing" THEN Unset ELSE [digest |-> asked.attests = "digest", of |-> v]
\* sealed_snapshot: another text is sealed as its digest.
Sealed(snapshot) ==
  IF snapshot = Unset \/ snapshot.digest THEN snapshot ELSE [digest |-> TRUE, of |-> 100 + snapshot.of]

\* The engine fails a call.
Fail(from) ==
  /\ stage = from
  /\ \E f \in EngineFailures : End(f)
  /\ UNCHANGED <<gated, reading, evidence, offered>> /\ Surroundings

Snapshot ==
  /\ stage = "snapshot"
  /\ reading' = [reading EXCEPT !.snapshot = Sealed(Attested(revision))]
  /\ Goto("attested")
  /\ UNCHANGED <<gated, ending, evidence, offered>> /\ Surroundings

\* The opening snapshot must be the pinned one.
CheckSnapshot ==
  /\ stage = "attested"
  /\ IF Interrupted # "none" THEN End(Interrupted)
     ELSE IF From.snapshot # Unset /\ reading.snapshot # From.snapshot THEN End("StaleSnapshot")
     ELSE Goto("catalog") /\ UNCHANGED ending
  /\ UNCHANGED <<gated, reading, evidence, offered>> /\ Surroundings

Catalog ==
  /\ stage = "catalog"
  /\ reading' = [reading EXCEPT !.catalog = [i \in DOMAIN CatalogOf |-> <<revision, CatalogOf[i]>>]]
  /\ Goto("listed")
  /\ UNCHANGED <<gated, ending, evidence, offered>> /\ Surroundings

\* The catalog is sorted by relation; without a query it is all there is.
CheckCatalog ==
  /\ stage = "listed"
  /\ IF Interrupted # "none" THEN End(Interrupted) /\ UNCHANGED reading
     ELSE /\ reading' = [reading EXCEPT !.catalog = SortSeq(@, LAMBDA x, y : x[2] < y[2])]
          /\ IF gated.kind = "schema-only" THEN ending' = "SchemaOnly" /\ Goto("close")
             ELSE Goto("rows") /\ UNCHANGED ending
  /\ UNCHANGED <<gated, evidence, offered>> /\ Surroundings

\* The sink takes the next row of what the engine reads, unless it must stop.
Row ==
  LET next == Len(reading.rows) + 1
      size == Table[revision][next]
  IN /\ stage = "rows"
     /\ next \in DOMAIN Table[revision]
     /\ IF Interrupted # "none" THEN reading' = [reading EXCEPT !.stopped = Interrupted] /\ Goto("unwinding")
        ELSE IF Len(reading.rows) = From.max_rows \/ reading.bytes + size > From.max_bytes
        THEN reading' = [reading EXCEPT !.truncated = TRUE] /\ Goto("unwinding")
        ELSE reading' = [reading EXCEPT !.rows = Append(@, <<revision, next>>), !.bytes = @ + size] /\ UNCHANGED stage
     /\ UNCHANGED <<gated, ending, evidence, offered>> /\ Surroundings

\* The engine returns: no row is left, the sink has stopped it, or it fails.
RowsReturn ==
  /\ stage \in {"rows", "unwinding"}
  /\ \/ /\ stage = "rows" => Len(reading.rows) + 1 \notin DOMAIN Table[revision]
        /\ UNCHANGED reading
     \/ \E f \in EngineFailures : reading' = [reading EXCEPT !.result = f]
  /\ Goto("streamed")
  /\ UNCHANGED <<gated, ending, evidence, offered>> /\ Surroundings

\* An interruption comes before a failure, and a failure before what was read.
CheckRows ==
  /\ stage = "streamed"
  /\ IF reading.stopped # "none" THEN End(reading.stopped)
     ELSE IF Interrupted # "none" THEN End(Interrupted)
     ELSE IF reading.result # "none" THEN End(reading.result)
     ELSE ending' = (IF reading.truncated THEN "Truncated" ELSE "BoundedRows") /\ Goto("close")
  /\ UNCHANGED <<gated, reading, evidence, offered>> /\ Surroundings

\* The closing snapshot.
Close ==
  /\ stage = "close"
  /\ reading' = [reading EXCEPT !.result = IF Sealed(Attested(revision)) = reading.snapshot THEN "same" ELSE "other"]
  /\ interrupted_before' = (Interrupted # "none")
  /\ Goto("closed")
  /\ UNCHANGED <<asked, revision, cancel, expired, gated, ending, evidence, offered>>

\* Mutant of CheckClose: only a pinned snapshot is compared again.
CheckClosePinned ==
  /\ stage = "closed"
  /\ IF Interrupted # "none" THEN End(Interrupted)
     ELSE IF reading.result = "other" /\ From.snapshot # Unset THEN End("StaleSnapshot") ELSE End(ending)
  /\ UNCHANGED <<gated, reading, evidence, offered>> /\ Surroundings

CheckClose ==
  /\ stage = "closed"
  /\ IF Interrupted # "none" THEN End(Interrupted)
     ELSE IF reading.result = "same" THEN End(ending) ELSE End("StaleSnapshot")
  /\ UNCHANGED <<gated, reading, evidence, offered>> /\ Surroundings

(***************************************************************************)
(* finish and packet_evidence.                                             *)
(***************************************************************************)
\* What the caller's check for private data says of what was read.
Dlp == IF ~ Admitted(ending) THEN "NotEvaluated"
       ELSE IF asked.private \cap (ToSet(reading.catalog) \cup ToSet(reading.rows)) # {} THEN "Findings"
       ELSE asked.dlp

\* The provenance record and the rows; an outcome that is refused keeps neither.
Finish ==
  LET outcome == IF Dlp = "Findings" THEN "DlpRejected" ELSE ending
      keep(s) == IF Admitted(outcome) THEN s ELSE <<>>
  IN /\ stage = "finish"
     /\ evidence' = [outcome |-> outcome, dlp |-> Dlp, columns |-> keep(reading.catalog),
                     derivation |-> gated.kind, query |-> gated.query, snapshot |-> reading.snapshot,
                     rows |-> keep(reading.rows), truncated |-> Admitted(outcome) /\ reading.truncated]
     /\ Goto("finished")
     /\ UNCHANGED <<gated, reading, ending, offered>> /\ Surroundings

\* packet_evidence: a node with facts of the evidence, or NotAdmitted.
Offer ==
  /\ stage = "finished"
  /\ offered' = IF ~ Admitted(evidence.outcome) THEN [admitted |-> FALSE, outcome |-> evidence.outcome]
                ELSE [admitted |-> TRUE, outcome |-> evidence.outcome, truncated |-> evidence.truncated,
                      row_count |-> Len(evidence.rows), content |-> evidence.rows]
  /\ Goto("offered")
  /\ UNCHANGED <<gated, reading, ending, evidence>> /\ Surroundings

(***************************************************************************)
(* The surroundings: commits to the database, the caller, the clock.       *)
(***************************************************************************)
Running == stage \notin {"asked", "refused", "finished", "offered"}
Unmoved == UNCHANGED <<asked, stage, gated, reading, ending, evidence, offered, interrupted_before>>

CommitToDatabase == Running /\ revision + 1 \in DOMAIN Table /\ revision' = revision + 1 /\ UNCHANGED <<cancel, expired>> /\ Unmoved
Cancel == Running /\ ~ cancel /\ cancel' = TRUE /\ UNCHANGED <<revision, expired>> /\ Unmoved
Expire == Running /\ ~ expired /\ expired' = TRUE /\ UNCHANGED <<revision, cancel>> /\ Unmoved

Next ==
  \/ Ask \/ Enter \/ Snapshot \/ CheckSnapshot \/ Catalog \/ CheckCatalog
  \/ Row \/ RowsReturn \/ CheckRows \/ Close \/ CheckClose \/ Finish \/ Offer
  \/ Fail("snapshot") \/ Fail("catalog") \/ Fail("close")
  \/ CommitToDatabase \/ Cancel \/ Expire

Spec == Init /\ [][Next]_extraction

(***************************************************************************)
(* Properties.                                                             *)
(***************************************************************************)
\* The rows of a version that both limits let through.
Kept(v) ==
  LET Total(n) == FoldFunctionOnSet(LAMBDA x, y : x + y, 0, Table[v], 1 .. n)
  IN Max({n \in 0 .. Len(Table[v]) : n <= From.max_rows /\ Total(n) <= From.max_bytes})

\* Evidence that is admitted under an attested snapshot is all of that version,
\* whatever was committed while it was read: its catalog, and its rows up to the
\* limits, with truncated set exactly when some are left out (collect, finish).
OneSnapshot ==
  evidence # Unset /\ Admitted(evidence.outcome) /\ evidence.snapshot # Unset =>
    \E v \in DOMAIN Table :
      /\ Sealed(Attested(v)) = evidence.snapshot
      /\ ToSet(evidence.columns) = {<<v, CatalogOf[i]>> : i \in DOMAIN CatalogOf}
      /\ \A i, j \in DOMAIN evidence.columns : i < j => evidence.columns[i][2] < evidence.columns[j][2]
      /\ evidence.rows = IF asked.rows.kind = "none" THEN <<>> ELSE [i \in 1 .. Kept(v) |-> <<v, i>>]
      /\ evidence.truncated <=> asked.rows.kind # "none" /\ Kept(v) < Len(Table[v])

\* A pinned source gives no evidence of another snapshot, and an extraction that was
\* cancelled or late before its last attestation gives none at all (collect).
PinnedAndUninterrupted ==
  evidence # Unset /\ Admitted(evidence.outcome) =>
    /\ From.snapshot # Unset => evidence.snapshot = From.snapshot
    /\ ~ interrupted_before

\* What the check for private data found, or never saw, is in no evidence and in no
\* packet (finish, packet_evidence).
OnlyCheckedIsKept ==
  /\ evidence # Unset =>
       /\ (ToSet(evidence.columns) \cup ToSet(evidence.rows)) \cap asked.private = {}
       /\ ~ Admitted(evidence.outcome) => evidence.rows = <<>> /\ evidence.columns = <<>>
  /\ offered # Unset /\ offered.admitted => evidence.dlp # "Findings"

\* A statement that passes the gate reads exactly the relations it is said to read,
\* each of them on the allowlist, and an ordinary one passes (gate, relations).
GateIsExact ==
  stage # "asked" /\ asked.rows.kind = "sql" =>
    /\ gated.kind = "sql" => gated.relations = asked.rows.reads /\ asked.rows.reads \subseteq From.relations
    /\ asked.rows.ordinary /\ From.access = "BoundedRows" /\ asked.rows.reads \subseteq From.relations
         => stage # "refused" \/ ending = "QueryNotAllowlisted"
=============================================================================
