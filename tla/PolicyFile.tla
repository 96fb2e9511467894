----------------------------- MODULE PolicyFile -----------------------------
(***************************************************************************)
(* .bran/policy.yaml (crates/bran-core/src/policy.rs): its lines, the tree *)
(* that the small YAML reader makes of them, and the policy that is        *)
(* extracted from the tree and validated.                                  *)
(*                                                                         *)
(* A text is a sequence of characters; a word counts as one character.  A  *)
(* line is an indentation and the text after it.  A path is a text, with   *)
(* "/" between its names.                                                  *)
(***************************************************************************)
EXTENDS Integers, Sequences, FiniteSets, SequencesExt, FiniteSetsExt

CONSTANTS MaxPaths,      \* paths of an exact allowlist
          MaxLines,      \* lines of an exact allowlist
          Numbers,       \* the words that are positive integers
          Digests        \* the words that are SHA-256 digests

Bad(error) == [ok |-> FALSE, error |-> error]
Good(v) == [ok |-> TRUE, v |-> v]

(***************************************************************************)
(* Characters.                                                             *)
(***************************************************************************)

RECURSIVE Trim(_)
Trim(text) == IF text = <<>> THEN text
              ELSE IF Head(text) = " " THEN Trim(Tail(text))
              ELSE IF Last(text) = " " THEN Trim(Front(text)) ELSE text

RECURSIVE FirstUnquoted(_, _, _, _)
\* The first `c' outside quotes from `at' on, 0 if there is none.  A backslash is
\* a character like any other here.
FirstUnquoted(text, c, at, quote) ==
  IF at > Len(text) THEN 0
  ELSE IF text[at] \in {"'", "\""}
       THEN FirstUnquoted(text, c, at + 1, IF quote = "" THEN text[at] ELSE IF quote = text[at] THEN "" ELSE quote)
  ELSE IF text[at] = c /\ quote = "" THEN at
  ELSE FirstUnquoted(text, c, at + 1, quote)

strip_inline_comment(text) ==
  LET at == FirstUnquoted(text, "#", 1, "") IN IF at = 0 THEN text ELSE SubSeq(text, 1, at - 1)

\* The text between two delimiters; one character may not be both.
Between(text, open, close) ==
  IF Len(text) >= 2 /\ Head(text) = open /\ Last(text) = close THEN Good(Tail(Front(text))) ELSE Bad("malformed")

\* Mutant of Unescaped: a backslash stands for itself.
UnescapedPlain(text, escape, quote) == Good(SelectSeq(text, LAMBDA c : c # quote))

\* The characters of a quoted text: an escape may stand before a quote and before
\* itself; a quote or a control character does not stand alone.
Unescaped(text, escape, quote) ==
  LET step(acc, c) ==
        IF ~acc.ok THEN acc
        ELSE IF acc.escaped THEN [acc EXCEPT !.ok = c \in {quote, escape}, !.escaped = FALSE, !.v = Append(@, c)]
        ELSE IF c = escape THEN [acc EXCEPT !.escaped = TRUE]
        ELSE [acc EXCEPT !.ok = c \notin {quote, "NUL"}, !.v = Append(@, c)]
      end == FoldLeft(step, [ok |-> TRUE, escaped |-> FALSE, v |-> <<>>], text)
  IN IF end.ok /\ ~end.escaped THEN Good(end.v) ELSE Bad("malformed")

decode_quoted(text, quote) ==
  LET inner == Between(text, quote, quote)
  IN IF inner.ok THEN Unescaped(inner.v, IF quote = "'" THEN "'" ELSE "\\", quote) ELSE inner

ScalarIn(text) ==
  IF text = <<>> THEN Good(text)
  ELSE IF Head(text) \in {"'", "\""} THEN decode_quoted(text, Head(text))
  ELSE IF Head(text) \in {"{", "[", "|", ">"} THEN Bad("malformed") ELSE Good(text)
parse_scalar(raw) == ScalarIn(Trim(raw))

\* Whether every one of a sequence of results is good, and all of them.
AllGood(results) == IF \E i \in DOMAIN results : ~results[i].ok THEN Bad("malformed")
                    ELSE Good([i \in DOMAIN results |-> results[i].v])

\* The items between commas outside quotes; an escape counts in double quotes only.
FlowItems(text) ==
  LET step(acc, c) ==
        LET take == [acc EXCEPT !.item = Append(@, c)]
        IN IF acc.escaped THEN [take EXCEPT !.escaped = FALSE]
           ELSE CASE c = "\\" /\ acc.quote = "\"" -> [take EXCEPT !.escaped = TRUE]
                  [] c \in {"'", "\""} /\ acc.quote \in {"", c} ->
                       [take EXCEPT !.quote = IF acc.quote = "" THEN c ELSE ""]
                  [] c = "," /\ acc.quote = "" -> [acc EXCEPT !.items = Append(@, acc.item), !.item = <<>>]
                  [] OTHER -> take
      end == FoldLeft(step, [items |-> <<>>, item |-> <<>>, quote |-> "", escaped |-> FALSE], text)
  IN IF end.quote # "" \/ end.escaped THEN Bad("malformed") ELSE Good(Append(end.items, end.item))

FlowValues(items) ==
  IF ~items.ok THEN items
  ELSE IF \E i \in DOMAIN items.v : Trim(items.v[i]) = <<>> THEN Bad("malformed")
  ELSE AllGood([i \in DOMAIN items.v |-> parse_scalar(items.v[i])])
parse_flow_sequence(text) ==
  LET inner == Between(text, "[", "]")
  IN IF ~inner.ok THEN inner
     ELSE IF Trim(inner.v) = <<>> THEN Good(<<>>) ELSE FlowValues(FlowItems(Trim(inner.v)))

(***************************************************************************)
(* Lines and their tree.  A node is a scalar, a sequence of texts or a     *)
(* mapping.                                                                *)
(***************************************************************************)

Scalar(text) == [t |-> "scalar", s |-> text, items |-> <<>>, fields |-> <<>>]
Seq_(items) == [t |-> "seq", s |-> <<>>, items |-> items, fields |-> <<>>]
Map(fields) == [t |-> "map", s |-> <<>>, items |-> <<>>, fields |-> fields]

Put(fields, key, node) == [k \in DOMAIN fields \cup {key} |-> IF k = key THEN node ELSE fields[k]]

ScalarNode(read) == IF read.ok THEN Good(Scalar(read.v)) ELSE read
SeqNode(read) == IF read.ok THEN Good(Seq_(read.v)) ELSE read
parse_inline_value(raw) ==
  LET text == Trim(raw)
  IN IF text # <<>> /\ Head(text) = "[" THEN SeqNode(parse_flow_sequence(text)) ELSE ScalarNode(parse_scalar(text))

\* tokenize, for one line that is neither blank nor a comment.
TokenOf(line, form, key, node) ==
  IF node.ok THEN Good([indent |-> line.indent, form |-> form, key |-> key, node |-> node.v]) ELSE node
KeyToken(line, key, rest) ==
  IF key = <<>> THEN Bad("malformed")
  ELSE IF rest = <<>> THEN TokenOf(line, "nested", key, Good(Map(<<>>)))
  ELSE TokenOf(line, "pair", key, parse_inline_value(strip_inline_comment(rest)))
Token(line) ==
  LET text == Trim(line.text)
      colon == FirstUnquoted(text, ":", 1, "")
  IN IF Len(text) > 2 /\ text[1] = "-" /\ text[2] = " "
     THEN TokenOf(line, "entry", <<>>, ScalarNode(parse_scalar(strip_inline_comment(SubSeq(text, 3, Len(text))))))
     ELSE IF colon = 0 THEN Bad("malformed")
     ELSE KeyToken(line, Trim(SubSeq(text, 1, colon - 1)), Trim(SubSeq(text, colon + 1, Len(text))))

Skipped(line) == Trim(line.text) = <<>> \/ (line.indent = 0 /\ Head(line.text) = "#")
tokenize(lines) ==
  LET kept == SelectSeq(lines, LAMBDA line : ~Skipped(line)) IN AllGood([i \in DOMAIN kept |-> Token(kept[i])])

\* eat_sequence: the entries of one indentation, from a place on.
EntriesEnd(tokens, at, indent) ==
  Min({j \in at..(Len(tokens) + 1) : j > Len(tokens) \/ tokens[j].form # "entry" \/ tokens[j].indent # indent})
Entries(tokens, at, indent) ==
  Seq_([i \in 1..(EntriesEnd(tokens, at, indent) - at) |-> tokens[at + i - 1].node.s])

RECURSIVE eat_mapping(_, _, _, _)
\* The keys of one indentation from a place on, and the place after them.
eat_mapping(tokens, at, indent, fields) ==
  LET token == tokens[at]
      child == tokens[at + 1]
      nested == eat_mapping(tokens, at + 1, child.indent, <<>>)
      go(next, node) == eat_mapping(tokens, next, indent, Put(fields, token.key, node))
  IN IF at > Len(tokens) \/ token.indent # indent \/ token.form = "entry" THEN Good(<<fields, at>>)
     ELSE IF token.key \in DOMAIN fields THEN Bad("duplicate_key")
     ELSE IF token.form = "pair" THEN go(at + 1, token.node)
     ELSE IF at = Len(tokens) \/ child.indent <= indent THEN go(at + 1, Map(<<>>))
     ELSE IF child.form = "entry"
     THEN go(EntriesEnd(tokens, at + 1, child.indent), Entries(tokens, at + 1, child.indent))
     ELSE IF ~nested.ok THEN nested ELSE go(nested.v[2], Map(nested.v[1]))

RECURSIVE build_parsed_policy(_, _, _)
\* The keys at the left margin.  What follows a key without a value belongs to it,
\* whatever its indentation.
build_parsed_policy(tokens, at, fields) ==
  LET token == tokens[at]
      child == tokens[at + 1]
      nested == eat_mapping(tokens, at + 1, child.indent, <<>>)
      go(next, node) == build_parsed_policy(tokens, next, Put(fields, token.key, node))
  IN IF at > Len(tokens) THEN Good(Map(fields))
     ELSE IF token.indent # 0 \/ token.form = "entry" THEN Bad("malformed")
     ELSE IF token.key \in DOMAIN fields THEN Bad("duplicate_key")
     ELSE IF token.form = "pair" THEN go(at + 1, token.node)
     ELSE IF at = Len(tokens) THEN go(at + 1, Map(<<>>))
     ELSE IF child.form = "entry"
     THEN go(EntriesEnd(tokens, at + 1, child.indent), Entries(tokens, at + 1, child.indent))
     ELSE IF ~nested.ok THEN nested ELSE go(nested.v[2], Map(nested.v[1]))

TreeOf(tokens) == IF tokens.ok THEN build_parsed_policy(tokens.v, 1, <<>>) ELSE tokens
parse_policy_yaml(lines) == TreeOf(tokenize(lines))

(***************************************************************************)
(* Sections.  Keys are words, texts of one character.                      *)
(***************************************************************************)

Known == {<<"schema_version">>, <<"frontmatter">>, <<"coverage">>, <<"document_coverage">>,
          <<"source_links">>, <<"tags">>, <<"status">>, <<"public_boundary">>}
CoverageLists == {<<"roots">>, <<"native_bundle">>, <<"canonical_documents">>, <<"legacy_documents">>,
                  <<"bridge_targets">>}
FieldLists == {<<"required">>, <<"optional">>, <<"allowed">>, <<"preserved_canonical_keys">>}
Codes == {<<"private_home_path">>, <<"credential_assignment">>, <<"private_network_literal">>,
          <<"internal_agent_path">>, <<"proprietary_scoring_language">>}

Absent == [t |-> "absent", s |-> <<>>, items |-> <<>>, fields |-> <<>>]
Child(node, key) == IF key \in DOMAIN node.fields THEN node.fields[key] ELSE Absent
ListOf(node, key) == Child(node, key).items

\* The first error of a sequence of checks, each an error or "".
FirstError(checks) == LET at == {i \in DOMAIN checks : checks[i] # ""}
                      IN IF at = {} THEN "" ELSE checks[Min(at)]
Check(holds, error) == IF holds THEN "" ELSE error

\* A section is a mapping with the keys it may have, and each has its shape.
SectionError(node, keys, shape) ==
  IF node = Absent THEN ""
  ELSE FirstError(<<Check(node.t = "map", "shape"), Check(DOMAIN node.fields \subseteq keys, "unknown_nested"),
                    Check(\A k \in DOMAIN node.fields \cap DOMAIN shape : node.fields[k].t = shape[k], "shape")>>)
Shapes(keys, t) == [k \in keys |-> t]

extract_frontmatter(node) ==
  LET state == Child(node, <<"canonical_docs_frontmatter_state">>)
  IN FirstError(<<SectionError(node, FieldLists \cup {<<"canonical_docs_frontmatter_state">>}, Shapes(FieldLists, "seq")),
                  Check(state.t \in {"scalar", "absent"}, "shape"),
                  Check(state = Absent \/ state.s \in {<<"legacy_baseline">>, <<"strict">>}, "migration_state")>>)

extract_coverage(node) ==
  FirstError(<<Check(node.t \in {"seq", "absent"}, "shape"),
               Check(ToSet(node.items) \subseteq {<<"canonical">>, <<"legacy">>, <<"excluded">>, <<"unclassified">>},
                     "coverage_class")>>)

extract_document_coverage(node) ==
  LET excluded == Child(node, <<"excluded_documents">>)
  IN FirstError(<<SectionError(node, CoverageLists \cup {<<"excluded_documents">>}, Shapes(CoverageLists, "seq")),
                  Check(excluded.t \in {"map", "absent"}, "shape"),
                  Check(\A k \in DOMAIN excluded.fields : excluded.fields[k].t = "scalar", "shape")>>)

\* A path is relative to the repository and stays in it.
validate_repo_path(path) ==
  /\ path # <<>> /\ "NUL" \notin ToSet(path) /\ ".." \notin ToSet(path)
  /\ path[1] \notin {"/", "\\"}
  /\ ~(Len(path) >= 2 /\ path[2] = ":")

validate_path_list(paths) ==
  FirstError(<<Check(\A i \in DOMAIN paths : validate_repo_path(paths[i]), "unsafe_path"),
               Check(IsInjective(paths), "duplicate_path")>>)

\* Mutant of validate_no_overlapping_classifications: bridges and exclusions are
\* not looked at.
OverlapOfLists(lists, excluded) ==
  \A a, b \in {"native", "canonical", "legacy"} : a # b => ToSet(lists[a]) \cap ToSet(lists[b]) = {}

\* No path is in two classes.
validate_no_overlapping_classifications(lists, excluded) ==
  LET class(a) == IF a = "excluded" THEN excluded ELSE ToSet(lists[a])
  IN \A a, b \in {"native", "canonical", "legacy", "bridge", "excluded"} : a # b => class(a) \cap class(b) = {}

Lists(node) == [roots |-> ListOf(node, <<"roots">>), native |-> ListOf(node, <<"native_bundle">>),
                canonical |-> ListOf(node, <<"canonical_documents">>), legacy |-> ListOf(node, <<"legacy_documents">>),
                bridge |-> ListOf(node, <<"bridge_targets">>)]

\* validate_document_coverage_paths, with validate_excluded_documents.
validate_document_coverage_paths(node) ==
  LET lists == Lists(node)
      excluded == Child(node, <<"excluded_documents">>).fields
  IN FirstError([i \in 1..5 |-> validate_path_list(lists[<<"roots", "native", "canonical", "legacy", "bridge">>[i]])]
                \o <<Check(\A p \in DOMAIN excluded : validate_repo_path(p), "unsafe_path"),
                     Check(\A p \in DOMAIN excluded : Trim(excluded[p].s) # <<>>, "empty_reason"),
                     Check(validate_no_overlapping_classifications(lists, DOMAIN excluded), "overlap")>>)

\* parse_boundary_exact_allowlist: by path and code, the digests of single lines.
parse_boundary_exact_allowlist(node) ==
  LET paths == node.fields
      codes == {<<p, c>> : p \in DOMAIN paths, c \in UNION {DOMAIN paths[q].fields : q \in DOMAIN paths}}
      entries == {x \in codes : x[2] \in DOMAIN paths[x[1]].fields}
      at(x) == paths[x[1]].fields[x[2]]
  IN FirstError(<<Check(Cardinality(DOMAIN paths) <= MaxPaths, "malformed"),
                  Check(\A p \in DOMAIN paths : validate_repo_path(p), "unsafe_path"),
                  Check(\A p \in DOMAIN paths : paths[p].t = "map" /\ DOMAIN paths[p].fields # {}, "malformed"),
                  Check(\A x \in entries : x[2] \in Codes, "unknown_nested"),
                  Check(\A x \in entries : at(x).t = "map" /\ DOMAIN at(x).fields # {}, "malformed"),
                  Check(FoldSet(LAMBDA x, n : n + Cardinality(DOMAIN at(x).fields), 0, entries) <= MaxLines, "malformed"),
                  Check(\A x \in entries : \A line \in DOMAIN at(x).fields :
                           /\ line \in Numbers
                           /\ at(x).fields[line].t = "scalar" /\ at(x).fields[line].s \in Digests, "malformed")>>)

extract_public_boundary(node) ==
  LET lists == {<<"values">>, <<"path_allowlist">>}
      exact == Child(node, <<"exact_allowlist">>)
  IN FirstError(<<SectionError(node, lists \cup {<<"exact_allowlist">>}, Shapes(lists, "seq")),
                  Check(exact.t \in {"map", "absent"}, "shape"),
                  parse_boundary_exact_allowlist(exact)>>)

(***************************************************************************)
(* The policy as the validator takes it.  Its paths are split into names.  *)
(***************************************************************************)

SplitPath(text) ==
  LET step(acc, c) == IF c = "/" THEN acc ELSE Append(acc, c) IN FoldLeft(step, <<>>, text)
SplitPaths(paths) == [i \in DOMAIN paths |-> SplitPath(paths[i])]
Words(texts) == [i \in DOMAIN texts |-> IF texts[i] = <<>> THEN "" ELSE texts[i][1]]

PolicyOf(root) ==
  LET f == Child(root, <<"frontmatter">>)
      c == Child(root, <<"document_coverage">>)
      lists == Lists(c)
      state == Child(f, <<"canonical_docs_frontmatter_state">>)
      links == Child(root, <<"source_links">>)
      prefix == Child(links, <<"require_prefix">>).s
      boundary == Child(root, <<"public_boundary">>)
      excluded == DOMAIN Child(c, <<"excluded_documents">>).fields
      of(section, key) == [set |-> section # Absent, allowed |-> Words(ListOf(section, key))]
  IN [frontmatter |-> [set |-> f # Absent, required |-> Words(ListOf(f, <<"required">>)),
                       optional |-> Words(ListOf(f, <<"optional">>)), allowed |-> Words(ListOf(f, <<"allowed">>)),
                       preserved |-> Words(ListOf(f, <<"preserved_canonical_keys">>)),
                       state |-> IF state = Absent THEN "" ELSE state.s[1]],
      coverage |-> [set |-> c # Absent, roots |-> SplitPaths(lists.roots), native |-> SplitPaths(lists.native),
                    canonical |-> SplitPaths(lists.canonical), legacy |-> SplitPaths(lists.legacy),
                    bridge |-> SplitPaths(lists.bridge), excluded |-> [p \in {SplitPath(q) : q \in excluded} |-> TRUE]],
      source_links |-> [set |-> links # Absent, prefix |-> IF prefix = <<>> THEN "" ELSE prefix[1]],
      tags |-> of(Child(root, <<"tags">>), <<"allowed">>),
      status |-> of(Child(root, <<"status">>), <<"allowed">>),
      public_boundary |-> [set |-> boundary # Absent, values |-> Words(ListOf(boundary, <<"values">>)),
                           path_allowlist |-> SplitPaths(ListOf(boundary, <<"path_allowlist">>))]]

\* from_parsed: the first thing that is wrong refuses the whole policy.
from_parsed(root) ==
  LET section(key) == Child(root, key)
      version == section(<<"schema_version">>)
      boundary == section(<<"public_boundary">>)
      exact == Child(boundary, <<"exact_allowlist">>).fields
      one(key, shape) == SectionError(section(key), DOMAIN shape, shape)
      error == FirstError(<<
        Check(version.t = "scalar", "missing_version"), Check(version.s = <<"1">>, "unsupported_version"),
        Check(DOMAIN root.fields \subseteq Known, "unknown_field"),
        extract_frontmatter(section(<<"frontmatter">>)), extract_coverage(section(<<"coverage">>)),
        extract_document_coverage(section(<<"document_coverage">>)),
        one(<<"source_links">>, Shapes({<<"require_prefix">>}, "scalar")),
        one(<<"tags">>, Shapes({<<"allowed">>}, "seq")), one(<<"status">>, Shapes({<<"allowed">>}, "seq")),
        extract_public_boundary(boundary),
        validate_document_coverage_paths(section(<<"document_coverage">>)),
        validate_path_list(ListOf(boundary, <<"path_allowlist">>)),
        Check(DOMAIN exact \subseteq ToSet(ListOf(section(<<"document_coverage">>), <<"bridge_targets">>)), "malformed")>>)
  IN IF error = "" THEN Good(PolicyOf(root)) ELSE Bad(error)

Extracted(tree) == IF tree.ok THEN from_parsed(tree.v) ELSE tree
parse_from_string(lines) == Extracted(parse_policy_yaml(lines))
=============================================================================
