-------------------------- MODULE ProfileValidation --------------------------
(***************************************************************************)
(* The three profiles that `bran validate' holds a bundle of Markdown      *)
(* documents against (crates/bran-core/src/profile.rs), with the check of  *)
(* packet lifecycles that the strict one includes                          *)
(* (crates/bran-core/src/packet/mod.rs, lines 1417 to 1716).               *)
(*                                                                         *)
(* A bundle is a function from paths, which are sequences of names, to     *)
(* documents [kind, ok, absent, map, body, lines].  A body is a sequence   *)
(* of items, one on each line: a heading, a link, a citation of a line, a  *)
(* stale marker or text.  Diagnostics are pairs of a path and a code.      *)
(***************************************************************************)
EXTENDS Integers, Sequences, FiniteSets, SequencesExt, FiniteSetsExt

CONSTANTS PathOrder,      \* the paths there are, in their lexical order
          OtherFiles,     \* the names that do not end in .md
          HelperNames     \* the types and roles of helper packets

(***************************************************************************)
(* Values of the frontmatter.                                              *)
(***************************************************************************)

NoTarget == [scheme |-> "none", parts |-> <<>>, prefix |-> ""]
RelativeTo(parts) == [scheme |-> "path", parts |-> parts, prefix |-> ""]
Value(t, s, date, target, items, fields) ==
  [t |-> t, s |-> s, date |-> date, target |-> target, items |-> items, fields |-> fields]
Text(s) == Value("string", s, <<>>, NoTarget, <<>>, <<>>)

Has(map, key) == key \in DOMAIN map
When(condition, code) == IF condition THEN {code} ELSE {}

\* A blank string is "".
has_nonblank_string(map, key) == Has(map, key) /\ map[key].t = "string" /\ map[key].s # ""
Missing(map, key, code) == When(~has_nonblank_string(map, key), code)
IsString(map, key, values) == Has(map, key) /\ map[key].t = "string" /\ map[key].s \in values

\* is_iso_date, of a text that has the form of a date.
is_iso_date(date) ==
  /\ date # <<>>
  /\ LET leap == (date[1] % 4 = 0 /\ date[1] % 100 # 0) \/ date[1] % 400 = 0
         days == CASE date[2] \in {1, 3, 5, 7, 8, 10, 12} -> 31
                   [] date[2] \in {4, 6, 9, 11} -> 30
                   [] date[2] = 2 -> IF leap THEN 29 ELSE 28
                   [] OTHER -> 0
     IN date[3] \in 1..days

(***************************************************************************)
(* OKF v0.1: the type of a concept, and the form of index.md and log.md.   *)
(***************************************************************************)

okf_diagnostic(doc) ==
  IF ~doc.ok THEN {"malformed-frontmatter"}
  ELSE IF ~Has(doc.map, "type") THEN {"missing-type"}
  ELSE IF doc.map["type"].t # "string" THEN {"non-string-type"}
  ELSE When(doc.map["type"].s = "", "blank-type")

Heading(item) == item.form \in {"heading", "citations"}

\* Sections: each heading groups the items up to the next one.
okf_index_diagnostics(body) ==
  LET step(acc, item) ==
        IF Heading(item) THEN [acc EXCEPT !.codes = @ \cup When(acc.heading /\ ~acc.grouped, "okf-index-empty-section"),
                                          !.heading = TRUE, !.grouped = FALSE]
        ELSE IF item.form # "link" THEN acc
        ELSE [acc EXCEPT !.link = TRUE, !.grouped = acc.heading,
                         !.codes = @ \cup When(~acc.heading, "okf-index-link-before-heading")]
      end == FoldLeft(step, [heading |-> FALSE, link |-> FALSE, grouped |-> FALSE, codes |-> {}], body)
  IN end.codes \cup (IF ~end.heading THEN {"okf-index-missing-heading"}
                     ELSE When(~end.grouped, "okf-index-empty-section"))
               \cup When(~end.link, "okf-index-missing-link")

\* Dates are compared as texts, year first.
Later(a, b) == \E i \in 1..3 : a[i] > b[i] /\ \A j \in 1..(i - 1) : a[j] = b[j]

\* Mutant of NotNewestFirst: two groups of one date are in order.
NotNewestFirstStrictly(date, prior) == prior # <<>> /\ Later(date, prior)

NotNewestFirst(date, prior) == prior # <<>> /\ (date = prior \/ Later(date, prior))

okf_log_diagnostics(body) ==
  LET step(acc, item) ==
        IF ~Heading(item)
        THEN IF acc.prior # <<>> THEN [acc EXCEPT !.entry = TRUE]
             ELSE [acc EXCEPT !.codes = @ \cup {"okf-log-entry-before-date"}]
        ELSE IF ~is_iso_date(item.date)
        THEN IF acc.prior = <<>> /\ ~acc.title THEN [acc EXCEPT !.title = TRUE]
             ELSE [acc EXCEPT !.codes = @ \cup {"okf-log-invalid-date-heading"}]
        ELSE [acc EXCEPT !.prior = item.date, !.entry = FALSE,
                         !.codes = @ \cup When(acc.prior # <<>> /\ ~acc.entry, "okf-log-empty-date-group")
                                     \cup When(NotNewestFirst(item.date, acc.prior), "okf-log-date-order")]
      end == FoldLeft(step, [prior |-> <<>>, title |-> FALSE, entry |-> FALSE, codes |-> {}], body)
  IN end.codes \cup (IF end.prior = <<>> THEN {"okf-log-missing-date-heading"}
                     ELSE When(~end.entry, "okf-log-empty-date-group"))

(***************************************************************************)
(* OKF v0.2: the optional families of frontmatter.                         *)
(***************************************************************************)

Sources(map) ==
  IF ~Has(map, "sources") THEN {}
  ELSE IF map["sources"].t # "sequence" THEN {"sources-not-sequence"}
  ELSE UNION {IF e.t # "mapping" THEN {"source-entry-not-mapping"}
              ELSE Missing(e.fields, "resource", "source-entry-resource") : e \in ToSet(map["sources"].items)}

UsageWindow(map) ==
  IF ~Has(map, "usage_window") THEN {}
  ELSE LET w == map["usage_window"]
       IN IF w.t # "mapping" THEN {"usage-window-not-mapping"}
          ELSE Missing(w.fields, "from", "usage-window-from") \cup Missing(w.fields, "to", "usage-window-to")

Generated(map) ==
  IF ~Has(map, "generated") THEN {}
  ELSE LET g == map["generated"]
       IN IF g.t # "mapping" THEN {"generated-not-mapping"}
          ELSE Missing(g.fields, "by", "generated-by")
               \cup When(Has(g.fields, "at") /\ ~has_nonblank_string(g.fields, "at"), "generated-at")

\* A bare mapping is one event.
Verified(map) ==
  IF ~Has(map, "verified") THEN {}
  ELSE LET v == map["verified"]
           events == IF v.t = "mapping" THEN {v} ELSE ToSet(v.items)
       IN IF v.t \notin {"mapping", "sequence"} THEN {"verified-shape"}
          ELSE UNION {IF e.t # "mapping" THEN {"verified-event-not-mapping"}
                      ELSE Missing(e.fields, "by", "verified-by") \cup Missing(e.fields, "at", "verified-at") :
                        e \in events}

Lifecycle(map) ==
  When(Has(map, "status") /\ ~IsString(map, "status", {"draft", "stable", "active", "deprecated"}), "status-value")
  \cup When(Has(map, "stale_after") /\ ~(map["stale_after"].t = "string" /\ is_iso_date(map["stale_after"].date)),
            "stale-after-shape")

Attested(map) ==
  LET resource(key) == map[key].t = "mapping" /\ has_nonblank_string(map[key].fields, "resource")
      named(e) == e.t = "mapping" /\ has_nonblank_string(e.fields, "name") /\ has_nonblank_string(e.fields, "type")
      receipts(key) == Has(map[key].fields, "receipt") => map[key].fields["receipt"].t = "sequence"
  IN IF ~IsString(map, "type", {"Attested Computation"}) THEN {}
     ELSE Missing(map, "runtime", "ac-runtime")
          \cup When(Has(map, "parameters")
                    /\ ~(map["parameters"].t = "sequence" /\ \A e \in ToSet(map["parameters"].items) : named(e)),
                    "ac-parameters")
          \cup When(Has(map, "computation") /\ ~has_nonblank_string(map, "computation"), "ac-computation")
          \cup When(Has(map, "executor") /\ ~(resource("executor") /\ receipts("executor")), "ac-executor")
          \cup When(Has(map, "attester") /\ ~resource("attester"), "ac-attester")

okf_v0_2_family_diagnostics(map) ==
  Sources(map) \cup UsageWindow(map) \cup Generated(map) \cup Verified(map) \cup Lifecycle(map) \cup Attested(map)

okf_v0_2_index_version_diagnostics(map) ==
  IF ~Has(map, "okf_version") THEN {}
  ELSE IF map["okf_version"].t # "string" THEN {"okf-version-non-string"}
  ELSE When(map["okf_version"].s = "", "okf-version-blank")

AfterCitations(body) ==
  LET at == {i \in DOMAIN body : body[i].form = "citations"}
  IN IF at = {} THEN <<>> ELSE SubSeq(body, Min(at), Len(body))
LinksIn(body) == {item.target : item \in {i \in ToSet(body) : i.form = "link"}}

(***************************************************************************)
(* Which documents take part.                                              *)
(***************************************************************************)

path_under_root(path, root) == root = <<".">> \/ IsPrefix(root, path)
Listed(c) == ToSet(c.native) \cup ToSet(c.canonical) \cup ToSet(c.legacy)

\* Without coverage every document takes part.
document_participates(path, c) ==
  c.set => /\ path \notin DOMAIN c.excluded
           /\ path \in Listed(c) \/ \E root \in ToSet(c.roots) : path_under_root(path, root)

portable_document_participates(path, c) ==
  IF c.set /\ c.native # <<>> THEN path \in ToSet(c.native) ELSE document_participates(path, c)

PortableCodes(path, doc) ==
  CASE doc.kind = "index" -> okf_index_diagnostics(doc.body)
    [] doc.kind = "log" -> okf_log_diagnostics(doc.body)
    [] OTHER -> okf_diagnostic(doc)

\* validate_okf_compatibility and validate_okf_v0_2.
validate_okf_compatibility(bundle, policy) ==
  UNION {{<<p, code>> : code \in PortableCodes(p, bundle[p])} :
           p \in {q \in DOMAIN bundle : portable_document_participates(q, policy.coverage)}}

validate_okf_v0_2(bundle, policy) ==
  LET families(p) == LET doc == bundle[p]
                     IN CASE doc.kind = "concept" /\ doc.ok -> okf_v0_2_family_diagnostics(doc.map)
                          [] p = <<"index.md">> /\ doc.ok -> okf_v0_2_index_version_diagnostics(doc.map)
                          [] OTHER -> {}
  IN UNION {{<<p, code>> : code \in PortableCodes(p, bundle[p]) \cup families(p)} :
              p \in {q \in DOMAIN bundle : portable_document_participates(q, policy.coverage)}}

(***************************************************************************)
(* BRAN strict: one document.                                              *)
(***************************************************************************)

PublicValues == {"public", "public-candidate", "external", "publishable"}

\* The intrinsic shape of a document.
Shape(doc, policy) ==
  LET map == doc.map
      cited == \E i \in DOMAIN doc.body : doc.body[i].form = "citations"
      status == IF policy.status.set THEN ToSet(policy.status.allowed) ELSE {"draft", "active", "deprecated"}
  IN Missing(map, "title", "title")
     \cup When(~IsString(map, "okf_status", status), "status")
     \cup (IF ~(Has(map, "tags") /\ map["tags"].t = "sequence") THEN {"tag"}
           ELSE When(policy.tags.set /\ \E v \in ToSet(map["tags"].items) : v.s \notin ToSet(policy.tags.allowed),
                     "tag-value"))
     \cup (Missing(map, "timestamp", "freshness") \cap Missing(map, "freshness", "freshness"))
     \cup Missing(map, "resource", "authority")
     \cup When(~has_nonblank_string(map, "resource") /\ ~cited, "citation-source")
     \cup When(LinksIn(doc.body) = {}, "relationship")

Boundary(path, map, boundary) ==
  (IF ~has_nonblank_string(map, "public_boundary") THEN {"public-boundary"}
   ELSE When(boundary.set /\ map["public_boundary"].s \notin ToSet(boundary.values), "boundary-value"))
  \cup When(/\ boundary.set /\ IsString(map, "public_boundary", PublicValues)
            /\ ~\E prefix \in ToSet(boundary.path_allowlist) : path_under_root(path, prefix),
            "public-path-disallowed")

\* The fields that must and may be there; those of canonical documents that are
\* kept as they were are allowed there.
Fields(path, map, policy) ==
  LET f == policy.frontmatter
      may == ToSet(f.required) \cup ToSet(f.optional) \cup ToSet(f.allowed)
      here == IF path \in ToSet(policy.coverage.canonical) \ ToSet(policy.coverage.native)
              THEN may \cup ToSet(f.preserved) ELSE may
  IN IF ~f.set THEN {}
     ELSE When(\E k \in ToSet(f.required) : ~Has(map, k), "fm-required")
          \cup When(here # {} /\ \E k \in DOMAIN map : k \notin here, "fm-disallowed")

SourceLinks(doc, links) ==
  When(/\ links.set /\ links.prefix # ""
       /\ \E t \in LinksIn(AfterCitations(doc.body)) : t.scheme = "http" /\ t.prefix # links.prefix,
       "source-link-prefix")

\* A document that legacy migration still shields is not looked at.
Shielded(path, policy) ==
  LET c == policy.coverage
      state == policy.frontmatter.state
  IN c.set /\ \/ path \in ToSet(c.legacy) /\ state # "strict"
              \/ path \in ToSet(c.canonical) /\ state = "legacy_baseline"

Checked(path, doc, policy) ==
  /\ document_participates(path, policy.coverage)
  /\ doc.kind = "concept" \/ (policy.coverage.set /\ path \in ToSet(policy.coverage.canonical))
  /\ ~Shielded(path, policy)

DocumentCodes(path, doc, policy) ==
  LET typed == okf_diagnostic(doc)
  IN (IF typed = {"missing-type"} /\ doc.absent THEN {"missing-frontmatter"} ELSE typed)
     \cup (IF ~doc.ok THEN {}
           ELSE Shape(doc, policy) \cup Boundary(path, doc.map, policy.public_boundary)
                \cup Fields(path, doc.map, policy) \cup SourceLinks(doc, policy.source_links))

(***************************************************************************)
(* BRAN strict: the coverage, links, citations and stale marks.            *)
(***************************************************************************)

ConfiguredMissing(bundle, c) == {<<p, "doc-missing">> : p \in Listed(c) \ DOMAIN bundle}

Unclassified(bundle, c) ==
  {<<p, "doc-unclassified">> :
     p \in {q \in DOMAIN bundle : /\ q \notin DOMAIN c.excluded \cup Listed(c)
                                  /\ \E root \in ToSet(c.roots) : path_under_root(q, root)}}

LegacyLeft(policy) ==
  IF policy.frontmatter.set /\ policy.frontmatter.state = "strict"
  THEN {<<p, "migration-strict-legacy">> : p \in ToSet(policy.coverage.legacy)} ELSE {}

NoPath == <<>>

\* resolve_relative_link, and resolve_safe: a stack of names, which may not be
\* popped when it is empty.
resolve_relative_link(source, target) ==
  LET step(acc, name) ==
        CASE ~acc.ok \/ name = "." -> acc
          [] name = ".." -> [acc EXCEPT !.ok = acc.stack # <<>>,
                                        !.stack = IF @ = <<>> THEN @ ELSE Front(@)]
          [] OTHER -> [acc EXCEPT !.stack = Append(@, name)]
      end == FoldLeft(step, [ok |-> TRUE, stack |-> <<>>], Front(source) \o target.parts)
  IN IF target.scheme # "path" \/ ~end.ok THEN NoPath ELSE end.stack

\* extract_native_links: no images, web addresses, fragments or mail.
NativeLinks(doc) ==
  {i.target : i \in {j \in ToSet(doc.body) : /\ j.form = "link" /\ ~j.image
                                             /\ j.target.scheme \in {"path", "absolute", "unsafe"}}}

LinkCodes(path, doc, c) ==
  UNION {LET to == resolve_relative_link(path, t)
         IN IF to = NoPath
            THEN {IF t.scheme = "absolute" THEN "native-link-absolute" ELSE "native-link-traversal"}
            ELSE When(to \notin ToSet(c.native) \cup ToSet(c.canonical) \cup ToSet(c.bridge),
                      "native-link-unconfigured") : t \in NativeLinks(doc)}

\* The native pages that another native page links to.
Inbound(bundle, c) ==
  {p \in ToSet(c.native) : \E q \in (ToSet(c.native) \cap DOMAIN bundle) \ {p} :
                              \E t \in NativeLinks(bundle[q]) : resolve_relative_link(q, t) = p}

Place(path) == CHOOSE i \in DOMAIN PathOrder : PathOrder[i] = path
Lowest(paths) == CHOOSE p \in paths : \A q \in paths : Place(p) <= Place(q)

Orphans(bundle, c) ==
  IF Len(c.native) <= 1 THEN {}
  ELSE {<<p, "native-orphan">> : p \in ToSet(c.native) \ (Inbound(bundle, c) \cup {Lowest(ToSet(c.native))})}

\* One citation `path:line' of a document; the path is taken as it is written.
CitationCode(bundle, c, cite) ==
  LET to == cite.target.parts
      bridge == to \in ToSet(c.bridge)
  IN IF cite.target.scheme # "path" \/ \E i \in DOMAIN to : to[i] = ".." THEN {"citation-absolute"}
     ELSE IF cite.line = 0 THEN {"citation-invalid-line"}
     ELSE IF to \notin ToSet(c.canonical) /\ ~bridge THEN {"citation-unconfigured"}
     ELSE IF to \in DOMAIN bundle THEN When(cite.line > bundle[to].lines, "citation-out-of-range")
     ELSE When(Last(to) \notin OtherFiles \/ ~bridge, "citation-missing")

Citations(doc) == {i \in ToSet(doc.body) : i.form = "cite"}

\* The native pages, and the canonical documents unless they are legacy yet.
Validated(policy) ==
  ToSet(policy.coverage.native)
  \cup (IF policy.frontmatter.state = "legacy_baseline" THEN {} ELSE ToSet(policy.coverage.canonical))

StaleCodes(doc) ==
  When(\E i \in DOMAIN doc.body : doc.body[i].form = "stale", "stale-body")
  \cup When(doc.ok /\ IsString(doc.map, "freshness", {"stale"}), "stale-frontmatter")

CoverageCodes(bundle, policy) ==
  LET c == policy.coverage
      in(paths) == paths \cap DOMAIN bundle
  IN IF ~c.set THEN {}
     ELSE ConfiguredMissing(bundle, c) \cup Unclassified(bundle, c) \cup LegacyLeft(policy) \cup Orphans(bundle, c)
          \cup UNION {{<<p, code>> : code \in LinkCodes(p, bundle[p], c)} : p \in in(ToSet(c.native))}
          \cup UNION {{<<p, code>> : code \in StaleCodes(bundle[p])
                                              \cup UNION {CitationCode(bundle, c, i) : i \in Citations(bundle[p])}} :
                        p \in in(Validated(policy))}

(***************************************************************************)
(* PacketValidator: active packets refer to no superseded one.             *)
(***************************************************************************)

\* The documents with a status that is a string.
Statuses(bundle) ==
  {p \in DOMAIN bundle : bundle[p].ok /\ Has(bundle[p].map, "status") /\ bundle[p].map["status"].t = "string"}
StatusOf(bundle, p) == bundle[p].map["status"].s

is_helper_candidate(map) ==
  Has(map, "work_class") \/ IsString(map, "type", HelperNames) \/ IsString(map, "role", HelperNames)

\* collect_references: the strings of the frontmatter (here to a depth of three) and
\* all links, images too.
StringsOf(values) == {v.target : v \in {w \in values : w.t = "string"}}
Inside(v) == ToSet(v.items) \cup {v.fields[k] : k \in DOMAIN v.fields}
collect_references(doc) ==
  LET top == {doc.map[k] : k \in DOMAIN doc.map}
      below == UNION {Inside(v) : v \in top}
  IN StringsOf(top) \cup StringsOf(below) \cup StringsOf(UNION {Inside(v) : v \in below}) \cup LinksIn(doc.body)

\* resolve_superseded: the path as it is written, then from the document, then a
\* bare name that one document alone has.
resolve_superseded(bundle, source, target) ==
  LET known == Statuses(bundle)
      relative == resolve_relative_link(source, target)
      named == {p \in known : Last(p) = target.parts[1]}
      superseded(p) == IF StatusOf(bundle, p) = "superseded" THEN p ELSE NoPath
  IN IF target.scheme # "path" THEN NoPath
     ELSE IF target.parts \in known THEN superseded(target.parts)
     ELSE IF relative \in known THEN superseded(relative)
     ELSE IF Len(target.parts) = 1 /\ Cardinality(named) = 1 THEN superseded(CHOOSE p \in named : TRUE)
     ELSE NoPath

PacketCodes(bundle) ==
  LET known == Statuses(bundle)
      helpers == {p \in DOMAIN bundle : bundle[p].ok /\ is_helper_candidate(bundle[p].map)}
      active == {p \in known : StatusOf(bundle, p) = "active"}
  IN {<<p, "packet_missing_authority_field">> :
        p \in {h \in helpers : h \notin known \/ StatusOf(bundle, h) \notin {"active", "superseded"}}}
     \cup {<<p, "superseded_prompt_reference">> :
             p \in {a \in active : \E t \in collect_references(bundle[a]) : resolve_superseded(bundle, a, t) # NoPath}}

\* validate_bran_strict.
validate_bran_strict(bundle, policy) ==
  UNION {{<<p, code>> : code \in DocumentCodes(p, bundle[p], policy)} :
           p \in {q \in DOMAIN bundle : Checked(q, bundle[q], policy)}}
  \cup CoverageCodes(bundle, policy) \cup PacketCodes(bundle)

\* validate_with_policy, and the profile that decides.
validate_with_policy(bundle, policy) ==
  [v1 |-> validate_okf_compatibility(bundle, policy), v2 |-> validate_okf_v0_2(bundle, policy),
   strict |-> validate_bran_strict(bundle, policy)]
selected_passed(result, profile) == profile \in DOMAIN result /\ result[profile] = {}
=============================================================================
