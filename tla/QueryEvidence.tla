--------------------------- MODULE QueryEvidence ---------------------------
(***************************************************************************)
(* The evidence store of `bran query --record' (crates/bran-cli/src/       *)
(* main.rs, lines 3846 to 4918): what queries found, kept in one file of   *)
(* the primary root, and what evidence summarize, propose, replay and      *)
(* clear make of it while the documents go on changing.                    *)
(*                                                                         *)
(* Processes of the CLI run side by side without a lock.  A file knows the *)
(* process that still writes to it: a file that another process has        *)
(* renamed by then is written to under its new name.                       *)
(* Every request has the same primary root, whose store is modelled.       *)
(* The ranking that a query records comes first.                           *)
(***************************************************************************)
EXTENDS Integers, Sequences, FiniteSets, SequencesExt, FiniteSetsExt, TLC

(***************************************************************************)
(* How `bran query' ranks the Markdown sources of one or several           *)
(* repositories and what it says of the query                              *)
(* (crates/bran-cli/src/main.rs, lines 1655 to 2154 and 2814 to 2840).     *)
(*                                                                         *)
(* A query is a sequence of runs of identifier characters: the word        *)
(* without its outer separators, its length and whether a separator is     *)
(* inside it.  A text is the set of the words that it contains; it equals  *)
(* a word when that is all there is to it.  Locators, bundles and          *)
(* freshness are numbers, so that their order can be told.  The scanner's  *)
(* confidence, one more criterion of the order, is left out.               *)
(***************************************************************************)

CONSTANTS StopWords,       \* QUERY_STOP_WORDS
          ResultLimit      \* QUERY_RESULT_LIMIT

RankedKeys == {"title", "tags"}                  \* RANKED_FACT_KEYS
ParentKeys == {"status", "public_boundary"}      \* PARENT_QUERY_FACT_KEYS

(***************************************************************************)
(* The query.                                                              *)
(***************************************************************************)

\* classify_query_run: an identifier with separators is one unit, or too short
\* to count; its parts are never words of their own.
EntitiesOf(query) == {r.word : r \in {q \in ToSet(query) : q.parts # {} /\ q.length >= 6}}
TermsOf(query) ==
  {r.word : r \in {q \in ToSet(query) : q.parts = {} /\ q.length >= 3 /\ q.word \notin StopWords}}
Wanted(query) == EntitiesOf(query) \cup TermsOf(query)

(***************************************************************************)
(* score_source_candidates for one document.                               *)
(***************************************************************************)

Facts(doc, keys) == UNION {{<<k, i>> : i \in DOMAIN doc.facts[k]} : k \in keys \cap DOMAIN doc.facts}
ValueOf(doc, fact) == doc.facts[fact[1]][fact[2]]

\* The fields in which an entity is found whole.
EntityFields(doc, e) ==
  (IF e \in doc.path THEN {"path"} ELSE {})
  \cup {f[1] : f \in {g \in Facts(doc, RankedKeys \cup ParentKeys) : e \in ValueOf(doc, g)}}
  \cup (IF e \in doc.body THEN {"body"} ELSE {})

\* The places where a term counts, each with the field it is counted for.  A path
\* segment is a containment; only the whole path can equal a term.
Equal(doc, t) == {f \in Facts(doc, RankedKeys) : ValueOf(doc, f) = {t}}
                 \cup (IF doc.path = {t} THEN {<<"path", 0>>} ELSE {})
Contained(doc, t) ==
  {f \in Facts(doc, RankedKeys) : t \in ValueOf(doc, f) /\ ValueOf(doc, f) # {t}}
  \cup {f \in Facts(doc, ParentKeys) : t \in ValueOf(doc, f)}
  \cup (IF t \in doc.path /\ doc.path # {t} THEN {<<"path", 0>>} ELSE {})
  \cup (IF t \in doc.body THEN {<<"body", 0>>} ELSE {})

SumOver(S, F(_)) == FoldSet(LAMBDA x, acc : F(x) + acc, 0, S)

Active(doc) == CASE doc.state = "active" -> 3 [] doc.state = "draft" -> 2
                 [] doc.state = "deprecated" -> 1 [] OTHER -> 0

score(bundle, id, doc, query) ==
  LET terms == TermsOf(query)
      entities == {e \in EntitiesOf(query) : EntityFields(doc, e) # {}}
      exact == Cardinality(entities) + SumOver(terms, LAMBDA t : Cardinality(Equal(doc, t)))
      partial == SumOver(terms, LAMBDA t : Cardinality(Contained(doc, t)))
      exact_fields == UNION {EntityFields(doc, e) : e \in entities}
                      \cup UNION {{f[1] : f \in Equal(doc, t)} : t \in terms}
      partial_fields == UNION {{f[1] : f \in Contained(doc, t)} : t \in terms}
  IN [bundle |-> bundle, locator |-> id, rank |-> 0, exact |-> exact, partial |-> partial,
      reason |-> IF exact_fields = {} THEN <<"partial", partial_fields>> ELSE <<"exact", exact_fields>>,
      active |-> Active(doc),
      canonical |-> IF doc.canonical \/ (doc.authority /\ Active(doc) > 0) THEN 1 ELSE 0,
      public_safe |-> IF doc.public THEN 1 ELSE 0,
      freshness |-> doc.fresh]

MatchedIn(doc, query) ==
  {e \in EntitiesOf(query) : EntityFields(doc, e) # {}}
  \cup {t \in TermsOf(query) : Equal(doc, t) \cup Contained(doc, t) # {}}

\* The candidates and the matched terms of one root, a function from locators to
\* documents.
score_source_candidates(bundle, root, query) ==
  [matches |-> {score(bundle, id, root[id], query) : id \in {i \in DOMAIN root : MatchedIn(root[i], query) # {}}},
   matched |-> UNION {MatchedIn(root[id], query) : id \in DOMAIN root}]

(***************************************************************************)
(* Over all the roots.                                                     *)
(***************************************************************************)

\* An entity found nowhere leaves only rankings that some exact match supports.
suppress_unanchored_entity_matches(matches, matched, entities) ==
  IF entities \subseteq matched \/ \E m \in matches : m.exact > 0 THEN matches ELSE {}

ScoreOf(m) == <<-m.exact, -m.partial, -m.active, -m.canonical, -m.public_safe, -m.freshness>>
Less(a, b) == \E i \in DOMAIN a : a[i] < b[i] /\ \A j \in 1..(i - 1) : a[j] = b[j]

\* Mutant of Precedes: the bundle does not break a tie.
PrecedesAnyBundle(a, b) == Less(Append(ScoreOf(a), a.locator), Append(ScoreOf(b), b.locator))

\* ranking_score_order, then the bundle and the document.
Precedes(a, b) == Less(ScoreOf(a) \o <<a.bundle, a.locator>>, ScoreOf(b) \o <<b.bundle, b.locator>>)

\* finalize_source_rankings: a stable sort of the matches as they come, cut at the
\* limit and numbered.  `order' is the order in which they come.
finalize_source_rankings(order) ==
  LET sorted == SortSeq(order, Precedes)
      kept == SubSeq(sorted, 1, IF Len(sorted) < ResultLimit THEN Len(sorted) ELSE ResultLimit)
  IN [i \in DOMAIN kept |-> [kept[i] EXCEPT !.rank = i]]

\* The nodes of a graph come in the order of their locators.
ByLocator(S) == SetToSortSeq(S, LAMBDA m, n : m.locator < n.locator)

\* source_rankings (one root) and the ranking part of do_query_multi: the roots
\* one after another.
Ranked(scored, query) ==
  LET matched == UNION {scored[i].matched : i \in DOMAIN scored}
      all == UNION {scored[i].matches : i \in DOMAIN scored}
      left == suppress_unanchored_entity_matches(all, matched, EntitiesOf(query))
  IN [rankings |-> finalize_source_rankings(FlattenSeq([i \in DOMAIN scored |-> ByLocator(scored[i].matches \cap left)])),
      matched |-> matched]
Rankings(tree, roots, query) ==
  Ranked([i \in DOMAIN roots |->
            score_source_candidates(IF Len(roots) = 1 THEN 0 ELSE roots[i], tree[roots[i]], query)], query)

\* query_semantic_outcome.
query_semantic_outcome(query, matched, ranked) ==
  IF ~ranked THEN "miss"
  ELSE IF Wanted(query) \subseteq matched THEN "grounded" ELSE "partial_unanchored"

\* What one query finds, with the terms matched in enterprise documents.
Evaluated(query, roots, found, documents) ==
  [request |-> query, roots |-> roots,
   outcome |-> query_semantic_outcome(query, found.matched \cup documents, found.rankings # <<>> \/ documents # {}),
   matched |-> Wanted(query) \cap (found.matched \cup documents),
   unmatched |-> Wanted(query) \ (found.matched \cup documents),
   rankings |-> found.rankings]
Evaluate(tree, office, roots, query) ==
  Evaluated(query, roots, Rankings(tree, roots, query), Wanted(query) \cap UNION {office[r] : r \in ToSet(roots)})

CONSTANTS Procs,          \* the processes that may record or clear
          Roots,          \* the repositories; 1 is the primary one
          Requests,       \* the requests: [roots, query]
          Forms,          \* the documents there may be, by locator
          StartTree,      \* the documents at the start, by root
          Office,         \* the words of the enterprise documents, by root
          MaxRecords,     \* MAX_EVIDENCE_RECORDS
          MaxTreeEdits,   \* bound on the changes to the documents
          MaxQueries      \* bound on the commands that record

ASSUME RecordsAssumption == MaxRecords \in Nat

VARIABLES tree,         \* the Markdown documents of every root
          policy,       \* the roots that have a native policy file
          treeEdits,    \* how often the documents changed
          queries,      \* how many commands recorded
          store,        \* query-evidence
          storeTmp,     \* query-evidence.tmp
          procs,        \* the processes
          ackedRecords, \* history: what record commands reported as stored
          shared,       \* history: two processes were recording at once
          broken        \* history: a process died while recording, or could not write
recordVars == <<tree, policy, treeEdits, queries, store, storeTmp, procs, ackedRecords, shared, broken>>

Primary == 1
NoRecord == [roots |-> <<>>]
Idle == [pc |-> "idle", record |-> NoRecord, records |-> {}]
NoFile == [there |-> FALSE, writer |-> "none", whole |-> TRUE, records |-> {}]

RecordsInit ==
  /\ tree = StartTree
  /\ policy = Roots
  /\ treeEdits = 0 /\ queries = 0
  /\ store = NoFile /\ storeTmp = NoFile
  /\ procs = [p \in Procs |-> Idle]
  /\ ackedRecords = {}
  /\ shared = FALSE /\ broken = FALSE

Key(r) == <<r.request, r.roots>>
Go(p, pc) == procs' = [procs EXCEPT ![p].pc = pc]
Fail(p) == procs' = [procs EXCEPT ![p] = Idle]
\* A file when a process stops writing to it.
Left(file, p) == IF file.writer = p THEN [file EXCEPT !.writer = "none"] ELSE file
Available(roots) == ToSet(roots) \subseteq policy
recordFiles == <<store, storeTmp>>
world == <<tree, policy, treeEdits, queries>>
history == <<ackedRecords, shared, broken>>

(***************************************************************************)
(* The documents change under the processes.                               *)
(***************************************************************************)

EditTree ==
  /\ treeEdits < MaxTreeEdits
  /\ \/ \E r \in Roots, l \in DOMAIN Forms :
          \/ \E d \in Forms[l] : tree' = [tree EXCEPT ![r] = (l :> d) @@ tree[r]]
          \/ tree' = [tree EXCEPT ![r] = [m \in DOMAIN tree[r] \ {l} |-> tree[r][m]]]
     \/ tree' = tree
  /\ policy' \in IF tree' = tree THEN {policy \cup {r} : r \in Roots} \cup {policy \ {r} : r \in Roots}
                 ELSE {policy}
  /\ <<tree', policy'>> # <<tree, policy>>
  /\ treeEdits' = treeEdits + 1
  /\ UNCHANGED <<queries, procs, ackedRecords, shared, broken>> /\ UNCHANGED recordFiles

(***************************************************************************)
(* query --record: do_query or do_query_multi, then persist_query_evidence *)
(***************************************************************************)

\* The query runs; a root without a policy fails the command.  What the documents
\* were is remembered beside the record, for the properties only.
RunQuery(p) ==
  /\ procs[p].pc = "idle" /\ queries < MaxQueries /\ queries' = queries + 1
  /\ \E request \in Requests :
       /\ Available(request.roots)
       /\ procs' = [procs EXCEPT ![p] = [Idle EXCEPT
            !.pc = "load",
            !.record = Evaluate(tree, Office, request.roots, request.query) @@ [seen |-> <<tree, policy>>]]]
  /\ shared' = (shared \/ \E q \in Procs : procs[q].pc # "idle")
  /\ UNCHANGED <<ackedRecords, broken, tree, policy, treeEdits>> /\ UNCHANGED recordFiles

\* The records that the new one does not replace.
Unreplaced(records, record) == {r \in records : Key(r) # Key(record)}

\* load_evidence_records: of a file that is not whole, whatever parses is read, or
\* it is corrupt.  A full store takes no new request.
Load(p) ==
  /\ procs[p].pc = "load"
  /\ \/ Primary \notin policy /\ Fail(p)
     \/ /\ Primary \in policy
        /\ \E read \in IF store.whole THEN {store.records} ELSE SUBSET store.records :
             LET kept == Unreplaced(read, procs[p].record)
             IN IF Cardinality(kept) >= MaxRecords THEN Fail(p)
                ELSE procs' = [procs EXCEPT ![p].pc = "clear_tmp",
                                            ![p].records = kept \cup {procs[p].record}]
     \/ ~store.whole /\ Fail(p)
  /\ UNCHANGED recordFiles /\ UNCHANGED world /\ UNCHANGED history

\* write_evidence_records: a temporary file that is there is removed.
ClearTmp(p) ==
  /\ procs[p].pc = "clear_tmp"
  /\ storeTmp' = NoFile
  /\ Go(p, "create")
  /\ UNCHANGED store /\ UNCHANGED world /\ UNCHANGED history

\* write_private_file creates the file anew; when one is there by now, the command
\* fails and removes it.
CreateTmp(p) ==
  /\ procs[p].pc = "create"
  /\ \/ storeTmp.there /\ storeTmp' = NoFile /\ Fail(p)
     \/ /\ ~storeTmp.there
        /\ storeTmp' = [there |-> TRUE, writer |-> p, whole |-> FALSE, records |-> procs[p].records]
        /\ Go(p, "write")
  /\ UNCHANGED store /\ UNCHANGED world /\ UNCHANGED history

\* The bytes are written and synced, wherever the file is by now.
Whole(file, p) == IF file.writer = p THEN [file EXCEPT !.whole = TRUE, !.writer = "none"] ELSE file
WriteTmp(p) ==
  /\ procs[p].pc = "write"
  /\ storeTmp' = Whole(storeTmp, p) /\ store' = Whole(store, p)
  /\ Go(p, "rename")
  /\ UNCHANGED world /\ UNCHANGED history

\* The write fails: the temporary file is removed, whoever made it.
WriteTmpFails(p) ==
  /\ procs[p].pc = "write"
  /\ storeTmp' = NoFile /\ store' = Left(store, p)
  /\ Fail(p)
  /\ broken' = TRUE
  /\ UNCHANGED <<ackedRecords, shared>> /\ UNCHANGED world

\* Mutant of MayRename: the file is moved while it is written.
MayRenameEarly(p) == procs[p].pc \in {"write", "rename"}

MayRename(p) == procs[p].pc = "rename"

\* The temporary file takes the place of the store, whoever made it.
RenameTmp(p) ==
  /\ MayRename(p)
  /\ IF ~storeTmp.there THEN UNCHANGED <<store, storeTmp, ackedRecords>>
     ELSE /\ store' = storeTmp
          /\ storeTmp' = NoFile
          /\ ackedRecords' = {r \in ackedRecords : Key(r) # Key(procs[p].record)} \cup {procs[p].record}
  /\ Fail(p)
  /\ UNCHANGED <<shared, broken>> /\ UNCHANGED world

\* A process dies; what it created stays as it is.
CrashRecorder(p) ==
  /\ procs[p].pc # "idle"
  /\ Fail(p)
  /\ storeTmp' = Left(storeTmp, p) /\ store' = Left(store, p)
  /\ broken' = TRUE
  /\ UNCHANGED <<ackedRecords, shared>> /\ UNCHANGED world

\* evidence clear, by a command that comes between the recording ones.
Clear ==
  /\ Primary \in policy
  /\ store.there
  /\ store' = NoFile
  /\ ackedRecords' = {}
  /\ UNCHANGED <<storeTmp, procs, shared, broken>> /\ UNCHANGED world

RecordsNext ==
  \/ EditTree \/ Clear
  \/ \E p \in Procs : \/ RunQuery(p) \/ Load(p) \/ ClearTmp(p) \/ CreateTmp(p)
                      \/ WriteTmp(p) \/ WriteTmpFails(p) \/ RenameTmp(p) \/ CrashRecorder(p)

RecordsSpec == RecordsInit /\ [][RecordsNext]_recordVars

(***************************************************************************)
(* evidence replay and evidence summarize over a store that was read.      *)
(***************************************************************************)

\* Mutant of Live: enterprise documents are not asked again.
LiveSources(record) == Evaluate(tree, [r \in Roots |-> {}], record.roots, record.request)

\* query_evidence_from_live.
Live(record) == Evaluate(tree, Office, record.roots, record.request)

\* evaluate_query_record: a root that cannot be queried makes it unavailable.
CurrentEvidence(record) ==
  IF Available(record.roots) THEN Live(record)
  ELSE [request |-> record.request, roots |-> record.roots, outcome |-> "unavailable",
        matched |-> {}, unmatched |-> {}, rankings |-> <<>>]

\* ranking_differences: the documents that were ranked, are ranked now, or both
\* but not alike.
Identity(m) == <<m.bundle, m.locator>>
ranking_differences(recorded, current) ==
  LET r == ToSet(recorded)
      c == ToSet(current)
  IN {Identity(m) : m \in {x \in r \cup c : ~(x \in r /\ x \in c)}}

Differs(record) == \/ ranking_differences(record.rankings, CurrentEvidence(record).rankings) # {}
                   \/ record.outcome # CurrentEvidence(record).outcome

ranking_bundle(record, ranking) == IF ranking.bundle = 0 THEN record.roots[1] ELSE ranking.bundle

\* load_evidence_bundle_views: the documents of the roots that can be read.
BundleDocuments(records) ==
  LET views == {Primary} \cup UNION {ToSet(r.roots) : r \in records}
  IN UNION {{<<v, l>> : l \in DOMAIN tree[v]} : v \in views \cap policy}

RefsOf(record, rankings) == {<<ranking_bundle(record, m), m.locator>> : m \in rankings}
Retrieved(records) == UNION {RefsOf(r, ToSet(r.rankings)) : r \in records}

\* What stored rankings and the documents' own metadata say that holds no more.
Stale(records) ==
  LET documents == BundleDocuments(records)
  IN {<<"missing_locator", ref>> : ref \in Retrieved(records) \ documents}
     \cup {<<"unavailable_root", <<v, 0>>>> : v \in UNION {ToSet(r.roots) \ policy : r \in records}}
     \cup {<<"stale_metadata", ref>> : ref \in {x \in documents : tree[x[1]][x[2]].stale}}

Unclassified(records) == {ref \in BundleDocuments(records) : ~tree[ref[1]][ref[2]].classified}

\* collect_evidence_gaps.
Gaps(records) ==
  LET path_only(r) == {x \in ToSet(r.rankings) : x.reason[2] = {"path"}}
  IN [unanswered |-> UNION {r.unmatched : r \in records},
      retrieved |-> Retrieved(records),
      path_only |-> UNION {RefsOf(r, path_only(r)) : r \in records},
      never_retrieved |-> BundleDocuments(records) \ Retrieved(records),
      stale |-> Stale(records),
      unclassified |-> Unclassified(records)]

\* evidence propose: one candidate for every gap, none with a replacement.
Proposals(records) ==
  LET g == Gaps(records)
      doc(kind, refs) == {<<kind, ref>> : ref \in refs}
  IN doc("path_only_retrieval", g.path_only) \cup doc("never_retrieved", g.never_retrieved)
     \cup doc("unclassified", g.unclassified) \cup doc("stale_record", {s[2] : s \in g.stale})

(***************************************************************************)
(* Properties.                                                             *)
(***************************************************************************)

Stored == store.records
Quiet == \A p \in Procs : procs[p].pc = "idle"

\* persist_query_evidence without a lock: a crash at any step, a failed write and
\* leftovers of both never damage the store while processes take turns, and even
\* processes that overlap leave a whole file behind when all of them get through.
StoreSurvives == (~shared => store.whole) /\ (Quiet /\ ~broken => store.whole)

\* What a record command reported as stored stays until the same request is
\* recorded again or the store is cleared, whatever other requests are recorded
\* or fail, as long as processes take turns; and a request is there once.
AckedRecordsStay ==
  ~shared => /\ ackedRecords \subseteq Stored
             /\ \A a, b \in Stored : Key(a) = Key(b) => a = b
             /\ Cardinality(Stored) <= MaxRecords

\* query --record and evidence clear: while processes take turns the evidence store is
\* never torn and never loses what a writer was told is stored.
RecordsSurvive == StoreSurvives /\ AckedRecordsStay

\* evidence replay: with the documents as they were, the query is answered as it was
\* recorded, by the code of replay for what the code of query wrote; and a document
\* that was ranked and is gone is a difference.
ReplayIsHonest ==
  ~shared /\ Quiet => \A r \in Stored :
     /\ r.seen = <<tree, policy>> => ~Differs(r)
     /\ \A m \in ToSet(r.rankings) :
          LET root == IF m.bundle = 0 THEN r.roots[1] ELSE m.bundle
          IN m.locator \notin DOMAIN tree[root] => Differs(r)
     /\ ~Available(r.roots) => Differs(r)

\* evidence summarize and propose: a document is reported as never retrieved exactly
\* when no stored query of its root ranked it; every ranked document that is gone
\* and every root that is gone is proposed as stale, and no document has two
\* opposite reports.
GapsAreHonest ==
  ~shared /\ Quiet /\ Primary \in policy =>
     LET g == Gaps(Stored)
         ranked(root, l) == \E r \in Stored : \E m \in ToSet(r.rankings) :
                               m.locator = l /\ (m.bundle = root \/ (m.bundle = 0 /\ r.roots = <<root>>))
     IN /\ \A ref \in g.never_retrieved : ~ranked(ref[1], ref[2]) /\ ref[2] \in DOMAIN tree[ref[1]]
        /\ \A l \in DOMAIN tree[Primary] : ~ranked(Primary, l) => <<"never_retrieved", <<Primary, l>>>> \in Proposals(Stored)
        /\ \A root \in Roots, l \in DOMAIN Forms :
             ranked(root, l) /\ (root \notin policy \/ l \notin DOMAIN tree[root]) =>
               <<"stale_record", <<root, l>>>> \in Proposals(Stored)
        /\ g.never_retrieved \cap g.retrieved = {}

\* Over the documents of every state, looked at before anything is recorded: the
\* ranking does not depend on the order in which the roots are named; a query is grounded only when every word of it is
\* somewhere, an identifier as a whole; and when an identifier is nowhere, what
\* is ranked is there for something that matched exactly.
RankingIsHonest ==
  queries = 0 => \A q \in Requests :
     LET e == Evaluate(tree, Office, q.roots, q.query)
         turned == Evaluate(tree, Office, Reverse(q.roots), q.query)
         texts == UNION {Office[r] : r \in ToSet(q.roots)}
                  \cup UNION {UNION {tree[r][l].path \cup tree[r][l].body
                                     \cup UNION {UNION ToSet(tree[r][l].facts[k]) : k \in DOMAIN tree[r][l].facts} :
                                       l \in DOMAIN tree[r]} : r \in ToSet(q.roots)}
     IN /\ e.rankings = turned.rankings
        /\ e.outcome = "grounded" => Wanted(q.query) \subseteq texts
        /\ (\E w \in EntitiesOf(q.query) : w \notin texts) /\ e.rankings # <<>> =>
             \E m \in ToSet(e.rankings) : m.exact > 0
=============================================================================
