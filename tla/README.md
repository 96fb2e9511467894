# TLA+ models of BRAN

BRAN indexes a repository deterministically, answers queries about it and hands
bounded context packets to language-model agents. This directory holds the
specifications kept beside the code: what its parts promise, the state machines
translated from `src/`, the configurations TLC checks, and the proofs TLAPS
checks. `PROJECT.json` ties every definition to the lines it stands for, every
property to a hazard of the code and to a mutation of it that TLC catches.

    tlc -workers 2 -config MCStorage.cfg MCStorage    # a run of the table below
    tlapm ConnectedTaskProofs.tla                     # the proofs of a module

## 1. The system

| part | state | operations | what is hard about it |
|---|---|---|---|
| In-memory result store (`agent/result_store.rs`) | entries, age index, byte count, next order | put, put_batch, get, remove, clear | three accounts of one thing; atomic batches on a clone; ticks that go back; eviction in the middle of a batch |
| Filesystem result store (`bran-cli/main.rs` 5896-6344) | batch directories, staging and quarantine directories, an advisory lock | put_batch, get, each sweeping first | several processes; crashes and failing calls between any two system calls; roll back of an eviction |
| Connected task (`main.rs` 967-1230, 5900-5938, 6472-6858) | UI loop, worker thread, cancellation flag, published flag, mutex, channel | start, cancel, finish, drop; the retry loop | cancel races publication; a mutex kept over another process's file lock; leaving while a worker runs |
| External host adapter (`adapters/provider/mod.rs`) | child process, three pipes, three threads with channels, deadline | invoke | a host that stalls, talks too much, forks or dies; cancellation and deadline racing the answer |
| Agent runtime (`agent/coordinator.rs`, `runtime.rs`, `delegate.rs`, `receipt.rs`) | a call's lifecycle, prompt, answer, claims, receipt | invoke: gates, compression, provider, validation, store, receipt | files edited while the provider works; failures that are `Ok`; every way out must be able to build its receipt |
| SQZ adapter (`adapters/sqz.rs`) | none between calls | evaluate | an external compressor whose answer must be checked like its input |
| Index transaction (`scan/transaction.rs`, `scan/mod.rs`) | scan, parses, published graph, receipts | refresh of named paths | files and ignore file edited between any two reads; incremental accounts; renames guessed from bytes |
| Durable state store (`database/state.rs`) | VERSION, objects/, tmp/, the handle's usage | open, put, get | crashes in every write; damaged objects; a quota counted once |
| Database boundary and evidence (`database/mod.rs`, `sql.rs`, `evidence.rs`) | one extraction: its snapshot, catalog, rows and bytes so far | parse, gate, extract, packet_evidence | four engine calls while others commit; cancellation and deadline between any two; limits met exactly; statements that hide a relation |
| Repair coordinator (`repair/mod.rs`, maintain in `main.rs`) | target, staged file, backup, proposal | propose, apply | no lock; crashes between two renames; edits and other maintainers |
| Knowledge graph queries (`graph/query.rs`, `graph/mod.rs`) | immutable graph, search queue, seen | impact, reachability, zombies, trail | bounds that cut a search short; uncertain edges; negative answers |
| Views and packets (`view/mod.rs`, `packet/mod.rs`) | view, closure, evidence, selection | compile, assemble | three stages that each leave something out; required evidence under shared limits |
| Structural graph and packets (`graph/model.rs`, `graph/mod.rs`, `graph/query.rs`, `packet/mod.rs`) | immutable snapshot, ranking and traversal with their receipts | build, rank, run, assemble_structural | receipts made by separate calls, over a snapshot that may be replaced, handed in by a caller who may edit them |
| Document intake (`zip.rs`, `opc.rs`, `xml.rs`, `lib.rs`) | entries, parts, trees, what is left of each budget | open, write | sizes the archive claims and the decoder contradicts; names that differ in case or encoding; cancellation between any two entries |
| DOCX, PPTX, XLSX adapters (`docx.rs`, `pptx.rs`, `xlsx.rs`) | reader state over a stream of tokens, fidelity, receipts | import, export | fields, links and revisions that cross runs; ids that repeat; markers split over runs; formulas with string literals |
| PDF adapter (`pdf.rs`, `pdf_syntax.rs`, `pdf_text.rs`) | cross-reference entries, object cache, graphics and marked-content stacks | load, project, export | revisions, hybrids, packed objects, damage; graphs with cycles; text that stands for other text |
| Admission, evidence, export (`admit.rs`, `conformance.rs`, `document_evidence.rs`, `export.rs`) | anchors under budgets, files found and omitted, a temporary file | admit, discover, rank, export | a repository that changes between listing and reading; accounts of what is left out; two exports at once |
| Query evidence (`main.rs` 1700-2400, 3846-4918) | one store file and its temporary file | record, replay, summarize, propose, clear | no lock; crashes between write and rename; replay by another path than the query |
| SCIP reader (`scip.rs`) | one index | definitions, references, implementations | freshness over all documents; limits that hide matches |
| Policy and profiles (`policy.rs`, `profile.rs`) | a loaded policy, a bundle | load, validate | a hand-written tokenizer; documents that escape every class, or are in two; several profiles over one bundle |

How they interact: a request of the terminal UI starts a worker (ConnectedTask)
that builds a packet from views over the graph the index transaction published,
runs `AgentRuntime::invoke`, which compresses the prompt (SQZ), asks the provider
through the host adapter, verifies the claims against the files, compresses the
answer, and stores it through the filesystem store, under the publication mutex
it shares with the UI thread. A query ranks the Markdown documents of the bundle
roots, admits office and PDF documents through the intake and the adapters, looks
symbols up in an index, and may record what it found; the policy decides how the
documents are classified, and the profiles whether they hold to it. Repair and
the databases are used by other commands or by embedders (the durable state store and
database evidence are not wired to the command line).

## 2. Modules

| module | models | used by |
|---|---|---|
| `ResultStoreContract` | the promise of the `ResultStore` trait: atomic batches, readable identifiers, limits after each call | refined by `MemoryResultStore` |
| `MemoryResultStore` | `MemoryResultStore`, a batch one payload at a time on its clone | `MCMemoryResultStore`, `MemoryResultStoreProofs` |
| `FilesystemResultStore` | `put_batch` and `get` of several processes, one system call per step | `MCFilesystemResultStore`, `FilesystemResultStoreProofs` |
| `ConnectedTask` | `run_tui`, `ConnectedTuiTask`, `ConnectedCancellation`, `CancellableResultStore`, the retry loop of `production_headless_receipt_at` | itself, `ConnectedTaskProofs` |
| `ExternalHost` | `ExternalHostAdapter::invoke`, its three threads and a free host | itself, `ExternalHostProofs` |
| `SqzAdapter`, `AgentRuntime` | `SqzAdapter::evaluate`; one call of `AgentRuntime::invoke` with editors and evictions at work | `MCAgentRuntime`, `AgentRuntimeProofs` |
| `IndexTransaction` | `refresh` over `scan_changed`, file by file, with editors at work | `MCIndexTransaction`, `IndexTransactionProofs` |
| `FileStateStore` | `open`, `put`, crashes, damage | `MCStorage`, `StorageProofs` |
| `Repair` | `propose`, `apply`, and `do_maintain_apply` around them | `MCStorage`, `StorageProofs` |
| `DatabaseEvidence` | the parser of descriptors, the SQL gate, an extraction call by call, its evidence | `MCStorage` |
| `GraphQuery`, `PacketAssembly` | the four bounded searches; view, closure, evidence and selection, which extend the same graph and the same search state | `MCKnowledge`, `KnowledgeProofs` |
| `StructuralPacket` | `GraphBuilder::build`, `StageRanker`, `Traversal::run`; `assemble_structural` with its validators | `MCKnowledge`, `KnowledgeProofs` |
| `PackageIntake` | archive, package and XML under their budgets; the bounded writer | `DocumentEvidence` |
| `DocumentAdmission` | admission of a projection under the budgets of anchors, facts and bytes | `DocumentEvidence` |
| `DocumentEvidence` | the matcher of ignore files, discovery, reading, ranking and the export gate | `MCDocuments`, `StorageProofs` |
| `DocxAdapter`, `PptxAdapter`, `XlsxAdapter` | import and export of each format, token by token | `DocumentConformance` |
| `PdfAdapter` | fonts, content streams and blocks; the pages of the result | `DocumentConformance` |
| `DocumentConformance` | the round trip of the conformance harness, over all four formats | `MCDocumentConformance` |
| `PdfFile` | objects, cross-references, repair and filters; page tree, outline, destinations and fields; a file that is written, revised, damaged and read | `MCPdfFile`, `MCDocuments` |
| `QueryEvidence` | scores, order and suppression of matches; the store of records, replay and gaps | `MCQuery`, `StorageProofs` |
| `ScipIndex` | an index from its varints to the answers of `query --symbol` | `MCQuery` |
| `PolicyFile`, `ProfileValidation` | tokenizer, parser and values of a policy; the strict and the portable profiles | `MCProfile`, `MCQuery` |

`MCStorage`, `MCKnowledge`, `MCDocuments` and `MCQuery` each hold several components
that share no state: a behaviour is about one of them, chosen at the start, so that
one run checks both without multiplying their states.

Correspondence, where it is not one to one:

* **Result stores.** A payload is its own identifier (content addressing). Batch
  names order batches by tick and digest, so `FilesystemResultStore` keeps a
  digest order as a constant. Every action is one system call, or several that
  nobody can tell apart under the lock. `MaxFailures` bounds crashes and failing
  calls together. `prior` and `latest` are history.
* **ConnectedTask.** One worker step is the code between two points where another
  thread can look: `publish` takes the mutex and tests the flag, `lock` waits for
  the file lock, `put` and `mark` are the store's acknowledgement and
  `published = true`. What each gate of `invoke` decides is a choice; the store is
  what `FilesystemResultStore` shows of a call, including the failed call that
  leaves its batch behind (`leftover`).
* **ExternalHost.** Frames are of the kinds the caller tells apart. Pipes have a
  capacity, so that a host that does not read blocks the writer. Polling loops
  are two steps, the look at the channel and the look at clock and flag.
* **AgentRuntime.** A text is a record of its length, the anchors in it and what
  the scans see in it; an answer's text is its claims; a file's content is the set of
  spans in it; a digest is what it is the digest of. The gates are a sequence, and
  the first that fails decides the receipt, as in the code.
* **IndexTransaction.** Directories are flat; what parser and graph accept is a
  property of the bytes. `pending` and `replica` are history: what was reported
  but not read yet, and a copy of the index kept from receipts alone.
* **FileStateStore.** A file knows who still writes it and what it holds;
  a rename moves it together with its writer.
* **Repair.** `known` is the last content an editor wrote or a validator accepted:
  what may never be lost.
* **DatabaseEvidence.** A statement is a sequence of tokens with the relations the engine
  would read for it, against which the gate is checked. What is read is a pair of the
  revision it was read in and a number; every row is read in the revision current then, as
  an engine without isolation would, and the engine may fail in every call. A digest
  is what it digests. `interrupted_before` is history: whether cancellation or deadline came
  before the last attestation.
* **GraphQuery.** A step takes one queue entry with the whole loop over its edges.
  Where the code loops in the order of edge ids, which say nothing of the nodes,
  the neighbours come in any order; `trail` sorts them, and so does the model.
  `PacketAssembly` reuses queue, seen, bounded and items for the closure.
* **StructuralPacket.** A digest is what it is the digest of, so a
  receipt is stale or edited exactly when it differs. The walk takes one edge per
  step. The caller may exchange the snapshot, or edit a receipt, between any two calls.
* **Adapters.** A document is a sequence of tokens with their attributes; an element
  opens with its token and ends with `close`. A behaviour feeds one token after the
  other to the reader, as the event loop of the code does, and then imports, exports
  and imports again. Characters are those the properties tell apart: a private
  marker, a control character, an escape, a tab. `RoundTrip` says exactly which documents
  read back as they were: those of `NotSpelled` do not (section 5), all others do, and the
  vocabularies hold both. What a PDF page says is read a second time by `PdfReading`, which
  keeps only fonts, saved fonts, /ActualText and forms and knows nothing of lines or blocks; a
  string that no font can say is a mark in it, so that the loss is seen.
* **PDF.** A file is a sequence of objects at offsets, with the sections that point at
  them; objects are values with references. The last part of `PdfFile` writes it, as
  another producer would, in every layout; the parts before it read it.
* **DocumentEvidence, QueryEvidence.** Between the steps of a walk or a query the repository
  changes. Each system call of `write_new` is a step; the serial number in a temporary name is
  written in strokes. The walk of `discover` has two more outcomes where calls may fail: the
  directory is not listed, or any of its entries is lost; the ignore files then may be unreadable too, and
  a document that was found may fail at its metadata or its bytes. `passed` is history, the
  paths the walk lost that way: the code keeps no count of them. In `QueryEvidence` files are modelled with who writes them.
* **PolicyFile.** A policy file is a sequence of lines of characters; what the tokenizer
  does with quotes, escapes, comments and indentation is done here too, since it is
  what the properties are about.

## 3. Runs

| run | checks | bounds | states |
|---|---|---|---|
| `memory_store` | indexes agree, limits on size and age hold, a fresh batch that fits is accepted, the contract is implemented | 6 payloads of 0 to 4 bytes, 2 entries, 4 bytes, ticks 0..2 in any order, `next_order` up to 3 so that its exhaustion happens | 700 thousand |
| `file_store` | live transactions are kept and no partial batch is visible; success is complete and a failed call keeps prior batches; live batches go only for room; every call returns, whatever fails | 2 processes, 2 calls each, one crash or failing call; batches that are empty, too large, duplicated or over capacity as well | 1.1 million |
| `connected_task` | one winner, reports agree with the store, no orphan; cancel returns, tasks end, Ctrl-C ends the program | 2 requests in a row, source limit 4 (two halvings), other processes take the file lock twice | 33 thousand |
| `storage` | state store: no partial objects, acknowledged objects stay, only an empty namespace can be torn, usage exact and quota kept; repair: the last good bytes survive, verdicts are true, only the snapshot is replaced; extraction: evidence is of one snapshot, pinned, uninterrupted and within its limits, and a statement that passes the gate reads exactly the allowed relations it names | 3 objects of 1 to 3 bytes, quota 4, 3 failures, 2 damages; one maintainer, 2 applies, 2 edits, 2 failures; a table in 3 revisions of 1 to 3 rows, some 500 statements, limits of 2 and 3 rows and of 4, 6 and 9 bytes, snapshots attested by digest, by text or not at all | 400 thousand |
| `index` | scan, parses and publication are one, reported edits are in the index or diagnosed, receipts reproduce the index | 3 paths, 3 edits, 2 refreshes, 1 failed read | 6.3 million |
| `external_host` | no host is left, Ok is a whole conversation, an early cancellation wins, invoke returns | 3 frames, stdin of one frame, one descendant | 450 thousand |
| `agent_runtime` | the receipt can always be built, grounded results rest on admitted evidence, no unchecked text passes | one call, two locators, two contents, all policies and compressor answers | 830 thousand |
| `knowledge` | negatives are safe, trails are shortest, impact tells what it leaves out; closures are exact, required evidence is kept, truncation is told; walks are honest; structural packets accept their own receipts, are about their own snapshot and sufficient only when they are | every graph of 4 nodes and up to 3 edges, depth 0..2, results 0..4; structural graphs of 3 nodes, every kind of edge and refusal, limits around what the walk meets, one edit of a receipt or one later snapshot | 4.7 million |
| `adapters` | the round trip keeps anchors and content of all but three named kinds of document, and of none of those; what is lost is told, but for PDF strings in no font; anchor ids are unique, no marker and no active formula leaves | documents of up to 5, 6 or 8 tokens from 17 vocabularies, one for each group of constructs that interact | 1.3 million |
| `documents` | exports replace nothing and remove only their own; each document is read or counted, unless the walk could not get to it, cuts are told, recognised text ranks after extracted; the intake refuses what it should and accepts what the writer makes; PDF files are read as written, whatever their layout, cycles and damage | 2 exports with a crash; 6 documents under a changing tree, depth 1; directories, entries, ignore files and documents that cannot be read, and names that are not UTF-8; archives of up to 4 parts; PDF files of up to 9 objects, 2 revisions, 3 pages | 750 thousand |
| `pdf_repair` | **violated**: repair keeps the newest definition | one update, the pointer lost | to the counterexample |
| `query` | the record store is never torn while processes take turns, acknowledged records stay; replay and gaps agree with the documents; ranking, symbols; strict profile, portable profiles, policy | 2 processes, 3 recording commands, 1 edit, 2 records; indexes of 2 documents with 2 occurrences; policies with every class over 4 documents, policy files of a few lines | 370 thousand |

Why these bounds are enough to be of interest: every limit (entries, bytes,
items, depth, order, frames, quota, parts, nodes, anchors) is met from below, exactly,
and from above; two of everything that races; one failure more than a code path handles.
Four nodes are the fewest with a path longer than the smallest bound beside an
uncertain edge. The vocabularies of the adapters are kept apart, because what is
looked for is the interaction of a few constructs (a field in a link, a marker around a
deletion), and because each is then explored for every order of its tokens. Deadlock
checking is off where the system may stop: calls are bounded, a conversation or a query
ends, the program exits. The one symmetry set (`query`) permutes processes, which nothing
orders.

**Fairness.** Liveness is checked under weak fairness only, and of the program's
own steps. `FilesystemResultStore`: a process that has begun a call goes on
(crashes excepted); the lock is released by the system when its holder dies.
`ConnectedTask`: the UI loop turns, since a poll for keys lasts 50 ms at most; the
worker's calls return, since the host adapter has a deadline (which is what
`external_host` shows); other processes release the file lock (which is what
`EveryCallReturns` of `file_store` shows). No key is ever pressed of necessity, and no terminal
error or panic is needed. `ExternalHost`: threads run and time passes; nothing is
assumed of the host, its descendant or the user.

## 4. What is proved

`MemoryResultStoreProofs` - for all payloads, sizes, limits and ticks:

* `TypeCorrect`, `IndexesAlwaysAgree`, `LimitsAlwaysHold` and `ExpiryIsComplete`
  (together `LimitsAlwaysKept`), `Implements`: the store refines `ResultStoreContract`, and
  `FreshBatchIsAccepted`: a batch that fits is not refused.
* The argument: a store is *good* if its entries, age index and byte count describe
  the same set, within the limits, with distinct orders below `next_order`.
  `IndexesAgree` alone is not inductive: that eviction removes exactly one entry
  per key, and that `total_bytes` decreases by its size, needs the orders to be
  distinct and both sides to agree; and a batch publishes its clone, so the
  clone must be good too, and hold nothing but what the store and the batch had. The byte count
  is handled as the cardinality of a set of byte positions, so that no induction
  over the entries is needed (`BytesAdd`, `PartIsSmaller`). Each operation has
  a lemma (`WithoutSound`, `EvictExpiredSound`, `MakeRoomSound`, `InsertSound`), each action one step lemma.
* `FreshBatchAccepted` needs one fact more (`BatchAhead`): as long as all payloads of a batch are
  new, those already inserted are younger than everything else in the clone. Eviction takes the
  oldest, so it reaches the batch only when nothing else is left, and then the batch alone is
  too large.
* Assumptions: the limits are as `ResultStoreLimits::new` accepts them, sizes and
  ticks are natural numbers, batches are sequences of payloads.

`ConnectedTaskProofs` - for every source limit, number of requests and number of
lock acquisitions by others:

* `TypeCorrect`, `OneWinnerHolds`, `ReportsAlwaysAgree`, `NoOrphanEver`,
  `NeverCancelledUnasked`, and `RetriesAreBounded` (over all retries one result is
  published at most, and at most one attempt begins after the cancellation).
* The argument: `IInv` says where each fact is decided. The mutex is the worker's
  exactly in its critical section, which it enters with the flag clear
  (`MutexInv`); acknowledgement and `published` differ only inside it
  (`StoreInv`); what the worker will report is consistent with both
  (`ReceiptInv`); a published request is past the only place where a retry starts
  (`LateInv`, `StoreInv`); and a task exists as long as its worker can run
  (`TaskInv`). `OneWinner` alone is not inductive, since nothing in it says that
  the flag cannot change between the worker's test and its write.

`FilesystemResultStoreProofs` - for any number of processes and calls, all batches, clocks and limits:

* `TypeCorrect` and `LiveTransactionsKept`, with any number of crashes and failing system
  calls. The argument (`Transactions`): of the processes in a call, only the holder of
  `.txn-lock` is past `operation_lock`; its staging directory holds the part of its batch that
  is written, its quarantine what it has moved, and the directories of everybody else are
  leftovers, which is why a sweep may remove them.
* `LiveBatchesAlwaysWhole`, `LostOnlyForRoom` and `AllOrNothing`, with one crash or failing
  call (`OneFailure`; section 5 says what happens at the second). `Progress` says at every
  point of a call what the batch directories are, as a function of those it found
  (`prior`), of what it has evicted (`moved`) and of whether it has published; the roll back undoes
  exactly that. That eviction takes the oldest and stops in time needs the set it chooses:
  `Evicted` is closed downwards in the order of names (`EvictedAreOldest`), and what it leaves
  has room for the batch (`RoomIsMade`, from cardinalities of entries and of byte positions, so
  that no sum is taken by induction).

`ExternalHostProofs` - for every capacity of the pipe and number of frames:

* `TypeCorrect` and `HostAlwaysAnswers` (no host is left behind; Ok is a whole conversation; an
  early cancellation wins). `OkIsWhole` relates the answer to what the host wrote, three
  buffers away. `IInv` therefore follows the frames: those taken by the caller, then those in the
  reader's channel, then those in the pipe are what was written, until the reader refuses one;
  then the error it sent is still to be found by the drain (`TakenInv`, `ChannelInv`, `PipeInv`,
  `ReaderInv`). `HostInv` says in which places of `invoke` the host and its streams can be alive.

`AgentRuntimeProofs` - for all requests, files, provider outputs and compressor answers:

* `NeverInternalError` and `ResultsAlwaysGrounded`. The call is a pipeline; `IInv` says what
  each stage leaves established for the later ones: the evaluation of the prompt, the surface
  checks of the output, each claim up to the one at hand found in its file as it was
  admitted, the evaluation of the answer. Every result in the store or in the receipt has
  earned all of it (`Earned`). `NoInternalError` alone is not inductive: that a receipt can be
  built depends on which evaluations were accepted on the way.

`IndexTransactionProofs` - for every set of paths, texts, limits, any number of edits, refreshes and
failed reads:

* `TypeCorrect`, `IndexAlwaysCurrent`, `ReplicaAlwaysAgrees`. The index changes in one step, so
  the invariant is about the candidate while it is built: what was read and not
  edited since is in it as it is in the repository (`Seen`), what was not named is in it as it
  is in the index (`Kept`; in a full walk, `Fresh`), every path the refresh has to look at is
  still to be read, has been read, or is pending again (`Covered`), and its counters are those
  of its entries (`Accurate`). The incremental byte count is handled as the
  cardinality of a set of byte positions. That a copy kept from the receipts equals the index, renames
  included, is a lemma about one receipt (`ReplayedIs`).

`StorageProofs` - for all objects, bytes, quotas, edits, documents, paths, records, and any number of crashes, failing
calls and damages:

* The state store: `TypeCorrect` and `ObjectsAlwaysSurvive`, assuming `OneWriter` (one handle at a time, as
  `docs/database-boundary.md:349` demands; the model has no bound on how often it is closed and
  opened again). `StageInv` follows the file a handle has open, from create to rename, so that what
  a rename puts into `objects/` is whole and no object is open for writing. `UsageInv` bounds what
  `objects/` holds by the usage of the handle, and between `put`'s look at the directory and its
  rename by the total it computed, for the objects other than its own; without it `QuotaKept` is
  not inductive, since damage makes the two differ.

* Repair: `RepairTypeCorrect`, `RepairAlwaysHonest` and `SnapshotOnly`, assuming `OneMaintainer` (no lock keeps a
  second one out: section 5). Up to the first rename the target is what was compared, then it is absent
  until the staged file is there; from the first rename to the end what was known is in a
  backup, whose name no later apply uses. An edit in the window sets `raced`, and
  the promises are about the applies without one, as in the properties.

* The export gate: `ExportHolds`, for any number of calls of `write_new` in two processes beside a user
  and a query. None of the five parts of `ExportIsAtomic` is inductive. `OwnerInv` follows the
  temporary file: from `create_new` to its removal it is there and is one call's only, and at the
  hard link it is the whole document. `NameInv` keeps names apart: a temporary name ends in the mark or
  the serial (`TemporaryIs`), a destination that passes the gate in the extension of its
  format (`PassedIs`), so that no call writes or removes what another has linked, and what
  `create_new` or `hard_link` put down was no file of the user's. `LinkedStays` makes the second of
  two calls for a destination fail. That a query cites nothing cut short needs of the
  documents only that such a one fails its import (`PartialIsRefused`).

* The evidence store: `RecordsHold`, for any number of processes, requests and records.
  `RecordsSurvive` speaks of the store alone; which process renames what into it is in `RecorderAt`: from
  the load to the rename, what is going to be stored holds all that was acknowledged but the
  record of the same request, no request twice, within the limit (`ReplacedIs`); from the creation
  on the temporary file is that process's own, at the rename it is whole. `TurnInv` says so
  while processes take turns. Once they overlap none of that holds; `UnfinishedInv` is what stays: as
  long as nothing failed, a file that is not whole, the store or its temporary, has a process
  that goes on writing it, so that it is whole when all have got through.

`KnowledgeProofs` - for every graph, call, evidence and bound:

* `KnowledgeHolds`, `AnswersHold` and `PackingHolds`: `AnswersAreExact` and `PackingIsExact` compare
  a search under bounds with paths of any length, and hold on every finite graph.
* Impact, reachability, zombies, trail and the closure of a packet are one breadth-first
  search with different neighbours. `Frontier` says what such a search has in its queue, has seen
  and has found: the nodes of the balls around its start, level by level, each found item at its
  distance, and a bound met only where it says so. `FrontierStep` is the step that takes one
  entry; a search whose queue is empty has seen the whole closure (`FrontierSeen`, `FrontierEnds`), and
  one that was cut has listed the nearest and misses something (`FrontierCut`).
* A ball is a recursive function of its radius. `IterationExists` shows once that such functions exist
  (by the least radius at which one would not), and where an induction over the radius or the length
  of a path is meant, the proof takes the least counterexample (`LeastNatural`).
* `KnowledgeInv` says by operation how far a call has come: `CallInv` (what a call is),
  `ImpactInv`, `TrailInv` and `ClassifyInv` (the search of each query and what its answer records
  of it), and `PacketInv` with `SelectionInv`: the closure is a frontier, evidence still waiting
  is in the order of the candidates, and every candidate is waiting, selected or omitted, the
  required ones never omitted. None of the properties is inductive: all but one speak of finished
  calls only.
* `StructuralHolds`, `WalkHolds` and `PacketHolds`: `WalkIsHonest` and `PacketIsEarned` on every
  snapshot, for every request, edit and rebuild. The walk of the structural graph takes edges one
  at a time, so its invariant has two parts: `WalkSearch` is a breadth-first search again (the
  queue in the order of distance, everything nearer than its head visited, every other node's
  edges followed), and `WalkTodo` what of the node being left is still to be inspected.
  `WalkSound` carries that every path recorded is a shortest one, over visited nodes; a path of a
  search that visits no node twice passes none twice, which is what the validator demands
  (`OwnWalkAccepted`, `OwnRankingAccepted`).
* A packet is made of an agenda, an entry at a time. `Packed` says that each entry behind is
  `Handled` and that items are still all primary while selected nodes are ahead; so an entry
  passed over as decided was decided as a primary one. The receipts may be edited, so the packet's
  own part rests only on what the validators accepted (`Received`), not on what the walk did.

The assumptions on constants are named in the modules and evaluated by TLC in the runs
(`LimitsAssumption`, `InputAssumption`, `IndexAssumption`, `StateAssumption`, `HostAssumption`,
`GraphAssumption`, `CallAssumption`, `PacketAssumption`, `StructuralAssumption`, `DocumentsAssumption`,
`RecordsAssumption`);
what a theorem needs beyond them stands in its statement (`OneWriter`, `OneMaintainer`,
`OneFailure`), and the runs' instances satisfy it. The invariants were checked by TLC on these
instances before they were proved.

Only model-checked, and why:

* Liveness (`EveryTaskEnds`, `InvokeReturns`, `EveryCallReturns`): it needs fairness and ENABLED,
  which the prover does not have.
* The adapters, the PDF reader, discovery, admission and package intake, the SQL gate, SCIP, the
  ranking, policies and profiles (`adapters`, the properties of `documents` but `ExportIsAtomic`,
  those of `query` but `RecordsSurvive`, `ExtractionIsHonest`): they compute over sequences and trees by
  recursion or folds; what a recursive definition computes for every input is an induction
  over data, and modules with RECURSIVE operators cannot be proved about at all.

## 5. Findings

* `pdf_repair`: `pdf_syntax.rs:715` says "later definitions win, as incremental
  updates require". The run updates a plain object by one packed in an object stream and
  damages the cross-reference: `load` takes a packed object only when no plain one
  has its number, so the older definition is read.
Three disagreements stand in the properties of `adapters`, as exceptions that are named; the
vocabularies reach each of them, so that the properties fail without the exception:

* `RoundTrip`: `docs/enterprise-document-xlsx.md:143` says import, export and import again
  give the same sheets, names and anchors, and `xlsx.rs:1990` that a literal `_xHHHH_` keeps its
  meaning. `encode_xstring` looks for an escape in the text and not in what it has written, so an
  escape that lacks only its end directly before a control character is ended by that character's
  own escape, and reads back as another text. The cached empty string of a formula is lost as well
  (`xlsx.rs:1734`). These are `EscapeCompleted` and `EmptyResult`.
* `RoundTrip`: `docs/enterprise-document-docx-adapter.md:139` says importing an export gives the
  same model. Bookmark names that differ in a character XML cannot carry are two for `docx.rs:1248` and
  one after `clean`; both are exported, and the re-import takes only the first (`BookmarksCollide`).
* `NothingIsLostSilently`: `docs/enterprise-document-conformance.md:215` asks for every omission in a
  receipt, PDF content included. A string shown in no or an unknown font is left out without a
  code (`pdf_text.rs:777`); in `PdfReading` it is `Unsayable`.

Disagreements met earlier and no longer run, each seen in a counterexample of these
modules under larger bounds or without the exception named:

* `docs/deployment-profile.md:454` says the result store "keeps prior results when
  publication fails". When a rename fails during eviction and the rename back of an
  earlier batch fails too, `rollback_eviction` removes the quarantine with that batch
  in it (`main.rs:6196`). `PutAllOrNothing` holds for one failure.
* `repair/mod.rs:15` says a failed validation rolls back "exactly". Whether there is an
  original is decided by a second look at the target (`repair/mod.rs:394`); between
  the renames of another apply there is none, and the roll back then removes the target.
* `document_evidence.rs:3` says discovery mirrors the scanner's walk rules. An absent
  `.branignore` is read as an empty one, so a legacy `.okfignore` is not applied
  (`document_evidence.rs:63`, `scan/mod.rs:484`).

* `export.rs:15` says a failure of `write_new` leaves no temporary file. When the removal itself
  fails, it stays, and the result is that of the link (`export.rs:81`). `NothingLeft` therefore
  leaves out the calls whose removal failed (`left`).

Observations that contradict nothing the repository says:

* A crash between publication and eviction leaves the directory above its limits;
  `get` does not apply them, the next `put_batch` does (`main.rs:6133`).
* A failing `put_batch` can leave its batch readable. `ReportsAgree` therefore
  speaks of acknowledged results: a request reported as cancelled may have one in
  the store that nobody was told of.
* The byte limit of an incremental refresh is checked path by path, while
  unread paths count with their old size: a batch that grows one file and shrinks
  a later one can fail although a full scan would not (`scan/mod.rs:432`). A path
  that became a directory cannot be named (`scan/mod.rs:369`).
* The durable state store relies on one writer per namespace
  (`docs/database-boundary.md:349`); nothing enforces it, and with two open
  handles an `open` removes files the other is staging.
* `finish_streams` does not look at the cancellation: a descendant that keeps the
  pipes makes Escape wait for the deadline (`provider/mod.rs:391`).
* A repair target does not exist between the two renames; after a crash there its bytes are
  only in the backup.
* With SQZ off the length of a payload is bounded by the provider adapter only
  (`provider/mod.rs:979`), not by the runtime.
* A trail that is found is never truncated, although its type has the field.
* A ranking seeded by a path together with a traversal can never be assembled
  (`TraversalSeedMismatch`). A current `Supporting` source that is selected makes a
  follow-up that is not authoritative, so a larger selection limit can turn a sufficient
  packet into an insufficient one. The validators accept any terminal `Complete`.
* DOCX: a repeated bookmark id overwrites the first; a drawing inside a field code leaves its
  asset behind; near `max_total_bytes` a re-import may be `Oversized`. XLSX: sheetId 0,
  dataTable formulas and built-in formats from 164 on are imported but not exported.
* Discovery passes over without a count, and so without a word in the report: directories deeper than
  `MAX_DEPTH`, directories that cannot be listed, entries that fail or whose metadata cannot be
  read, and names that are not UTF-8 (`document_evidence.rs:90-121`). An ignore file that cannot be read
  counts as empty, which admits what it would have kept out. `EveryDocumentAccounted` names these
  exceptions; everything below what was passed over, and nothing else, is missing. A link put in the
  place of a document between stat and read is followed. One bundle root that
  vanishes drops the documents of all.
* PDF: an unbalanced `Q`
  in a form pops its caller's graphics state, and marked content is not restored after
  a form; the language is exported in WinAnsi and read as PDFDocEncoding; a stream whose
  length is a packed object ends at the first `endstream`; a hybrid file whose
  table frees hidden objects keeps them hidden; repair brings deleted objects back.
* `query --record` uses one temporary name without a lock: of two that overlap, one can
  rename the other's half-written file and report its own record as stored; a crash
  then leaves a torn store, which may parse as fewer records. `encode_evidence_store`
  does not bound single fields, although the reader refuses those over 4096 bytes.
* SCIP: an implementation of a symbol only named in a relationship is neither reported
  nor counted as cut off.
* Policy: a key without a value at the left margin swallows the next key there (the
  comment at `policy.rs:1141` says an empty map); quoted keys keep their quotes; an
  indented comment with a colon is read as a key; `key: # comment` is an empty scalar;
  a root `./docs` matches nothing. Profiles: citation ranges are checked at their first line only;
  native pages may form islands that link to one another; the uniqueness
  `packet/mod.rs:1704` relies on covers only documents with a string status.

## 6. Not modelled

Within the modelled parts: symbolic links and foreign files in BRAN's own
directories, path syntax, canonical encodings and rendering, digests as
functions of bytes (collisions), arithmetic beyond the limits the code checks,
nested directories of the scanner, the fields inside frames and receipts that only their
parsers see, the one-hop graph queries, a view compiled over another graph than the
packet's. Of the document formats: inflation and CRC, XML entities and namespaces,
geometry, drawings and charts; of PDF the number lexer, hexadecimal strings,
ToUnicode and decode budgets, `text_string` and the byte ranges of signatures. Of
query evidence: the escapes of a record's text and `do_packet`. Of the policy: its
size check and loading. Of the database boundary: how the lexer cuts text into tokens, the
length of a statement in bytes, the range of `timeout_ms`, the descriptor of a state store,
and the text of the provenance record.
The power of the disk to lose acknowledged writes is outside: a crash is a crash of
the process.

Not modelled at all, with the reason in `PROJECT.json`: the connected synthesis adapter,
derived state, frontmatter and metadata, the
portable export and migration, the agent registries, the source revision reader, the
dispatch of the command line, the terminal's rendering, and the build tools. Some are
candidates (section 7); frontmatter, registries and rendering are pure text
processing or value types, which a model would only repeat.

## 7. Plan

1. Proofs: those of `GraphQuery`, `PacketAssembly`, `Repair`, `StructuralPacket`, the export gate and the
   evidence store are done. What
   remains unproved computes by recursion over tokens, trees or files (section 4); to prove about the
   gate of the database boundary, its descriptor parser would have to be split from the extraction.
2. The source revision reader (a ref that moves between two reads) and the connected
   synthesis adapter. Derived state has nothing of its own to interleave: it is pure
   functions whose writes go through the repair coordinator.
3. Compositions: `ConnectedTask` over the abstract store that
   `FilesystemResultStore` implements, `AgentRuntime` over what `ExternalHost` returns.
