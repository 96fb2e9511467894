------------------------------ MODULE MCQuery ------------------------------
(***************************************************************************)
(* What a query relies on, for TLC: the evidence store and its records     *)
(* (QueryEvidence), an index.scip (ScipIndex), and the policy and profiles *)
(* that the documents are held to (MCProfile).  A behaviour is about one.  *)
(***************************************************************************)
EXTENDS QueryEvidence, ScipIndex

CONSTANTS MaxPaths, MaxLines, Numbers, Digests, PathOrder, OtherFiles, HelperNames

VARIABLES index,     \* an index.scip that is tried on, or no index
          trial      \* what the profiles are tried on, or nothing

ProfileRun == INSTANCE MCProfile
MCPathOrder == << <<"a.md">>, <<"c.md">>, <<"d", "b.md">>, <<"d", "c.md">>, <<"x.rs">> >>
MCNumbers == {<<"1">>, <<"2">>}
MCDigests == {<<"digest">>}
NoProfile == [kind |-> "none", of |-> 0]

(***************************************************************************)
(* Documents and requests.                                                 *)
(***************************************************************************)

Doc(path, title, body, state) ==
  [path |-> path, facts |-> [title |-> title, status |-> <<{state}>>], body |-> body, state |-> state,
   canonical |-> FALSE, authority |-> state = "active", public |-> FALSE, fresh |-> 0,
   stale |-> state = "draft", classified |-> state # "draft"]

Named == Doc({"a", "md"}, <<{"alpha"}, {"alpha", "more"}>>, {"ex", "ent"}, "active")
Whole_ == Doc({"b", "md"}, <<{"other"}>>, {"ex-ent", "ex", "ent", "alpha"}, "active")
Part == Doc({"alpha", "md"}, <<{"other"}>>, {"ex", "beta"}, "draft")

MCForms == (1 :> {Named, Whole_}) @@ (2 :> {Part})
MCStart == [r \in 1..2 |-> IF r = 1 THEN (1 :> Named) @@ (2 :> Part) ELSE 1 :> Named]
MCOffice == [r \in 1..2 |-> IF r = 1 THEN {"beta"} ELSE {"ex"}]

Word(w) == [word |-> w, length |-> 5, parts |-> {}]
Entity == [word |-> "ex-ent", length |-> 6, parts |-> {"ex", "ent"}]
Both == <<Word("alpha"), Entity, [word |-> "v.2", length |-> 3, parts |-> {"v", "2"}]>>
MCRequests == {[roots |-> <<1>>, query |-> Both], [roots |-> <<1, 2>>, query |-> Both],
               [roots |-> <<1>>, query |-> <<Word("beta"), Word("the")>>]}

(***************************************************************************)
(* Indexes: two documents with up to two occurrences each, information on  *)
(* symbols that implement one another, ranges of every form.               *)
(***************************************************************************)

\* Part names: a class A, its method a, a parameter of it, an escaped package
\* name with a space, and a local symbol.
MCSymbolText == << <<"s", " ", "m", " ", "p", " ", "v", " ", "A", "#">>,
                   <<"s", " ", "m", " ", "p", " ", " ", "q", " ", "v", " ", "A", "#", "B", "(", "+", ")", ".">>,
                   <<"s", " ", "m", " ", "p", " ", "v", " ", "A", "#", "B", "(", ")", ".", "(", "x", ")">>,
                   <<"local", " ", "1">> >>

F(n, t, v) == [n |-> n, t |-> t, v |-> v]
Occurrence(s, roles, range) == F(2, "bytes", <<F(2, "bytes", s), F(3, "varint", roles)>> \o range)
Packed(numbers) == <<F(1, "bytes", numbers)>>
Unpacked(numbers) == [i \in DOMAIN numbers |-> F(1, "varint", numbers[i])]
Ranges == {Packed(<<1, 0, 2>>), Packed(<<1, 0, 2, 0>>), Unpacked(<<2, 1, 3>>),
           Packed(<<9, 9, 9>>) \o <<F(8, "bytes", <<0, 1, 2>>)>>, Packed(<<2, 1, 1, 0>>), Packed(<<1, 0>>)}
Info(s, implements) ==
  F(3, "bytes", <<F(1, "bytes", s), F(5, "varint", 7)>>
                \o IF implements = 0 THEN <<>>
                   ELSE <<F(4, "bytes", <<F(1, "bytes", implements), F(3, "varint", 1)>>)>>)
File(path, text, parts) == F(2, "bytes", <<F(1, "bytes", path), F(5, "bytes", text)>> \o parts)

Indexes ==
  {<<File(1, text, <<Occurrence(a, roles, range), Occurrence(b, 0, Packed(<<0, 0, 1>>))>>),
     File(path, other, <<Occurrence(c, 1, Packed(<<1, 0, 2>>)), Info(c, target)>>)>> :
     text \in {0, 7, 9}, other \in {8, 9}, a, b \in 1..4, c \in 1..2, roles \in {0, 1}, range \in Ranges, path \in {2, 3}, target \in {0, 1}}

NoTrial == [kind |-> "none"]
Trials == {NoTrial}
          \cup {[kind |-> "index", stored |-> [file |-> "regular", message |-> m], names |-> names] :
                  m \in Indexes, names \in {{"A"}, {"B"}, {"A", "B"}}}
          \cup {[kind |-> "varint", bytes |-> <<a, b, c>>] : a, b, c \in {0, 1, 2, 127, 128, 129, 255}}

Scanned == (1 :> 7) @@ (2 :> 8)
MCRanked == (1 :> 2) @@ (2 :> 1)
Limit == 2

\* The symbols that occur or are described; one that is only named as what another
\* symbol implements is not among them.
Mentioned(read) == UNION {{o.symbol : o \in ToSet(d.occurrences)} : d \in ToSet(read.documents)}
                   \cup {i.symbol : i \in ToSet(Infos(read))}

\* What an index that was read holds on the names, from its definition: the
\* definitions and references of the symbols with a name, and the definitions of
\* what implements one of them.
AllFacts(read, names) ==
  LET picked == {s \in DOMAIN SymbolText : Matches(s, names) /\ s \in Mentioned(read)}
      occurrences == UNION {{<<d, o>> : o \in ToSet(d.occurrences)} : d \in ToSet(read.documents)}
      implements == UNION {{<<i.symbol, t>> : t \in ToSet(i.implements)} : i \in ToSet(Infos(read))}
      rank(d) == IF d.path \in DOMAIN MCRanked THEN MCRanked[d.path] ELSE 0
      line(x, role, target) == <<rank(x[1]), x[1].path, x[2].start, x[2].end, role, x[2].symbol, target>>
  IN {line(x, IF x[2].definition THEN Definition ELSE Reference, 0) :
        x \in {y \in occurrences : y[2].symbol \in picked}}
     \cup UNION {{line(x, Implementation, t) : t \in {u \in picked : <<x[2].symbol, u>> \in implements}} :
                   x \in {y \in occurrences : y[2].definition}}

\* The first facts of an order, as they are reported.
Shown(order) ==
  [i \in 1..(IF Len(order) < Limit THEN Len(order) ELSE Limit) |->
     <<order[i][2], order[i][3] + 1, order[i][4] + 1, order[i][6]>>]
Differing(read) == \E d \in ToSet(read.documents) : d.path \in DOMAIN Scanned /\ d.text # 0 /\ Scanned[d.path] # d.text
Compared(read) == \A d \in ToSet(read.documents) : d.path \in DOMAIN Scanned /\ Scanned[d.path] = d.text
ReportedIsExact(navigation, reported, all) ==
  /\ [i \in DOMAIN navigation.facts |->
        <<navigation.facts[i].locator, navigation.facts[i].start, navigation.facts[i].end, navigation.facts[i].symbol>>] =
     Shown(InOrder({f \in all : f[1] # 0}))
  /\ reported.truncated <=> Cardinality(all) > Len(reported.facts)
  /\ \A f \in ToSet(reported.facts) : f.end >= f.start
NavigationIsExact(decoded, navigation, names) ==
  IF ~decoded.ok \/ Differing(decoded.v)
  THEN Reported(navigation, {2}).outcome = "unavailable" /\ navigation.facts = <<>>
  ELSE /\ navigation.status = "available" => Compared(decoded.v)
       /\ ReportedIsExact(navigation, Reported(navigation, {2}), AllFacts(decoded.v, names))

\* SymbolNavigation: a query reports symbols only from an index that is not known
\* to be stale, calls it available only when every text was compared, lists the
\* first facts in rank and line order, and says so when anything is left out,
\* whether in documents that are not ranked, past the limit or dropped with a
\* source.  A varint is read as a number or refused, never cut to its width.
SymbolsAreExact ==
  CASE index.kind = "index" ->
         NavigationIsExact(decode_index(index.stored.message),
                           resolve(index.stored, Scanned, index.names, MCRanked, Limit), index.names)
    [] index.kind = "varint" ->
         LET read == Varint(index.bytes, 1, 0)
             digits == [i \in DOMAIN index.bytes |-> index.bytes[i] % 128]
             n == Min({4} \cup {i \in 1..3 : index.bytes[i] < 128})
             value == FoldLeft(LAMBDA acc, i : acc + digits[i] * 2^(7 * (i - 1)), 0,
                               [i \in 1..(IF n > 3 THEN 3 ELSE n) |-> i])
         IN IF n <= 3 /\ value < 2^(7 * (Groups - 1) + 1) THEN read = Good(<<value, n + 1>>) ELSE ~read.ok
    [] OTHER -> TRUE

Symmetry == Permutations(Procs)

MCInit == /\ RecordsInit
          /\ index \in Trials
          /\ trial = NoProfile \/ (index = NoTrial /\ ProfileRun!Init)
QueryStep == index.kind = "none" /\ trial = NoProfile /\ RecordsNext /\ UNCHANGED <<index, trial>>
ProfileStep == trial # NoProfile /\ ProfileRun!Next /\ UNCHANGED <<recordVars, index>>
MCSpec == MCInit /\ [][QueryStep \/ ProfileStep]_<<recordVars, index, trial>>

\* What is read back from the records agrees with the documents as they are: a
\* replay gives what the query gave, and a gap is reported where documents have
\* one (replay_evidence, evidence_gaps).
RecordsAreHonest == ReplayIsHonest /\ GapsAreHonest

\* A bundle that passes the strict profile is whole, and its links and citations
\* lead to something that is there (validate_bran_strict).
StrictMeansChecked == ProfileRun!StrictMeansChecked /\ ProfileRun!LinksAndCitationsHold

\* The portable profiles agree with their forms and with each other
\* (validate_okf_compatibility, validate_okf_v0_2).
PortableProfilesAgree == ProfileRun!PortableProfilesAgree

\* The policy that is read is the one that was written (parse_policy_yaml).
PolicyReadsBack == ProfileRun!PolicyReadsBack
=============================================================================
