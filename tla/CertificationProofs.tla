------------------------ MODULE CertificationProofs ------------------------
(***************************************************************************)
(* Proofs about Certification, for every set of installations and filter   *)
(* requests and any number of prerequisites and invocations: what runs is  *)
(* what was asked for, a certified level is earned, the exit code and the  *)
(* published issues say what the run has shown.                            *)
(***************************************************************************)
EXTENDS Certification, SubsequencesProofs

\* The manifests of this invocation, and how many of them have been loaded.
Entries == DiscoverManifests(request)
Loaded  == Len(Entries) - Len(queue)

\* The tests that the k-th of them is to run, and what has run of it.
TestsOf(e)  == FilterTests(manifests[e.version].tests, e.filters)
Recorded(k) == {x \in ran : x.run = run /\ x.version = Entries[k].version}
Over(k)     == k < Loaded \/ (k = Loaded /\ pc = "next")

InLoop == pc \in {"next", "tests", "markdown"}
Whole(f) == f \notin Torn \cup {NoFile}

TestNames == UNION {{t.name : t \in Range(manifests[v].tests)} : v \in DOMAIN manifests}

\* Where the boot is.
Control ==
  /\ InLoop \/ pc = "prereqs" => stage = "verify" /\ run >= 1 /\ run \notin cut
  /\ pc = "beacon" => stage = "publish"
  /\ stage # "verify" => run >= 1
  /\ stage = "verify" /\ pc = "idle" => run < MaxRuns[manifests]
  /\ prereqs \in Seq(Outcomes) /\ failing \in BOOLEAN

\* The manifests that are left are the last ones of those that were found.
Walk ==
  InHarness =>
    /\ queue \in Seq(Range(Entries))
    /\ Loaded \in 0 .. Len(Entries)
    /\ \A k \in 1 .. Len(queue) : queue[k] = Entries[Loaded + k]
    /\ pc = "prereqs" => Loaded = 0
    /\ pc \in {"tests", "markdown"} => Loaded >= 1
    /\ Loaded >= 1 => /\ cert = [version |-> Entries[Loaded].version, tests |-> TestsOf(Entries[Loaded])]
                      /\ ~Malformed(Manifest)
    /\ pc = "markdown" => Len(results) = Len(cert.tests)

\* What has run, in the whole history, is of the installed manifests.
RanOfThis ==
  ran \subseteq [run : 1 .. run, version : DOMAIN manifests, test : TestNames, result : Outcomes]

\* The history of this invocation agrees with the walk.
Ledger ==
  /\ RanOfThis
  /\ InHarness =>
       /\ \A x \in ran : x.run = run => \E k \in 1 .. Loaded : x.version = Entries[k].version
       /\ \A k \in 1 .. Loaded : Over(k) =>
            {x.test : x \in Recorded(k)} = {t.name : t \in Range(TestsOf(Entries[k]))}
       /\ pc \in {"tests", "markdown"} =>
            Recorded(Loaded) = {[run |-> run, version |-> cert.version, result |-> results[j],
                                 test |-> cert.tests[j].name] : j \in DOMAIN results}

\* What the files hold, and of which run.
OnDisk ==
  /\ json \in [Versions -> JsonReports \cup Torn \cup {NoFile}]
  /\ md \in [Versions -> MarkdownReports \cup Torn \cup {NoFile}]
  /\ \A v \in Versions : Whole(json[v]) => v \in DOMAIN manifests /\ json[v].run \in 1 .. run
  /\ \A v \in Versions : md[v] # NoFile => json[v] # NoFile
  /\ InHarness => \A v \in Versions : Whole(json[v]) /\ json[v].run = run =>
       \E k \in 1 .. Loaded : Entries[k].version = v /\ (Over(k) \/ pc = "markdown")
  /\ pc = "markdown" => json[cert.version] = Report
  /\ \A v \in Versions :
       Whole(json[v]) /\ md[v] # NoFile /\ (md[v] \in Torn \/ md[v].run # json[v].run) =>
         json[v].run \in cut \/ (pc = "markdown" /\ cert.version = v)

\* What is finished is on the disk until the host reboots.
StaysFinished ==
  \A p \in finished :
    /\ stage # "off" => json[p[2]] # NoFile /\ (p[1] = run => Whole(json[p[2]]) /\ json[p[2]].run = run)
    /\ InHarness /\ p[1] = run => \E k \in 1 .. Loaded : Entries[k].version = p[2] /\ Over(k)

\* An issue is of a run that is over.
Published ==
  /\ toPublish \in Seq(Versions)
  /\ \A p \in issues :
       /\ p.version \in DOMAIN manifests
       /\ p.opened \in 1 .. run /\ p.run \in 1 .. p.opened
       /\ InHarness => p.opened < run

\* What the exit code will be.
Verdict ==
  /\ InLoop => Range(prereqs) \subseteq {"pass"}
  /\ InLoop => \A k \in 1 .. Loaded : Over(k) => \A x \in Recorded(k) :
       /\ failing \/ x.result = "pass"
       /\ Whole(json[x.version]) /\ json[x.version].run = run
       /\ failing \/ json[x.version].result = "pass"
  /\ pc \in {"tests", "markdown"} /\ overall = "pass" => Range(results) \subseteq {"pass"}

IInv ==
  /\ TypeOK /\ Control /\ Walk /\ Ledger /\ OnDisk /\ StaysFinished /\ Published /\ Verdict
  /\ CertifiedSound /\ MilestoneEarned /\ BodyOfTheSameRun /\ FreshOrAbsent /\ ExitTellsTruth

----------------------------------------------------------------------------
(* Filters, levels and manifests *)

\* A level that the filters let through.
Wanted(level, filters) ==
  filters = <<>> \/ \E k \in DOMAIN filters : MatchesLevel(level, filters[k])

\* What FilterTests leaves: at increasing positions, all tests that are wanted.
Selection(h, r, tests, filters) ==
  /\ h \in [1 .. Len(r) -> 1 .. Len(tests)]
  /\ \A j, k \in 1 .. Len(r) : h[j] = h[k] => j = k
  /\ \A k \in 1 .. Len(r) : r[k] = tests[h[k]] /\ Wanted(r[k].level, filters)
  /\ \A i \in 1 .. Len(tests) : Wanted(tests[i].level, filters) => \E k \in 1 .. Len(r) : h[k] = i

\* A filtered list is the wanted tests, in their order: a selection by an
\* increasing function of positions (_filter_tests).
LEMMA FilterFacts ==
  ASSUME NEW S, NEW tests \in Seq(S), NEW F, NEW filters \in Seq(F)
  PROVE  /\ FilterTests(tests, filters) \in Seq(S)
         /\ \E h : Selection(h, FilterTests(tests, filters), tests, filters)
<1> DEFINE r == FilterTests(tests, filters)
<1>1. CASE filters = <<>>
  <2> DEFINE h == [k \in 1 .. Len(tests) |-> k]
  <2>1. r = tests
    BY <1>1 DEF FilterTests
  <2>2. Selection(h, tests, tests, filters)
    BY <1>1 DEF Selection, Wanted
  <2> HIDE DEF h
  <2> QED
    BY <2>1, <2>2
<1>2. CASE filters # <<>>
  <2> DEFINE I == {n \in DOMAIN tests : \E k \in DOMAIN filters : MatchesLevel(tests[n].level, filters[k])}
  <2>1. r = Kept(tests, I)
    BY <1>2 DEF FilterTests
  <2>2. I \in SUBSET Nat /\ DOMAIN tests = 1 .. Len(tests) /\ Len(tests) \in Nat
    OBVIOUS
  <2>3. \A n \in 1 .. Len(tests) : n \in I <=> Wanted(tests[n].level, filters)
    BY <1>2 DEF Wanted
  <2> HIDE DEF I
  <2>4. /\ Kept(tests, I) \in Seq(S)
        /\ \E h : Places(h, Kept(tests, I), tests, I, Len(tests))
    BY <2>2, KeptPlaces
  <2> HIDE DEF r
  <2>5. PICK h : Places(h, r, tests, I, Len(tests))
    BY <2>1, <2>4
  <2>6. Len(r) \in Nat /\ r \in Seq(S)
    BY <2>1, <2>4
  <2>7. \A k \in 1 .. Len(r) : h[k] \in I /\ h[k] \in 1 .. Len(tests)
    BY <2>5 DEF Places
  <2>8. h \in [1 .. Len(r) -> 1 .. Len(tests)]
    BY <2>5 DEF Places
  <2>9. \A j, k \in 1 .. Len(r) : h[j] = h[k] => j = k
    <3> SUFFICES ASSUME NEW j \in 1 .. Len(r), NEW k \in 1 .. Len(r), h[j] = h[k], j # k
                 PROVE  FALSE
      OBVIOUS
    <3>1. j < k => h[j] < h[k]
      BY <2>5 DEF Places
    <3>2. k < j => h[k] < h[j]
      BY <2>5 DEF Places
    <3> QED
      BY <2>7, <3>1, <3>2
  <2>10. \A k \in 1 .. Len(r) : r[k] = tests[h[k]] /\ Wanted(r[k].level, filters)
    BY <2>3, <2>5, <2>7 DEF Places
  <2>11. \A i \in 1 .. Len(tests) : Wanted(tests[i].level, filters) => \E k \in 1 .. Len(r) : h[k] = i
    BY <2>3, <2>5 DEF Places
  <2>12. Selection(h, r, tests, filters)
    BY <2>8, <2>9, <2>10, <2>11 DEF Selection
  <2> QED
    BY <2>6, <2>12 DEF r
<1> QED
  BY <1>1, <1>2

\* The first occurrences are of all elements, each once.
LEMMA FirstsFacts ==
  ASSUME NEW S, NEW s \in Seq(S)
  PROVE  /\ Firsts(s) \in SUBSET Nat
         /\ \A i, j \in Firsts(s) : s[i] = s[j] => i = j
         /\ \A n \in 1 .. Len(s) : \E i \in Firsts(s) : i \in 1 .. Len(s) /\ s[i] = s[n]
<1>1. DOMAIN s = 1 .. Len(s) /\ Len(s) \in Nat
  OBVIOUS
<1>2. ASSUME NEW i \in Firsts(s), NEW j \in Firsts(s), s[i] = s[j] PROVE i = j
  BY <1>1, <1>2 DEF Firsts
<1>3. ASSUME NEW n \in 1 .. Len(s)
      PROVE  \E i \in Firsts(s) : i \in 1 .. Len(s) /\ s[i] = s[n]
  <2> DEFINE T == {k \in 1 .. Len(s) : s[k] = s[n]}
  <2>1. T \in SUBSET Nat /\ T # {}
    OBVIOUS
  <2>2. PICK i \in T : \A k \in T : i <= k
    BY <2>1, LeastNat
  <2>3. i \in Firsts(s)
    BY <1>1, <2>2 DEF Firsts
  <2> QED
    BY <2>2, <2>3
<1> QED
  BY <1>1, <1>2, <1>3 DEF Firsts

\* The levels of a manifest: those of its labelled tests, each once.
LEMMA LevelFacts ==
  ASSUME NEW S, NEW m, m.tests \in Seq(S)
  PROVE  /\ AllLevels(m) \in Seq({t.level : t \in Range(m.tests)} \ {NoLevel})
         /\ \A j, k \in 1 .. Len(AllLevels(m)) : AllLevels(m)[j] = AllLevels(m)[k] => j = k
         /\ \A n \in 1 .. Len(m.tests) : m.tests[n].level # NoLevel =>
              \E k \in 1 .. Len(AllLevels(m)) : AllLevels(m)[k] = m.tests[n].level
<1> DEFINE U == {t.level : t \in Range(m.tests)}
           s == [n \in DOMAIN m.tests |-> m.tests[n].level]
           I == {n \in Firsts(s) : s[n] # NoLevel}
           L == AllLevels(m)
<1>1. L = Kept(s, I)
  BY DEF AllLevels
<1>2. /\ DOMAIN m.tests = 1 .. Len(m.tests) /\ Len(m.tests) \in Nat
      /\ \A n \in DOMAIN m.tests : s[n] = m.tests[n].level /\ s[n] \in U
  BY DEF Range
<1>3. s \in Seq(U) /\ Len(s) = Len(m.tests)
  <2>1. s \in [1 .. Len(m.tests) -> U]
    BY <1>2
  <2> HIDE DEF s, U
  <2> QED
    BY <1>2, <2>1
<1> HIDE DEF s, U
<1>4. /\ Firsts(s) \in SUBSET Nat
      /\ \A i, j \in Firsts(s) : s[i] = s[j] => i = j
      /\ \A n \in 1 .. Len(s) : \E i \in Firsts(s) : i \in 1 .. Len(s) /\ s[i] = s[n]
  BY <1>3, FirstsFacts
<1>5. I \in SUBSET Nat
  BY <1>4
<1>6. \A i \in I : i \in Firsts(s) /\ s[i] # NoLevel
  OBVIOUS
<1>7. \A i \in Firsts(s) : s[i] # NoLevel => i \in I
  OBVIOUS
<1> HIDE DEF I, L
<1>8. Kept(s, I) \in Seq(U) /\ \E h : Places(h, Kept(s, I), s, I, Len(s))
  BY <1>3, <1>5, KeptPlaces
<1>9. PICK h : Places(h, L, s, I, Len(s))
  BY <1>1, <1>8
<1>10. L \in Seq(U) /\ Len(L) \in Nat
  BY <1>1, <1>8
<1>11. \A k \in 1 .. Len(L) : h[k] \in I /\ h[k] \in 1 .. Len(s) /\ L[k] = s[h[k]]
  BY <1>9 DEF Places
<1>12. L \in Seq(U \ {NoLevel})
  <2>1. \A k \in 1 .. Len(L) : L[k] \in U \ {NoLevel}
    BY <1>6, <1>10, <1>11
  <2> QED
    BY <1>10, <2>1
<1>13. ASSUME NEW j \in 1 .. Len(L), NEW k \in 1 .. Len(L), L[j] = L[k], j # k PROVE FALSE
  <2>1. h[j] = h[k]
    BY <1>4, <1>6, <1>11, <1>13
  <2>2. (j < k => h[j] < h[k]) /\ (k < j => h[k] < h[j])
    BY <1>9 DEF Places
  <2> QED
    BY <1>10, <1>11, <1>13, <2>1, <2>2
<1>14. ASSUME NEW n \in 1 .. Len(m.tests), m.tests[n].level # NoLevel
       PROVE  \E k \in 1 .. Len(L) : L[k] = m.tests[n].level
  <2>1. s[n] = m.tests[n].level
    BY <1>2
  <2>2. PICK i \in Firsts(s) : i \in 1 .. Len(s) /\ s[i] = s[n]
    BY <1>3, <1>4
  <2>3. i \in I
    BY <1>7, <1>14, <2>1, <2>2
  <2>4. PICK k \in 1 .. Len(L) : h[k] = i
    BY <1>9, <2>2, <2>3 DEF Places
  <2> QED
    BY <1>11, <2>1, <2>2, <2>4
<1> QED
  BY <1>12, <1>13, <1>14 DEF L, U

\* How far a chain of levels reaches.
LEMMA ChainReaches ==
  ASSUME NEW N \in Nat, NEW P
  PROVE  \E k \in 0 .. N : (\A j \in 1 .. k : j \in P) /\ (k < N => k + 1 \notin P)
<1> DEFINE T == {k \in 0 .. N : k = N \/ k + 1 \notin P}
<1>1. T \in SUBSET Nat /\ N \in T
  OBVIOUS
<1>2. PICK k \in T : \A j \in T : k <= j
  BY <1>1, LeastNat
<1>3. ASSUME NEW j \in 1 .. k PROVE j \in P
  <2>1. j - 1 \in 0 .. N /\ j - 1 < k
    BY <1>2
  <2>2. j - 1 \notin T
    BY <1>2, <2>1
  <2> QED
    BY <1>2, <2>1, <2>2
<1> QED
  BY <1>2, <1>3

\* The walk of _highest_certified_level: the last level before the first that
\* has not passed, or the cap.
Reaches(top, m, tests, res) ==
  /\ top \in 0 .. Len(AllLevels(m))
  /\ \A j \in 1 .. top : LevelResults(AllLevels(m)[j], tests, res) = {"pass"}
  /\ top < Len(AllLevels(m)) => LevelResults(AllLevels(m)[top + 1], tests, res) # {"pass"}

\* The certified level is the one the walk reaches, clamped to the cap when the
\* cap comes before it (_highest_certified_level).
LEMMA HighestFacts ==
  ASSUME NEW S, NEW m, m.tests \in Seq(S), NEW tests, NEW res
  PROVE  \E top : /\ Reaches(top, m, tests, res)
                  /\ HighestCertified(m, tests, res) =
                       IF top = 0 THEN NoLevel
                       ELSE IF m.cap # NoLevel
                               /\ (CHOOSE k \in DOMAIN AllLevels(m) : AllLevels(m)[k] = m.cap) < top
                            THEN m.cap ELSE AllLevels(m)[top]
<1> DEFINE L == AllLevels(m)
           P == {k \in 1 .. Len(L) : LevelResults(L[k], tests, res) = {"pass"}}
           Top(k) == (\A j \in 1 .. k : LevelResults(L[j], tests, res) = {"pass"})
                     /\ (k < Len(L) => ~(LevelResults(L[k + 1], tests, res) = {"pass"}))
           top == CHOOSE k \in 0 .. Len(L) : Top(k)
<1>1. Len(L) \in Nat
  BY LevelFacts
<1>2. HighestCertified(m, tests, res) =
        IF top = 0 THEN NoLevel
        ELSE IF m.cap # NoLevel /\ (CHOOSE k \in DOMAIN L : L[k] = m.cap) < top
             THEN m.cap ELSE L[top]
  BY DEF HighestCertified
<1> HIDE DEF L
<1>3. PICK k \in 0 .. Len(L) : (\A j \in 1 .. k : j \in P) /\ (k < Len(L) => k + 1 \notin P)
  BY <1>1, ChainReaches
<1>4. Top(k)
  <2>1. \A j \in 1 .. k : LevelResults(L[j], tests, res) = {"pass"}
    BY <1>3
  <2>2. k < Len(L) => ~(LevelResults(L[k + 1], tests, res) = {"pass"})
    <3>1. k < Len(L) => k + 1 \in 1 .. Len(L)
      BY <1>1, <1>3
    <3> QED
      BY <1>3, <3>1
  <2> QED
    BY <2>1, <2>2
<1> HIDE DEF Top
<1>5. top \in 0 .. Len(L) /\ Top(top)
  BY <1>4
<1> HIDE DEF top
<1>6. Reaches(top, m, tests, res)
  BY <1>5 DEF Reaches, Top, L
<1> QED
  BY <1>2, <1>6 DEF L

\* What is assumed of an installed manifest: its folder is named by a manifest
\* version, its tests are told apart by their names, and its levels are of it.
LEMMA ManifestFacts ==
  ASSUME manifests \in Installations, NEW v \in DOMAIN manifests
  PROVE  /\ v \in Versions /\ ManifestVersion(v) = v
         /\ manifests[v].tests \in Seq(Range(manifests[v].tests))
         /\ \A j, k \in 1 .. Len(manifests[v].tests) :
              manifests[v].tests[j].name = manifests[v].tests[k].name => j = k
         /\ \A t \in Range(manifests[v].tests) :
              t.level # NoLevel => t.level # v /\ ManifestVersion(t.level) = v
<1> DEFINE tests == manifests[v].tests
<1>1. /\ v \in Versions /\ ManifestVersion(v) = v
      /\ tests \in Seq(Range(tests))
      /\ \A j, k \in DOMAIN tests : tests[j].name = tests[k].name => j = k
      /\ \A k \in DOMAIN tests :
           tests[k].level # NoLevel => tests[k].level # v /\ ManifestVersion(tests[k].level) = v
  BY CertificationAssumption
<1> HIDE DEF tests
<1>2. DOMAIN tests = 1 .. Len(tests)
  BY <1>1
<1>3. \A t \in Range(tests) : t.level # NoLevel => t.level # v /\ ManifestVersion(t.level) = v
  BY <1>1 DEF Range
<1> QED
  BY <1>1, <1>2, <1>3 DEF tests

\* Only filters of its own manifest version let a level through.
LEMMA MatchIsOfVersion ==
  ASSUME NEW f, f.parts \in Seq(Nat), NEW level, NEW v,
         level # v, ManifestVersion(level) = v, MatchesLevel(level, f)
  PROVE  ManifestVersion(f) = v
<1>1. CASE level = f
  BY <1>1
<1>2. CASE f.build = NoBuild /\ level.build # NoBuild /\ level.parts = f.parts
  BY <1>2 DEF ManifestVersion
<1> QED
  BY <1>1, <1>2 DEF MatchesLevel

\* Of the entries with an installed manifest none is lost.
LEMMA PresentFacts ==
  ASSUME NEW E, NEW entries \in Seq(E),
         \A j, k \in 1 .. Len(entries) : entries[j].version = entries[k].version => j = k
  PROVE  /\ Present(entries) \in Seq({e \in E : e.version \in DOMAIN manifests})
         /\ \A j, k \in 1 .. Len(Present(entries)) :
              Present(entries)[j].version = Present(entries)[k].version => j = k
         /\ \A k \in 1 .. Len(Present(entries)) : \E i \in 1 .. Len(entries) : Present(entries)[k] = entries[i]
         /\ \A i \in 1 .. Len(entries) : entries[i].version \in DOMAIN manifests =>
              \E k \in 1 .. Len(Present(entries)) : Present(entries)[k] = entries[i]
<1> DEFINE I == {k \in DOMAIN entries : entries[k].version \in DOMAIN manifests}
           P == Present(entries)
<1>1. P = Kept(entries, I)
  BY DEF Present
<1>2. DOMAIN entries = 1 .. Len(entries) /\ I \in SUBSET Nat
  OBVIOUS
<1>3. \A i \in 1 .. Len(entries) : i \in I <=> entries[i].version \in DOMAIN manifests
  OBVIOUS
<1> HIDE DEF I, P
<1>4. Kept(entries, I) \in Seq(E) /\ \E h : Places(h, Kept(entries, I), entries, I, Len(entries))
  BY <1>2, KeptPlaces
<1>5. PICK h : Places(h, P, entries, I, Len(entries))
  BY <1>1, <1>4
<1>6. P \in Seq(E) /\ Len(P) \in Nat
  BY <1>1, <1>4
<1>7. \A k \in 1 .. Len(P) : h[k] \in I /\ h[k] \in 1 .. Len(entries) /\ P[k] = entries[h[k]]
  BY <1>5 DEF Places
<1>8. P \in Seq({e \in E : e.version \in DOMAIN manifests})
  <2>1. \A k \in 1 .. Len(P) : P[k] \in {e \in E : e.version \in DOMAIN manifests}
    BY <1>3, <1>7
  <2> QED
    BY <1>6, <2>1
<1>9. ASSUME NEW j \in 1 .. Len(P), NEW k \in 1 .. Len(P), P[j].version = P[k].version, j # k
      PROVE  FALSE
  <2>1. h[j] = h[k]
    BY <1>7, <1>9
  <2>2. (j < k => h[j] < h[k]) /\ (k < j => h[k] < h[j])
    BY <1>5 DEF Places
  <2> QED
    BY <1>6, <1>7, <1>9, <2>1, <2>2
<1>10. ASSUME NEW i \in 1 .. Len(entries), entries[i].version \in DOMAIN manifests
       PROVE  \E k \in 1 .. Len(P) : P[k] = entries[i]
  <2>1. PICK k \in 1 .. Len(P) : h[k] = i
    BY <1>3, <1>5, <1>10 DEF Places
  <2> QED
    BY <1>7, <2>1
<1> QED
  BY <1>7, <1>8, <1>9, <1>10 DEF P

\* The versions that are asked for, each once.
LEMMA AskedFacts ==
  ASSUME NEW F, NEW r \in Seq(F)
  PROVE  /\ AskedVersions(r) \in Seq({ManifestVersion(f) : f \in F})
         /\ \A j, k \in 1 .. Len(AskedVersions(r)) : AskedVersions(r)[j] = AskedVersions(r)[k] => j = k
         /\ \A n \in 1 .. Len(r) : \E k \in 1 .. Len(AskedVersions(r)) :
              AskedVersions(r)[k] = ManifestVersion(r[n])
         /\ \A k \in 1 .. Len(AskedVersions(r)) : \E n \in 1 .. Len(r) :
              AskedVersions(r)[k] = ManifestVersion(r[n])
<1> DEFINE U == {ManifestVersion(f) : f \in F}
           s == [k \in DOMAIN r |-> ManifestVersion(r[k])]
           I == Firsts(s)
           A == AskedVersions(r)
<1>1. A = Kept(s, I)
  BY DEF AskedVersions
<1>2. DOMAIN r = 1 .. Len(r) /\ Len(r) \in Nat /\ \A k \in 1 .. Len(r) : r[k] \in F
  OBVIOUS
<1>3. \A k \in 1 .. Len(r) : s[k] = ManifestVersion(r[k])
  BY <1>2
<1>4. s \in [1 .. Len(r) -> U]
  BY <1>2
<1> HIDE DEF s, U
<1>5. s \in Seq(U) /\ Len(s) = Len(r)
  BY <1>2, <1>4
<1>6. /\ I \in SUBSET Nat
      /\ \A i, j \in I : s[i] = s[j] => i = j
      /\ \A n \in 1 .. Len(s) : \E i \in I : i \in 1 .. Len(s) /\ s[i] = s[n]
  BY <1>5, FirstsFacts
<1> HIDE DEF I, A
<1>7. Kept(s, I) \in Seq(U) /\ \E h : Places(h, Kept(s, I), s, I, Len(s))
  BY <1>5, <1>6, KeptPlaces
<1>8. PICK h : Places(h, A, s, I, Len(s))
  BY <1>1, <1>7
<1>9. A \in Seq(U) /\ Len(A) \in Nat
  BY <1>1, <1>7
<1>10. \A k \in 1 .. Len(A) : h[k] \in I /\ h[k] \in 1 .. Len(s) /\ A[k] = s[h[k]]
  BY <1>8 DEF Places
<1>11. ASSUME NEW j \in 1 .. Len(A), NEW k \in 1 .. Len(A), A[j] = A[k], j # k PROVE FALSE
  <2>1. h[j] = h[k]
    BY <1>6, <1>10, <1>11
  <2>2. (j < k => h[j] < h[k]) /\ (k < j => h[k] < h[j])
    BY <1>8 DEF Places
  <2> QED
    BY <1>9, <1>10, <1>11, <2>1, <2>2
<1>12. ASSUME NEW n \in 1 .. Len(r) PROVE \E k \in 1 .. Len(A) : A[k] = ManifestVersion(r[n])
  <2>1. PICK i \in I : i \in 1 .. Len(s) /\ s[i] = s[n]
    BY <1>5, <1>6
  <2>2. PICK k \in 1 .. Len(A) : h[k] = i
    BY <1>8, <2>1 DEF Places
  <2> QED
    BY <1>3, <1>10, <2>1, <2>2
<1>13. \A k \in 1 .. Len(A) : \E n \in 1 .. Len(r) : A[k] = ManifestVersion(r[n])
  BY <1>3, <1>5, <1>10
<1> QED
  BY <1>9, <1>11, <1>12, <1>13 DEF A, U

\* The filters of one manifest are all those with its version.
LEMMA FiltersFacts ==
  ASSUME NEW F, NEW r \in Seq(F), NEW v
  PROVE  /\ FiltersOf(v, r) \in Seq(F)
         /\ \A k \in 1 .. Len(FiltersOf(v, r)) : \E n \in 1 .. Len(r) : FiltersOf(v, r)[k] = r[n]
         /\ \A n \in 1 .. Len(r) : ManifestVersion(r[n]) = v =>
              \E k \in 1 .. Len(FiltersOf(v, r)) : FiltersOf(v, r)[k] = r[n]
<1> DEFINE I == {k \in DOMAIN r : ManifestVersion(r[k]) = v}
           A == FiltersOf(v, r)
<1>1. A = Kept(r, I)
  BY DEF FiltersOf
<1>2. DOMAIN r = 1 .. Len(r) /\ I \in SUBSET Nat
  OBVIOUS
<1>3. \A n \in 1 .. Len(r) : n \in I <=> ManifestVersion(r[n]) = v
  BY <1>2
<1> HIDE DEF I, A
<1>4. Kept(r, I) \in Seq(F) /\ \E h : Places(h, Kept(r, I), r, I, Len(r))
  BY <1>2, KeptPlaces
<1>5. PICK h : Places(h, A, r, I, Len(r))
  BY <1>1, <1>4
<1>6. \A k \in 1 .. Len(A) : \E n \in 1 .. Len(r) : A[k] = r[n]
  BY <1>5 DEF Places
<1>7. \A n \in 1 .. Len(r) : ManifestVersion(r[n]) = v => \E k \in 1 .. Len(A) : A[k] = r[n]
  BY <1>3, <1>5 DEF Places
<1> QED
  BY <1>1, <1>4, <1>6, <1>7 DEF A

\* What the filters r ask for.
AskedBy(r, v, t) ==
  r = <<>> \/ \E k \in DOMAIN r : r[k] = v \/ MatchesLevel(t.level, r[k])

\* DiscoverManifests finds each installed version once, and lets through the
\* tests that are asked for.
EntrySet(r) == [version : DOMAIN manifests, filters : Seq(Range(r))]

Covers(D, r) ==
  /\ D \in Seq(EntrySet(r))
  /\ \A j, k \in 1 .. Len(D) : D[j].version = D[k].version => j = k
  /\ \A v \in DOMAIN manifests : \A t \in Range(manifests[v].tests) :
       AskedBy(r, v, t) <=> \E k \in 1 .. Len(D) : D[k].version = v /\ Wanted(t.level, D[k].filters)

\* Without filters every installed manifest runs once, with all of its tests.
LEMMA EverythingCovers ==
  ASSUME manifests \in Installations
  PROVE  Covers(Present(Everything), <<>>)
<1> DEFINE E == [version : Versions, filters : Seq({})]
           P == Present(Everything)
<1>1. VersionOrder \in Seq(Versions) /\ Len(VersionOrder) \in Nat
      /\ DOMAIN VersionOrder = 1 .. Len(VersionOrder)
  BY CertificationAssumption
<1>2. Everything \in [1 .. Len(VersionOrder) -> E]
  <2>1. <<>> \in Seq({})
    OBVIOUS
  <2> QED
    BY <1>1, <2>1 DEF Everything, Entry
<1>3. Everything \in Seq(E) /\ Len(Everything) = Len(VersionOrder)
  <2> HIDE DEF E
  <2> QED
    BY <1>1, <1>2
<1>4. \A k \in 1 .. Len(VersionOrder) : Everything[k].version = VersionOrder[k] /\ Everything[k].filters = <<>>
  BY <1>1 DEF Everything, Entry
<1>5. \A j, k \in 1 .. Len(Everything) : Everything[j].version = Everything[k].version => j = k
  <2>1. \A j, k \in 1 .. Len(VersionOrder) : VersionOrder[j] = VersionOrder[k] => j = k
    BY <1>1, CertificationAssumption DEF IsInjective
  <2> QED
    BY <1>3, <1>4, <2>1
<1> HIDE DEF E, P
<1>6. /\ P \in Seq({e \in E : e.version \in DOMAIN manifests})
      /\ \A j, k \in 1 .. Len(P) : P[j].version = P[k].version => j = k
      /\ \A k \in 1 .. Len(P) : \E i \in 1 .. Len(Everything) : P[k] = Everything[i]
      /\ \A i \in 1 .. Len(Everything) : Everything[i].version \in DOMAIN manifests =>
              \E k \in 1 .. Len(P) : P[k] = Everything[i]
  BY <1>3, <1>5, PresentFacts DEF P
<1>7. P \in Seq(EntrySet(<<>>))
  <2>1. Range(<<>>) = {}
    BY DEF Range
  <2>2. {e \in E : e.version \in DOMAIN manifests} \subseteq EntrySet(<<>>)
    BY <2>1 DEF E, EntrySet
  <2> QED
    BY <1>6, <2>2
<1>8. ASSUME NEW v \in DOMAIN manifests, NEW t \in Range(manifests[v].tests)
      PROVE  /\ AskedBy(<<>>, v, t)
             /\ \E k \in 1 .. Len(P) : P[k].version = v /\ Wanted(t.level, P[k].filters)
  <2>1. v \in Versions
    BY <1>8, ManifestFacts
  <2>2. PICK i \in 1 .. Len(VersionOrder) : VersionOrder[i] = v
    BY <1>1, <2>1 DEF Versions, Range
  <2>3. Everything[i].version = v /\ Everything[i].filters = <<>>
    BY <1>4, <2>2
  <2>4. PICK k \in 1 .. Len(P) : P[k] = Everything[i]
    BY <1>3, <1>6, <2>2, <2>3
  <2> QED
    BY <2>3, <2>4 DEF AskedBy, Wanted
<1> QED
  BY <1>6, <1>7, <1>8 DEF P, Covers

\* With filters, every installed manifest that one of them names runs once, and of
\* its tests exactly those that a filter of the request asks for: the grouping of
\* the filters by manifest loses none of them and adds none.
LEMMA FilteredCovers ==
  ASSUME manifests \in Installations, NEW r \in Requests, r # <<>>
  PROVE  Covers(DiscoverManifests(r), r)
<1> DEFINE F == Range(r)
           A == AskedVersions(r)
           L(v) == IF v \in Range(r) THEN <<>> ELSE FiltersOf(v, r)
           B == [k \in DOMAIN A |-> Entry(A[k], L(A[k]))]
           U == {ManifestVersion(f) : f \in F}
           E == [version : U, filters : Seq(F)]
           P == DiscoverManifests(r)
<1>1. r \in Seq(F) /\ \A f \in F : f.parts \in Seq(Nat)
  BY CertificationAssumption
<1>2. P = Present(B)
  BY DEF DiscoverManifests
<1>3. DOMAIN r = 1 .. Len(r) /\ Len(r) \in Nat /\ \A k \in 1 .. Len(r) : r[k] \in F
  BY <1>1
<1>4. /\ A \in Seq(U)
      /\ \A j, k \in 1 .. Len(A) : A[j] = A[k] => j = k
      /\ \A n \in 1 .. Len(r) : \E k \in 1 .. Len(A) : A[k] = ManifestVersion(r[n])
      /\ \A k \in 1 .. Len(A) : \E n \in 1 .. Len(r) : A[k] = ManifestVersion(r[n])
  <2> HIDE DEF F
  <2> QED
    BY <1>1, AskedFacts
<1>5. DOMAIN A = 1 .. Len(A) /\ Len(A) \in Nat /\ \A k \in 1 .. Len(A) : A[k] \in U
  BY <1>4
<1>6. \A v : FiltersOf(v, r) \in Seq(F)
  <2> HIDE DEF F
  <2> QED
    BY <1>1, FiltersFacts
<1>7. \A v : L(v) \in Seq(F)
  BY <1>6
<1>8. \A k \in 1 .. Len(A) : B[k].version = A[k] /\ B[k].filters = L(A[k])
  BY <1>5 DEF Entry
<1>9. B \in [1 .. Len(A) -> E]
  BY <1>5, <1>7 DEF Entry
<1> HIDE DEF F, A, U, E, P, L
<1>10. B \in Seq(E) /\ Len(B) = Len(A)
  <2> HIDE DEF B
  <2> QED
    BY <1>5, <1>9
<1> HIDE DEF B
<1>11. \A j, k \in 1 .. Len(B) : B[j].version = B[k].version => j = k
  <2> SUFFICES ASSUME NEW j \in 1 .. Len(B), NEW k \in 1 .. Len(B), B[j].version = B[k].version
               PROVE  j = k
    OBVIOUS
  <2>1. j \in 1 .. Len(A) /\ k \in 1 .. Len(A)
    BY <1>10
  <2>2. A[j] = A[k]
    BY <1>8, <2>1
  <2> QED
    BY <1>4, <2>1, <2>2
<1>12. /\ P \in Seq({e \in E : e.version \in DOMAIN manifests})
       /\ \A j, k \in 1 .. Len(P) : P[j].version = P[k].version => j = k
       /\ \A k \in 1 .. Len(P) : \E i \in 1 .. Len(B) : P[k] = B[i]
       /\ \A i \in 1 .. Len(B) : B[i].version \in DOMAIN manifests => \E k \in 1 .. Len(P) : P[k] = B[i]
  <2> DEFINE Q == Present(B)
  <2>1. /\ Q \in Seq({e \in E : e.version \in DOMAIN manifests})
        /\ \A j, k \in 1 .. Len(Q) : Q[j].version = Q[k].version => j = k
        /\ \A k \in 1 .. Len(Q) : \E i \in 1 .. Len(B) : Q[k] = B[i]
        /\ \A i \in 1 .. Len(B) : B[i].version \in DOMAIN manifests => \E k \in 1 .. Len(Q) : Q[k] = B[i]
    BY <1>10, <1>11, PresentFacts
  <2> HIDE DEF Q
  <2>2. P = Q
    BY <1>2 DEF Q
  <2> QED
    BY <2>1, <2>2
<1>13. P \in Seq(EntrySet(r))
  <2>1. {e \in E : e.version \in DOMAIN manifests} \subseteq EntrySet(r)
    BY DEF E, F, EntrySet
  <2> QED
    BY <1>12, <2>1
<1>14. ASSUME NEW v \in DOMAIN manifests, NEW t \in Range(manifests[v].tests), AskedBy(r, v, t)
       PROVE  \E k \in 1 .. Len(P) : P[k].version = v /\ Wanted(t.level, P[k].filters)
  <2>1. ManifestVersion(v) = v /\ (t.level # NoLevel => t.level # v /\ ManifestVersion(t.level) = v)
    BY ManifestFacts
  <2>2. PICK n \in 1 .. Len(r) : r[n] = v \/ MatchesLevel(t.level, r[n])
    BY <1>3, <1>14 DEF AskedBy
  <2>3. ManifestVersion(r[n]) = v
    <3>1. CASE r[n] = v
      BY <2>1, <3>1
    <3>2. CASE MatchesLevel(t.level, r[n])
      <4>1. t.level # NoLevel
        BY <3>2 DEF MatchesLevel
      <4>2. r[n].parts \in Seq(Nat)
        BY <1>1, <1>3
      <4> QED
        BY <2>1, <3>2, <4>1, <4>2, MatchIsOfVersion
    <3> QED
      BY <2>2, <3>1, <3>2
  <2>4. PICK i \in 1 .. Len(A) : A[i] = v
    BY <1>4, <2>3
  <2>5. B[i].version = v /\ B[i].filters = L(v)
    BY <1>8, <2>4
  <2>6. PICK k \in 1 .. Len(P) : P[k] = B[i]
    BY <1>10, <1>12, <2>4, <2>5
  <2>7. Wanted(t.level, L(v))
    <3>1. CASE v \in Range(r)
      BY <3>1 DEF L, Wanted
    <3>2. CASE v \notin Range(r)
      <4>1. r[n] # v
        BY <1>3, <3>2 DEF F
      <4>2. PICK j \in 1 .. Len(FiltersOf(v, r)) : FiltersOf(v, r)[j] = r[n]
        BY <1>1, <2>3, FiltersFacts
      <4>3. DOMAIN FiltersOf(v, r) = 1 .. Len(FiltersOf(v, r))
        BY <1>6
      <4> QED
        BY <2>2, <3>2, <4>1, <4>2, <4>3 DEF L, Wanted
    <3> QED
      BY <3>1, <3>2
  <2> QED
    BY <2>5, <2>6, <2>7
<1>15. ASSUME NEW v \in DOMAIN manifests, NEW t \in Range(manifests[v].tests),
              NEW k \in 1 .. Len(P), P[k].version = v, Wanted(t.level, P[k].filters)
       PROVE  AskedBy(r, v, t)
  <2>1. PICK i \in 1 .. Len(B) : P[k] = B[i]
    BY <1>12
  <2>2. A[i] = v /\ P[k].filters = L(v)
    BY <1>8, <1>10, <1>15, <2>1
  <2>3. CASE v \in Range(r)
    BY <1>3, <2>3 DEF AskedBy, Range
  <2>4. CASE v \notin Range(r)
    <3> DEFINE fs == FiltersOf(v, r)
    <3>1. P[k].filters = fs
      BY <2>2, <2>4 DEF L
    <3>2. /\ fs \in Seq(F)
          /\ \A j \in 1 .. Len(fs) : \E n \in 1 .. Len(r) : fs[j] = r[n]
          /\ \A n \in 1 .. Len(r) : ManifestVersion(r[n]) = v => \E j \in 1 .. Len(fs) : fs[j] = r[n]
      BY <1>1, FiltersFacts
    <3> HIDE DEF fs
    <3>3. PICK n \in 1 .. Len(r) : A[i] = ManifestVersion(r[n])
      BY <1>4, <1>10
    <3>4. fs # <<>> /\ DOMAIN fs = 1 .. Len(fs)
      BY <2>2, <3>2, <3>3
    <3>5. PICK j \in 1 .. Len(fs) : MatchesLevel(t.level, fs[j])
      BY <1>15, <3>1, <3>4 DEF Wanted
    <3> QED
      BY <1>3, <3>2, <3>5 DEF AskedBy
  <2> QED
    BY <2>3, <2>4
<1> QED
  BY <1>12, <1>13, <1>14, <1>15 DEF P, Covers

\* The same for every request (discover_manifests).
LEMMA DiscoverCovers ==
  ASSUME manifests \in Installations, NEW r \in Requests
  PROVE  Covers(DiscoverManifests(r), r)
<1>1. CASE r = <<>>
  <2>1. DiscoverManifests(<<>>) = Present(Everything)
    BY DEF DiscoverManifests
  <2> QED
    BY <1>1, <2>1, EverythingCovers
<1> QED
  BY <1>1, FilteredCovers

----------------------------------------------------------------------------
(* What a level means, and how it is computed *)

\* The run r has passed the test t of version v.
PassedIn(r, v, t) ==
  /\ [run |-> r, version |-> v, test |-> t.name, result |-> "pass"] \in ran
  /\ \A x \in {"fail", "error"} : [run |-> r, version |-> v, test |-> t.name, result |-> x] \notin ran

LevelsOf(v) == {t.level : t \in Range(manifests[v].tests)}
AllPassed(r, v, level) == \A t \in Range(manifests[v].tests) : t.level = level => PassedIn(r, v, t)
Passed(level, tests, res) == LevelResults(level, tests, res) = {"pass"}

\* What the run r has recorded of version v are the results res of tests.
Records(r, v, tests, res) ==
  {x \in ran : x.run = r /\ x.version = v} =
    {[run |-> r, version |-> v, result |-> res[j], test |-> tests[j].name] : j \in DOMAIN res}

\* The run r has taken the tests of v that fs lets through, with the results res.
Taken(v, fs, res, r) ==
  /\ manifests \in Installations /\ v \in DOMAIN manifests
  /\ fs \in Seq(Range(request)) /\ res \in Seq(Outcomes) /\ r \in Nat
  /\ Len(res) = Len(FilterTests(manifests[v].tests, fs))
  /\ Records(r, v, FilterTests(manifests[v].tests, fs), res)

\* A level of the filtered tests has passed if and only if each of the tests
\* that the manifest has at this level has: the filters take all of them or none.
LEMMA LevelPassed ==
  ASSUME NEW v, NEW fs, NEW res, NEW r, Taken(v, fs, res, r),
         NEW level \in LevelsOf(v)
  PROVE  Passed(level, FilterTests(manifests[v].tests, fs), res) <=> AllPassed(r, v, level)
<1> DEFINE all == manifests[v].tests
           tests == FilterTests(all, fs)
           LR == LevelResults(level, tests, res)
           rec(j) == [run |-> r, version |-> v, result |-> res[j], test |-> tests[j].name]
<1>0. /\ manifests \in Installations /\ v \in DOMAIN manifests
      /\ fs \in Seq(Range(request)) /\ res \in Seq(Outcomes) /\ r \in Nat
      /\ Len(res) = Len(tests) /\ Records(r, v, tests, res)
  BY DEF Taken
<1>1. /\ all \in Seq(Range(all))
      /\ \A j, k \in 1 .. Len(all) : all[j].name = all[k].name => j = k
  BY <1>0, ManifestFacts
<1>2. PICK h : Selection(h, tests, all, fs)
  <2> HIDE DEF all
  <2> QED
    BY <1>0, <1>1, FilterFacts
<1>3. tests \in Seq(Range(all))
  <2> HIDE DEF all
  <2> QED
    BY <1>0, <1>1, FilterFacts
<1>4. DOMAIN res = 1 .. Len(tests) /\ \A j \in 1 .. Len(tests) : res[j] \in Outcomes
  BY <1>0
<1>5. {x \in ran : x.run = r /\ x.version = v} = {rec(j) : j \in 1 .. Len(tests)}
  BY <1>0, <1>4 DEF Records
<1>6. LR = {res[k] : k \in {j \in 1 .. Len(tests) : tests[j].level = level}}
  BY <1>4 DEF LevelResults
<1>7. \A t \in Range(all) : \E i \in 1 .. Len(all) : all[i] = t
  BY <1>1 DEF Range
<1> HIDE DEF all, tests, LR
<1>8. \A k \in 1 .. Len(tests) : h[k] \in 1 .. Len(all) /\ tests[k] = all[h[k]]
  BY <1>2 DEF Selection
<1>9. \A j, k \in 1 .. Len(tests) : tests[j].name = tests[k].name => j = k
  <2> SUFFICES ASSUME NEW j \in 1 .. Len(tests), NEW k \in 1 .. Len(tests), tests[j].name = tests[k].name
               PROVE  j = k
    OBVIOUS
  <2>1. h[j] = h[k]
    BY <1>1, <1>8
  <2> QED
    BY <1>2, <2>1 DEF Selection
<1>10. \A t, x : [run |-> r, version |-> v, test |-> t.name, result |-> x] \in ran
                 <=> \E j \in 1 .. Len(tests) : tests[j].name = t.name /\ res[j] = x
  <2> TAKE t, x
  <2> DEFINE y == [run |-> r, version |-> v, test |-> t.name, result |-> x]
  <2>1. y \in ran <=> y \in {z \in ran : z.run = r /\ z.version = v}
    OBVIOUS
  <2>2. y \in {rec(j) : j \in 1 .. Len(tests)} <=> \E j \in 1 .. Len(tests) : tests[j].name = t.name /\ res[j] = x
    OBVIOUS
  <2> QED
    BY <1>5, <2>1, <2>2
<1>11. ASSUME LR = {"pass"}, NEW t \in Range(all), t.level = level
       PROVE  PassedIn(r, v, t)
  <2>1. PICK k \in 1 .. Len(tests) : tests[k].level = level /\ res[k] = "pass"
    BY <1>6, <1>11
  <2>2. Wanted(level, fs)
    BY <1>2, <2>1 DEF Selection
  <2>3. PICK i \in 1 .. Len(all) : all[i] = t
    BY <1>7
  <2>4. PICK j \in 1 .. Len(tests) : h[j] = i
    BY <1>2, <1>11, <2>2, <2>3 DEF Selection
  <2>5. tests[j] = t
    BY <1>8, <2>3, <2>4
  <2>6. res[j] = "pass"
    BY <1>6, <1>11, <2>5
  <2>7. \A x \in {"fail", "error"}, n \in 1 .. Len(tests) : tests[n].name = t.name => res[n] # x
    BY <1>9, <2>5, <2>6
  <2>8. [run |-> r, version |-> v, test |-> t.name, result |-> "pass"] \in ran
    BY <1>10, <2>5, <2>6
  <2>9. ASSUME NEW x \in {"fail", "error"}
        PROVE  [run |-> r, version |-> v, test |-> t.name, result |-> x] \notin ran
    BY <1>10, <2>7
  <2> QED
    BY <2>8, <2>9 DEF PassedIn
<1>12. ASSUME \A t \in Range(all) : t.level = level => PassedIn(r, v, t)
       PROVE  LR = {"pass"}
  <2>1. PICK t \in Range(all) : t.level = level
    BY DEF all, LevelsOf
  <2>2. PICK j \in 1 .. Len(tests) : tests[j].name = t.name /\ res[j] = "pass"
    BY <1>10, <1>12, <2>1 DEF PassedIn
  <2>3. tests[j] = t
    <3>1. PICK i \in 1 .. Len(all) : all[i] = t
      BY <1>7
    <3>2. h[j] = i
      BY <1>1, <1>8, <2>2, <3>1
    <3> QED
      BY <1>8, <3>1, <3>2
  <2>4. "pass" \in LR
    BY <1>6, <2>1, <2>2, <2>3
  <2>5. ASSUME NEW k \in 1 .. Len(tests), tests[k].level = level PROVE res[k] = "pass"
    <3>1. tests[k] \in Range(all)
      BY <1>3
    <3>2. PassedIn(r, v, tests[k])
      BY <1>12, <2>5, <3>1
    <3>3. \A x \in {"fail", "error"} : res[k] # x
      BY <1>10, <3>2 DEF PassedIn
    <3> QED
      BY <1>4, <3>3 DEF Outcomes
  <2> QED
    BY <1>6, <2>4, <2>5
<1> QED
  BY <1>11, <1>12 DEF LR, tests, all, Passed, AllPassed

\* The levels of an installed manifest and their positions.
LEMMA PositionFacts ==
  ASSUME manifests \in Installations, NEW v \in DOMAIN manifests
  PROVE  /\ Len(AllLevels(manifests[v])) \in Nat
         /\ DOMAIN AllLevels(manifests[v]) = 1 .. Len(AllLevels(manifests[v]))
         /\ Range(AllLevels(manifests[v])) =
              {AllLevels(manifests[v])[k] : k \in 1 .. Len(AllLevels(manifests[v]))}
         /\ \A k \in 1 .. Len(AllLevels(manifests[v])) :
              /\ AllLevels(manifests[v])[k] # NoLevel
              /\ Position(v, AllLevels(manifests[v])[k]) = k
              /\ \E t \in Range(manifests[v].tests) : t.level = AllLevels(manifests[v])[k]
         /\ \A t \in Range(manifests[v].tests) : t.level # NoLevel =>
              \E k \in 1 .. Len(AllLevels(manifests[v])) : AllLevels(manifests[v])[k] = t.level
<1> DEFINE m == manifests[v]
           L == AllLevels(m)
           S == Range(m.tests)
<1>1. m.tests \in Seq(S)
  BY ManifestFacts
<1>2. /\ L \in Seq({t.level : t \in S} \ {NoLevel})
      /\ \A j, k \in 1 .. Len(L) : L[j] = L[k] => j = k
      /\ \A n \in 1 .. Len(m.tests) : m.tests[n].level # NoLevel =>
           \E k \in 1 .. Len(L) : L[k] = m.tests[n].level
  <2> HIDE DEF S, m
  <2> QED
    BY <1>1, LevelFacts DEF S
<1>3. \A k : Position(v, L[k]) = CHOOSE n \in DOMAIN L : L[n] = L[k]
  BY DEF Position
<1> HIDE DEF L
<1>4. Len(L) \in Nat /\ DOMAIN L = 1 .. Len(L)
  BY <1>2
<1>5. Range(L) = {L[k] : k \in 1 .. Len(L)}
  BY <1>4 DEF Range
<1>6. ASSUME NEW k \in 1 .. Len(L)
      PROVE  L[k] # NoLevel /\ Position(v, L[k]) = k /\ \E t \in S : t.level = L[k]
  <2>1. L[k] \in {t.level : t \in S} \ {NoLevel}
    BY <1>2
  <2>2. Position(v, L[k]) \in 1 .. Len(L) /\ L[Position(v, L[k])] = L[k]
    <3>1. \E n \in DOMAIN L : L[n] = L[k]
      BY <1>4
    <3> QED
      BY <1>3, <1>4, <3>1
  <2> QED
    BY <1>2, <2>1, <2>2
<1>7. ASSUME NEW t \in S, t.level # NoLevel PROVE \E k \in 1 .. Len(L) : L[k] = t.level
  <2>1. PICK n \in DOMAIN m.tests : m.tests[n] = t
    BY <1>7 DEF Range
  <2>2. n \in 1 .. Len(m.tests)
    BY <1>1, <2>1
  <2> QED
    BY <1>2, <1>7, <2>1, <2>2
<1> QED
  BY <1>4, <1>5, <1>6, <1>7 DEF L

\* What CertifiedSound says of one report.
Sound(v, f) ==
  LET good == {level \in Earned(f.run, v) : Capped(v, level)}
  IN /\ good = {} <=> f.certified = NoLevel
     /\ good # {} =>
          /\ f.certified \in good
          /\ \A level \in good : Position(v, level) <= Position(v, f.certified)
          /\ \A k \in 1 .. Position(v, f.certified) : f.levels[k] = "pass"

ReportsSound == \A v \in Versions : Whole(json[v]) => Sound(v, json[v])

\* CertifiedSound, report by report.
LEMMA SoundIsCertified ==
  CertifiedSound <=> ReportsSound
<1>1. \A v \in Versions : Whole(json[v]) => <<v, json[v]>> \in Reports
  BY DEF Reports, Whole
<1>2. \A p \in Reports : p[1] \in Versions /\ Whole(json[p[1]]) /\ p[2] = json[p[1]]
  BY DEF Reports, Whole
<1>3. CertifiedSound <=> \A p \in Reports : Sound(p[1], p[2])
  BY DEF CertifiedSound, Sound
<1> QED
  BY <1>1, <1>2, <1>3 DEF ReportsSound

\* The levels that a run has earned are those up to the one it has reached.
LEMMA EarnedReaches ==
  ASSUME NEW v, NEW fs, NEW res, NEW r, Taken(v, fs, res, r),
         NEW top, Reaches(top, manifests[v], FilterTests(manifests[v].tests, fs), res),
         NEW n \in 1 .. Len(AllLevels(manifests[v]))
  PROVE  AllLevels(manifests[v])[n] \in Earned(r, v) <=> n <= top
<1> DEFINE L == AllLevels(manifests[v])
           tests == FilterTests(manifests[v].tests, fs)
           S == Range(manifests[v].tests)
           Ok(k) == LevelResults(L[k], tests, res) = {"pass"}
<1>1. /\ Len(L) \in Nat /\ DOMAIN L = 1 .. Len(L) /\ Range(L) = {L[k] : k \in 1 .. Len(L)}
      /\ \A k \in 1 .. Len(L) :
           L[k] # NoLevel /\ Position(v, L[k]) = k /\ \E t \in S : t.level = L[k]
      /\ \A t \in S : t.level # NoLevel => \E k \in 1 .. Len(L) : L[k] = t.level
  BY PositionFacts DEF Taken
<1>2. /\ top \in 0 .. Len(L) /\ \A j \in 1 .. top : Ok(j)
      /\ top < Len(L) => ~Ok(top + 1)
  BY DEF Reaches
<1>3. \A k \in 1 .. Len(L) : Ok(k) <=> \A t \in S : t.level = L[k] => PassedIn(r, v, t)
  <2> SUFFICES ASSUME NEW k \in 1 .. Len(L)
               PROVE  Ok(k) <=> \A t \in S : t.level = L[k] => PassedIn(r, v, t)
    OBVIOUS
  <2> DEFINE level == L[k]
  <2>1. level \in LevelsOf(v)
    BY <1>1 DEF LevelsOf
  <2> HIDE DEF level
  <2>2. Passed(level, FilterTests(manifests[v].tests, fs), res) <=> AllPassed(r, v, level)
    BY <2>1, LevelPassed
  <2> QED
    BY <2>2 DEF level, Passed, AllPassed
<1>11. n \in 1 .. Len(L)
  OBVIOUS
<1> HIDE DEF L, Ok, S, tests
<1>4. \A t \in S : t \in UpTo(v, L[n]) <=> \E k \in 1 .. n : t.level = L[k]
  <2> TAKE t \in S
  <2>1. t \in UpTo(v, L[n]) <=> t.level # NoLevel /\ Position(v, t.level) <= n
    BY <1>1, <1>11 DEF UpTo, S
  <2>2. ASSUME t.level # NoLevel, Position(v, t.level) <= n PROVE \E k \in 1 .. n : t.level = L[k]
    BY <1>1, <2>2
  <2>3. ASSUME NEW k \in 1 .. n, t.level = L[k] PROVE t.level # NoLevel /\ Position(v, t.level) <= n
    <3>1. k \in 1 .. Len(L) /\ k <= n
      BY <1>1 DEF L
    <3> QED
      BY <1>1, <2>3, <3>1
  <2> QED
    BY <2>1, <2>2, <2>3
<1>5. UpTo(v, L[n]) \subseteq S
  BY DEF UpTo, S
<1>6. L[n] \in Earned(r, v) <=> \A t \in UpTo(v, L[n]) : PassedIn(r, v, t)
  <2>1. L[n] \in Range(L)
    BY <1>1 DEF L
  <2> QED
    BY <2>1 DEF Earned, PassedIn, L
<1>7. L[n] \in Earned(r, v) <=> \A k \in 1 .. n : Ok(k)
  <2>1. ASSUME L[n] \in Earned(r, v), NEW k \in 1 .. n PROVE Ok(k)
    <3>1. k \in 1 .. Len(L)
      BY <1>1 DEF L
    <3> QED
      BY <1>3, <1>4, <1>6, <2>1, <3>1
  <2>2. ASSUME \A k \in 1 .. n : Ok(k), NEW t \in UpTo(v, L[n]) PROVE PassedIn(r, v, t)
    <3>1. PICK k \in 1 .. n : t.level = L[k]
      BY <1>4, <1>5
    <3>2. k \in 1 .. Len(L)
      BY <1>1 DEF L
    <3> QED
      BY <1>3, <1>5, <2>2, <3>1, <3>2
  <2> QED
    BY <1>6, <2>1, <2>2
<1>8. n <= top => \A k \in 1 .. n : Ok(k)
  BY <1>1, <1>2
<1>9. n > top => ~Ok(top + 1) /\ top + 1 \in 1 .. n
  BY <1>1, <1>2 DEF L
<1>10. n \in Int /\ top \in Int
  BY <1>1, <1>2
<1> QED
  BY <1>7, <1>8, <1>9, <1>10 DEF L

\* The report on what the run r has taken.
IsReportOn(f, v, fs, res, r) ==
  LET tests == FilterTests(manifests[v].tests, fs)
  IN /\ f.run = r /\ f.certified = HighestCertified(manifests[v], tests, res)
     /\ f.levels = [k \in DOMAIN AllLevels(manifests[v]) |->
                      LevelResult(AllLevels(manifests[v])[k], tests, res)]

\* The certified level of a report is one of its manifest's, or none, and it is
\* the highest one that has been earned and that the cap allows.
LEMMA ReportSound ==
  ASSUME NEW v, NEW fs, NEW res, NEW r, Taken(v, fs, res, r), ~Malformed(manifests[v]),
         NEW f, IsReportOn(f, v, fs, res, r)
  PROVE  /\ Sound(v, f)
         /\ f.certified \in {NoLevel} \cup Range(AllLevels(manifests[v]))
         /\ f.levels \in Seq({"pass", "fail", "skip"})
<1> DEFINE m == manifests[v]
           L == AllLevels(m)
           tests == FilterTests(m.tests, fs)
           good == {level \in Earned(r, v) : Capped(v, level)}
           Index(level) == CHOOSE k \in DOMAIN L : L[k] = level
<1>1. /\ f.run = r /\ f.certified = HighestCertified(m, tests, res)
      /\ f.levels = [k \in DOMAIN L |-> LevelResult(L[k], tests, res)]
  BY DEF IsReportOn
<1>2. /\ Len(L) \in Nat /\ DOMAIN L = 1 .. Len(L) /\ Range(L) = {L[k] : k \in 1 .. Len(L)}
      /\ \A k \in 1 .. Len(L) : L[k] # NoLevel /\ Position(v, L[k]) = k
  BY PositionFacts DEF Taken
<1>3. PICK top : /\ Reaches(top, m, tests, res)
                 /\ HighestCertified(m, tests, res) =
                      IF top = 0 THEN NoLevel
                      ELSE IF m.cap # NoLevel /\ Index(m.cap) < top THEN m.cap ELSE L[top]
  <2>1. m.tests \in Seq(Range(m.tests))
    BY ManifestFacts DEF Taken
  <2> HIDE DEF m, tests
  <2> QED
    BY <2>1, HighestFacts
<1>4. top \in 0 .. Len(L) /\ \A j \in 1 .. top : LevelResults(L[j], tests, res) = {"pass"}
  BY <1>3 DEF Reaches
<1>5. \A n \in 1 .. Len(L) : L[n] \in Earned(r, v) <=> n <= top
  BY <1>3, EarnedReaches
<1>6. Earned(r, v) \subseteq Range(L)
  BY DEF Earned
<1>7. m.cap # NoLevel /\ L # <<>> => m.cap \in Range(L)
  BY DEF Taken, Malformed
<1>8. \A level : Capped(v, level) <=> m.cap = NoLevel \/ Position(v, level) <= Position(v, m.cap)
  BY DEF Capped
<1>9. Index(m.cap) = Position(v, m.cap)
  BY DEF Position
<1>10. Sound(v, f) <=> /\ good = {} <=> f.certified = NoLevel
                       /\ good # {} =>
                            /\ f.certified \in good
                            /\ \A level \in good : Position(v, level) <= Position(v, f.certified)
                            /\ \A k \in 1 .. Position(v, f.certified) : f.levels[k] = "pass"
  BY <1>1 DEF Sound
<1>11. \A k \in 1 .. top : f.levels[k] = "pass"
  <2>1. \A k \in 1 .. top : LevelResult(L[k], tests, res) = "pass"
    BY <1>4 DEF LevelResult
  <2> QED
    BY <1>1, <1>2, <1>4, <2>1
<1>12. f.levels \in Seq({"pass", "fail", "skip"})
  <2> DEFINE V == {"pass", "fail", "skip"}
  <2>1. \A k \in 1 .. Len(L) : LevelResult(L[k], tests, res) \in V
    BY DEF LevelResult
  <2>2. f.levels \in [1 .. Len(L) -> V]
    BY <1>1, <1>2, <2>1
  <2> HIDE DEF V, L
  <2> QED
    BY <1>2, <2>2 DEF V
<1> DEFINE Lgood == \A n \in 1 .. Len(L) : L[n] \in good <=> L[n] \in Earned(r, v) /\ Capped(v, L[n])
<1>13. good \subseteq Range(L) /\ Lgood
  BY <1>6
<1> HIDE DEF L, good, tests, Index
<1>14. CASE top = 0
  <2>1. good = {}
    BY <1>2, <1>5, <1>13, <1>14 DEF Lgood
  <2> QED
    BY <1>1, <1>3, <1>10, <1>12, <1>14, <2>1 DEF L, m
<1>15. CASE top # 0
  <2>1. PICK c \in 1 .. top : /\ f.certified = L[c]
                              /\ \A n \in 1 .. top : Capped(v, L[n]) <=> n <= c
    <3>1. CASE m.cap = NoLevel
      <4>1. f.certified = L[top]
        BY <1>1, <1>3, <1>15, <3>1
      <4>2. \A n \in 1 .. top : Capped(v, L[n]) /\ n <= top
        BY <1>4, <1>8, <3>1
      <4> QED
        BY <1>2, <1>4, <1>15, <4>1, <4>2
    <3>2. CASE m.cap # NoLevel
      <4>1. L # <<>>
        BY <1>2, <1>4, <1>15
      <4>2. PICK p \in 1 .. Len(L) : m.cap = L[p]
        BY <1>2, <1>7, <3>2, <4>1 DEF L
      <4>3. Position(v, m.cap) = p /\ Index(m.cap) = p
        BY <1>2, <1>9, <4>2
      <4>4. f.certified = IF p < top THEN L[p] ELSE L[top]
        BY <1>1, <1>3, <1>15, <3>2, <4>2, <4>3
      <4>5. \A n \in 1 .. top : Capped(v, L[n]) <=> n <= p
        BY <1>2, <1>4, <1>8, <3>2, <4>3
      <4>6. CASE p < top
        <5>1. p \in 1 .. top /\ f.certified = L[p]
          BY <1>4, <4>4, <4>6
        <5> QED
          BY <4>5, <5>1
      <4>7. CASE ~(p < top)
        BY <1>2, <1>4, <1>15, <4>4, <4>5, <4>7
      <4> QED
        BY <4>6, <4>7
    <3> QED
      BY <3>1, <3>2
  <2>2. \A n \in 1 .. Len(L) : L[n] \in good <=> n <= c
    BY <1>2, <1>4, <1>5, <1>13, <2>1 DEF Lgood
  <2>3. c \in 1 .. Len(L) /\ Position(v, f.certified) = c /\ f.certified # NoLevel
    BY <1>2, <1>4, <2>1
  <2>4. f.certified \in good
    BY <2>1, <2>2, <2>3
  <2>5. \A level \in good : Position(v, level) <= c
    BY <1>2, <1>13, <2>2
  <2>6. \A k \in 1 .. c : f.levels[k] = "pass"
    BY <1>4, <1>11, <2>1
  <2>7. f.certified \in Range(L)
    BY <1>2, <2>1, <2>3
  <2> QED
    BY <1>10, <1>12, <2>3, <2>4, <2>5, <2>6, <2>7 DEF L, m
<1> QED
  BY <1>14, <1>15, <1>4

----------------------------------------------------------------------------
(* The steps *)

GateOpens  == Gate /\ pc' = "next"
LoadGoesOn == LoadManifest /\ pc' # "idle"
Stops      == (Gate \/ LoadManifest \/ TestRaises \/ Return \/ Cut) /\ pc' = "idle"
Publishes  == BeaconStarts \/ BeaconFails \/ JqFails \/ Skip \/ Publish \/ BeaconEnds
Rests      == Reboot \/ Login \/ Again
Away       == Stops \/ Publishes \/ Rests

\* The harness at work, one step.
Works ==
  \/ \E r \in Outcomes : Prerequisite(r) \/ RunTest(r)
  \/ GateOpens \/ LoadGoesOn \/ WriteJson \/ WriteMarkdown

\* A step starts an invocation, goes on with it, or is taken when it has ended.
LEMMA NextSteps ==
  ASSUME Next
  PROVE  (\E filters \in Requests : Start(filters)) \/ Works \/ Away
<1>1. Gate => GateOpens \/ Stops
  BY DEF Gate, GateOpens, Stops, Ends
<1>2. LoadManifest => LoadGoesOn \/ Stops
  BY DEF LoadGoesOn, Stops
<1>3. TestRaises \/ Return \/ Cut => Stops
  BY DEF TestRaises, Return, Cut, Stops, Ends
<1> QED
  BY <1>1, <1>2, <1>3 DEF Next, Works, Away, Publishes, Rests

\* No step of a boot changes its manifests; what is computed from them stays.
LEMMA SameManifests ==
  ASSUME manifests' = manifests
  PROVE  /\ \A r : DiscoverManifests(r)' = DiscoverManifests(r)
         /\ \A e : TestsOf(e)' = TestsOf(e)
         /\ \A v, level : Position(v, level)' = Position(v, level)
         /\ \A v, level : Capped(v, level)' <=> Capped(v, level)
         /\ \A v, level : UpTo(v, level)' = UpTo(v, level)
         /\ TestNames' = TestNames
<1>1. \A r : DiscoverManifests(r)' = DiscoverManifests(r)
  BY DEF DiscoverManifests, Present
<1>2. \A e : TestsOf(e)' = TestsOf(e)
  BY DEF TestsOf
<1>3. \A v, level : Position(v, level)' = Position(v, level)
  BY DEF Position
<1>4. \A v, level : Capped(v, level)' <=> Capped(v, level)
  BY <1>3 DEF Capped
<1>5. \A v, level : UpTo(v, level)' = UpTo(v, level)
  BY <1>3 DEF UpTo
<1>6. TestNames' = TestNames
  BY DEF TestNames
<1> QED
  BY <1>1, <1>2, <1>3, <1>4, <1>5, <1>6

\* While manifests and request stay, so do the entries of the invocation.
LEMMA SameEntries ==
  ASSUME manifests' = manifests, request' = request
  PROVE  Entries' = Entries
  BY DEF Entries, DiscoverManifests, Present

\* While the certification and its results stay, so does what is written of it.
LEMMA SameCert ==
  ASSUME UNCHANGED <<manifests, cert, results, overall, run>>
  PROVE  Manifest' = Manifest /\ Certified' = Certified /\ Report' = Report
<1>1. Manifest' = Manifest
  BY DEF Manifest
<1>2. Certified' = Certified
  BY <1>1 DEF Certified
<1> QED
  BY <1>1, <1>2 DEF Report

\* The harness has ended: nothing that it has computed changes any more.
LEMMA AwayFacts ==
  ASSUME TypeOK, Control, Away
  PROVE  /\ ~InHarness' /\ pc' \in {"idle", "beacon"}
         /\ UNCHANGED <<manifests, request, progress, run, ran, finished>>
<1>1. CASE Stops
  <2>1. stage' = "publish" /\ pc' = "idle"
    BY <1>1 DEF Stops, Gate, LoadManifest, TestRaises, Return, Cut, Ends, Control, TypeOK
  <2>2. UNCHANGED <<manifests, request, progress, run, ran, finished>>
    <3>1. CASE LoadManifest /\ pc' = "idle"
      BY <3>1 DEF LoadManifest, progress
    <3>2. CASE Gate \/ TestRaises \/ Return \/ Cut
      BY <3>2 DEF Gate, TestRaises, Return, Cut, history
    <3> QED
      BY <1>1, <3>1, <3>2 DEF Stops
  <2> QED
    BY <2>1, <2>2 DEF InHarness
<1>2. CASE Publishes
  <2>1. stage = "publish" /\ (pc' = "idle" \/ (pc' = "beacon" /\ stage' = "publish"))
    BY <1>2 DEF Publishes, BeaconStarts, BeaconFails, JqFails, Skip, Publish, BeaconEnds,
                PublishingEnds, Control
  <2>2. UNCHANGED <<manifests, request, progress, run, ran, finished>>
    BY <1>2 DEF Publishes, BeaconStarts, BeaconFails, JqFails, Skip, Publish, BeaconEnds,
                HarnessAside, history
  <2> QED
    BY <2>1, <2>2 DEF InHarness
<1>3. CASE Rests
  <2>1. stage \in {"prompt", "login"} /\ pc' = pc
    BY <1>3 DEF Rests, Reboot, Login, Again
  <2>2. pc = "idle"
    BY <2>1 DEF Control, TypeOK, InLoop
  <2>3. UNCHANGED <<manifests, request, progress, run, ran, finished>>
    BY <1>3 DEF Rests, Reboot, Login, Again, history
  <2> QED
    BY <2>1, <2>2, <2>3 DEF InHarness
<1> QED
  BY <1>1, <1>2, <1>3 DEF Away

\* While the harness is at work only its progress, the history and, at the end
\* of a certification, the reports change.
LEMMA WorksFacts ==
  ASSUME Works
  PROVE  /\ pc \in {"prereqs", "next", "tests", "markdown"}
         /\ pc' \in {"prereqs", "next", "tests", "markdown"}
         /\ (pc' = "prereqs" => pc = "prereqs") /\ (pc = "prereqs" => pc' \in {"prereqs", "next"})
         /\ UNCHANGED <<manifests, stage, request, exit, toPublish, issues, run, cut>>
<1>1. CASE \E r \in Outcomes : Prerequisite(r) \/ RunTest(r)
  BY <1>1 DEF Prerequisite, RunTest, history
<1>2. CASE GateOpens
  BY <1>2 DEF GateOpens, Gate, Ends, history
<1>3. CASE LoadGoesOn
  BY <1>3 DEF LoadGoesOn, LoadManifest, Ends
<1>4. CASE WriteJson \/ WriteMarkdown
  BY <1>4 DEF WriteJson, WriteMarkdown, history
<1> QED
  BY <1>1, <1>2, <1>3, <1>4 DEF Works

\* Every step leads from a place of the boot to one with the facts of that place.
LEMMA ControlKept ==
  ASSUME TypeOK, Control, [Next]_vars
  PROVE  Control'
<1>1. ASSUME NEW filters \in Requests, Start(filters) PROVE Control'
  <2>1. run \in Nat /\ MaxRuns[manifests] \in Nat
    BY CertificationAssumption DEF TypeOK
  <2>2. run' = run + 1 /\ prereqs' = <<>> /\ failing' = FALSE
        /\ UNCHANGED <<manifests, cut>> /\ stage = "verify"
    BY <1>1 DEF Start, history
  <2>3. run + 1 \notin cut
    BY <2>1 DEF TypeOK
  <2>4. (stage' = "publish" /\ pc' = "idle") \/ (stage' = "verify" /\ pc' = "prereqs")
    <3>1. CASE queue' = <<>>
      BY <1>1, <3>1 DEF Start, Ends
    <3>2. CASE queue' # <<>>
      BY <1>1, <3>2 DEF Start
    <3> QED
      BY <3>1, <3>2
  <2>5. prereqs' \in Seq(Outcomes) /\ failing' \in BOOLEAN
    <3>1. prereqs' \in Seq(Outcomes)
      BY <2>2
    <3>2. failing' \in BOOLEAN
      BY <2>2
    <3> QED
      BY <3>1, <3>2
  <2>6. run' >= 1 /\ run' \notin cut'
    BY <2>1, <2>2, <2>3
  <2>7. InLoop' \/ pc' = "prereqs" => stage' = "verify" /\ run' >= 1 /\ run' \notin cut'
    BY <2>4, <2>6 DEF InLoop
  <2>8. /\ pc' = "beacon" => stage' = "publish"
        /\ stage' # "verify" => run' >= 1
        /\ ~(stage' = "verify" /\ pc' = "idle")
    BY <2>4, <2>6
  <2> QED
    BY <2>5, <2>7, <2>8 DEF Control
<1>2. CASE Works
  <2>1. prereqs' \in Seq(Outcomes)
    <3>1. ASSUME NEW r \in Outcomes, Prerequisite(r) PROVE prereqs' \in Seq(Outcomes)
      BY <3>1 DEF Prerequisite, Control
    <3>2. ASSUME NEW r \in Outcomes, RunTest(r) PROVE prereqs' = prereqs
      BY <3>2 DEF RunTest
    <3>3. CASE GateOpens \/ LoadGoesOn \/ WriteJson \/ WriteMarkdown
      <4>1. GateOpens \/ WriteJson \/ WriteMarkdown => prereqs' = prereqs
        BY DEF GateOpens, Gate, WriteJson, WriteMarkdown, progress
      <4>2. LoadGoesOn => prereqs' = prereqs
        BY DEF LoadGoesOn, LoadManifest, progress
      <4> QED
        BY <3>3, <4>1, <4>2 DEF Control
    <3> QED
      BY <1>2, <3>1, <3>2, <3>3 DEF Works, Control
  <2>2. failing' \in BOOLEAN
    <3>1. WriteMarkdown => failing' \in BOOLEAN
      BY DEF WriteMarkdown
    <3>2. GateOpens \/ WriteJson => failing' = failing
      BY DEF GateOpens, Gate, WriteJson, progress
    <3>3. LoadGoesOn => failing' = failing
      BY DEF LoadGoesOn, LoadManifest, progress
    <3>4. ASSUME NEW r \in Outcomes, Prerequisite(r) \/ RunTest(r) PROVE failing' = failing
      BY <3>4 DEF Prerequisite, RunTest
    <3> QED
      BY <1>2, <3>1, <3>2, <3>3, <3>4 DEF Works, Control
  <2>3. /\ pc \in {"prereqs", "next", "tests", "markdown"}
        /\ pc' \in {"prereqs", "next", "tests", "markdown"}
        /\ UNCHANGED <<stage, run, cut>>
    BY <1>2, WorksFacts
  <2> QED
    BY <2>1, <2>2, <2>3 DEF Control, InLoop
<1>3. CASE Away
  <2>1. /\ ~InHarness' /\ pc' \in {"idle", "beacon"}
        /\ UNCHANGED <<manifests, prereqs, failing, run>>
    BY <1>3, AwayFacts DEF progress
  <2>2. CASE Stops
    <3>1. stage' = "publish" /\ pc' = "idle" /\ run >= 1
      BY <2>2 DEF Stops, Gate, LoadManifest, TestRaises, Return, Cut, Ends, InHarness, Control,
                  TypeOK, InLoop
    <3> QED
      BY <2>1, <3>1 DEF Control, InLoop
  <2>3. CASE Publishes
    <3>1. stage = "publish" /\ stage' # "verify" /\ (pc' = "beacon" => stage' = "publish")
      BY <2>3 DEF Publishes, BeaconStarts, BeaconFails, JqFails, Skip, Publish, BeaconEnds,
                  PublishingEnds, Control
    <3> QED
      BY <2>1, <3>1 DEF Control, InLoop
  <2>4. CASE Rests
    <3>1. stage # "verify" /\ pc' = pc /\ pc # "beacon"
      BY <2>4 DEF Rests, Reboot, Login, Again, Control
    <3>2. stage' = "verify" => run < MaxRuns[manifests]
      BY <2>4 DEF Rests, Reboot, Login, Again
    <3> QED
      BY <2>1, <3>1, <3>2 DEF Control, InLoop
  <2> QED
    BY <1>3, <2>2, <2>3, <2>4 DEF Away
<1>4. CASE UNCHANGED vars
  BY <1>4 DEF vars, Control, InLoop, progress, history
<1> QED
  BY <1>1, <1>2, <1>3, <1>4, NextSteps

----------------------------------------------------------------------------
(* What runs *)

\* An invocation has one entry for each of its manifests, all of them installed,
\* and the tests of an entry are tests of its manifest.
LEMMA EntriesFacts ==
  ASSUME manifests \in Installations, request \in Requests
  PROVE  /\ Len(Entries) \in Nat /\ DOMAIN Entries = 1 .. Len(Entries)
         /\ \A j, k \in 1 .. Len(Entries) : Entries[j].version = Entries[k].version => j = k
         /\ \A k \in 1 .. Len(Entries) :
              /\ Entries[k].version \in DOMAIN manifests
              /\ Entries[k].filters \in Seq(Range(request))
              /\ TestsOf(Entries[k]) \in Seq(Range(manifests[Entries[k].version].tests))
<1>1. Covers(Entries, request)
  BY DiscoverCovers DEF Entries
<1>2. Entries \in Seq(EntrySet(request))
      /\ \A j, k \in 1 .. Len(Entries) : Entries[j].version = Entries[k].version => j = k
  BY <1>1 DEF Covers
<1>3. Len(Entries) \in Nat /\ DOMAIN Entries = 1 .. Len(Entries)
      /\ \A k \in 1 .. Len(Entries) : Entries[k] \in EntrySet(request)
  BY <1>2
<1>4. ASSUME NEW k \in 1 .. Len(Entries)
      PROVE  /\ Entries[k].version \in DOMAIN manifests
             /\ Entries[k].filters \in Seq(Range(request))
             /\ TestsOf(Entries[k]) \in Seq(Range(manifests[Entries[k].version].tests))
  <2> DEFINE v == Entries[k].version
             S == Range(manifests[v].tests)
             F == Range(request)
  <2>1. v \in DOMAIN manifests /\ Entries[k].filters \in Seq(F)
    BY <1>3 DEF EntrySet
  <2>2. manifests[v].tests \in Seq(S)
    BY <2>1, ManifestFacts
  <2> HIDE DEF S, F
  <2>3. FilterTests(manifests[v].tests, Entries[k].filters) \in Seq(S)
    BY <2>1, <2>2, FilterFacts
  <2> QED
    BY <2>1, <2>3 DEF S, F, TestsOf
<1> QED
  BY <1>2, <1>3, <1>4

\* The certification that is being executed is the last one loaded.
LEMMA CertFacts ==
  ASSUME TypeOK, Walk, InHarness, Loaded >= 1
  PROVE  /\ Loaded \in 1 .. Len(Entries)
         /\ cert.version = Entries[Loaded].version /\ cert.tests = TestsOf(Entries[Loaded])
         /\ cert.version \in DOMAIN manifests /\ cert.version \in Versions
         /\ cert.tests = FilterTests(Manifest.tests, Entries[Loaded].filters)
         /\ cert.tests \in Seq(Range(Manifest.tests))
<1>1. Loaded \in 1 .. Len(Entries)
  BY EntriesFacts DEF Walk, TypeOK
<1>2. cert = [version |-> Entries[Loaded].version, tests |-> TestsOf(Entries[Loaded])]
  BY DEF Walk
<1>3. cert.version = Entries[Loaded].version /\ cert.tests = TestsOf(Entries[Loaded])
  BY <1>2
<1>4. /\ cert.version \in DOMAIN manifests
      /\ TestsOf(Entries[Loaded]) \in Seq(Range(manifests[cert.version].tests))
  BY <1>1, <1>3, EntriesFacts DEF TypeOK
<1>5. cert.version \in Versions
  BY <1>4, ManifestFacts DEF TypeOK
<1> QED
  BY <1>1, <1>3, <1>4, <1>5 DEF Manifest, TestsOf

\* The next entry becomes the certification that is executed.
LEMMA LoadFacts ==
  ASSUME TypeOK, Control, Walk, LoadGoesOn
  PROVE  /\ pc = "next" /\ InHarness
         /\ pc' = IF cert'.tests = <<>> THEN "next" ELSE "tests"
         /\ Loaded' = Loaded + 1 /\ Loaded' \in 1 .. Len(Entries) /\ Loaded \in Nat
         /\ Entries' = Entries /\ Len(Entries) \in Nat
         /\ queue' \in Seq(Range(Entries))
         /\ \A k \in 1 .. Len(queue') : queue'[k] = Entries[Loaded' + k]
         /\ cert' = [version |-> Entries[Loaded'].version, tests |-> TestsOf(Entries[Loaded'])]
         /\ results' = <<>> /\ overall' = "pass" /\ ~Malformed(manifests[cert'.version])
         /\ UNCHANGED <<manifests, request, stage, prereqs, failing, files, issues, run, ran,
                        finished, cut>>
<1> DEFINE e == Head(queue)
           S == Range(Entries)
<1>1. /\ pc = "next" /\ queue # <<>> /\ queue' = Tail(queue)
      /\ ~Malformed(manifests[e.version])
      /\ cert' = [version |-> e.version, tests |-> FilterTests(manifests[e.version].tests, e.filters)]
      /\ pc' = IF FilterTests(manifests[e.version].tests, e.filters) = <<>> THEN "next" ELSE "tests"
      /\ results' = <<>> /\ overall' = "pass"
      /\ UNCHANGED <<manifests, request, stage, prereqs, failing, files, issues, run, ran,
                     finished, cut>>
  BY DEF LoadGoesOn, LoadManifest, Ends, files
<1>2. InHarness
  BY <1>1 DEF InHarness, Control, InLoop
<1>3. /\ queue \in Seq(S) /\ Loaded \in 0 .. Len(Entries)
      /\ \A k \in 1 .. Len(queue) : queue[k] = Entries[Loaded + k]
  BY <1>2 DEF Walk
<1>4. Entries' = Entries
  BY <1>1, SameEntries
<1>5. Len(Entries) \in Nat
  BY EntriesFacts DEF TypeOK
<1> HIDE DEF S
<1>6. /\ queue' \in Seq(S) /\ Len(queue') = Len(queue) - 1 /\ Len(queue) >= 1
      /\ e = queue[1]
      /\ \A k \in 1 .. Len(queue') : queue'[k] = queue[k + 1]
  BY <1>1, <1>3
<1>7. Loaded' = Loaded + 1 /\ Loaded' \in 1 .. Len(Entries)
  <2>1. Loaded = Len(Entries) - Len(queue) /\ Loaded' = Len(Entries) - Len(queue')
    BY <1>4 DEF Loaded
  <2>2. Len(queue) \in Nat /\ Len(queue') \in Nat
    BY <1>3, <1>6
  <2> QED
    BY <1>3, <1>5, <1>6, <2>1, <2>2
<1>8. e = Entries[Loaded']
  <2>1. 1 \in 1 .. Len(queue)
    BY <1>3, <1>6
  <2> QED
    BY <1>3, <1>6, <1>7, <2>1
<1>9. cert' = [version |-> Entries[Loaded'].version, tests |-> TestsOf(Entries[Loaded'])]
  BY <1>1, <1>8 DEF TestsOf
<1>10. \A k \in 1 .. Len(queue') : queue'[k] = Entries[Loaded' + k]
  <2> SUFFICES ASSUME NEW k \in 1 .. Len(queue') PROVE queue'[k] = Entries[Loaded' + k]
    OBVIOUS
  <2>1. k + 1 \in 1 .. Len(queue) /\ queue'[k] = queue[k + 1]
    BY <1>3, <1>6
  <2>2. queue[k + 1] = Entries[Loaded + (k + 1)]
    BY <1>3, <2>1
  <2>3. Loaded + (k + 1) = Loaded' + k
    BY <1>3, <1>6, <1>7
  <2> QED
    BY <2>1, <2>2, <2>3
<1>11. pc' = IF cert'.tests = <<>> THEN "next" ELSE "tests"
  BY <1>1
<1>12. ~Malformed(manifests[cert'.version])
  BY <1>1
<1>13. Loaded \in Nat
  BY <1>3, <1>5
<1> QED
  BY <1>1, <1>2, <1>4, <1>5, <1>6, <1>7, <1>9, <1>10, <1>11, <1>12, <1>13 DEF S

\* The walk goes on with the manifests that are left.
LEMMA WalkKept ==
  ASSUME TypeOK, Control, Walk, [Next]_vars
  PROVE  Walk'
<1>1. ASSUME NEW filters \in Requests, Start(filters), InHarness' PROVE Walk'
  <2>1. /\ queue' = DiscoverManifests(filters) /\ manifests' = manifests /\ request' = filters
        /\ queue' # <<>> /\ pc' = "prereqs"
    <3>1. CASE queue' = <<>>
      BY <1>1, <3>1 DEF Start, Ends, InHarness
    <3>2. CASE queue' # <<>>
      BY <1>1, <3>2 DEF Start
    <3> QED
      BY <3>1, <3>2
  <2>2. Entries' = queue'
    <3>1. DiscoverManifests(filters)' = DiscoverManifests(filters)
      BY <2>1, SameManifests
    <3> QED
      BY <2>1, <3>1 DEF Entries
  <2>3. queue' \in Seq(EntrySet(filters))
    BY <2>1, DiscoverCovers DEF Covers, TypeOK
  <2>4. Len(queue') \in Nat /\ queue' \in Seq(Range(queue'))
    BY <2>3 DEF Range
  <2>5. Loaded' = 0
    BY <2>2, <2>4 DEF Loaded
  <2>6. \A k \in 1 .. Len(queue') : queue'[k] = Entries'[0 + k]
    BY <2>2
  <2> QED
    BY <2>1, <2>2, <2>4, <2>5, <2>6 DEF Walk
<1>2. ASSUME Works, ~LoadGoesOn PROVE Walk'
  <2>1. UNCHANGED <<manifests, request, queue, cert, stage>>
    <3>1. ASSUME NEW r \in Outcomes, Prerequisite(r) \/ RunTest(r) PROVE UNCHANGED <<queue, cert>>
      BY <3>1 DEF Prerequisite, RunTest
    <3>2. GateOpens \/ WriteJson \/ WriteMarkdown => UNCHANGED <<queue, cert>>
      BY DEF GateOpens, Gate, WriteJson, WriteMarkdown, progress
    <3> QED
      BY <1>2, <3>1, <3>2, WorksFacts DEF Works
  <2>2. Entries' = Entries /\ Manifest' = Manifest
    BY <2>1, SameEntries DEF Manifest
  <2>3. Loaded' = Loaded
    BY <2>1, <2>2 DEF Loaded
  <2>4. InHarness
    BY <1>2, WorksFacts DEF InHarness, Control, InLoop
  <2>5. pc' \in {"tests", "markdown"} => pc \in {"tests", "markdown"}
    <3>1. ASSUME NEW r \in Outcomes, Prerequisite(r) \/ RunTest(r) PROVE pc' = pc
      BY <3>1 DEF Prerequisite, RunTest
    <3>2. GateOpens \/ WriteJson \/ WriteMarkdown =>
            pc' = "next" \/ (pc = "tests" /\ pc' = "markdown")
      BY DEF GateOpens, WriteJson, WriteMarkdown
    <3> QED
      BY <1>2, <3>1, <3>2 DEF Works
  <2>6. pc' = "prereqs" => pc = "prereqs"
    BY <1>2, WorksFacts
  <2>7. pc' = "markdown" => Len(results') = Len(cert'.tests)
    <3>1. ASSUME NEW r \in Outcomes, Prerequisite(r) \/ RunTest(r) PROVE pc' # "markdown"
      BY <3>1 DEF Prerequisite, RunTest
    <3>2. WriteJson => Len(results) = Len(cert.tests) /\ UNCHANGED <<results, cert>>
      BY DEF WriteJson, progress
    <3>3. GateOpens \/ WriteMarkdown => pc' # "markdown"
      BY DEF GateOpens, WriteMarkdown
    <3> QED
      BY <1>2, <3>1, <3>2, <3>3 DEF Works
  <2>8. TestsOf(Entries[Loaded])' = TestsOf(Entries[Loaded])
    BY <2>1, <2>2, <2>3 DEF TestsOf
  <2>9. Loaded >= 1 => /\ cert = [version |-> Entries[Loaded].version, tests |-> TestsOf(Entries[Loaded])]
                       /\ ~Malformed(Manifest)
    BY <2>4 DEF Walk
  <2>10. Loaded' >= 1 => /\ cert' = [version |-> Entries[Loaded].version, tests |-> TestsOf(Entries[Loaded])]'
                         /\ ~Malformed(Manifest')
    BY <2>1, <2>2, <2>3, <2>8, <2>9
  <2>11. Malformed(Manifest)' <=> Malformed(Manifest')
    BY DEF Malformed
  <2>12. /\ queue' \in Seq(Range(Entries'))
         /\ Loaded' \in 0 .. Len(Entries')
         /\ \A k \in 1 .. Len(queue') : queue'[k] = Entries'[Loaded' + k]
         /\ pc' = "prereqs" => Loaded' = 0
         /\ pc' \in {"tests", "markdown"} => Loaded' >= 1
    BY <2>1, <2>2, <2>3, <2>4, <2>5, <2>6 DEF Walk
  <2> QED
    BY <2>7, <2>10, <2>11, <2>12 DEF Walk
<1>3. CASE LoadGoesOn
  <2>1. /\ pc' \in {"next", "tests"} /\ Loaded' = Loaded + 1 /\ Loaded' \in 1 .. Len(Entries)
        /\ Entries' = Entries /\ Len(Entries) \in Nat
        /\ queue' \in Seq(Range(Entries))
        /\ \A k \in 1 .. Len(queue') : queue'[k] = Entries[Loaded' + k]
        /\ cert' = [version |-> Entries[Loaded'].version, tests |-> TestsOf(Entries[Loaded'])]
        /\ manifests' = manifests /\ ~Malformed(manifests[cert'.version])
    BY <1>3, LoadFacts
  <2>2. /\ TestsOf(Entries[Loaded])' = TestsOf(Entries[Loaded'])
        /\ Malformed(Manifest)' <=> Malformed(manifests[cert'.version])
    BY <2>1 DEF TestsOf, Manifest, Malformed
  <2>3. Loaded' \in 0 .. Len(Entries') /\ Loaded' >= 1
    BY <2>1
  <2> QED
    BY <2>1, <2>2, <2>3 DEF Walk
<1>4. CASE ~InHarness'
  BY <1>4 DEF Walk
<1>5. CASE UNCHANGED vars
  <2>1. UNCHANGED <<manifests, request, queue, cert, stage, pc, results>>
    BY <1>5 DEF vars, progress
  <2>2. Entries' = Entries /\ Manifest' = Manifest
    BY <2>1, SameEntries DEF Manifest
  <2>3. Loaded' = Loaded /\ (InHarness' <=> InHarness)
    BY <2>1, <2>2 DEF Loaded, InHarness
  <2>4. TestsOf(Entries[Loaded])' = TestsOf(Entries[Loaded])
    BY <2>1, <2>2, <2>3 DEF TestsOf
  <2>5. Malformed(Manifest)' <=> Malformed(Manifest)
    BY <2>2 DEF Malformed
  <2> QED
    BY <2>1, <2>2, <2>3, <2>4, <2>5 DEF Walk
<1> QED
  <2>1. CASE Away
    BY <1>4, <2>1, AwayFacts
  <2> QED
    BY <1>1, <1>2, <1>3, <1>4, <1>5, <2>1, NextSteps DEF Works

\* The record that a step of RunTest adds to the history.
NewRecord(r) ==
  [run |-> run, version |-> cert.version, result |-> r, test |-> cert.tests[Len(results) + 1].name]

\* A test that runs is one of the manifest that has been loaded.
LEMMA RunTestFacts ==
  ASSUME TypeOK, Control, Walk, NEW r \in Outcomes, RunTest(r)
  PROVE  /\ pc = "tests" /\ pc' = "tests" /\ InHarness /\ Loaded >= 1
         /\ Len(results) + 1 \in 1 .. Len(cert.tests) /\ Len(results) \in Nat
         /\ results' = Append(results, r) /\ ran' = ran \cup {NewRecord(r)}
         /\ NewRecord(r) \in [run : 1 .. run, version : DOMAIN manifests, test : TestNames, result : Outcomes]
         /\ UNCHANGED <<manifests, request, stage, queue, cert, run, files, issues, finished, cut>>
<1>1. /\ pc = "tests" /\ pc' = "tests" /\ Len(results) < Len(cert.tests)
      /\ results' = Append(results, r) /\ ran' = ran \cup {NewRecord(r)}
      /\ UNCHANGED <<manifests, request, stage, queue, cert, run, files, issues, finished, cut>>
  BY DEF RunTest, NewRecord, files
<1>2. InHarness /\ run >= 1
  BY <1>1 DEF InHarness, Control, InLoop
<1>3. Loaded >= 1
  BY <1>1, <1>2 DEF Walk
<1>4. /\ cert.version \in DOMAIN manifests
      /\ cert.tests \in Seq(Range(Manifest.tests))
  BY <1>2, <1>3, CertFacts
<1>5. Len(results) \in Nat /\ Len(results) + 1 \in 1 .. Len(cert.tests)
  BY <1>1, <1>4 DEF TypeOK
<1>6. cert.tests[Len(results) + 1].name \in TestNames
  <2>1. cert.tests[Len(results) + 1] \in Range(manifests[cert.version].tests)
    BY <1>4, <1>5 DEF Manifest
  <2> QED
    BY <1>4, <2>1 DEF TestNames
<1>7. run \in 1 .. run
  BY <1>2, CertificationAssumption DEF TypeOK
<1> QED
  BY <1>1, <1>2, <1>3, <1>4, <1>5, <1>6, <1>7 DEF NewRecord

\* Every step keeps it so.
LEMMA RanKept ==
  ASSUME TypeOK, Control, Walk, RanOfThis, [Next]_vars
  PROVE  RanOfThis'
<1>1. ASSUME NEW filters \in Requests, Start(filters) PROVE RanOfThis'
  <2>1. run' = run + 1 /\ UNCHANGED <<manifests, ran>> /\ run \in Nat
    BY <1>1, CertificationAssumption DEF Start, history, TypeOK
  <2>2. 1 .. run \subseteq 1 .. run' /\ TestNames' = TestNames
    BY <2>1, SameManifests
  <2> QED
    BY <2>1, <2>2 DEF RanOfThis
<1>2. ASSUME NEW r \in Outcomes, RunTest(r) PROVE RanOfThis'
  <2>1. UNCHANGED <<manifests, run>> /\ ran' = ran \cup {NewRecord(r)}
        /\ NewRecord(r) \in [run : 1 .. run, version : DOMAIN manifests, test : TestNames, result : Outcomes]
    BY <1>2, RunTestFacts
  <2>2. TestNames' = TestNames
    BY <2>1, SameManifests
  <2> QED
    BY <2>1, <2>2 DEF RanOfThis
<1>3. ASSUME UNCHANGED <<manifests, run, ran>> PROVE RanOfThis'
  BY <1>3, SameManifests DEF RanOfThis
<1>4. Works => UNCHANGED <<manifests, run, ran>> \/ \E r \in Outcomes : RunTest(r)
  <2>1. ASSUME NEW r \in Outcomes, Prerequisite(r) PROVE ran' = ran
    BY <2>1 DEF Prerequisite, history
  <2>2. GateOpens \/ LoadGoesOn \/ WriteJson \/ WriteMarkdown => ran' = ran
    BY DEF GateOpens, Gate, LoadGoesOn, LoadManifest, WriteJson, WriteMarkdown, history
  <2> QED
    BY <2>1, <2>2, WorksFacts DEF Works
<1>5. Away => UNCHANGED <<manifests, run, ran>>
  BY AwayFacts
<1>6. UNCHANGED vars => UNCHANGED <<manifests, run, ran>>
  BY DEF vars, history
<1> QED
  BY <1>1, <1>2, <1>3, <1>4, <1>5, <1>6, NextSteps

\* What Ledger says of this invocation.
RanByNow ==
  /\ \A x \in ran : x.run = run => \E k \in 1 .. Loaded : x.version = Entries[k].version
  /\ \A k \in 1 .. Loaded : Over(k) =>
       {x.test : x \in Recorded(k)} = {t.name : t \in Range(TestsOf(Entries[k]))}
  /\ pc \in {"tests", "markdown"} =>
       Recorded(Loaded) = {[run |-> run, version |-> cert.version, result |-> results[j],
                            test |-> cert.tests[j].name] : j \in DOMAIN results}

\* What has run in this invocation stays what its entries so far ask for, each
\* test with its one result.
LEMMA LedgerKept ==
  ASSUME TypeOK, Control, Walk, Ledger, [Next]_vars
  PROVE  Ledger'
<1>0. RanOfThis'
  BY RanKept DEF Ledger
<1> SUFFICES ASSUME InHarness' PROVE RanByNow'
  BY <1>0 DEF Ledger, RanByNow
<1>1. ASSUME NEW filters \in Requests, Start(filters) PROVE RanByNow'
  <2>1. /\ queue' = DiscoverManifests(filters) /\ manifests' = manifests /\ request' = filters
        /\ run' = run + 1 /\ ran' = ran /\ pc' \notin {"tests", "markdown"}
    BY <1>1 DEF Start, Ends, history
  <2>2. Entries' = queue'
    <3>1. DiscoverManifests(filters)' = DiscoverManifests(filters)
      BY <2>1, SameManifests
    <3> QED
      BY <2>1, <3>1 DEF Entries
  <2>3. queue' \in Seq(EntrySet(filters))
    BY <2>1, DiscoverCovers DEF Covers, TypeOK
  <2>4. Loaded' = 0
    BY <2>2, <2>3 DEF Loaded
  <2>5. \A x \in ran' : x.run # run'
    <3>1. run \in Nat
      BY CertificationAssumption DEF TypeOK
    <3> QED
      BY <2>1, <3>1 DEF Ledger, RanOfThis
  <2> QED
    BY <2>1, <2>4, <2>5 DEF RanByNow
<1>2. ASSUME InHarness, UNCHANGED <<manifests, request, queue, cert, results, run, ran>>,
             pc' \in {"tests", "markdown"} => pc \in {"tests", "markdown"},
             pc' = "next" => pc = "next" \/ Loaded = 0
      PROVE  RanByNow'
  <2>1. Entries' = Entries
    BY <1>2, SameEntries
  <2>2. Loaded' = Loaded /\ Loaded \in Nat
    BY <1>2, <2>1 DEF Loaded, Walk
  <2>3. \A k \in 1 .. Loaded : Over(k)' => Over(k)
    BY <1>2, <2>2 DEF Over
  <2>4. \A k : Recorded(k)' = Recorded(k)
    BY <1>2, <2>1 DEF Recorded
  <2>5. \A k : TestsOf(Entries[k])' = TestsOf(Entries[k])
    BY <1>2, <2>1 DEF TestsOf
  <2>6. Recorded(Loaded)' = Recorded(Loaded)
    BY <1>2, <2>1, <2>2 DEF Recorded
  <2>7. RanByNow
    BY <1>2 DEF Ledger, RanByNow
  <2> QED
    BY <1>2, <2>1, <2>2, <2>3, <2>4, <2>5, <2>6, <2>7 DEF RanByNow
<1>3. ASSUME NEW r \in Outcomes, RunTest(r) PROVE RanByNow'
  <2> DEFINE n == Len(results)
             rec(j) == [run |-> run, version |-> cert.version, result |-> results[j],
                        test |-> cert.tests[j].name]
  <2>1. /\ pc = "tests" /\ pc' = "tests" /\ InHarness /\ Loaded >= 1
        /\ n + 1 \in 1 .. Len(cert.tests) /\ n \in Nat
        /\ results' = Append(results, r) /\ ran' = ran \cup {NewRecord(r)}
        /\ UNCHANGED <<manifests, request, queue, cert, run>>
    BY <1>3, RunTestFacts
  <2>2. Entries' = Entries /\ Loaded' = Loaded
    BY <2>1, SameEntries DEF Loaded
  <2>3. /\ Loaded \in 1 .. Len(Entries) /\ cert.version = Entries[Loaded].version
        /\ Len(Entries) \in Nat
        /\ \A j, k \in 1 .. Len(Entries) : Entries[j].version = Entries[k].version => j = k
    BY <2>1, CertFacts, EntriesFacts DEF TypeOK
  <2>4. NewRecord(r).run = run /\ NewRecord(r).version = cert.version
    BY DEF NewRecord
  <2>5. \A k \in 1 .. Loaded : Over(k)' => Over(k) /\ k # Loaded
    BY <2>1, <2>2, <2>3 DEF Over
  <2>6. \A k \in 1 .. Loaded : k # Loaded => Recorded(k)' = Recorded(k)
    <3> SUFFICES ASSUME NEW k \in 1 .. Loaded, k # Loaded PROVE Recorded(k)' = Recorded(k)
      OBVIOUS
    <3>1. Entries[k].version # cert.version
      BY <2>3
    <3> QED
      BY <2>1, <2>2, <2>4, <3>1 DEF Recorded
  <2>7. Recorded(Loaded)' = Recorded(Loaded) \cup {NewRecord(r)}
    BY <2>1, <2>2, <2>3, <2>4 DEF Recorded
  <2>8. RanByNow
    BY <2>1 DEF Ledger, RanByNow
  <2>9. Recorded(Loaded)' = {[run |-> run', version |-> cert'.version, result |-> results'[j],
                              test |-> cert'.tests[j].name] : j \in DOMAIN results'}
    <3>1. Recorded(Loaded) = {rec(j) : j \in 1 .. n}
      <4>1. DOMAIN results = 1 .. n
        BY DEF TypeOK
      <4> QED
        BY <2>1, <2>8, <4>1 DEF RanByNow
    <3>2. DOMAIN results' = 1 .. n + 1 /\ results'[n + 1] = r
          /\ \A j \in 1 .. n : results'[j] = results[j]
      <4>1. results \in Seq(Outcomes)
        BY DEF TypeOK
      <4> QED
        BY <2>1, <4>1
    <3> DEFINE new(j) == [run |-> run, version |-> cert.version, result |-> results'[j],
                          test |-> cert.tests[j].name]
    <3>3. \A j \in 1 .. n : new(j) = rec(j)
      BY <3>2
    <3>4. new(n + 1) = NewRecord(r)
      BY <3>2 DEF NewRecord
    <3> HIDE DEF rec, new
    <3>5. {new(j) : j \in 1 .. n + 1} = {rec(j) : j \in 1 .. n} \cup {NewRecord(r)}
      <4>1. 1 .. n + 1 = (1 .. n) \cup {n + 1}
        BY <2>1
      <4> QED
        BY <3>3, <3>4, <4>1
    <3>6. Recorded(Loaded)' = {new(j) : j \in 1 .. n + 1}
      BY <2>7, <3>1, <3>5
    <3> QED
      BY <2>1, <3>2, <3>6 DEF new
  <2>10. \A x \in ran' : x.run = run' => \E k \in 1 .. Loaded' : x.version = Entries'[k].version
    <3>1. Loaded \in 1 .. Loaded
      BY <2>3
    <3> QED
      BY <2>1, <2>2, <2>3, <2>4, <2>8, <3>1 DEF RanByNow
  <2>11. \A k : TestsOf(Entries[k])' = TestsOf(Entries[k])
    BY <2>1, <2>2 DEF TestsOf
  <2>12. \A k \in 1 .. Loaded' : Over(k)' =>
           {x.test : x \in Recorded(k)'} = {t.name : t \in Range(TestsOf(Entries[k])')}
    <3> SUFFICES ASSUME NEW k \in 1 .. Loaded, Over(k)'
                 PROVE  {x.test : x \in Recorded(k)'} = {t.name : t \in Range(TestsOf(Entries[k])')}
      BY <2>2
    <3>1. Over(k) /\ Recorded(k)' = Recorded(k) /\ TestsOf(Entries[k])' = TestsOf(Entries[k])
      BY <2>5, <2>6, <2>11
    <3> QED
      BY <2>8, <3>1 DEF RanByNow
  <2> QED
    BY <2>9, <2>10, <2>12 DEF RanByNow
<1>4. ASSUME LoadGoesOn PROVE RanByNow'
  <2>1. /\ pc = "next" /\ InHarness
        /\ pc' = IF cert'.tests = <<>> THEN "next" ELSE "tests"
        /\ Loaded' = Loaded + 1 /\ Loaded' \in 1 .. Len(Entries) /\ Loaded \in Nat
        /\ Entries' = Entries /\ Len(Entries) \in Nat
        /\ cert' = [version |-> Entries[Loaded'].version, tests |-> TestsOf(Entries[Loaded'])]
        /\ results' = <<>> /\ UNCHANGED <<manifests, request, run, ran>>
    BY <1>4, LoadFacts
  <2>2. RanByNow
    BY <2>1 DEF Ledger, RanByNow
  <2>3. \A j, k \in 1 .. Len(Entries) : Entries[j].version = Entries[k].version => j = k
    BY EntriesFacts DEF TypeOK
  <2>4. \A k : Recorded(k)' = Recorded(k) /\ TestsOf(Entries[k])' = TestsOf(Entries[k])
    BY <2>1 DEF Recorded, TestsOf
  <2>5. Recorded(Loaded)' = {}
    <3>1. Recorded(Loaded)' = {x \in ran : x.run = run /\ x.version = Entries[Loaded'].version}
      BY <2>1 DEF Recorded
    <3>2. ASSUME NEW x \in ran, x.run = run, x.version = Entries[Loaded'].version PROVE FALSE
      <4>1. PICK k \in 1 .. Loaded : x.version = Entries[k].version
        BY <2>2, <3>2 DEF RanByNow
      <4>2. k \in 1 .. Len(Entries) /\ k # Loaded'
        BY <2>1
      <4> QED
        BY <2>1, <2>3, <3>2, <4>1, <4>2
    <3> QED
      BY <3>1, <3>2
  <2>6. \A k \in 1 .. Loaded : Over(k)
    BY <2>1 DEF Over
  <2>7. \A k \in 1 .. Loaded' : k \in 1 .. Loaded \/ k = Loaded'
    BY <2>1
  <2>8. \A x \in ran' : x.run = run' => \E k \in 1 .. Loaded' : x.version = Entries'[k].version
    <3>1. 1 .. Loaded \subseteq 1 .. Loaded'
      BY <2>1
    <3> QED
      BY <2>1, <2>2, <3>1 DEF RanByNow
  <2>9. \A k \in 1 .. Loaded' : Over(k)' =>
          {x.test : x \in Recorded(k)'} = {t.name : t \in Range(TestsOf(Entries[k])')}
    <3> SUFFICES ASSUME NEW k \in 1 .. Loaded', Over(k)'
                 PROVE  {x.test : x \in Recorded(k)} = {t.name : t \in Range(TestsOf(Entries[k]))}
      BY <2>4
    <3>1. CASE k \in 1 .. Loaded
      BY <2>2, <2>6, <3>1 DEF RanByNow
    <3>2. CASE k = Loaded'
      <4>1. pc' = "next"
        BY <3>2, <2>1 DEF Over
      <4>2. TestsOf(Entries[k]) = <<>>
        BY <2>1, <3>2, <4>1
      <4>3. Range(TestsOf(Entries[k])) = {}
        BY <4>2 DEF Range
      <4>4. Recorded(k) = {}
        <5>1. Recorded(k)' = {x \in ran' : x.run = run' /\ x.version = Entries'[k].version}
          BY DEF Recorded
        <5>2. Recorded(Loaded)' = {x \in ran' : x.run = run' /\ x.version = Entries'[Loaded'].version}
          BY DEF Recorded
        <5> QED
          BY <2>4, <2>5, <3>2, <5>1, <5>2
      <4> QED
        BY <4>3, <4>4
    <3> QED
      BY <2>7, <3>1, <3>2
  <2>10. {[run |-> run', version |-> cert'.version, result |-> results'[j],
           test |-> cert'.tests[j].name] : j \in DOMAIN results'} = {}
    BY <2>1
  <2> QED
    BY <2>5, <2>8, <2>9, <2>10 DEF RanByNow
<1>5. ASSUME WriteMarkdown PROVE RanByNow'
  <2>1. /\ pc = "markdown" /\ pc' = "next"
        /\ UNCHANGED <<manifests, request, queue, cert, results, run, ran>>
    BY <1>5 DEF WriteMarkdown
  <2>2. Entries' = Entries /\ Loaded' = Loaded
    BY <2>1, SameEntries DEF Loaded
  <2>3. InHarness /\ Loaded >= 1 /\ Len(results) = Len(cert.tests)
    <3>1. InHarness
      BY <2>1 DEF InHarness, Control, InLoop
    <3> QED
      BY <2>1, <3>1 DEF Walk
  <2>4. /\ Loaded \in 1 .. Len(Entries) /\ cert.tests = TestsOf(Entries[Loaded])
        /\ cert.tests \in Seq(Range(Manifest.tests))
    BY <2>3, CertFacts
  <2>5. RanByNow
    BY <2>3 DEF Ledger, RanByNow
  <2>6. \A k : Recorded(k)' = Recorded(k) /\ TestsOf(Entries[k])' = TestsOf(Entries[k])
    BY <2>1, <2>2 DEF Recorded, TestsOf
  <2>7. {x.test : x \in Recorded(Loaded)} = {t.name : t \in Range(TestsOf(Entries[Loaded]))}
    <3> DEFINE rec(j) == [run |-> run, version |-> cert.version, result |-> results[j],
                          test |-> cert.tests[j].name]
               n == Len(cert.tests)
    <3>1. DOMAIN results = 1 .. n /\ DOMAIN cert.tests = 1 .. n
      BY <2>3, <2>4 DEF TypeOK
    <3>2. Recorded(Loaded) = {rec(j) : j \in 1 .. n}
      BY <2>1, <2>5, <3>1 DEF RanByNow
    <3>3. Range(cert.tests) = {cert.tests[j] : j \in 1 .. n}
      BY <3>1 DEF Range
    <3>4. \A j \in 1 .. n : rec(j).test = cert.tests[j].name
      OBVIOUS
    <3> HIDE DEF rec, n
    <3> QED
      BY <2>4, <3>2, <3>3, <3>4
  <2>8. \A k \in 1 .. Loaded : Over(k) \/ k = Loaded
    BY <2>4, EntriesFacts DEF Over, TypeOK
  <2> QED
    BY <2>1, <2>2, <2>5, <2>6, <2>7, <2>8 DEF RanByNow
<1>6. Works => InHarness
  BY WorksFacts DEF InHarness, Control, InLoop
<1>7. ASSUME NEW r \in Outcomes, Prerequisite(r) PROVE RanByNow'
  <2>1. pc' = pc /\ pc = "prereqs" /\ UNCHANGED <<manifests, request, queue, cert, results, run, ran>>
    BY <1>7 DEF Prerequisite, history
  <2> QED
    BY <1>2, <1>6, <1>7, <2>1 DEF Works
<1>8. ASSUME GateOpens PROVE RanByNow'
  <2>1. /\ pc' = "next" /\ pc = "prereqs"
        /\ UNCHANGED <<manifests, request, queue, cert, results, run, ran>>
    BY <1>8 DEF GateOpens, Gate, progress, history
  <2>2. Loaded = 0
    BY <1>6, <1>8, <2>1 DEF Walk, Works
  <2> QED
    BY <1>2, <1>6, <1>8, <2>1, <2>2 DEF Works
<1>9. ASSUME WriteJson PROVE RanByNow'
  <2>1. /\ pc = "tests" /\ pc' = "markdown"
        /\ UNCHANGED <<manifests, request, queue, cert, results, run, ran>>
    BY <1>9 DEF WriteJson, progress, history
  <2> QED
    BY <1>2, <1>6, <1>9, <2>1 DEF Works
<1>10. ASSUME UNCHANGED vars PROVE RanByNow'
  <2>1. UNCHANGED <<stage, pc, manifests, request, queue, cert, results, run, ran>>
    BY <1>10 DEF vars, progress, history
  <2>2. InHarness
    BY <2>1 DEF InHarness
  <2> QED
    BY <1>2, <2>1, <2>2
<1>11. ~Away
  BY AwayFacts
<1> QED
  BY <1>1, <1>3, <1>4, <1>5, <1>7, <1>8, <1>9, <1>10, <1>11, NextSteps DEF Works

----------------------------------------------------------------------------
(* The reports *)

\* The two reports on a certification whose tests have all run.
LEMMA ReportFacts ==
  ASSUME TypeOK, Control, Walk, Ledger, pc \in {"tests", "markdown"}, Len(results) = Len(cert.tests)
  PROVE  /\ InHarness /\ Loaded >= 1
         /\ Report \in JsonReports /\ Whole(Report) /\ Sound(cert.version, Report)
         /\ Report.run = run /\ Report.result = overall /\ Report.certified = Certified
         /\ Report.certified \in {NoLevel} \cup Range(AllLevels(Manifest))
         /\ Range(Report.levels) \subseteq {"pass", "fail", "skip"}
         /\ Body \in MarkdownReports /\ Whole(Body) /\ Body.run = run
<1> DEFINE v == cert.version
           fs == Entries[Loaded].filters
<1>1. InHarness /\ Loaded >= 1 /\ ~Malformed(Manifest)
  <2>1. InHarness
    BY DEF InHarness, Control, InLoop
  <2> QED
    BY <2>1 DEF Walk
<1>2. /\ Loaded \in 1 .. Len(Entries) /\ v = Entries[Loaded].version /\ v \in DOMAIN manifests
      /\ cert.tests = FilterTests(Manifest.tests, fs)
  BY <1>1, CertFacts
<1>3. fs \in Seq(Range(request))
  BY <1>2, EntriesFacts DEF TypeOK
<1>4. run \in Nat
  BY CertificationAssumption DEF TypeOK
<1>5. Records(run, v, cert.tests, results)
  <2>1. Recorded(Loaded) = {[run |-> run, version |-> v, result |-> results[j],
                             test |-> cert.tests[j].name] : j \in DOMAIN results}
    BY <1>1 DEF Ledger
  <2> QED
    BY <1>2, <2>1 DEF Recorded, Records
<1>6. Taken(v, fs, results, run)
  BY <1>2, <1>3, <1>4, <1>5 DEF Taken, TypeOK, Manifest
<1>7. /\ Report.run = run /\ Report.result = overall /\ Report.certified = Certified
      /\ Report.levels = [k \in DOMAIN AllLevels(Manifest) |->
                            LevelResult(AllLevels(Manifest)[k], cert.tests, results)]
  BY DEF Report
<1>8. IsReportOn(Report, v, fs, results, run)
  BY <1>2, <1>7 DEF IsReportOn, Certified, Manifest
<1>9. /\ Sound(v, Report)
      /\ Report.certified \in {NoLevel} \cup Range(AllLevels(manifests[v]))
      /\ Report.levels \in Seq({"pass", "fail", "skip"})
  BY <1>1, <1>6, <1>8, ReportSound DEF Manifest
<1>10. Report.certified \in AnyLevel
  BY <1>2, <1>9 DEF AnyLevel, TypeOK
<1>11. Report.levels \in Seq(Outcomes \cup {"skip"})
  BY <1>9 DEF Outcomes
<1>12. Report \in JsonReports
  <2>1. Report = [run |-> Report.run, result |-> Report.result, certified |-> Report.certified,
                  levels |-> Report.levels]
    BY DEF Report
  <2>2. Report.run \in Nat /\ Report.result \in Outcomes
    BY <1>4, <1>7 DEF TypeOK
  <2> HIDE DEF v, fs
  <2> QED
    BY <1>10, <1>11, <2>1, <2>2 DEF JsonReports
<1>13. Body \in MarkdownReports /\ Body.run = run
  <2>1. Certified \in AnyLevel
    BY <1>7, <1>10
  <2> QED
    BY <1>4, <2>1 DEF Body, MarkdownReports
<1>14. Whole(Report) /\ Whole(Body)
  BY <1>12, <1>13, CertificationAssumption DEF Whole
<1>15. Range(Report.levels) \subseteq {"pass", "fail", "skip"}
  BY <1>9 DEF Range
<1> QED
  BY <1>1, <1>7, <1>9, <1>12, <1>13, <1>14, <1>15 DEF Manifest

\* What a process that is ended while it writes leaves.
LEMMA CutFacts ==
  ASSUME TypeOK, Control, Walk, OnDisk, Cut
  PROVE  /\ InHarness /\ pc # "beacon" /\ stage' = "publish" /\ pc' = "idle" /\ cut' = cut \cup {run}
         /\ UNCHANGED <<manifests, run, ran, finished, issues, toPublish>>
         /\ json' \in [Versions -> JsonReports \cup Torn \cup {NoFile}]
         /\ md' \in [Versions -> MarkdownReports \cup Torn \cup {NoFile}]
         /\ \A v \in Versions : json'[v] = json[v]
              \/ (pc = "tests" /\ Loaded >= 1 /\ v = cert.version /\ json'[v] \in Torn)
         /\ \A v \in Versions : md'[v] = md[v]
              \/ (pc = "markdown" /\ Loaded >= 1 /\ v = cert.version /\ md'[v] \in Torn)
<1>1. /\ InHarness /\ stage' = "publish" /\ pc' = "idle" /\ cut' = cut \cup {run}
      /\ UNCHANGED <<manifests, run, ran, finished, issues, toPublish>>
      /\ json' \in CutShort(json, pc = "tests" /\ Len(results) = Len(cert.tests))
      /\ md' \in CutShort(md, pc = "markdown")
  BY DEF Cut, Ends
<1>2. pc # "beacon"
  BY <1>1 DEF InHarness, Control
<1>3. pc \in {"tests", "markdown"} => Loaded >= 1 /\ cert.version \in Versions
  BY <1>1, CertFacts DEF Walk
<1>4. /\ json \in [Versions -> JsonReports \cup Torn \cup {NoFile}]
      /\ md \in [Versions -> MarkdownReports \cup Torn \cup {NoFile}]
  BY DEF OnDisk
<1>5. ASSUME NEW file, NEW X, file \in [Versions -> X \cup Torn \cup {NoFile}],
             NEW new \in {[file EXCEPT ![cert.version] = f] : f \in Torn \cup {file[cert.version]}},
             cert.version \in Versions
      PROVE  /\ new \in [Versions -> X \cup Torn \cup {NoFile}]
             /\ \A v \in Versions : new[v] = file[v] \/ (v = cert.version /\ new[v] \in Torn)
  <2>1. PICK f \in Torn \cup {file[cert.version]} : new = [file EXCEPT ![cert.version] = f]
    OBVIOUS
  <2>2. f \in X \cup Torn \cup {NoFile}
    BY <1>5
  <2> QED
    BY <1>5, <2>1, <2>2
<1>6. /\ json' \in [Versions -> JsonReports \cup Torn \cup {NoFile}]
      /\ \A v \in Versions : json'[v] = json[v]
           \/ (pc = "tests" /\ Loaded >= 1 /\ v = cert.version /\ json'[v] \in Torn)
  <2>1. CASE pc = "tests" /\ Len(results) = Len(cert.tests)
    <3>1. json' \in {[json EXCEPT ![cert.version] = f] : f \in Torn \cup {json[cert.version]}}
      BY <1>1, <2>1 DEF CutShort
    <3>2. /\ json' \in [Versions -> JsonReports \cup Torn \cup {NoFile}]
          /\ \A v \in Versions : json'[v] = json[v] \/ (v = cert.version /\ json'[v] \in Torn)
      BY <1>3, <1>4, <1>5, <2>1, <3>1
    <3> QED
      BY <1>3, <2>1, <3>2
  <2>2. CASE ~(pc = "tests" /\ Len(results) = Len(cert.tests))
    BY <1>1, <1>4, <2>2 DEF CutShort
  <2> QED
    BY <2>1, <2>2
<1>7. /\ md' \in [Versions -> MarkdownReports \cup Torn \cup {NoFile}]
      /\ \A v \in Versions : md'[v] = md[v]
           \/ (pc = "markdown" /\ Loaded >= 1 /\ v = cert.version /\ md'[v] \in Torn)
  <2>1. CASE pc = "markdown"
    <3>1. md' \in {[md EXCEPT ![cert.version] = f] : f \in Torn \cup {md[cert.version]}}
      BY <1>1, <2>1 DEF CutShort
    <3>2. /\ md' \in [Versions -> MarkdownReports \cup Torn \cup {NoFile}]
          /\ \A v \in Versions : md'[v] = md[v] \/ (v = cert.version /\ md'[v] \in Torn)
      BY <1>3, <1>4, <1>5, <2>1, <3>1
    <3> QED
      BY <1>3, <2>1, <3>2
  <2>2. CASE pc # "markdown"
    BY <1>1, <1>4, <2>2 DEF CutShort
  <2> QED
    BY <2>1, <2>2
<1> QED
  BY <1>1, <1>2, <1>6, <1>7

\* Of the steps that end the harness or follow it, those that leave the
\* reports alone.
LEMMA AwayFiles ==
  ASSUME TypeOK, Control, Away, ~Cut, ~Reboot
  PROVE  UNCHANGED <<json, md>> /\ cut \subseteq cut'
         /\ pc # "markdown" /\ (stage' = "off" => stage = "off")
<1>1. CASE Stops
  <2>1. Gate \/ TestRaises \/ Return =>
          /\ UNCHANGED <<json, md>> /\ cut \subseteq cut' /\ pc # "markdown"
          /\ (stage' = stage \/ stage' = "publish")
    BY DEF Gate, TestRaises, Return, Ends, files, history
  <2>2. LoadManifest => UNCHANGED <<json, md>> /\ cut \subseteq cut' /\ pc # "markdown"
                        /\ (stage' = stage \/ stage' = "publish")
    BY DEF LoadManifest, Ends, files
  <2> QED
    BY <1>1, <2>1, <2>2 DEF Stops
<1>2. CASE Publishes
  <2>1. UNCHANGED <<json, md, cut>>
    BY <1>2 DEF Publishes, BeaconStarts, BeaconFails, JqFails, Skip, Publish, BeaconEnds,
                HarnessAside, files, history
  <2>2. stage' # "off" \/ stage' = stage
    BY <1>2 DEF Publishes, BeaconStarts, BeaconFails, JqFails, Skip, Publish, BeaconEnds,
                PublishingEnds
  <2>3. stage = "publish"
    BY <1>2 DEF Publishes, BeaconStarts, BeaconFails, JqFails, Skip, Publish, BeaconEnds, Control
  <2> QED
    BY <2>1, <2>2, <2>3 DEF Control, InLoop
<1>3. CASE Login \/ Again
  <2>1. UNCHANGED <<json, md, cut>> /\ stage # "verify" /\ stage' # "off"
    BY <1>3 DEF Login, Again, files, history
  <2> QED
    BY <2>1 DEF Control, InLoop
<1> QED
  BY <1>1, <1>2, <1>3 DEF Away, Rests

\* While a manifest is loaded or a test runs the reports are left alone.
LEMMA WorksFiles ==
  ASSUME Works, ~WriteJson, ~WriteMarkdown
  PROVE  UNCHANGED <<json, md, finished>> /\ pc # "markdown" /\ pc' # "markdown"
<1>1. ASSUME NEW r \in Outcomes, Prerequisite(r) \/ RunTest(r)
      PROVE  UNCHANGED <<json, md, finished>> /\ pc # "markdown" /\ pc' # "markdown"
  BY <1>1 DEF Prerequisite, RunTest, files, history
<1>2. CASE GateOpens
  BY <1>2 DEF GateOpens, Gate, files, history
<1>3. CASE LoadGoesOn
  BY <1>3 DEF LoadGoesOn, LoadManifest, Ends, files
<1> QED
  BY <1>1, <1>2, <1>3 DEF Works

\* How the walk goes on during one step of the harness.
LEMMA WorksWalk ==
  ASSUME TypeOK, Control, Walk, Works
  PROVE  /\ InHarness /\ InHarness' /\ Entries' = Entries /\ Len(Entries) \in Nat
         /\ Loaded \in Nat /\ Loaded' \in 0 .. Len(Entries)
         /\ (Loaded' = Loaded \/ (LoadGoesOn /\ Loaded' = Loaded + 1))
         /\ ~LoadGoesOn => Loaded' = Loaded /\ cert' = cert
         /\ \A k \in 1 .. Loaded : Over(k) => Over(k)'
<1>1. InHarness /\ InHarness'
  BY WorksFacts DEF InHarness, Control, InLoop
<1>2. Entries' = Entries
  BY WorksFacts, SameEntries
<1>3. Len(Entries) \in Nat /\ Loaded \in 0 .. Len(Entries)
  BY <1>1, EntriesFacts DEF TypeOK, Walk
<1>4. CASE LoadGoesOn
  <2>1. Loaded' = Loaded + 1 /\ Loaded' \in 1 .. Len(Entries)
    BY <1>4, LoadFacts
  <2>2. \A k \in 1 .. Loaded : Over(k)'
    BY <1>3, <2>1 DEF Over
  <2> QED
    BY <1>1, <1>2, <1>3, <1>4, <2>1, <2>2
<1>5. CASE ~LoadGoesOn
  <2>1. UNCHANGED <<queue, cert>> /\ (pc = "next" => pc' = "next")
    <3>1. ASSUME NEW r \in Outcomes, Prerequisite(r) \/ RunTest(r)
          PROVE  UNCHANGED <<queue, cert>> /\ pc' = pc
      BY <3>1 DEF Prerequisite, RunTest
    <3>2. GateOpens \/ WriteJson \/ WriteMarkdown => UNCHANGED <<queue, cert>> /\ pc # "next"
      BY DEF GateOpens, Gate, WriteJson, WriteMarkdown, progress
    <3> QED
      BY <1>5, <3>1, <3>2 DEF Works
  <2>2. Loaded' = Loaded
    BY <1>2, <2>1 DEF Loaded
  <2>3. \A k \in 1 .. Loaded : Over(k) => Over(k)'
    BY <2>1, <2>2 DEF Over
  <2> QED
    BY <1>1, <1>2, <1>3, <1>5, <2>1, <2>2, <2>3
<1> QED
  BY <1>4, <1>5

\* A report on the disk stays one of an installed manifest and of a run that has
\* been; one of this run is of an entry that is over, and two files of different
\* runs are left only by a run that was cut short.
LEMMA OnDiskKept ==
  ASSUME TypeOK, Control, Walk, Ledger, OnDisk, [Next]_vars
  PROVE  OnDisk'
<1> DEFINE Within == \A v \in Versions : Whole(json[v]) /\ json[v].run = run =>
                       \E k \in 1 .. Loaded : Entries[k].version = v /\ (Over(k) \/ pc = "markdown")
<1>0. run \in Nat
  BY CertificationAssumption DEF TypeOK
\* The reports are left alone.
<1>1. ASSUME UNCHANGED <<json, md, manifests>>, run' \in Nat, run <= run', cut \subseteq cut',
             pc # "markdown", pc' # "markdown", InHarness' => Within'
      PROVE  OnDisk'
  <2>1. \A v \in Versions : Whole(json[v])' <=> Whole(json[v])
    BY <1>1 DEF Whole
  <2>2. 1 .. run \subseteq 1 .. run'
    BY <1>0, <1>1
  <2> QED
    BY <1>1, <2>1, <2>2 DEF OnDisk
<1>2. ASSUME NEW filters \in Requests, Start(filters) PROVE OnDisk'
  <2>1. /\ UNCHANGED <<json, md, manifests, cut>> /\ run' = run + 1
        /\ pc = "idle" /\ pc' # "markdown"
    BY <1>2 DEF Start, Ends, files, history
  <2>2. \A v \in Versions : ~(Whole(json[v])' /\ json'[v].run = run')
    BY <1>0, <2>1 DEF OnDisk, Whole
  <2> QED
    BY <1>0, <1>1, <2>1, <2>2
<1>3. ASSUME Works, ~WriteJson, ~WriteMarkdown PROVE OnDisk'
  <2>1. UNCHANGED <<json, md, manifests, run, cut>> /\ pc # "markdown" /\ pc' # "markdown"
    BY <1>3, WorksFacts, WorksFiles
  <2>2. /\ InHarness /\ Entries' = Entries /\ Loaded \in Nat
        /\ (Loaded' = Loaded \/ Loaded' = Loaded + 1)
        /\ \A k \in 1 .. Loaded : Over(k) => Over(k)'
    BY <1>3, WorksWalk
  <2>3. Within'
    <3> SUFFICES ASSUME NEW v \in Versions, Whole(json[v])', json'[v].run = run'
                 PROVE  \E k \in 1 .. Loaded' : Entries'[k].version = v /\ Over(k)'
      OBVIOUS
    <3>1. PICK k \in 1 .. Loaded : Entries[k].version = v /\ Over(k)
      BY <2>1, <2>2 DEF OnDisk, Whole
    <3>2. k \in 1 .. Loaded'
      BY <2>2
    <3> QED
      BY <2>2, <3>1, <3>2
  <2> QED
    BY <1>0, <1>1, <2>1, <2>3
<1>4. CASE WriteJson
  <2>1. /\ pc = "tests" /\ pc' = "markdown" /\ json' = [json EXCEPT ![cert.version] = Report]
        /\ Len(results) = Len(cert.tests)
        /\ UNCHANGED <<manifests, cert, results, overall, run, md, cut>>
    BY <1>4 DEF WriteJson, progress, history
  <2>2. /\ InHarness /\ Loaded >= 1 /\ Report \in JsonReports /\ Whole(Report) /\ Report.run = run
    BY <2>1, ReportFacts
  <2>3. /\ cert.version = Entries[Loaded].version /\ Loaded \in 1 .. Len(Entries)
        /\ cert.version \in Versions /\ cert.version \in DOMAIN manifests
    BY <2>2, CertFacts
  <2>4. json \in [Versions -> JsonReports \cup Torn \cup {NoFile}]
    BY DEF OnDisk
  <2>5. /\ json'[cert.version] = Report
        /\ \A v \in Versions : v # cert.version => json'[v] = json[v]
        /\ json' \in [Versions -> JsonReports \cup Torn \cup {NoFile}]
    BY <2>1, <2>2, <2>3, <2>4
  <2>6. /\ InHarness' /\ Entries' = Entries /\ Loaded' = Loaded
    BY <1>4, WorksWalk DEF Works, WriteJson, LoadGoesOn, LoadManifest
  <2>7. Report' = Report
    BY <2>1, SameCert
  <2>8. run \in 1 .. run
    BY <1>0, <2>1 DEF Control, InLoop
  <2>9. \A v \in Versions : Whole(json[v])' =>
          v \in DOMAIN manifests' /\ json'[v].run \in 1 .. run'
    BY <2>1, <2>2, <2>3, <2>5, <2>8 DEF OnDisk, Whole
  <2>10. \A v \in Versions : md'[v] # NoFile => json'[v] # NoFile
    BY <2>1, <2>2, <2>5 DEF OnDisk, Whole
  <2>11. Within'
    <3> SUFFICES ASSUME NEW v \in Versions, Whole(json[v])', json'[v].run = run'
                 PROVE  \E k \in 1 .. Loaded : Entries[k].version = v
      BY <2>1, <2>6
    <3>1. CASE v = cert.version
      BY <2>3, EntriesFacts, <3>1 DEF TypeOK
    <3>2. CASE v # cert.version
      BY <2>1, <2>2, <2>5, <3>2 DEF OnDisk, Whole
    <3> QED
      BY <3>1, <3>2
  <2>12. \A v \in Versions : Whole(json[v])' /\ md'[v] # NoFile
                             /\ (md'[v] \in Torn \/ md'[v].run # json'[v].run) =>
           json'[v].run \in cut' \/ (pc' = "markdown" /\ cert'.version = v)
    BY <2>1, <2>5 DEF OnDisk, Whole
  <2>13. json'[cert'.version] = Report'
    BY <2>1, <2>5, <2>7
  <2> QED
    BY <2>1, <2>5, <2>9, <2>10, <2>11, <2>12, <2>13 DEF OnDisk
<1>5. CASE WriteMarkdown
  <2>1. /\ pc = "markdown" /\ pc' = "next" /\ md' = [md EXCEPT ![cert.version] = Body]
        /\ UNCHANGED <<manifests, cert, run, json, cut>>
    BY <1>5 DEF WriteMarkdown
  <2>2. InHarness /\ Loaded >= 1 /\ Len(results) = Len(cert.tests)
    <3>1. InHarness
      BY <2>1 DEF InHarness, Control, InLoop
    <3> QED
      BY <2>1, <3>1 DEF Walk
  <2>3. /\ Report.run = run /\ Whole(Report) /\ Body \in MarkdownReports /\ Whole(Body) /\ Body.run = run
    BY <2>1, <2>2, ReportFacts
  <2>4. cert.version \in Versions /\ json[cert.version] = Report
    BY <2>1, <2>2, CertFacts DEF OnDisk
  <2>5. md \in [Versions -> MarkdownReports \cup Torn \cup {NoFile}]
    BY DEF OnDisk
  <2>6. /\ md'[cert.version] = Body
        /\ \A v \in Versions : v # cert.version => md'[v] = md[v]
        /\ md' \in [Versions -> MarkdownReports \cup Torn \cup {NoFile}]
    BY <2>1, <2>3, <2>4, <2>5
  <2>7. /\ Entries' = Entries /\ Loaded' = Loaded /\ Loaded \in Nat
    BY <1>5, <2>1, WorksWalk DEF Works, LoadGoesOn, LoadManifest
  <2>8. \A k \in 1 .. Loaded : Over(k)'
    BY <2>1, <2>7 DEF Over
  <2>9. Within'
    BY <2>1, <2>2, <2>7, <2>8 DEF OnDisk, Whole
  <2>10. \A v \in Versions : Whole(json[v])' =>
           v \in DOMAIN manifests' /\ json'[v].run \in 1 .. run'
    BY <2>1 DEF OnDisk, Whole
  <2>11. \A v \in Versions : md'[v] # NoFile => json'[v] # NoFile
    BY <2>1, <2>3, <2>4, <2>6 DEF OnDisk, Whole
  <2>12. \A v \in Versions : Whole(json[v])' /\ md'[v] # NoFile
                             /\ (md'[v] \in Torn \/ md'[v].run # json'[v].run) =>
           json'[v].run \in cut'
    <3> SUFFICES ASSUME NEW v \in Versions, Whole(json[v]), md'[v] # NoFile,
                        md'[v] \in Torn \/ md'[v].run # json[v].run
                 PROVE  json[v].run \in cut
      BY <2>1 DEF Whole
    <3>1. v # cert.version
      BY <2>3, <2>4, <2>6 DEF Whole
    <3> QED
      BY <2>6, <3>1 DEF OnDisk
  <2>13. json' \in [Versions -> JsonReports \cup Torn \cup {NoFile}]
    BY <2>1 DEF OnDisk
  <2> QED
    BY <2>1, <2>6, <2>9, <2>10, <2>11, <2>12, <2>13 DEF OnDisk
<1>6. CASE Cut
  <2>1. /\ pc' = "idle" /\ ~InHarness' /\ cut' = cut \cup {run} /\ UNCHANGED <<manifests, run>>
        /\ InHarness /\ pc # "beacon"
        /\ json' \in [Versions -> JsonReports \cup Torn \cup {NoFile}]
        /\ md' \in [Versions -> MarkdownReports \cup Torn \cup {NoFile}]
        /\ \A v \in Versions : json'[v] = json[v]
             \/ (pc = "tests" /\ Loaded >= 1 /\ v = cert.version /\ json'[v] \in Torn)
        /\ \A v \in Versions : md'[v] = md[v]
             \/ (pc = "markdown" /\ Loaded >= 1 /\ v = cert.version /\ md'[v] \in Torn)
    BY <1>6, CutFacts DEF InHarness
  <2>2. \A v \in Versions : Whole(json[v])' => Whole(json[v]) /\ json'[v] = json[v]
    BY <2>1 DEF Whole
  <2>3. pc = "markdown" => json[cert.version] = Report /\ Report.run = run /\ Whole(Report)
    <3> SUFFICES ASSUME pc = "markdown" PROVE Report.run = run /\ Whole(Report)
      BY DEF OnDisk
    <3>1. Len(results) = Len(cert.tests)
      BY <2>1 DEF Walk
    <3> QED
      BY <3>1, ReportFacts
  <2>4. \A v \in Versions : Whole(json[v])' =>
          v \in DOMAIN manifests' /\ json'[v].run \in 1 .. run'
    BY <2>1, <2>2 DEF OnDisk
  <2>5. \A v \in Versions : md'[v] # NoFile => json'[v] # NoFile
    <3> SUFFICES ASSUME NEW v \in Versions, md'[v] # NoFile PROVE json'[v] # NoFile
      OBVIOUS
    <3>1. json[v] # NoFile
      BY <2>1, <2>3 DEF OnDisk, Whole
    <3>2. NoFile \notin Torn
      BY CertificationAssumption
    <3> QED
      BY <2>1, <3>1, <3>2
  <2>6. \A v \in Versions : Whole(json[v])' /\ md'[v] # NoFile
                            /\ (md'[v] \in Torn \/ md'[v].run # json'[v].run) =>
           json'[v].run \in cut'
    <3> SUFFICES ASSUME NEW v \in Versions, Whole(json[v]), json'[v] = json[v], md'[v] # NoFile,
                        md'[v] \in Torn \/ md'[v].run # json[v].run
                 PROVE  json[v].run \in cut \cup {run}
      BY <2>1, <2>2
    <3>1. CASE pc = "markdown" /\ v = cert.version
      BY <2>3, <3>1
    <3>2. CASE ~(pc = "markdown" /\ v = cert.version)
      BY <2>1, <3>2 DEF OnDisk
    <3> QED
      BY <3>1, <3>2
  <2> QED
    BY <2>1, <2>4, <2>5, <2>6 DEF OnDisk
<1>7. CASE Reboot
  <2>1. json' = [v \in Versions |-> NoFile] /\ md' = [v \in Versions |-> NoFile] /\ pc' = pc
        /\ stage = "prompt"
    BY <1>7 DEF Reboot
  <2>2. pc' # "markdown" /\ ~InHarness'
    BY <1>7, <2>1, AwayFacts DEF Away, Rests
  <2>3. \A v \in Versions : ~Whole(json[v])' /\ md'[v] = NoFile
    BY <2>1 DEF Whole
  <2> QED
    BY <2>1, <2>2, <2>3 DEF OnDisk
<1>8. CASE Away /\ ~Cut /\ ~Reboot
  <2>1. /\ UNCHANGED <<manifests, run>> /\ ~InHarness' /\ pc' # "markdown" /\ pc # "markdown"
        /\ UNCHANGED <<json, md>> /\ cut \subseteq cut'
    BY <1>8, AwayFacts, AwayFiles
  <2> QED
    BY <1>0, <1>1, <2>1
<1>9. CASE UNCHANGED vars
  <2>1. UNCHANGED <<manifests, request, queue, cert, results, overall, run, json, md, cut, stage, pc>>
    BY <1>9 DEF vars, progress, files, history
  <2>2. Report' = Report
    BY <2>1, SameCert
  <2>3. Entries' = Entries
    BY <2>1, SameEntries
  <2>4. Loaded' = Loaded /\ (InHarness' <=> InHarness)
    BY <2>1, <2>3 DEF Loaded, InHarness
  <2>5. \A k \in 1 .. Loaded : Over(k)' <=> Over(k)
    BY <2>1, <2>4 DEF Over
  <2>6. \A v \in Versions : Whole(json[v])' <=> Whole(json[v])
    BY <2>1 DEF Whole
  <2> QED
    BY <2>1, <2>2, <2>3, <2>4, <2>5, <2>6 DEF OnDisk
<1> QED
  BY <1>2, <1>3, <1>4, <1>5, <1>6, <1>7, <1>8, <1>9, NextSteps

\* A host that is off stays off.
LEMMA AwayIsOn ==
  ASSUME Control, Away
  PROVE  stage # "off"
<1>1. Stops => stage # "off"
  BY DEF Stops, Gate, LoadManifest, TestRaises, Return, Cut, InHarness, Control, InLoop
<1>2. Publishes => stage # "off"
  BY DEF Publishes, BeaconStarts, BeaconFails, JqFails, Skip, Publish, BeaconEnds, Control
<1>3. Rests => stage # "off"
  BY DEF Rests, Reboot, Login, Again
<1> QED
  BY <1>1, <1>2, <1>3 DEF Away

\* No step of a run, nor one that ends it, touches what it has finished.
LEMMA StaysFinishedKept ==
  ASSUME TypeOK, Control, Walk, Ledger, OnDisk, StaysFinished, [Next]_vars
  PROVE  StaysFinished'
<1>0. run \in Nat /\ finished \subseteq (1 .. run) \X Versions
  BY CertificationAssumption DEF TypeOK
<1> DEFINE Ok(p) ==
      /\ stage # "off" => json[p[2]] # NoFile /\ (p[1] = run => Whole(json[p[2]]) /\ json[p[2]].run = run)
      /\ InHarness /\ p[1] = run => \E k \in 1 .. Loaded : Entries[k].version = p[2] /\ Over(k)
<1>1. ASSUME NEW filters \in Requests, Start(filters) PROVE StaysFinished'
  <2>1. /\ UNCHANGED <<json, finished>> /\ run' = run + 1 /\ stage = "verify"
    BY <1>1 DEF Start, files, history
  <2>2. \A p \in finished' : p[1] # run'
    BY <1>0, <2>1
  <2> QED
    BY <2>1, <2>2 DEF StaysFinished
<1>2. ASSUME Works, ~WriteJson, ~WriteMarkdown PROVE StaysFinished'
  <2>1. UNCHANGED <<json, run, finished, stage>>
    BY <1>2, WorksFacts, WorksFiles
  <2>2. /\ InHarness /\ Entries' = Entries /\ Loaded \in Nat
        /\ (Loaded' = Loaded \/ Loaded' = Loaded + 1)
        /\ \A k \in 1 .. Loaded : Over(k) => Over(k)'
    BY <1>2, WorksWalk
  <2>3. 1 .. Loaded \subseteq 1 .. Loaded'
    BY <2>2
  <2> QED
    BY <2>1, <2>2, <2>3 DEF StaysFinished, Whole
<1>3. CASE WriteJson
  <2>1. /\ pc = "tests" /\ pc' = "markdown" /\ json' = [json EXCEPT ![cert.version] = Report]
        /\ Len(results) = Len(cert.tests) /\ UNCHANGED <<stage, run, finished>>
    BY <1>3 DEF WriteJson, history
  <2>2. InHarness /\ Loaded >= 1 /\ Whole(Report) /\ Report.run = run
    BY <2>1, ReportFacts
  <2>3. cert.version \in Versions /\ json \in [Versions -> JsonReports \cup Torn \cup {NoFile}]
    BY <2>2, CertFacts DEF OnDisk
  <2>4. json'[cert.version] = Report /\ \A v \in Versions : v # cert.version => json'[v] = json[v]
    BY <2>1, <2>3
  <2>5. /\ Entries' = Entries /\ Loaded' = Loaded
        /\ \A k \in 1 .. Loaded : Over(k) => Over(k)'
    BY <1>3, <2>1, WorksWalk DEF Works, LoadGoesOn, LoadManifest
  <2>6. \A p \in finished : p[2] \in Versions
    BY <1>0
  <2> QED
    BY <2>1, <2>2, <2>4, <2>5, <2>6 DEF StaysFinished, Whole
<1>4. CASE WriteMarkdown
  <2>1. /\ pc = "markdown" /\ pc' = "next" /\ finished' = finished \cup {<<run, cert.version>>}
        /\ UNCHANGED <<stage, run, json, cert>>
    BY <1>4 DEF WriteMarkdown
  <2>2. InHarness /\ Loaded >= 1 /\ Len(results) = Len(cert.tests)
    <3>1. InHarness
      BY <2>1 DEF InHarness, Control, InLoop
    <3> QED
      BY <2>1, <3>1 DEF Walk
  <2>3. Whole(Report) /\ Report.run = run /\ json[cert.version] = Report
    BY <2>1, <2>2, ReportFacts DEF OnDisk
  <2>4. Loaded \in 1 .. Len(Entries) /\ cert.version = Entries[Loaded].version
    BY <2>2, CertFacts
  <2>5. /\ Entries' = Entries /\ Loaded' = Loaded /\ Loaded \in Nat
        /\ \A k \in 1 .. Loaded : Over(k) => Over(k)'
    BY <1>4, <2>1, WorksWalk DEF Works, LoadGoesOn, LoadManifest
  <2>6. Loaded \in 1 .. Loaded
    BY <2>2, <2>5
  <2>7. \A p \in finished : Ok(p)'
    BY <2>1, <2>2, <2>5 DEF StaysFinished, Whole
  <2>8. Ok(<<run, cert.version>>)'
    <3>1. \E k \in 1 .. Loaded : Entries[k].version = cert.version /\ Over(k)'
      <4>1. \A k \in 1 .. Loaded : k = Loaded => Over(k)'
        BY <2>1, <2>5 DEF Over
      <4> QED
        BY <2>4, <2>6, <4>1
    <3> QED
      BY <2>1, <2>3, <2>5, <3>1 DEF Whole
  <2> QED
    BY <2>1, <2>7, <2>8 DEF StaysFinished
<1>5. CASE Cut
  <2>1. /\ ~InHarness' /\ InHarness /\ UNCHANGED <<run, finished>>
        /\ \A v \in Versions : json'[v] = json[v]
             \/ (pc = "tests" /\ Loaded >= 1 /\ v = cert.version /\ json'[v] \in Torn)
    BY <1>5, CutFacts DEF InHarness
  <2>2. stage # "off"
    BY <2>1 DEF InHarness
  <2>3. NoFile \notin Torn
    BY CertificationAssumption
  <2>4. ASSUME NEW p \in finished, p[1] = run, pc = "tests", Loaded >= 1 PROVE p[2] # cert.version
    <3>1. PICK k \in 1 .. Loaded : Entries[k].version = p[2] /\ Over(k)
      BY <2>1, <2>4 DEF StaysFinished
    <3>2. Loaded \in 1 .. Len(Entries) /\ cert.version = Entries[Loaded].version
      BY <2>1, <2>4, CertFacts
    <3>3. k # Loaded /\ k \in 1 .. Len(Entries)
      BY <2>4, <3>1, <3>2, EntriesFacts DEF Over, TypeOK
    <3> QED
      BY <3>1, <3>2, <3>3, EntriesFacts DEF TypeOK
  <2>5. \A p \in finished : p[2] \in Versions
    BY <1>0
  <2> QED
    BY <2>1, <2>2, <2>3, <2>4, <2>5 DEF StaysFinished, Whole
<1>6. CASE Reboot
  <2>1. stage' = "off" /\ UNCHANGED finished
    BY <1>6 DEF Reboot, history
  <2> QED
    BY <2>1 DEF StaysFinished, InHarness
<1>7. CASE Away /\ ~Cut /\ ~Reboot
  <2>1. /\ UNCHANGED <<run, finished, json>> /\ ~InHarness' /\ (stage' # "off" => stage # "off")
    BY <1>7, AwayFacts, AwayFiles, AwayIsOn
  <2> QED
    BY <2>1 DEF StaysFinished, Whole
<1>8. CASE UNCHANGED vars
  <2>1. UNCHANGED <<manifests, request, queue, run, json, finished, stage, pc>>
    BY <1>8 DEF vars, progress, files, history
  <2>2. Entries' = Entries
    BY <2>1, SameEntries
  <2>3. Loaded' = Loaded /\ (InHarness' <=> InHarness)
    BY <2>1, <2>2 DEF Loaded, InHarness
  <2>4. \A k \in 1 .. Loaded : Over(k)' <=> Over(k)
    BY <2>1, <2>3 DEF Over
  <2> QED
    BY <2>1, <2>2, <2>3, <2>4 DEF StaysFinished, Whole
<1> QED
  BY <1>1, <1>2, <1>3, <1>4, <1>5, <1>6, <1>7, <1>8, NextSteps

----------------------------------------------------------------------------
(* The issues *)

\* The issue that a step of Publish opens.
NewIssue ==
  LET v == Head(toPublish)
  IN [version |-> v, run |-> json[v].run, milestone |-> json[v].certified, body |-> md[v], opened |-> run]

\* It is opened from two reports that exist, the first of them whole.
LEMMA PublishFacts ==
  ASSUME TypeOK, Control, OnDisk, Published, Publish
  PROVE  LET v == Head(toPublish)
         IN /\ pc = "beacon" /\ stage = "publish" /\ ~InHarness'
            /\ v \in Versions /\ v \in DOMAIN manifests
            /\ Whole(json[v]) /\ md[v] # NoFile /\ json[v].run \in 1 .. run
            /\ issues' = issues \cup {NewIssue} /\ toPublish' \in Seq(Versions)
            /\ NewIssue.version = v /\ NewIssue.run = json[v].run /\ NewIssue.opened = run
            /\ NewIssue.milestone = json[v].certified /\ NewIssue.body = md[v]
            /\ UNCHANGED <<manifests, run, ran, finished, cut>>
<1> DEFINE v == Head(toPublish)
<1>1. /\ pc = "beacon" /\ toPublish # <<>> /\ json[v] \notin Torn /\ md[v] # NoFile
      /\ issues' = issues \cup {NewIssue} /\ toPublish' = Tail(toPublish)
      /\ UNCHANGED <<manifests, run, ran, finished, cut, pc, stage>>
  BY DEF Publish, NewIssue, HarnessAside, history
<1>2. v \in Versions /\ Tail(toPublish) \in Seq(Versions)
  BY <1>1 DEF Published
<1>3. stage = "publish" /\ ~InHarness'
  BY <1>1 DEF Control, InHarness
<1>4. Whole(json[v])
  BY <1>1, <1>2 DEF OnDisk, Whole
<1>5. json[v].run \in 1 .. run /\ v \in DOMAIN manifests
  BY <1>2, <1>4 DEF OnDisk
<1>6. /\ NewIssue.version = v /\ NewIssue.run = json[v].run /\ NewIssue.opened = run
      /\ NewIssue.milestone = json[v].certified /\ NewIssue.body = md[v]
  BY DEF NewIssue
<1> HIDE DEF v
<1> QED
  BY <1>1, <1>2, <1>3, <1>4, <1>5, <1>6 DEF v

\* No other step opens an issue, or adds to what is to be published.
LEMMA IssuesStay ==
  ASSUME Control, Published, [Next]_vars, ~Publish
  PROVE  issues' = issues /\ toPublish' \in Seq(Versions)
<1>1. ASSUME NEW filters \in Requests, Start(filters) PROVE UNCHANGED <<issues, toPublish>>
  BY <1>1 DEF Start
<1>2. Works => UNCHANGED <<issues, toPublish>>
  BY WorksFacts
<1>3. Stops => UNCHANGED <<issues, toPublish>>
  <2>1. Gate \/ TestRaises \/ Return \/ Cut => UNCHANGED <<issues, toPublish>>
    BY DEF Gate, TestRaises, Return, Cut
  <2>2. LoadManifest => UNCHANGED <<issues, toPublish>>
    BY DEF LoadManifest
  <2> QED
    BY <2>1, <2>2 DEF Stops
<1>4. Rests => UNCHANGED <<issues, toPublish>>
  BY DEF Rests, Reboot, Login, Again
<1>5. BeaconStarts => issues' = issues /\ toPublish' \in Seq(Versions)
  <2>1. WithReport \in Seq(Versions)
    <3> DEFINE I == {k \in DOMAIN VersionOrder : json[VersionOrder[k]] # NoFile}
    <3>1. VersionOrder \in Seq(Versions)
      BY CertificationAssumption
    <3>2. I \in SUBSET Nat
      BY <3>1
    <3>3. WithReport = Kept(VersionOrder, I)
      BY DEF WithReport
    <3> HIDE DEF I
    <3> QED
      BY <3>1, <3>2, <3>3, KeptPlaces
  <2>2. <<>> \in Seq(Versions)
    OBVIOUS
  <2> QED
    BY <2>1, <2>2 DEF BeaconStarts, PublishingEnds
<1>6. BeaconFails \/ JqFails \/ BeaconEnds => issues' = issues /\ toPublish' = <<>>
  BY DEF BeaconFails, JqFails, BeaconEnds, PublishingEnds
<1>7. Skip => issues' = issues /\ toPublish' \in Seq(Versions)
  BY DEF Skip, Published
<1>8. UNCHANGED vars => UNCHANGED <<issues, toPublish>>
  BY DEF vars
<1>9. <<>> \in Seq(Versions)
  OBVIOUS
<1> QED
  BY <1>1, <1>2, <1>3, <1>4, <1>5, <1>6, <1>7, <1>8, <1>9, NextSteps DEF Away, Publishes, Published

\* Invocations are numbered upwards, and what has been cut short stays so.
LEMMA RunGrows ==
  ASSUME TypeOK, Control, Walk, OnDisk, [Next]_vars
  PROVE  /\ run \in Nat /\ run' \in Nat /\ run <= run' /\ manifests' = manifests /\ cut \subseteq cut'
         /\ (InHarness' => run < run' \/ InHarness)
<1>0. run \in Nat
  BY CertificationAssumption DEF TypeOK
<1>1. ASSUME NEW filters \in Requests, Start(filters)
      PROVE  run' = run + 1 /\ manifests' = manifests /\ cut' = cut
  BY <1>1 DEF Start, history
<1>2. Works => UNCHANGED <<run, manifests, cut>> /\ InHarness
  BY WorksFacts DEF InHarness, Control, InLoop
<1>3. Away => UNCHANGED <<run, manifests>> /\ cut \subseteq cut' /\ ~InHarness'
  <2>1. Away => UNCHANGED <<run, manifests>> /\ ~InHarness'
    BY AwayFacts
  <2>2. Away /\ ~Cut /\ ~Reboot => cut \subseteq cut'
    BY AwayFiles
  <2>3. Cut => cut \subseteq cut'
    BY DEF Cut
  <2>4. Reboot => cut' = cut
    BY DEF Reboot, history
  <2> QED
    BY <2>1, <2>2, <2>3, <2>4
<1>4. UNCHANGED vars => UNCHANGED <<run, manifests, cut>> /\ (InHarness' <=> InHarness)
  BY DEF vars, history, InHarness
<1> QED
  BY <1>0, <1>1, <1>2, <1>3, <1>4, NextSteps

\* Issues and the files still to be published are about installed manifests and
\* runs that have been.
LEMMA PublishedKept ==
  ASSUME TypeOK, Control, Walk, OnDisk, Published, [Next]_vars
  PROVE  Published'
<1> DEFINE Ok(p) == /\ p.version \in DOMAIN manifests
                    /\ p.opened \in 1 .. run /\ p.run \in 1 .. p.opened
                    /\ InHarness => p.opened < run
<1>1. /\ run \in Nat /\ run' \in Nat /\ run <= run' /\ manifests' = manifests
      /\ (InHarness' => run < run' \/ InHarness)
  BY RunGrows
<1>2. \A p \in issues : Ok(p)'
  BY <1>1 DEF Published
<1>3. CASE Publish
  <2>1. /\ issues' = issues \cup {NewIssue} /\ toPublish' \in Seq(Versions) /\ ~InHarness'
        /\ NewIssue.version \in DOMAIN manifests
        /\ NewIssue.run \in 1 .. run /\ NewIssue.opened = run
        /\ UNCHANGED <<manifests, run>>
    BY <1>3, PublishFacts
  <2>2. \A p \in {NewIssue} : Ok(p)'
    <3>1. run \in 1 .. run
      BY <1>1, <2>1
    <3> QED
      BY <2>1, <3>1
  <2> QED
    BY <1>2, <2>1, <2>2 DEF Published
<1>4. CASE ~Publish
  BY <1>2, <1>4, IssuesStay DEF Published
<1> QED
  BY <1>3, <1>4

\* The two reports of an issue are of one run, unless that run was cut short.
LEMMA BodyKept ==
  ASSUME TypeOK, Control, Walk, OnDisk, Published, BodyOfTheSameRun, [Next]_vars
  PROVE  BodyOfTheSameRun'
<1>1. cut \subseteq cut'
  BY RunGrows
<1>2. CASE Publish
  <2> DEFINE v == Head(toPublish)
  <2>1. /\ pc = "beacon" /\ v \in Versions /\ Whole(json[v]) /\ md[v] # NoFile
        /\ issues' = issues \cup {NewIssue}
        /\ NewIssue.run = json[v].run /\ NewIssue.body = md[v]
    BY <1>2, PublishFacts
  <2> HIDE DEF v
  <2>2. md[v] \in Torn \/ md[v].run # json[v].run => json[v].run \in cut
    BY <2>1 DEF OnDisk
  <2>3. NewIssue.body \in Torn \/ NewIssue.body.run # NewIssue.run => NewIssue.run \in cut'
    BY <1>1, <2>1, <2>2
  <2> QED
    BY <1>1, <2>1, <2>3 DEF BodyOfTheSameRun
<1>3. CASE ~Publish
  BY <1>1, <1>3, IssuesStay DEF BodyOfTheSameRun
<1> QED
  BY <1>2, <1>3

\* An old report is published only of a certification that the run has not
\* finished.
LEMMA FreshKept ==
  ASSUME TypeOK, Control, Walk, OnDisk, StaysFinished, Published, FreshOrAbsent, [Next]_vars
  PROVE  FreshOrAbsent'
<1>1. CASE Publish
  <2> DEFINE v == Head(toPublish)
  <2>1. /\ stage = "publish" /\ v \in Versions
        /\ issues' = issues \cup {NewIssue} /\ finished' = finished
        /\ NewIssue.version = v /\ NewIssue.run = json[v].run /\ NewIssue.opened = run
    BY <1>1, PublishFacts
  <2> HIDE DEF v
  <2>2. <<run, v>> \in finished => json[v].run = run
    BY <2>1 DEF StaysFinished
  <2>3. NewIssue.run # NewIssue.opened => <<NewIssue.opened, NewIssue.version>> \notin finished'
    BY <2>1, <2>2
  <2> QED
    BY <2>1, <2>3 DEF FreshOrAbsent
<1>2. CASE WriteMarkdown
  <2>1. issues' = issues /\ finished' = finished \cup {<<run, cert.version>>} /\ InHarness
    BY <1>2 DEF WriteMarkdown, InHarness, Control, InLoop
  <2>2. \A p \in issues : p.opened # run
    <3>1. run \in Nat
      BY CertificationAssumption DEF TypeOK
    <3> QED
      BY <2>1, <3>1 DEF Published
  <2> QED
    BY <2>1, <2>2 DEF FreshOrAbsent
<1>3. CASE ~Publish /\ ~WriteMarkdown
  <2>1. issues' = issues
    BY <1>3, IssuesStay
  <2>2. finished' = finished
    <3>1. ASSUME NEW filters \in Requests, Start(filters) PROVE finished' = finished
      BY <3>1 DEF Start, history
    <3>2. Works => finished' = finished
      <4>1. WriteJson => finished' = finished
        BY DEF WriteJson, history
      <4> QED
        BY <1>3, <4>1, WorksFiles
    <3>3. UNCHANGED vars => finished' = finished
      BY DEF vars, history
    <3> QED
      BY <3>1, <3>2, <3>3, AwayFacts, NextSteps
  <2> QED
    BY <2>1, <2>2 DEF FreshOrAbsent
<1> QED
  BY <1>1, <1>2, <1>3

----------------------------------------------------------------------------
(* Levels that have been earned *)

\* Only a test that runs changes the history of tests.
LEMMA RanStays ==
  ASSUME TypeOK, Control, [Next]_vars, \A r \in Outcomes : ~RunTest(r)
  PROVE  ran' = ran
<1>1. ASSUME NEW filters \in Requests, Start(filters) PROVE ran' = ran
  BY <1>1 DEF Start, history
<1>2. Works => ran' = ran
  <2>1. ASSUME NEW r \in Outcomes, Prerequisite(r) PROVE ran' = ran
    BY <2>1 DEF Prerequisite, history
  <2>2. GateOpens \/ LoadGoesOn \/ WriteJson \/ WriteMarkdown => ran' = ran
    BY DEF GateOpens, Gate, LoadGoesOn, LoadManifest, WriteJson, WriteMarkdown, history
  <2> QED
    BY <2>1, <2>2 DEF Works
<1>3. UNCHANGED vars => ran' = ran
  BY DEF vars, history
<1> QED
  BY <1>1, <1>2, <1>3, AwayFacts, NextSteps

\* What a run has earned of a version changes only while it runs its tests.
LEMMA EarnedStays ==
  ASSUME TypeOK, Control, Walk, OnDisk, [Next]_vars, NEW r, NEW v,
         r # run \/ v # cert.version \/ pc # "tests"
  PROVE  Earned(r, v)' = Earned(r, v)
<1>1. manifests' = manifests
  BY RunGrows
<1>2. \A t, x : [run |-> r, version |-> v, test |-> t.name, result |-> x] \in ran'
                <=> [run |-> r, version |-> v, test |-> t.name, result |-> x] \in ran
  <2>1. CASE \E q \in Outcomes : RunTest(q)
    <3>1. PICK q \in Outcomes : RunTest(q)
      BY <2>1
    <3>2. ran' = ran \cup {NewRecord(q)} /\ pc = "tests"
      BY <3>1, RunTestFacts
    <3>3. NewRecord(q).run = run /\ NewRecord(q).version = cert.version
      BY DEF NewRecord
    <3>4. \A t, x : [run |-> r, version |-> v, test |-> t.name, result |-> x] # NewRecord(q)
      <4> TAKE t, x
      <4> DEFINE y == [run |-> r, version |-> v, test |-> t.name, result |-> x]
      <4>1. y.run = r /\ y.version = v
        OBVIOUS
      <4> HIDE DEF y
      <4>2. y # NewRecord(q)
        BY <3>2, <3>3, <4>1
      <4> QED
        BY <4>2 DEF y
    <3> QED
      BY <3>2, <3>4
  <2>2. CASE ~\E q \in Outcomes : RunTest(q)
    BY <2>2, RanStays
  <2> QED
    BY <2>1, <2>2
<1>3. \A t : PassedIn(r, v, t)' <=> PassedIn(r, v, t)
  BY <1>2 DEF PassedIn
<1>4. Earned(r, v) = {level \in Range(AllLevels(manifests[v])) :
                        \A t \in UpTo(v, level) : PassedIn(r, v, t)}
  BY DEF Earned, PassedIn
<1>5. Earned(r, v)' = {level \in Range(AllLevels(manifests'[v])) :
                         \A t \in UpTo(v, level)' : PassedIn(r, v, t)'}
  BY DEF Earned, PassedIn
<1>6. \A level : UpTo(v, level)' = UpTo(v, level)
  BY <1>1, SameManifests
<1> QED
  BY <1>1, <1>3, <1>4, <1>5, <1>6

\* What a report says stays sound as long as its run has earned what it had.
LEMMA SoundStays ==
  ASSUME manifests' = manifests, NEW v, NEW f, Earned(f.run, v)' = Earned(f.run, v)
  PROVE  Sound(v, f)' <=> Sound(v, f)
<1>1. /\ \A level : Position(v, level)' = Position(v, level)
      /\ \A level : Capped(v, level)' <=> Capped(v, level)
  BY SameManifests
<1> DEFINE good == {level \in Earned(f.run, v) : Capped(v, level)}
<1>2. good' = good
  BY <1>1
<1>3. Sound(v, f) <=> /\ good = {} <=> f.certified = NoLevel
                      /\ good # {} =>
                           /\ f.certified \in good
                           /\ \A level \in good : Position(v, level) <= Position(v, f.certified)
                           /\ \A k \in 1 .. Position(v, f.certified) : f.levels[k] = "pass"
  BY DEF Sound
<1>4. Sound(v, f)' <=> /\ good' = {} <=> f.certified = NoLevel
                       /\ good' # {} =>
                            /\ f.certified \in good'
                            /\ \A level \in good' : Position(v, level)' <= Position(v, f.certified)'
                            /\ \A k \in 1 .. Position(v, f.certified)' : f.levels[k] = "pass"
  BY DEF Sound
<1> HIDE DEF good
<1> QED
  BY <1>1, <1>2, <1>3, <1>4

\* Whole reports come from WriteJson alone.
LEMMA WholeStays ==
  ASSUME TypeOK, Control, Walk, OnDisk, [Next]_vars, ~WriteJson
  PROVE  \A v \in Versions : Whole(json[v])' => json'[v] = json[v]
<1>1. ASSUME NEW filters \in Requests, Start(filters) PROVE json' = json
  BY <1>1 DEF Start, files
<1>2. Works => json' = json
  <2>1. WriteMarkdown => json' = json
    BY DEF WriteMarkdown
  <2> QED
    BY <2>1, WorksFiles
<1>3. Cut => \A v \in Versions : Whole(json[v])' => json'[v] = json[v]
  BY CutFacts DEF Whole
<1>4. Reboot => \A v \in Versions : ~Whole(json[v])'
  BY DEF Reboot, Whole
<1>5. Away /\ ~Cut /\ ~Reboot => json' = json
  BY AwayFiles
<1>6. UNCHANGED vars => json' = json
  BY DEF vars, files
<1> QED
  BY <1>1, <1>2, <1>3, <1>4, <1>5, <1>6, NextSteps

\* A new report is sound, and the old ones remain so.
LEMMA CertifiedKept ==
  ASSUME TypeOK, Control, Walk, Ledger, OnDisk, CertifiedSound, [Next]_vars
  PROVE  CertifiedSound'
<1>0. manifests' = manifests
  BY RunGrows
<1>1. \A v \in Versions : Whole(json[v]) => Sound(v, json[v])
  BY SoundIsCertified DEF ReportsSound
<1>2. ASSUME NEW v \in Versions, Whole(json[v]) PROVE Sound(v, json[v])'
                \/ json'[v] # json[v]
  <2> DEFINE f == json[v]
  <2>1. pc = "tests" /\ f.run = run => v # cert.version
    <3> SUFFICES ASSUME pc = "tests", f.run = run PROVE v # cert.version
      OBVIOUS
    <3>1. InHarness /\ Loaded >= 1
      BY DEF InHarness, Control, InLoop, Walk
    <3>2. PICK k \in 1 .. Loaded : Entries[k].version = v /\ Over(k)
      BY <1>2, <3>1 DEF OnDisk
    <3>3. Loaded \in 1 .. Len(Entries) /\ cert.version = Entries[Loaded].version
      BY <3>1, CertFacts
    <3>4. k # Loaded /\ k \in 1 .. Len(Entries)
      BY <3>2, <3>3, EntriesFacts DEF Over, TypeOK
    <3> QED
      BY <3>2, <3>3, <3>4, EntriesFacts DEF TypeOK
  <2>2. \A g : g = f => (Earned(g.run, v)' = Earned(g.run, v))
    <3> SUFFICES ASSUME NEW g, g = f PROVE Earned(g.run, v)' = Earned(g.run, v)
      OBVIOUS
    <3> DEFINE r == g.run
    <3>1. r # run \/ v # cert.version \/ pc # "tests"
      BY <2>1
    <3> HIDE DEF r
    <3>2. Earned(r, v)' = Earned(r, v)
      BY <3>1, EarnedStays
    <3> QED
      BY <3>2 DEF r
  <2>3. \A g : g = f => (Sound(v, g)' <=> Sound(v, g))
    BY <1>0, <2>2, SoundStays
  <2>4. \A g : g = json'[v] => (Sound(v, json[v])' <=> Sound(v, g)')
    BY DEF Sound
  <2> QED
    BY <1>1, <1>2, <2>3, <2>4
<1>3. \A v \in Versions : Whole(json[v])' => Sound(v, json[v])'
  <2>1. CASE WriteJson
    <3>1. /\ pc = "tests" /\ json' = [json EXCEPT ![cert.version] = Report]
          /\ Len(results) = Len(cert.tests)
      BY <2>1 DEF WriteJson
    <3>2. /\ InHarness /\ Loaded >= 1 /\ Sound(cert.version, Report) /\ Report.run = run
      BY <3>1, ReportFacts
    <3>3. cert.version \in Versions /\ json \in [Versions -> JsonReports \cup Torn \cup {NoFile}]
      BY <3>2, CertFacts DEF OnDisk
    <3>4. json'[cert.version] = Report /\ \A v \in Versions : v # cert.version => json'[v] = json[v]
      BY <3>1, <3>3
    <3>5. \A g, v : g = Report /\ v = cert.version => Sound(v, g)'
      <4> SUFFICES ASSUME NEW g, NEW v, g = Report, v = cert.version PROVE Sound(v, g)'
        OBVIOUS
      <4>1. ran' = ran
        BY <2>1 DEF WriteJson, history
      <4>2. \A r : Earned(r, v)' = Earned(r, v)
        BY <1>0, <4>1, SameManifests DEF Earned
      <4>3. Sound(v, g)
        BY <3>2
      <4>4. Sound(v, g)' <=> Sound(v, g)
        BY <1>0, <4>2, SoundStays
      <4> QED
        BY <4>3, <4>4
    <3>6. \A v, g : g = json'[v] => (Sound(v, json[v])' <=> Sound(v, g)')
      BY DEF Sound
    <3> SUFFICES ASSUME NEW v \in Versions, Whole(json[v])' PROVE Sound(v, json[v])'
      OBVIOUS
    <3>7. CASE v = cert.version
      BY <3>4, <3>5, <3>6, <3>7
    <3>8. CASE v # cert.version
      BY <1>2, <3>4, <3>8 DEF Whole
    <3> QED
      BY <3>7, <3>8
  <2>2. CASE ~WriteJson
    <3>1. \A v \in Versions : Whole(json[v])' => json'[v] = json[v]
      BY <2>2, WholeStays
    <3> SUFFICES ASSUME NEW v \in Versions, Whole(json[v])' PROVE Sound(v, json[v])'
      OBVIOUS
    <3>2. Whole(json[v]) /\ json'[v] = json[v]
      BY <3>1 DEF Whole
    <3> QED
      BY <1>2, <3>2
  <2> QED
    BY <2>1, <2>2
<1>4. CertifiedSound' <=> ReportsSound'
  BY SoundIsCertified, PTL
<1> QED
  BY <1>3, <1>4 DEF ReportsSound

\* A milestone is taken from a sound report, and no later run changes what the
\* run of that report has earned.
LEMMA MilestoneKept ==
  ASSUME TypeOK, Control, Walk, OnDisk, Published, CertifiedSound, MilestoneEarned, [Next]_vars
  PROVE  MilestoneEarned'
<1> DEFINE Ok(p) == p.milestone # NoLevel =>
                      p.milestone \in Earned(p.run, p.version) /\ Capped(p.version, p.milestone)
<1>1. manifests' = manifests /\ run \in Nat
  BY RunGrows
<1>2. \A v, level : Capped(v, level)' <=> Capped(v, level)
  BY <1>1, SameManifests
<1>3. ASSUME NEW p \in issues PROVE Ok(p)'
  <2> DEFINE r == p.run
             v == p.version
  <2>1. r # run \/ pc # "tests"
    <3>1. pc = "tests" => InHarness
      BY DEF InHarness, Control, InLoop
    <3>2. p.opened \in 1 .. run /\ p.run \in 1 .. p.opened /\ (InHarness => p.opened < run)
      BY DEF Published
    <3> QED
      BY <1>1, <3>1, <3>2
  <2> HIDE DEF r, v
  <2>2. Earned(r, v)' = Earned(r, v)
    BY <2>1, EarnedStays
  <2>3. Ok(p)
    BY DEF MilestoneEarned
  <2> QED
    BY <1>2, <2>2, <2>3 DEF r, v
<1>4. CASE Publish
  <2> DEFINE v == Head(toPublish)
             f == json[v]
  <2>1. /\ pc = "beacon" /\ v \in Versions /\ Whole(f) /\ issues' = issues \cup {NewIssue}
        /\ NewIssue.version = v /\ NewIssue.run = f.run /\ NewIssue.milestone = f.certified
    BY <1>4, PublishFacts
  <2>2. Sound(v, f)
    BY <2>1, SoundIsCertified DEF ReportsSound
  <2>3. Ok(NewIssue)
    BY <2>1, <2>2 DEF Sound
  <2>4. \A p : p = NewIssue => Ok(p)'
    <3> SUFFICES ASSUME NEW p, p = NewIssue PROVE Ok(p)'
      OBVIOUS
    <3> DEFINE r == p.run
               u == p.version
    <3>1. Earned(r, u)' = Earned(r, u)
      <4> HIDE DEF r, u
      <4> QED
        BY <2>1, EarnedStays
    <3>2. Ok(p)
      BY <2>3
    <3> HIDE DEF v, f
    <3> QED
      BY <1>2, <3>1, <3>2
  <2>5. MilestoneEarned' <=> \A p \in issues' : Ok(p)'
    BY DEF MilestoneEarned
  <2> HIDE DEF Ok
  <2> QED
    BY <1>3, <2>1, <2>4, <2>5
<1>5. CASE ~Publish
  BY <1>3, <1>5, IssuesStay DEF MilestoneEarned
<1> QED
  BY <1>4, <1>5

----------------------------------------------------------------------------
(* The exit code *)

\* What a certification that is over leaves.
Shown(k) == \A x \in Recorded(k) :
  /\ failing \/ x.result = "pass"
  /\ Whole(json[x.version]) /\ json[x.version].run = run
  /\ failing \/ json[x.version].result = "pass"

\* As long as no certification has failed, every report of this run says pass.
LEMMA VerdictKept ==
  ASSUME TypeOK, Control, Walk, Ledger, OnDisk, Verdict, [Next]_vars
  PROVE  Verdict'
<1>1. Verdict <=> /\ InLoop => Range(prereqs) \subseteq {"pass"}
                  /\ InLoop => \A k \in 1 .. Loaded : Over(k) => Shown(k)
                  /\ pc \in {"tests", "markdown"} /\ overall = "pass" => Range(results) \subseteq {"pass"}
  BY DEF Verdict, Shown
<1>2. Verdict' <=> /\ InLoop' => Range(prereqs') \subseteq {"pass"}
                   /\ InLoop' => \A k \in 1 .. Loaded' : Over(k)' => Shown(k)'
                   /\ pc' \in {"tests", "markdown"} /\ overall' = "pass" =>
                        Range(results') \subseteq {"pass"}
  BY DEF Verdict, Shown
<1>3. CASE pc' \notin {"next", "tests", "markdown"}
  BY <1>2, <1>3 DEF InLoop
<1>4. CASE GateOpens
  <2>1. pc = "prereqs" /\ pc' = "next" /\ prereqs' = prereqs
    BY <1>4 DEF GateOpens, Gate, progress
  <2>2. Range(prereqs) \subseteq {"pass"}
    <3> SUFFICES ASSUME ~(Range(prereqs) \subseteq {"pass"}) PROVE FALSE
      OBVIOUS
    <3>1. pc' = "idle"
      BY <1>4 DEF GateOpens, Gate, Ends
    <3> QED
      BY <2>1, <3>1
  <2>3. Loaded' = 0
    <3>1. InHarness /\ Loaded = 0
      BY <2>1 DEF InHarness, Control, InLoop, Walk
    <3> QED
      BY <1>4, <2>1, <3>1, WorksWalk DEF Works, LoadGoesOn, LoadManifest
  <2> QED
    BY <1>2, <2>1, <2>2, <2>3
<1>5. CASE LoadGoesOn
  <2>1. /\ pc = "next" /\ InHarness /\ Loaded' = Loaded + 1 /\ Loaded' \in 1 .. Len(Entries) /\ Loaded \in Nat
        /\ pc' = IF cert'.tests = <<>> THEN "next" ELSE "tests"
        /\ Entries' = Entries /\ results' = <<>>
        /\ cert' = [version |-> Entries[Loaded'].version, tests |-> TestsOf(Entries[Loaded'])]
        /\ UNCHANGED <<manifests, prereqs, failing, json, run, ran>>
    BY <1>5, LoadFacts DEF files
  <2>2. \A k : Shown(k)' <=> Shown(k)
    <3>1. \A k : Recorded(k)' = Recorded(k)
      BY <2>1 DEF Recorded
    <3> QED
      BY <2>1, <3>1 DEF Shown, Whole
  <2>3. \A k \in 1 .. Loaded : Shown(k)
    <3>1. \A k \in 1 .. Loaded : Over(k)
      BY <2>1 DEF Over
    <3> QED
      BY <1>1, <2>1, <3>1 DEF InLoop
  <2>4. \A k : k = Loaded' /\ Over(k)' => Recorded(k)' = {}
    <3> SUFFICES ASSUME NEW k, k = Loaded', Over(k)' PROVE Recorded(k)' = {}
      OBVIOUS
    <3>1. Ledger' /\ InHarness'
      BY <1>5, LedgerKept, WorksWalk DEF Works
    <3>2. k \in 1 .. Loaded'
      BY <2>1
    <3>3. {x.test : x \in Recorded(k)'} = {t.name : t \in Range(TestsOf(Entries[k])')}
      BY <3>1, <3>2 DEF Ledger
    <3>4. pc' = "next"
      BY <2>1 DEF Over
    <3>5. TestsOf(Entries[k])' = <<>>
      <4>1. TestsOf(Entries[k])' = TestsOf(Entries[k])
        BY <2>1 DEF TestsOf
      <4> QED
        BY <2>1, <3>4, <4>1
    <3>6. Range(<<>>) = {}
      BY DEF Range
    <3> QED
      BY <3>3, <3>5, <3>6
  <2>5. \A k \in 1 .. Loaded' : k \in 1 .. Loaded \/ k = Loaded'
    BY <2>1
  <2>6. \A k \in 1 .. Loaded' : Over(k)' => Shown(k)'
    <3> SUFFICES ASSUME NEW k \in 1 .. Loaded', Over(k)' PROVE Shown(k)'
      OBVIOUS
    <3>1. CASE k \in 1 .. Loaded
      BY <2>2, <2>3, <3>1
    <3>2. CASE k = Loaded'
      BY <2>4, <3>2 DEF Shown
    <3> QED
      BY <2>5, <3>1, <3>2
  <2>7. Range(results') \subseteq {"pass"}
    BY <2>1 DEF Range
  <2>8. Range(prereqs') \subseteq {"pass"}
    BY <1>1, <2>1 DEF InLoop
  <2> QED
    BY <1>2, <2>6, <2>7, <2>8
<1>6. ASSUME NEW r \in Outcomes, RunTest(r) PROVE Verdict'
  <2>1. /\ pc = "tests" /\ pc' = "tests" /\ InHarness /\ Loaded >= 1
        /\ Len(results) \in Nat /\ results' = Append(results, r) /\ ran' = ran \cup {NewRecord(r)}
        /\ UNCHANGED <<manifests, request, queue, cert, run, json>>
    BY <1>6, RunTestFacts DEF files
  <2>2. Entries' = Entries /\ Loaded' = Loaded
    BY <2>1, SameEntries DEF Loaded
  <2>3. /\ Loaded \in 1 .. Len(Entries) /\ cert.version = Entries[Loaded].version
        /\ \A j, k \in 1 .. Len(Entries) : Entries[j].version = Entries[k].version => j = k
    BY <2>1, CertFacts, EntriesFacts DEF TypeOK
  <2>4. UNCHANGED <<prereqs, failing>> /\ overall' = WorseResult(overall, r)
    BY <1>6 DEF RunTest
  <2>5. \A k \in 1 .. Loaded : Over(k)' => Over(k) /\ k # Loaded /\ k \in 1 .. Len(Entries)
    BY <2>1, <2>2, <2>3, EntriesFacts DEF Over, TypeOK
  <2>6. ASSUME NEW k \in 1 .. Loaded, Over(k)' PROVE Shown(k)'
    <3>1. Recorded(k)' = Recorded(k)
      <4>1. Entries[k].version # cert.version
        BY <2>3, <2>5, <2>6
      <4>2. NewRecord(r).version = cert.version
        BY DEF NewRecord
      <4> QED
        BY <2>1, <2>2, <4>1, <4>2 DEF Recorded
    <3>2. Shown(k)
      BY <1>1, <2>1, <2>5, <2>6 DEF InLoop
    <3> QED
      BY <2>1, <2>4, <3>1, <3>2 DEF Shown, Whole
  <2>7. overall' = "pass" => Range(results') \subseteq {"pass"}
    <3> SUFFICES ASSUME overall' = "pass" PROVE Range(results') \subseteq {"pass"}
      OBVIOUS
    <3>1. overall = "pass" /\ r = "pass"
      BY <2>4 DEF WorseResult, Severity, Outcomes, TypeOK
    <3>2. Range(results) \subseteq {"pass"}
      BY <1>1, <2>1, <3>1
    <3>3. Range(results') \subseteq Range(results) \cup {r}
      <4>1. results \in Seq(Outcomes)
        BY DEF TypeOK
      <4> QED
        BY <2>1, <4>1 DEF Range
    <3> QED
      BY <3>1, <3>2, <3>3
  <2>8. Range(prereqs') \subseteq {"pass"}
    BY <1>1, <2>1, <2>4 DEF InLoop
  <2> QED
    BY <1>2, <2>2, <2>6, <2>7, <2>8
<1>7. CASE WriteJson
  <2>1. /\ pc = "tests" /\ pc' = "markdown" /\ json' = [json EXCEPT ![cert.version] = Report]
        /\ UNCHANGED <<manifests, request, queue, cert, results, overall, prereqs, failing, run, ran>>
    BY <1>7 DEF WriteJson, progress, history
  <2>2. InHarness /\ Loaded >= 1
    BY <2>1 DEF InHarness, Control, InLoop, Walk
  <2>3. /\ Loaded \in 1 .. Len(Entries) /\ cert.version = Entries[Loaded].version
        /\ \A j, k \in 1 .. Len(Entries) : Entries[j].version = Entries[k].version => j = k
    BY <2>2, CertFacts, EntriesFacts DEF TypeOK
  <2>4. Entries' = Entries /\ Loaded' = Loaded
    BY <2>1, SameEntries DEF Loaded
  <2>5. \A k \in 1 .. Loaded : Over(k)' => Over(k) /\ k # Loaded /\ k \in 1 .. Len(Entries)
    BY <2>1, <2>3, <2>4, EntriesFacts DEF Over, TypeOK
  <2>6. ASSUME NEW k \in 1 .. Loaded, Over(k)' PROVE Shown(k)'
    <3>1. Recorded(k)' = Recorded(k)
      BY <2>1, <2>4 DEF Recorded
    <3>2. Shown(k)
      BY <1>1, <2>1, <2>5, <2>6 DEF InLoop
    <3>3. \A x \in Recorded(k) : x.version \in Versions /\ x.version # cert.version
      <4>1. Entries[k].version # cert.version /\ Entries[k].version \in Versions
        <5>1. Entries[k].version \in DOMAIN manifests
          BY <2>5, <2>6, EntriesFacts DEF TypeOK
        <5> QED
          BY <2>3, <2>5, <2>6, <5>1, ManifestFacts DEF TypeOK
      <4> QED
        BY <4>1 DEF Recorded
    <3>4. \A x \in Recorded(k) : json'[x.version] = json[x.version]
      BY <2>1, <3>3 DEF OnDisk
    <3> QED
      BY <2>1, <3>1, <3>2, <3>4 DEF Shown, Whole
  <2> QED
    BY <1>1, <1>2, <2>1, <2>4, <2>6 DEF InLoop
<1>8. CASE WriteMarkdown
  <2>1. /\ pc = "markdown" /\ pc' = "next"
        /\ UNCHANGED <<manifests, request, queue, cert, results, overall, prereqs, json, run, ran>>
    BY <1>8 DEF WriteMarkdown
  <2>2. (failing => failing') /\ (~failing' => overall = "pass")
    <3>1. failing' = (failing \/ overall # "pass")
      BY <1>8 DEF WriteMarkdown
    <3> QED
      BY <3>1
  <2>3. InHarness /\ Loaded >= 1 /\ Len(results) = Len(cert.tests)
    <3>1. InHarness
      BY <2>1 DEF InHarness, Control, InLoop
    <3> QED
      BY <2>1, <3>1 DEF Walk
  <2>4. Whole(Report) /\ Report.run = run /\ Report.result = overall /\ json[cert.version] = Report
    BY <2>1, <2>3, ReportFacts DEF OnDisk
  <2>5. Entries' = Entries /\ Loaded' = Loaded
    BY <2>1, SameEntries DEF Loaded
  <2>6. /\ Loaded \in 1 .. Len(Entries) /\ cert.version = Entries[Loaded].version
        /\ Len(Entries) \in Nat
    BY <2>3, CertFacts, EntriesFacts DEF TypeOK
  <2>7. \A k : Recorded(k)' = Recorded(k)
    BY <2>1, <2>5 DEF Recorded
  <2>8. ASSUME NEW k \in 1 .. Loaded PROVE Shown(k)'
    <3>1. CASE k < Loaded
      <4>1. Shown(k)
        BY <1>1, <2>1, <3>1 DEF InLoop, Over
      <4> QED
        BY <2>1, <2>2, <2>7, <4>1 DEF Shown, Whole
    <3>2. CASE k = Loaded
      <4>1. \A x \in Recorded(k) : x.result \in Range(results) /\ x.version = cert.version
        <5>1. Recorded(Loaded) = {[run |-> run, version |-> cert.version, result |-> results[j],
                                   test |-> cert.tests[j].name] : j \in DOMAIN results}
          BY <2>1, <2>3 DEF Ledger
        <5> QED
          BY <3>2, <5>1 DEF Range
      <4>2. \A x \in Recorded(k) : failing' \/ x.result = "pass"
        <5>1. overall = "pass" => Range(results) \subseteq {"pass"}
          BY <1>1, <2>1
        <5> QED
          BY <2>2, <4>1, <5>1
      <4>3. \A x \in Recorded(k) : Whole(json[x.version]) /\ json[x.version].run = run
                                   /\ json[x.version].result = overall
        BY <2>4, <4>1
      <4> QED
        BY <2>1, <2>2, <2>7, <4>2, <4>3 DEF Shown, Whole
    <3>3. k < Loaded \/ k = Loaded
      BY <2>6
    <3> QED
      BY <3>1, <3>2, <3>3
  <2> QED
    BY <1>1, <1>2, <2>1, <2>5, <2>8 DEF InLoop
<1>9. CASE UNCHANGED vars
  <2>1. UNCHANGED <<manifests, request, queue, results, overall, prereqs, failing, json, run, ran, pc>>
    BY <1>9 DEF vars, progress, files, history
  <2>2. Entries' = Entries
    BY <2>1, SameEntries
  <2>3. Loaded' = Loaded /\ (InLoop' <=> InLoop)
    BY <2>1, <2>2 DEF Loaded, InLoop
  <2>4. \A k : (Over(k)' <=> Over(k)) /\ Recorded(k)' = Recorded(k)
    BY <2>1, <2>2, <2>3 DEF Over, Recorded
  <2>5. \A k : Shown(k)' <=> Shown(k)
    BY <2>1, <2>4 DEF Shown, Whole
  <2> QED
    BY <1>1, <1>2, <2>1, <2>3, <2>4, <2>5
<1>10. ASSUME NEW filters \in Requests, Start(filters) PROVE Verdict'
  <2>1. pc' \notin {"next", "tests", "markdown"}
    BY <1>10 DEF Start, Ends
  <2> QED
    BY <1>3, <2>1
<1>11. CASE Away
  BY <1>3, <1>11, AwayFacts
<1>12. ASSUME NEW r \in Outcomes, Prerequisite(r) PROVE Verdict'
  <2>1. pc' = "prereqs"
    BY <1>12 DEF Prerequisite
  <2> QED
    BY <1>3, <2>1
<1> QED
  BY <1>4, <1>5, <1>6, <1>7, <1>8, <1>9, <1>10, <1>11, <1>12, NextSteps DEF Works

\* Exit code 0 is earned: Return finds nothing that has failed.
LEMMA ExitKept ==
  ASSUME TypeOK, Control, Walk, Ledger, Verdict, ExitTellsTruth, [Next]_vars
  PROVE  ExitTellsTruth'
<1>1. CASE ~(stage' = "publish" /\ pc' = "idle" /\ exit' = 0)
  BY <1>1 DEF ExitTellsTruth
<1>2. CASE Return
  <2>1. /\ pc = "next" /\ queue = <<>> /\ exit' = IF failing THEN 1 ELSE 0
        /\ UNCHANGED <<prereqs, run, cut, ran, json>>
    BY <1>2 DEF Return, Ends, progress, history, files
  <2>2. CASE failing
    BY <1>1, <2>1, <2>2
  <2>3. CASE ~failing
    <3>1. InHarness /\ InLoop /\ run \notin cut
      BY <2>1 DEF InHarness, InLoop, Control
    <3>2. \A k \in 1 .. Loaded : Over(k)
      <4>1. Loaded \in Nat
        BY <3>1, EntriesFacts DEF Walk, TypeOK
      <4> QED
        BY <2>1, <4>1 DEF Over
    <3>3. ASSUME NEW x \in ran, x.run = run
          PROVE  /\ x.result = "pass" /\ Whole(json[x.version])
                 /\ json[x.version].run = run /\ json[x.version].result = "pass"
      <4>1. PICK k \in 1 .. Loaded : x.version = Entries[k].version
        BY <3>1, <3>3 DEF Ledger
      <4>2. x \in Recorded(k)
        BY <3>3, <4>1 DEF Recorded
      <4> QED
        BY <2>3, <3>1, <3>2, <4>1, <4>2 DEF Verdict
    <3>4. Range(prereqs) \subseteq {"pass"}
      BY <3>1 DEF Verdict
    <3> QED
      BY <2>1, <3>1, <3>3, <3>4 DEF ExitTellsTruth, Whole
  <2> QED
    BY <2>2, <2>3
<1>3. ASSUME NEW filters \in Requests, Start(filters) PROVE pc' # "idle" \/ exit' = 1
  <2>1. CASE queue' = <<>>
    BY <1>3, <2>1 DEF Start, Ends
  <2>2. CASE queue' # <<>>
    BY <1>3, <2>2 DEF Start
  <2> QED
    BY <2>1, <2>2
<1>4. Works => pc' # "idle"
  BY WorksFacts
<1>5. Stops /\ ~Return => exit' = 1
  <2>1. TestRaises \/ Cut => exit' = 1
    BY DEF TestRaises, Cut, Ends
  <2>2. Gate /\ pc' = "idle" => exit' = 1
    BY DEF Gate, Ends
  <2>3. LoadManifest /\ pc' = "idle" => exit' = 1
    BY DEF LoadManifest, Ends
  <2> QED
    BY <2>1, <2>2, <2>3 DEF Stops
<1>6. Publishes => ~(stage' = "publish" /\ pc' = "idle")
  BY DEF Publishes, BeaconStarts, BeaconFails, JqFails, Skip, Publish, BeaconEnds, PublishingEnds
<1>7. Rests => stage' # "publish"
  BY DEF Rests, Reboot, Login, Again
<1>8. CASE UNCHANGED vars
  <2>1. UNCHANGED <<stage, pc, exit, prereqs, run, cut, ran, json>>
    BY <1>8 DEF vars, progress, files, history
  <2> QED
    BY <2>1 DEF ExitTellsTruth
<1>9. 1 # 0
  OBVIOUS
<1> QED
  BY <1>1, <1>2, <1>3, <1>4, <1>5, <1>6, <1>7, <1>8, <1>9, NextSteps DEF Away

----------------------------------------------------------------------------
(* Types *)

TypedReport(v, f) ==
  /\ f.run \in 1 .. run /\ f.result \in Outcomes
  /\ Range(f.levels) \subseteq {"pass", "fail", "skip"}
  /\ f.certified \in Range(AllLevels(manifests[v])) \cup {NoLevel}

ReportsTyped == \A v \in Versions : Whole(json[v]) => TypedReport(v, json[v])

\* TypeOK with its reports by version.
Typed ==
  /\ manifests \in Installations
  /\ stage \in {"verify", "publish", "prompt", "login", "off"}
  /\ pc \in {"idle", "prereqs", "next", "tests", "markdown", "beacon"}
  /\ request \in Requests
  /\ overall \in Outcomes
  /\ results \in Seq(Outcomes) /\ Len(results) <= Len(cert.tests)
  /\ ReportsTyped
  /\ exit \in 0 .. 1 /\ run \in 0 .. MaxRuns[manifests]
  /\ cut \subseteq 1 .. run /\ finished \subseteq (1 .. run) \X Versions

\* TypeOK, report by report.
LEMMA TypedIsTypeOK ==
  Typed <=> TypeOK
<1>1. \A v \in Versions : Whole(json[v]) => <<v, json[v]>> \in Reports
  BY DEF Reports, Whole
<1>2. \A p \in Reports : p[1] \in Versions /\ Whole(json[p[1]]) /\ p[2] = json[p[1]]
  BY DEF Reports, Whole
<1>3. ReportsTyped <=> \A p \in Reports : TypedReport(p[1], p[2])
  BY <1>1, <1>2 DEF ReportsTyped
<1>4. (\A p \in Reports : TypedReport(p[1], p[2])) <=>
        \A p \in Reports :
          /\ p[2].run \in 1 .. run /\ p[2].result \in Outcomes
          /\ Range(p[2].levels) \subseteq {"pass", "fail", "skip"}
          /\ p[2].certified \in Range(AllLevels(manifests[p[1]])) \cup {NoLevel}
  BY DEF TypedReport
<1> QED
  BY <1>3, <1>4 DEF Typed, TypeOK

\* The reports on the disk are well formed, also of earlier invocations.
LEMMA ReportsKept ==
  ASSUME TypeOK, Control, Walk, Ledger, OnDisk, [Next]_vars
  PROVE  ReportsTyped'
<1>1. run \in Nat /\ run' \in Nat /\ run <= run' /\ manifests' = manifests
  BY RunGrows
<1>2. \A v \in Versions : Whole(json[v]) => TypedReport(v, json[v])
  BY TypedIsTypeOK DEF Typed, ReportsTyped
<1>3. \A v \in Versions : Whole(json[v]) /\ json'[v] = json[v] => TypedReport(v, json[v])'
  <2>1. 1 .. run \subseteq 1 .. run'
    BY <1>1
  <2> QED
    BY <1>1, <1>2, <2>1 DEF TypedReport
<1>4. CASE WriteJson
  <2>1. /\ pc = "tests" /\ json' = [json EXCEPT ![cert.version] = Report]
        /\ Len(results) = Len(cert.tests) /\ run' = run
    BY <1>4 DEF WriteJson
  <2>2. /\ InHarness /\ Loaded >= 1 /\ Report.run = run /\ Report.result = overall
        /\ Report.certified \in {NoLevel} \cup Range(AllLevels(Manifest))
        /\ Range(Report.levels) \subseteq {"pass", "fail", "skip"}
    BY <2>1, ReportFacts
  <2>3. cert.version \in Versions /\ json \in [Versions -> JsonReports \cup Torn \cup {NoFile}]
    BY <2>2, CertFacts DEF OnDisk
  <2>4. json'[cert.version] = Report /\ \A v \in Versions : v # cert.version => json'[v] = json[v]
    BY <2>1, <2>3
  <2>5. run \in 1 .. run
    BY <1>1, <2>1 DEF Control, InLoop
  <2>6. \A v : v = cert.version => TypedReport(v, json[v])'
    BY <1>1, <2>1, <2>2, <2>4, <2>5 DEF TypedReport, Manifest, TypeOK
  <2> QED
    BY <1>3, <2>4, <2>6 DEF ReportsTyped, Whole
<1>5. CASE ~WriteJson
  <2>1. \A v \in Versions : Whole(json[v])' => json'[v] = json[v]
    BY <1>5, WholeStays
  <2> QED
    BY <1>3, <2>1 DEF ReportsTyped, Whole
<1> QED
  BY <1>4, <1>5

\* Every step keeps the types.
LEMMA TypeKept ==
  ASSUME TypeOK, Control, Walk, Ledger, OnDisk, [Next]_vars
  PROVE  TypeOK'
<1>0. TypeOK' <=> Typed'
  BY TypedIsTypeOK, PTL
<1> SUFFICES Typed'
  BY <1>0
<1>1. /\ run \in Nat /\ run' \in Nat /\ run <= run' /\ manifests' = manifests /\ cut \subseteq cut'
  BY RunGrows
<1>2. MaxRuns[manifests] \in Nat
  BY CertificationAssumption DEF TypeOK
<1>3. /\ request \in Requests /\ overall \in Outcomes /\ results \in Seq(Outcomes)
      /\ Len(results) <= Len(cert.tests)
      /\ cut \subseteq 1 .. run /\ finished \subseteq (1 .. run) \X Versions
      /\ exit \in 0 .. 1 /\ run \in 0 .. MaxRuns[manifests]
  BY DEF TypeOK
<1>4. manifests' \in Installations /\ ReportsTyped'
  BY <1>1, ReportsKept DEF TypeOK
<1>5. 1 .. run \subseteq 1 .. run' /\ (1 .. run) \X Versions \subseteq (1 .. run') \X Versions
  BY <1>1
<1>6. ASSUME NEW filters \in Requests, Start(filters) PROVE Typed'
  <2>1. /\ request' = filters /\ overall' = "pass" /\ results' = <<>> /\ cert' = NoCert
        /\ run' = run + 1 /\ UNCHANGED <<cut, finished>> /\ stage = "verify" /\ pc = "idle"
    BY <1>6 DEF Start, history
  <2>2. stage' \in {"verify", "publish"} /\ pc' \in {"idle", "prereqs"} /\ exit' \in {exit, 1}
    <3>1. CASE queue' = <<>>
      BY <1>6, <3>1 DEF Start, Ends
    <3>2. CASE queue' # <<>>
      BY <1>6, <3>2 DEF Start
    <3> QED
      BY <3>1, <3>2
  <2>3. run' \in 0 .. MaxRuns[manifests']
    BY <1>1, <1>2, <2>1 DEF Control
  <2>4. results' \in Seq(Outcomes) /\ Len(results') <= Len(cert'.tests)
    <3>1. cert'.tests = <<>>
      BY <2>1 DEF NoCert
    <3>2. <<>> \in Seq(Outcomes) /\ Len(<<>>) <= Len(<<>>)
      OBVIOUS
    <3> QED
      BY <2>1, <3>1, <3>2
  <2>5. overall' \in Outcomes
    BY <2>1 DEF Outcomes
  <2>6. cut' \subseteq 1 .. run' /\ finished' \subseteq (1 .. run') \X Versions
    BY <1>3, <1>5, <2>1
  <2>7. stage' \in {"verify", "publish", "prompt", "login", "off"}
        /\ pc' \in {"idle", "prereqs", "next", "tests", "markdown", "beacon"}
    BY <2>2
  <2>8. exit' \in 0 .. 1
    BY <1>3, <2>2
  <2> QED
    BY <1>4, <2>1, <2>3, <2>4, <2>5, <2>6, <2>7, <2>8 DEF Typed
<1>7. CASE Works
  <2>1. UNCHANGED <<manifests, stage, request, exit, run, cut>>
        /\ pc' \in {"prereqs", "next", "tests", "markdown"}
    BY <1>7, WorksFacts
  <2>2. overall' \in Outcomes
    <3>1. ASSUME NEW r \in Outcomes, RunTest(r) PROVE overall' \in Outcomes
      BY <1>3, <3>1 DEF RunTest, WorseResult
    <3>2. ASSUME NEW r \in Outcomes, Prerequisite(r) PROVE overall' = overall
      BY <3>2 DEF Prerequisite
    <3>3. LoadGoesOn => overall' \in Outcomes
      BY LoadFacts DEF Outcomes
    <3>4. GateOpens \/ WriteJson \/ WriteMarkdown => overall' = overall
      BY DEF GateOpens, Gate, WriteJson, WriteMarkdown, progress
    <3> QED
      BY <1>3, <1>7, <3>1, <3>2, <3>3, <3>4 DEF Works
  <2>3. results' \in Seq(Outcomes) /\ Len(results') <= Len(cert'.tests)
    <3>1. ASSUME NEW r \in Outcomes, RunTest(r)
          PROVE  results' \in Seq(Outcomes) /\ Len(results') <= Len(cert'.tests)
      <4>1. /\ Len(results) + 1 \in 1 .. Len(cert.tests) /\ results' = Append(results, r) /\ cert' = cert
            /\ InHarness /\ Loaded >= 1
        BY <3>1, RunTestFacts
      <4>2. cert.tests \in Seq(Range(Manifest.tests))
        BY <4>1, CertFacts
      <4> QED
        BY <1>3, <4>1, <4>2
    <3>2. ASSUME NEW r \in Outcomes, Prerequisite(r) PROVE UNCHANGED <<results, cert>>
      BY <3>2 DEF Prerequisite
    <3>3. LoadGoesOn => results' \in Seq(Outcomes) /\ Len(results') <= Len(cert'.tests)
      <4> SUFFICES ASSUME LoadGoesOn PROVE results' \in Seq(Outcomes) /\ Len(results') <= Len(cert'.tests)
        OBVIOUS
      <4> DEFINE e == Entries[Loaded']
                 S == Range(manifests[e.version].tests)
      <4>1. Loaded' \in 1 .. Len(Entries) /\ results' = <<>>
            /\ cert' = [version |-> e.version, tests |-> TestsOf(e)]
        BY LoadFacts
      <4>2. TestsOf(e) \in Seq(S)
        BY <4>1, EntriesFacts DEF TypeOK
      <4>3. Len(TestsOf(e)) \in Nat /\ cert'.tests = TestsOf(e)
        <5> HIDE DEF e, S
        <5> QED
          BY <4>1, <4>2
      <4>4. <<>> \in Seq(Outcomes) /\ Len(<<>>) = 0
        OBVIOUS
      <4> HIDE DEF e
      <4> QED
        BY <4>1, <4>3, <4>4
    <3>4. GateOpens \/ WriteJson \/ WriteMarkdown => UNCHANGED <<results, cert>>
      BY DEF GateOpens, Gate, WriteJson, WriteMarkdown, progress
    <3> QED
      BY <1>3, <1>7, <3>1, <3>2, <3>3, <3>4 DEF Works
  <2>4. finished' \subseteq (1 .. run') \X Versions
    <3>1. WriteMarkdown => finished' \subseteq (1 .. run') \X Versions
      <4> SUFFICES ASSUME WriteMarkdown PROVE finished' \subseteq (1 .. run') \X Versions
        OBVIOUS
      <4>1. /\ pc = "markdown" /\ finished' = finished \cup {<<run, cert.version>>}
        BY DEF WriteMarkdown
      <4>2. InHarness /\ Loaded >= 1 /\ run >= 1
        BY <4>1 DEF InHarness, Control, InLoop, Walk
      <4>3. cert.version \in Versions
        BY <4>2, CertFacts
      <4> QED
        BY <1>1, <1>3, <1>5, <2>1, <4>1, <4>2, <4>3
    <3>2. WriteJson => finished' = finished
      BY DEF WriteJson, history
    <3> QED
      BY <1>3, <1>7, <2>1, <3>1, <3>2, WorksFiles
  <2>5. pc' \in {"idle", "prereqs", "next", "tests", "markdown", "beacon"}
    BY <2>1
  <2> QED
    BY <1>3, <1>4, <2>1, <2>2, <2>3, <2>4, <2>5 DEF Typed, TypeOK
<1>8. CASE Away
  <2>1. UNCHANGED <<manifests, request, cert, results, overall, run, finished>>
        /\ pc' \in {"idle", "beacon"}
    BY <1>8, AwayFacts DEF progress
  <2>2. CASE Stops
    <3>1. exit' \in 0 .. 1 /\ stage' = "publish"
      <4>1. TestRaises \/ Cut => exit' = 1 /\ stage' = "publish"
        BY DEF TestRaises, Cut, Ends
      <4>2. Gate /\ pc' = "idle" => exit' = 1 /\ stage' = "publish"
        BY DEF Gate, Ends
      <4>3. LoadManifest /\ pc' = "idle" => exit' = 1 /\ stage' = "publish"
        BY DEF LoadManifest, Ends
      <4>4. Return => exit' \in 0 .. 1 /\ stage' = "publish"
        BY DEF Return, Ends
      <4> QED
        BY <2>2, <4>1, <4>2, <4>3, <4>4 DEF Stops
    <3>2. cut' \subseteq 1 .. run'
      <4>1. run \in 1 .. run
        BY <1>1, <2>2 DEF Stops, Gate, LoadManifest, TestRaises, Return, Cut, InHarness, Control,
                          TypeOK, InLoop
      <4>2. cut' \subseteq cut \cup {run}
        <5>1. TestRaises \/ Cut => cut' = cut \cup {run}
          BY DEF TestRaises, Cut
        <5>2. Gate \/ Return => cut' = cut
          BY DEF Gate, Return, history
        <5>3. LoadManifest => cut' \subseteq cut \cup {run}
          BY DEF LoadManifest
        <5> QED
          BY <2>2, <5>1, <5>2, <5>3 DEF Stops
      <4> QED
        BY <1>3, <2>1, <4>1, <4>2
    <3> QED
      BY <1>3, <1>4, <2>1, <3>1, <3>2 DEF Typed
  <2>3. CASE Publishes
    <3>1. UNCHANGED <<exit, cut>>
      BY <2>3 DEF Publishes, BeaconStarts, BeaconFails, JqFails, Skip, Publish, BeaconEnds,
                  HarnessAside, history
    <3>2. stage' \in {"publish", "prompt", "login"}
      BY <2>3 DEF Publishes, BeaconStarts, BeaconFails, JqFails, Skip, Publish, BeaconEnds,
                  PublishingEnds, Control
    <3> QED
      BY <1>3, <1>4, <2>1, <3>1, <3>2 DEF Typed
  <2>4. CASE Rests
    <3>1. UNCHANGED <<exit, cut>> /\ stage' \in {"verify", "login", "off"}
      BY <2>4 DEF Rests, Reboot, Login, Again, history
    <3> QED
      BY <1>3, <1>4, <2>1, <3>1 DEF Typed
  <2> QED
    BY <1>8, <2>2, <2>3, <2>4 DEF Away
<1>9. CASE UNCHANGED vars
  <2>1. UNCHANGED <<stage, pc, request, cert, results, overall, exit, run, cut, finished>>
    BY <1>9 DEF vars, progress, history
  <2> QED
    BY <1>1, <1>3, <1>4, <2>1 DEF Typed, TypeOK
<1> QED
  BY <1>6, <1>7, <1>8, <1>9, NextSteps

----------------------------------------------------------------------------
(* The invariant *)

\* The invariant holds before the first invocation.
LEMMA InitIInv ==
  ASSUME Init
  PROVE  IInv
<1>1. /\ manifests \in Installations /\ stage = "verify" /\ pc = "idle"
      /\ request = <<>> /\ prereqs = <<>> /\ results = <<>> /\ overall = "pass" /\ failing = FALSE
      /\ cert = NoCert /\ exit = 0 /\ run = 0 /\ toPublish = <<>>
      /\ issues = {} /\ ran = {} /\ finished = {} /\ cut = {}
      /\ json = [v \in Versions |-> NoFile] /\ md = [v \in Versions |-> NoFile]
  BY DEF Init
<1>2. MaxRuns[manifests] \in Nat \ {0} /\ <<>> \in Requests
  BY <1>1, CertificationAssumption
<1>3. ~InHarness /\ ~InLoop
  BY <1>1 DEF InHarness, InLoop
<1>4. \A v \in Versions : ~Whole(json[v]) /\ json[v] = NoFile /\ md[v] = NoFile
  BY <1>1 DEF Whole
<1>5. Typed
  <2>1. cert.tests = <<>>
    BY <1>1 DEF NoCert
  <2>2. <<>> \in Seq(Outcomes) /\ Len(<<>>) = 0
    OBVIOUS
  <2>3. overall \in Outcomes
    BY <1>1 DEF Outcomes
  <2>4. ReportsTyped
    BY <1>4 DEF ReportsTyped
  <2> QED
    BY <1>1, <1>2, <2>1, <2>2, <2>3, <2>4 DEF Typed
<1>6. Control
  <2>1. prereqs \in Seq(Outcomes)
    BY <1>1
  <2>2. failing \in BOOLEAN
    BY <1>1
  <2> QED
    BY <1>1, <1>2, <1>3, <2>1, <2>2 DEF Control
<1>7. Walk /\ Ledger /\ OnDisk
  <2>1. Ledger
    BY <1>1, <1>3 DEF Ledger, RanOfThis
  <2>2. OnDisk
    BY <1>1, <1>3, <1>4 DEF OnDisk
  <2> QED
    BY <1>3, <2>1, <2>2 DEF Walk
<1>8. StaysFinished /\ Published /\ Verdict
  <2>1. toPublish \in Seq(Versions)
    BY <1>1
  <2> QED
    BY <1>1, <1>3, <2>1 DEF StaysFinished, Published, Verdict
<1>9. CertifiedSound
  BY <1>4, SoundIsCertified DEF ReportsSound
<1>10. MilestoneEarned /\ BodyOfTheSameRun /\ FreshOrAbsent /\ ExitTellsTruth
  BY <1>1 DEF MilestoneEarned, BodyOfTheSameRun, FreshOrAbsent, ExitTellsTruth
<1>11. TypeOK
  BY <1>5, TypedIsTypeOK
<1> QED
  BY <1>6, <1>7, <1>8, <1>9, <1>10, <1>11 DEF IInv

\* Every step keeps the invariant.
LEMMA NextIInv ==
  ASSUME IInv, [Next]_vars
  PROVE  IInv'
<1>1. TypeOK' /\ Control' /\ Walk' /\ Ledger' /\ OnDisk'
  BY TypeKept, ControlKept, WalkKept, LedgerKept, OnDiskKept DEF IInv
<1>2. StaysFinished' /\ Published' /\ Verdict'
  BY StaysFinishedKept, PublishedKept, VerdictKept DEF IInv
<1>3. CertifiedSound' /\ MilestoneEarned'
  BY CertifiedKept, MilestoneKept DEF IInv
<1>4. BodyOfTheSameRun' /\ FreshOrAbsent' /\ ExitTellsTruth'
  BY BodyKept, FreshKept, ExitKept DEF IInv
<1> QED
  BY <1>1, <1>2, <1>3, <1>4 DEF IInv

\* The inductive invariant from which all properties follow: it adds to them where
\* the boot is, which entries are over, what has run for them, and how the files on
\* the disk and the verdict of the run come from that.
THEOREM Invariance == Spec => []IInv
  BY InitIInv, NextIInv, PTL DEF Spec

----------------------------------------------------------------------------
(* The properties *)

\* Every state of every boot is well formed, and so is each report on the disk,
\* also that of an earlier invocation or of one that was cut short.
THEOREM TypeCorrect == Spec => []TypeOK
  BY Invariance, PTL DEF IInv

\* The certified level that write_json writes down is the highest one that the
\* run has earned and that the manifest's cap allows, whatever was filtered out
\* and whatever later runs do (_highest_certified_level of cli.py).
THEOREM CertifiedIsEarned == Spec => []CertifiedSound
  BY Invariance, PTL DEF IInv

\* The milestone that beacon-report.sh gives an issue was earned by the run whose
\* report it publishes.
THEOREM MilestonesAreEarned == Spec => []MilestoneEarned
  BY Invariance, PTL DEF IInv

\* Milestone and body of an issue are of the same run, or that run was cut short.
THEOREM BodiesMatch == Spec => []BodyOfTheSameRun
  BY Invariance, PTL DEF IInv

\* An old report is published again only of a certification that the later run
\* did not finish.
THEOREM NoStaleIssue == Spec => []FreshOrAbsent
  BY Invariance, PTL DEF IInv

\* Exit code 0 means that all that ran has passed and that its reports say so.
THEOREM ExitCodeTellsTruth == Spec => []ExitTellsTruth
  BY Invariance, PTL DEF IInv

\* No failure later in the run costs the report of a certification that was
\* finished: until the host reboots, only a later run replaces it.
THEOREM ReportsSurvive == Spec => []FinishedSurvives
<1>1. IInv => FinishedSurvives
  <2> SUFFICES ASSUME IInv, NEW p \in finished, stage # "off"
               PROVE  /\ json[p[2]] # NoFile
                      /\ json[p[2]] \in Torn \/ json[p[2]].run # p[1] => run > p[1]
    BY DEF FinishedSurvives
  <2>1. run \in Nat /\ p \in (1 .. run) \X Versions
    BY CertificationAssumption DEF IInv, TypeOK
  <2>2. /\ json[p[2]] # NoFile
        /\ p[1] = run => Whole(json[p[2]]) /\ json[p[2]].run = run
    BY DEF IInv, StaysFinished
  <2>3. p[1] \in 1 .. run
    BY <2>1
  <2> QED
    BY <2>1, <2>2, <2>3 DEF Whole
<1> QED
  BY <1>1, Invariance, PTL

\* An invocation that returns has run exactly the tests that its filters ask
\* for, of all manifests that are installed (discover_manifests, _filter_tests).
THEOREM AskedAndRun == Spec => []RunsWhatWasAsked
<1>1. IInv => RunsWhatWasAsked
  <2> SUFFICES ASSUME IInv, pc = "next", queue = <<>>,
                      NEW v \in DOMAIN manifests, NEW t \in Range(manifests[v].tests)
               PROVE  Asked(v, t) <=> \E r \in Outcomes :
                        [run |-> run, version |-> v, test |-> t.name, result |-> r] \in ran
    BY DEF RunsWhatWasAsked
  <2> DEFINE all == manifests[v].tests
             rec(r) == [run |-> run, version |-> v, test |-> t.name, result |-> r]
  <2>1. TypeOK /\ Control /\ Walk /\ Ledger
    BY DEF IInv
  <2>2. InHarness
    BY <2>1 DEF InHarness, Control, InLoop
  <2>3. /\ Len(Entries) \in Nat /\ Loaded = Len(Entries)
        /\ \A k \in 1 .. Loaded : Over(k)
    <3>1. Len(Entries) \in Nat
      BY <2>1, EntriesFacts DEF TypeOK
    <3> QED
      BY <3>1 DEF Loaded, Over
  <2>4. Covers(Entries, request)
    BY <2>1, DiscoverCovers DEF TypeOK, Entries
  <2>5. Asked(v, t) <=> \E k \in 1 .. Len(Entries) :
                          Entries[k].version = v /\ Wanted(t.level, Entries[k].filters)
    <3>1. Asked(v, t) <=> AskedBy(request, v, t)
      BY DEF Asked, AskedBy
    <3> QED
      BY <2>4, <3>1 DEF Covers
  <2>6. /\ all \in Seq(Range(all))
        /\ \A j, k \in 1 .. Len(all) : all[j].name = all[k].name => j = k
    BY <2>1, ManifestFacts DEF TypeOK
  <2>7. PICK i \in 1 .. Len(all) : all[i] = t
    BY <2>6 DEF Range
  <2>8. ASSUME NEW k \in 1 .. Len(Entries), Entries[k].version = v
        PROVE  (\E r \in Outcomes : rec(r) \in ran) <=> Wanted(t.level, Entries[k].filters)
    <3> DEFINE tests == TestsOf(Entries[k])
               fs == Entries[k].filters
    <3>1. tests = FilterTests(all, fs) /\ fs \in Seq(Range(request)) /\ tests \in Seq(Range(all))
      BY <2>1, <2>8, EntriesFacts DEF TestsOf, TypeOK
    <3>2. PICK h : Selection(h, tests, all, fs)
      <4> DEFINE S == Range(all)
                 F == Range(request)
      <4>1. all \in Seq(S) /\ fs \in Seq(F)
        BY <2>6, <3>1
      <4> HIDE DEF S, F, all, fs, tests
      <4> QED
        BY <3>1, <4>1, FilterFacts
    <3>3. Range(tests) = {tests[j] : j \in 1 .. Len(tests)}
      BY <3>1 DEF Range
    <3>4. {x.test : x \in Recorded(k)} = {u.name : u \in Range(tests)}
      BY <2>1, <2>2, <2>3 DEF Ledger
    <3>5. (\E r \in Outcomes : rec(r) \in ran) <=> \E x \in Recorded(k) : x.test = t.name
      <4>1. ASSUME NEW x \in Recorded(k), x.test = t.name
            PROVE  x.result \in Outcomes /\ x = rec(x.result) /\ x \in ran
        <5>1. x \in ran /\ x.run = run /\ x.version = v
          BY <2>8 DEF Recorded
        <5>2. x \in [run : 1 .. run, version : DOMAIN manifests, test : TestNames, result : Outcomes]
          BY <2>1, <5>1 DEF Ledger, RanOfThis
        <5> QED
          BY <4>1, <5>1, <5>2
      <4>2. ASSUME NEW r \in Outcomes, rec(r) \in ran
            PROVE  rec(r) \in Recorded(k) /\ rec(r).test = t.name
        BY <2>8, <4>2 DEF Recorded
      <4> QED
        BY <4>1, <4>2
    <3>6. (\E x \in Recorded(k) : x.test = t.name) <=> \E j \in 1 .. Len(tests) : tests[j].name = t.name
      <4>1. (\E x \in Recorded(k) : x.test = t.name) <=> t.name \in {x.test : x \in Recorded(k)}
        OBVIOUS
      <4>2. (\E j \in 1 .. Len(tests) : tests[j].name = t.name) <=> t.name \in {u.name : u \in Range(tests)}
        BY <3>3
      <4> QED
        BY <3>4, <4>1, <4>2
    <3> HIDE DEF tests, fs
    <3>7. ASSUME NEW j \in 1 .. Len(tests), tests[j].name = t.name PROVE Wanted(t.level, fs)
      <4>1. h[j] \in 1 .. Len(all) /\ tests[j] = all[h[j]] /\ Wanted(tests[j].level, fs)
        BY <3>2 DEF Selection
      <4>2. h[j] = i
        BY <2>6, <2>7, <3>7, <4>1
      <4> QED
        BY <2>7, <4>1, <4>2
    <3>8. ASSUME Wanted(t.level, fs) PROVE \E j \in 1 .. Len(tests) : tests[j].name = t.name
      BY <2>7, <3>2, <3>8 DEF Selection
    <3> QED
      BY <3>5, <3>6, <3>7, <3>8 DEF fs
  <2>9. ASSUME NEW r \in Outcomes, rec(r) \in ran
        PROVE  \E k \in 1 .. Len(Entries) : Entries[k].version = v
    <3>1. rec(r).run = run /\ rec(r).version = v
      OBVIOUS
    <3> HIDE DEF rec
    <3> QED
      BY <2>1, <2>2, <2>3, <2>9, <3>1 DEF Ledger
  <2> QED
    BY <2>5, <2>8, <2>9
<1> QED
  BY <1>1, Invariance, PTL
=============================================================================
