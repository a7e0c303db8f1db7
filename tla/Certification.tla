--------------------------- MODULE Certification ---------------------------
(***************************************************************************)
(* One boot of a host image: sev-verify.service runs the harness (main in  *)
(* cli.py), which runs the prerequisites and then one certification per    *)
(* manifest and writes a JSON and a Markdown report after each of them;    *)
(* beacon-report.service publishes the reports that it finds;              *)
(* login-or-reboot ends the boot.  The harness may also be run by hand,    *)
(* with version filters, and again into the same directory.                *)
(*                                                                         *)
(* A test is one step here: it has a result, raises an exception that      *)
(* leaves main, or never ends (SevTest has the inside of a test).  The     *)
(* harness may be ended from outside at any point, also while a report is  *)
(* being written.                                                          *)
(***************************************************************************)
EXTENDS Integers, Sequences, Functions, Subsequences

CONSTANTS
  Installations, \* functions from the versions with a manifest to the manifests
  VersionOrder,  \* these versions in the order of their folders
  Requests,      \* the -v filters an operator may give, as sequences
  NoBuild,       \* a version without "-<build>"
  NoLevel,       \* a test without a level; no level has been certified
  NoFile,        \* a report that does not exist
  Empty,         \* one that has been opened for writing and no more
  Partial,       \* one whose end is missing
  Prereqs,       \* number of prerequisite tests
  MaxRuns        \* bound: invocations of the harness, for each installation

Outcomes == {"pass", "fail", "error"}
Torn     == {Empty, Partial}

VARIABLES
  manifests, \* the installation
  stage,     \* "verify", "publish", "prompt", "login", "off"
  pc,        \* where main, or beacon-report.sh, is
  request,   \* the filters of this invocation
  queue,     \* manifest_entries still to run
  prereqs,   \* results of the prerequisites
  cert,      \* the certification being executed: its version and its tests
  results,   \* results of its tests
  overall,   \* their fold
  failing,   \* some certification did not pass
  exit,      \* exit code of the last invocation
  json, md,  \* the files cert-<version>.json and cert-<version>.md
  toPublish, \* the JSON files beacon-report.sh has still to look at
  issues,    \* the issues it has opened
  run,       \* invocations so far
  ran,       \* history: the tests that have run, with their results
  finished,  \* history: the certifications with both of their reports written
  cut        \* history: invocations that were ended before they returned

progress == <<queue, prereqs, cert, results, overall, failing>>
files    == <<json, md>>
history  == <<ran, finished, cut>>
vars     == <<manifests, stage, pc, request, progress, exit, files, toPublish,
              issues, run, history>>

Versions == Range(VersionOrder)

----------------------------------------------------------------------------
(* Versions, filters and manifests *)

\* "3.0.0-1" is [parts |-> <<3, 0, 0>>, build |-> 1].
ManifestVersion(f) ==
  IF Len(f.parts) > 2 THEN [parts |-> SubSeq(f.parts, 1, 2), build |-> NoBuild] ELSE f

MatchesLevel(level, f) ==
  /\ level # NoLevel
  /\ \/ level = f
     \/ f.build = NoBuild /\ level.build # NoBuild /\ level.parts = f.parts

FilterTests(tests, filters) ==
  IF filters = <<>> THEN tests
  ELSE Kept(tests, {n \in DOMAIN tests :
                      \E k \in DOMAIN filters : MatchesLevel(tests[n].level, filters[k])})

\* Where an element occurs for the first time.
Firsts(s) == {n \in DOMAIN s : \A k \in 1 .. n - 1 : s[k] # s[n]}

\* The labelled levels of a manifest in the order of their first test.
AllLevels(m) ==
  LET levels == [n \in DOMAIN m.tests |-> m.tests[n].level]
  IN Kept(levels, {n \in Firsts(levels) : levels[n] # NoLevel})

Malformed(m) == m.cap # NoLevel /\ AllLevels(m) # <<>> /\ m.cap \notin Range(AllLevels(m))

Entry(v, filters) == [version |-> v, filters |-> filters]

\* The manifest versions of the filters, each once.
AskedVersions(filters) ==
  LET versions == [k \in DOMAIN filters |-> ManifestVersion(filters[k])]
  IN Kept(versions, Firsts(versions))

\* The filters of one manifest.
FiltersOf(v, filters) == Kept(filters, {k \in DOMAIN filters : ManifestVersion(filters[k]) = v})

Present(entries) == Kept(entries, {k \in DOMAIN entries : entries[k].version \in DOMAIN manifests})

Everything == [k \in DOMAIN VersionOrder |-> Entry(VersionOrder[k], <<>>)]

\* Mutant: a bare version does not take precedence over a level of it.
DiscoverLevels(filters) ==
  LET asked == AskedVersions(filters)
      Levels(v) == Kept(filters, {k \in DOMAIN filters : ManifestVersion(filters[k]) = v /\ filters[k] # v})
  IN Present(IF filters = <<>> THEN Everything
             ELSE [k \in DOMAIN asked |-> Entry(asked[k], Levels(asked[k]))])

\* The manifests to run with the level filters of each; no filters: all tests.
DiscoverManifests(filters) ==
  LET asked  == AskedVersions(filters)
      Levels(v) == IF v \in Range(filters) THEN <<>> ELSE FiltersOf(v, filters)
  IN Present(IF filters = <<>> THEN Everything
             ELSE [k \in DOMAIN asked |-> Entry(asked[k], Levels(asked[k]))])

\* The reports that can be written.
AnyLevel ==
  {NoLevel} \cup UNION {UNION {Range(AllLevels(inst[v])) : v \in DOMAIN inst} : inst \in Installations}

JsonReports ==
  [run : Nat, result : Outcomes, certified : AnyLevel, levels : Seq(Outcomes \cup {"skip"})]

MarkdownReports == [run : Nat, certified : AnyLevel]

\* A folder is named by a manifest version; the levels of a manifest are of its
\* version; a test is listed in it once.
ASSUME CertificationAssumption ==
  /\ VersionOrder \in Seq(Versions) /\ IsInjective(VersionOrder)
  /\ \A v \in Versions : ManifestVersion(v) = v
  /\ <<>> \in Requests
  /\ \A r \in Requests : r \in Seq(Range(r)) /\ \A f \in Range(r) : f.parts \in Seq(Nat)
  /\ \A inst \in Installations : DOMAIN inst \subseteq Versions /\ \A v \in DOMAIN inst :
       LET tests == inst[v].tests
       IN /\ tests \in Seq(Range(tests))
          /\ \A j, k \in DOMAIN tests : tests[j].name = tests[k].name => j = k
          /\ \A k \in DOMAIN tests : tests[k].level # NoLevel =>
               tests[k].level # v /\ ManifestVersion(tests[k].level) = v
  /\ Prereqs \in Nat /\ MaxRuns \in [Installations -> Nat \ {0}]
  /\ NoFile \notin Torn
  /\ \A f \in Torn \cup {NoFile} : f \notin JsonReports \cup MarkdownReports

----------------------------------------------------------------------------
(* Folding results *)

Severity == [pass |-> 0, skip |-> 1, fail |-> 2, error |-> 3]

\* Mutant: the latest result counts.
LatestResult(current, candidate) == candidate

WorseResult(current, candidate) ==
  IF Severity[candidate] > Severity[current] THEN candidate ELSE current

\* The results of the tests of a level; tests and res run in parallel.
LevelResults(level, tests, res) == {res[k] : k \in {j \in DOMAIN res : tests[j].level = level}}

\* Mutant: a level that was not run is passed over.
HighestOfRun(m, tests, res) ==
  LET levels == AllLevels(m)
      good   == {k \in DOMAIN levels :
                   \A j \in 1 .. k : LevelResults(levels[j], tests, res) \subseteq {"pass"}}
      cap    == IF m.cap = NoLevel THEN Len(levels)
                ELSE CHOOSE k \in DOMAIN levels : levels[k] = m.cap
      tried  == {k \in good : LevelResults(levels[k], tests, res) # {} /\ k <= cap}
  IN IF tried = {} THEN NoLevel ELSE levels[CHOOSE k \in tried : \A j \in tried : j <= k]

\* Mutant: one passing test is enough for a level.
HighestOfLucky(m, tests, res) ==
  LET levels == AllLevels(m)
      Passed(k) == "pass" \in LevelResults(levels[k], tests, res)
      top == CHOOSE k \in 0 .. Len(levels) :
               (\A j \in 1 .. k : Passed(j)) /\ (k < Len(levels) => ~Passed(k + 1))
  IN IF top = 0 THEN NoLevel ELSE levels[top]

\* The walk over all levels of the manifest: the first level without results or
\* with a result that is no pass ends it; the cap then clamps what it reached.
HighestCertified(m, tests, res) ==
  LET levels == AllLevels(m)
      Passed(k) == LevelResults(levels[k], tests, res) = {"pass"}
      top == CHOOSE k \in 0 .. Len(levels) :
               (\A j \in 1 .. k : Passed(j)) /\ (k < Len(levels) => ~Passed(k + 1))
      Index(level) == CHOOSE k \in DOMAIN levels : levels[k] = level
  IN IF top = 0 THEN NoLevel
     ELSE IF m.cap # NoLevel /\ Index(m.cap) < top THEN m.cap
     ELSE levels[top]

\* Mutant: the fold of the level's results.
LevelFold(level, tests, res) ==
  LET r == LevelResults(level, tests, res)
  IN IF r = {} THEN "skip" ELSE CHOOSE x \in r : \A y \in r : Severity[y] <= Severity[x]

\* write_json's verdict on one level.
LevelResult(level, tests, res) ==
  LET r == LevelResults(level, tests, res)
  IN IF r = {} THEN "skip" ELSE IF r = {"pass"} THEN "pass" ELSE "fail"

Manifest  == manifests[cert.version]
Certified == HighestCertified(Manifest, cert.tests, results)

Report ==
  [run |-> run, result |-> overall, certified |-> Certified,
   levels |-> [k \in DOMAIN AllLevels(Manifest) |->
                 LevelResult(AllLevels(Manifest)[k], cert.tests, results)]]

----------------------------------------------------------------------------
(* The harness *)

NoCert == [version |-> NoLevel, tests |-> <<>>]

Init ==
  /\ manifests \in Installations
  /\ stage = "verify" /\ pc = "idle"
  /\ request = <<>> /\ queue = <<>> /\ prereqs = <<>>
  /\ cert = NoCert /\ results = <<>> /\ overall = "pass" /\ failing = FALSE
  /\ exit = 0
  /\ json = [v \in Versions |-> NoFile] /\ md = [v \in Versions |-> NoFile]
  /\ toPublish = <<>> /\ issues = {}
  /\ run = 0 /\ ran = {} /\ finished = {} /\ cut = {}

InHarness == stage = "verify" /\ pc # "idle"

\* The harness process ends: a unit that has failed does not hold up the
\* publishing, which is only ordered after it.
Ends(code) ==
  /\ exit' = code
  /\ stage' = "publish"
  /\ pc' = "idle"

\* The service runs everything; by hand one may filter.
Start(filters) ==
  /\ stage = "verify" /\ pc = "idle"
  /\ run' = run + 1
  /\ request' = filters
  /\ queue' = DiscoverManifests(filters)
  /\ prereqs' = <<>> /\ cert' = NoCert /\ results' = <<>>
  /\ overall' = "pass" /\ failing' = FALSE
  /\ IF queue' = <<>> THEN Ends(1) ELSE pc' = "prereqs" /\ UNCHANGED <<stage, exit>>
  /\ UNCHANGED <<manifests, files, toPublish, issues, history>>

Prerequisite(r) ==
  /\ pc = "prereqs" /\ Len(prereqs) < Prereqs
  /\ prereqs' = Append(prereqs, r)
  /\ UNCHANGED <<manifests, stage, pc, request, queue, cert, results, overall, failing,
                 exit, files, toPublish, issues, run, history>>

\* Any prerequisite that did not pass ends the invocation.
Gate ==
  /\ pc = "prereqs" /\ Len(prereqs) = Prereqs
  /\ IF Range(prereqs) \subseteq {"pass"}
     THEN pc' = "next" /\ UNCHANGED <<stage, exit>>
     ELSE Ends(1)
  /\ UNCHANGED <<manifests, request, progress, files, toPublish, issues, run, history>>

\* The next manifest is loaded, which may raise, and its tests filtered; one
\* without a matching test is passed over with a warning.
LoadManifest ==
  /\ pc = "next" /\ queue # <<>>
  /\ LET e     == Head(queue)
         m     == manifests[e.version]
         tests == FilterTests(m.tests, e.filters)
     IN IF Malformed(m)
        THEN /\ Ends(1)
             /\ cut' = cut \cup {run}
             /\ UNCHANGED progress
        ELSE /\ queue' = Tail(queue)
             /\ results' = <<>> /\ overall' = "pass"
             /\ cert' = [version |-> e.version, tests |-> tests]
             /\ pc' = IF tests = <<>> THEN "next" ELSE "tests"
             /\ UNCHANGED <<stage, exit, prereqs, failing, cut>>
  /\ UNCHANGED <<manifests, request, files, toPublish, issues, run, ran, finished>>

RunTest(r) ==
  /\ pc = "tests" /\ Len(results) < Len(cert.tests)
  /\ results' = Append(results, r)
  /\ overall' = WorseResult(overall, r)
  /\ ran' = ran \cup {[run |-> run, version |-> cert.version, result |-> r,
                       test |-> cert.tests[Len(results) + 1].name]}
  /\ UNCHANGED <<manifests, stage, pc, request, queue, prereqs, cert, failing, exit, files,
                 toPublish, issues, run, finished, cut>>

\* An exception of execute_test leaves main.
TestRaises ==
  /\ \/ pc = "prereqs" /\ Len(prereqs) < Prereqs
     \/ pc = "tests" /\ Len(results) < Len(cert.tests)
  /\ Ends(1)
  /\ cut' = cut \cup {run}
  /\ UNCHANGED <<manifests, request, progress, files, toPublish, issues, run, ran, finished>>

\* Mutant: the output directory is emptied first.
WriteJsonAfresh ==
  /\ pc = "tests" /\ Len(results) = Len(cert.tests)
  /\ json' = [v \in Versions |-> IF v = cert.version THEN Report ELSE NoFile]
  /\ pc' = "markdown"
  /\ UNCHANGED <<manifests, stage, request, progress, exit, md, toPublish, issues, run, history>>

\* Mutant: only a passing certification is written.
WriteJsonIfPassed ==
  /\ pc = "tests" /\ Len(results) = Len(cert.tests)
  /\ json' = IF overall = "pass" THEN [json EXCEPT ![cert.version] = Report] ELSE json
  /\ pc' = "markdown"
  /\ UNCHANGED <<manifests, stage, request, progress, exit, md, toPublish, issues, run, history>>

WriteJson ==
  /\ pc = "tests" /\ Len(results) = Len(cert.tests)
  /\ json' = [json EXCEPT ![cert.version] = Report]
  /\ pc' = "markdown"
  /\ UNCHANGED <<manifests, stage, request, progress, exit, md, toPublish, issues, run, history>>

Body == [run |-> run, certified |-> Certified]

\* Mutant: without a certified level there is no Markdown report.
WriteMarkdownIfCertified ==
  /\ pc = "markdown"
  /\ md' = IF Certified = NoLevel THEN md ELSE [md EXCEPT ![cert.version] = Body]
  /\ failing' = (failing \/ overall # "pass")
  /\ finished' = finished \cup {<<run, cert.version>>}
  /\ pc' = "next"
  /\ UNCHANGED <<manifests, stage, request, queue, prereqs, cert, results, overall, exit,
                 json, toPublish, issues, run, ran, cut>>

WriteMarkdown ==
  /\ pc = "markdown"
  /\ md' = [md EXCEPT ![cert.version] = Body]
  /\ failing' = (failing \/ overall # "pass")
  /\ finished' = finished \cup {<<run, cert.version>>}
  /\ pc' = "next"
  /\ UNCHANGED <<manifests, stage, request, queue, prereqs, cert, results, overall, exit,
                 json, toPublish, issues, run, ran, cut>>

Return ==
  /\ pc = "next" /\ queue = <<>>
  /\ Ends(IF failing THEN 1 ELSE 0)
  /\ UNCHANGED <<manifests, request, progress, files, toPublish, issues, run, history>>

\* What a file may hold when a write of it is cut short: the old content, or
\* part of the new one.
CutShort(file, writing) ==
  IF writing THEN {[file EXCEPT ![cert.version] = f] : f \in Torn \cup {file[cert.version]}}
  ELSE {file}

\* The harness is ended from outside, or a write fails.
Cut ==
  /\ InHarness
  /\ Ends(1)
  /\ cut' = cut \cup {run}
  /\ json' \in CutShort(json, pc = "tests" /\ Len(results) = Len(cert.tests))
  /\ md' \in CutShort(md, pc = "markdown")
  /\ UNCHANGED <<manifests, request, progress, toPublish, issues, run, ran, finished>>

\* TimeoutStartSec, for the run that the service has started.
ServiceTimeout == run = 1 /\ request = <<>> /\ Cut

----------------------------------------------------------------------------
(* beacon-report.sh and login-or-reboot.sh *)

PublishingEnds ==
  /\ stage' = IF run = 1 THEN "prompt" ELSE "login"
  /\ pc' = "idle"
  /\ toPublish' = <<>>

HarnessAside == UNCHANGED <<manifests, request, progress, exit, files, run, history>>

\* The JSON files there are, in the order of their names.
WithReport == Kept(VersionOrder, {k \in DOMAIN VersionOrder : json[VersionOrder[k]] # NoFile})

\* Mutant: beacon waits for a report.
BeaconWaits ==
  /\ stage = "publish" /\ pc = "idle"
  /\ \E v \in Versions : json[v] # NoFile
  /\ toPublish' = WithReport
  /\ pc' = "beacon"
  /\ UNCHANGED stage
  /\ HarnessAside /\ UNCHANGED issues

BeaconStarts ==
  /\ stage = "publish" /\ pc = "idle"
  /\ IF \E v \in Versions : json[v] # NoFile
     THEN /\ toPublish' = WithReport
          /\ pc' = "beacon"
          /\ UNCHANGED stage
     ELSE PublishingEnds
  /\ HarnessAside /\ UNCHANGED issues

\* Under `set -e' the first command that fails ends the script: the processor
\* lookup or beacon, which may, and jq on a file whose end is missing.
BeaconFails ==
  /\ stage = "publish"
  /\ PublishingEnds
  /\ HarnessAside /\ UNCHANGED issues

JqFails ==
  /\ pc = "beacon" /\ toPublish # <<>> /\ json[Head(toPublish)] = Partial
  /\ PublishingEnds
  /\ HarnessAside /\ UNCHANGED issues

\* jq prints nothing for an empty file, and the Markdown file without a version
\* in its name does not exist.
Skip ==
  /\ pc = "beacon" /\ toPublish # <<>>
  /\ LET v == Head(toPublish) IN json[v] = Empty \/ (json[v] # Partial /\ md[v] = NoFile)
  /\ toPublish' = Tail(toPublish)
  /\ HarnessAside /\ UNCHANGED <<stage, pc, issues>>

Publish ==
  /\ pc = "beacon" /\ toPublish # <<>>
  /\ LET v == Head(toPublish)
     IN /\ json[v] \notin Torn /\ md[v] # NoFile
        /\ issues' = issues \cup
             {[version |-> v, run |-> json[v].run, milestone |-> json[v].certified,
               body |-> md[v], opened |-> run]}
  /\ toPublish' = Tail(toPublish)
  /\ HarnessAside /\ UNCHANGED <<stage, pc>>

BeaconEnds ==
  /\ pc = "beacon" /\ toPublish = <<>>
  /\ PublishingEnds
  /\ HarnessAside /\ UNCHANGED issues

\* No key is pressed for 30 seconds; what the boot has written is gone.
Reboot ==
  /\ stage = "prompt"
  /\ stage' = "off"
  /\ json' = [v \in Versions |-> NoFile] /\ md' = [v \in Versions |-> NoFile]
  /\ UNCHANGED <<manifests, pc, request, progress, exit, toPublish, issues, run, history>>

Login ==
  /\ stage = "prompt"
  /\ stage' = "login"
  /\ UNCHANGED <<manifests, pc, request, progress, exit, files, toPublish, issues, run, history>>

\* The operator runs the harness again and publishes what it leaves.
Again ==
  /\ stage = "login" /\ run < MaxRuns[manifests]
  /\ stage' = "verify"
  /\ UNCHANGED <<manifests, pc, request, progress, exit, files, toPublish, issues, run, history>>

Next ==
  \/ \E filters \in Requests : Start(filters)
  \/ \E r \in Outcomes : Prerequisite(r) \/ RunTest(r)
  \/ Gate \/ LoadManifest \/ TestRaises
  \/ WriteJson \/ WriteMarkdown \/ Return \/ Cut
  \/ BeaconStarts \/ BeaconFails \/ JqFails \/ Skip \/ Publish \/ BeaconEnds
  \/ Reboot \/ Login \/ Again

\* A test need not end by itself; systemd ends it.  The rest goes on.
Fairness ==
  /\ WF_vars(Start(<<>>)) /\ WF_vars(ServiceTimeout)
  /\ WF_vars(Gate \/ LoadManifest \/ WriteJson \/ WriteMarkdown \/ Return)
  /\ WF_vars(BeaconStarts \/ JqFails \/ Skip \/ Publish \/ BeaconEnds)
  /\ WF_vars(Reboot \/ Login)

Spec == Init /\ [][Next]_vars /\ Fairness

----------------------------------------------------------------------------
(* Properties *)

Reports == {<<v, json[v]>> : v \in {u \in Versions : json[u] \notin Torn \cup {NoFile}}}
Results == Outcomes \cup {"skip"}

TypeOK ==
  /\ manifests \in Installations
  /\ stage \in {"verify", "publish", "prompt", "login", "off"}
  /\ pc \in {"idle", "prereqs", "next", "tests", "markdown", "beacon"}
  /\ request \in Requests
  /\ overall \in Outcomes
  /\ results \in Seq(Outcomes) /\ Len(results) <= Len(cert.tests)
  /\ \A p \in Reports :
       /\ p[2].run \in 1 .. run /\ p[2].result \in Outcomes
       /\ Range(p[2].levels) \subseteq {"pass", "fail", "skip"}
       /\ p[2].certified \in Range(AllLevels(manifests[p[1]])) \cup {NoLevel}
  /\ exit \in 0 .. 1 /\ run \in 0 .. MaxRuns[manifests]
  /\ cut \subseteq 1 .. run /\ finished \subseteq (1 .. run) \X Versions

\* What the levels mean, apart from how they are computed: the run r has earned
\* a level of a version when every test of the manifest at that level or an
\* earlier one has run in it, and passed.
Position(v, level) == CHOOSE k \in DOMAIN AllLevels(manifests[v]) : AllLevels(manifests[v])[k] = level

UpTo(v, level) ==
  {t \in Range(manifests[v].tests) :
     t.level # NoLevel /\ Position(v, t.level) <= Position(v, level)}

Earned(r, v) ==
  {level \in Range(AllLevels(manifests[v])) :
     \A t \in UpTo(v, level) :
       /\ [run |-> r, version |-> v, test |-> t.name, result |-> "pass"] \in ran
       /\ \A x \in {"fail", "error"} :
            [run |-> r, version |-> v, test |-> t.name, result |-> x] \notin ran}

Capped(v, level) == manifests[v].cap = NoLevel \/ Position(v, level) <= Position(v, manifests[v].cap)

\* The certified level of a report is the highest one that its run has earned,
\* as far as the cap allows (cli.py, _highest_certified_level), whatever was
\* filtered out; and the report's own verdicts on the levels bear it out.
CertifiedSound ==
  \A p \in Reports :
    LET v    == p[1]
        good == {level \in Earned(p[2].run, v) : Capped(v, level)}
    IN /\ good = {} <=> p[2].certified = NoLevel
       /\ good # {} =>
            /\ p[2].certified \in good
            /\ \A level \in good : Position(v, level) <= Position(v, p[2].certified)
            /\ \A k \in 1 .. Position(v, p[2].certified) : p[2].levels[k] = "pass"

\* An issue's milestone has been earned by the run whose report it was made
\* from, also when a later run has failed, was filtered or cut short.
MilestoneEarned ==
  \A p \in issues :
    p.milestone # NoLevel => p.milestone \in Earned(p.run, p.version) /\ Capped(p.version, p.milestone)

\* Milestone and body of an issue come from the same run, unless that run was
\* ended between its two reports (cli.py writes them one after the other).
BodyOfTheSameRun ==
  \A p \in issues : p.body \in Torn \/ p.body.run # p.run => p.run \in cut

\* A run that has finished a certification is what is published of it: an old
\* report is published again only when the later run never got to write one.
FreshOrAbsent ==
  \A p \in issues : p.run # p.opened => <<p.opened, p.version>> \notin finished

\* What is finished stays: an exception, a kill or a malformed manifest later
\* in the run does not cost the reports of the certifications before it.
FinishedSurvives ==
  \A p \in finished :
    LET now == json[p[2]]
    IN stage # "off" =>
         /\ now # NoFile
         /\ now \in Torn \/ now.run # p[1] => run > p[1]

\* A run that returns has run the tests that the filters ask for: those of a
\* version that is named, and those of the levels that are.
Asked(v, t) ==
  \/ request = <<>>
  \/ \E k \in DOMAIN request :
       LET f == request[k] IN f = v \/ MatchesLevel(t.level, f)

RunsWhatWasAsked ==
  pc = "next" /\ queue = <<>> =>
    \A v \in DOMAIN manifests : \A t \in Range(manifests[v].tests) :
      Asked(v, t) <=> \E r \in Outcomes :
        [run |-> run, version |-> v, test |-> t.name, result |-> r] \in ran

\* Exit code 0: the prerequisites and every test that ran have passed, and
\* each certification that ran has a report that says so.
ExitTellsTruth ==
  stage = "publish" /\ pc = "idle" /\ exit = 0 =>
    /\ Range(prereqs) \subseteq {"pass"} /\ run \notin cut
    /\ \A x \in ran : x.run = run =>
         /\ x.result = "pass"
         /\ json[x.version] \notin Torn \cup {NoFile}
         /\ json[x.version].run = run /\ json[x.version].result = "pass"

\* The host comes to rest: a test that never ends, a failing prerequisite, a
\* broken report or a failing beacon do not keep it from the prompt.
PipelineEnds == (InHarness /\ run = 1 /\ request = <<>>) ~> (stage \in {"login", "off"})

=============================================================================
