--------------------------- MODULE KeyDerivation ---------------------------
(***************************************************************************)
(* The key derivation test (key_derivation_test.py).  A guest with an ID   *)
(* block asks the firmware for derived keys (MSG_KEY_REQ): the test sweeps *)
(* the guest SVN and every component of the TCB up to the values the guest *)
(* was launched with, asks for a few values above them that must be        *)
(* rejected, and compares keys, at the end with one of a second guest.     *)
(*                                                                         *)
(* The test is judged by what it finds out.  The firmware may have one     *)
(* Fault: a bound it does not enforce, an input it does not mix in, a key  *)
(* it does not reproduce.  Meanwhile the guest's device may reject every   *)
(* request, a key that was derived may not be fetched, and a step may fail *)
(* or time out.  A handler is one step: nothing it depends on changes      *)
(* while it is running, except what Trouble says.                          *)
(***************************************************************************)
EXTENDS AttestationReport, Sequences

CONSTANTS
  Hosts,      \* hosts, with the platforms of each (see Platforms)
  SweepAll,   \* a range up to a bound below this one is swept whole: 16
  AboveSteps, \* values above a bound that are tried: 3
  NoKey,      \* a request that was rejected
  NoFile,     \* an artifact that does not exist
  NoLaunch,   \* execute_test tracks no launch
  MaxRuns     \* bound: runs of the test in one behaviour

Bits == {"policy", "imageId", "familyId", "measurement", "svn", "tcb"}

\* What can be wrong with the firmware: a bound is not enforced, or no value
\* but 0 and the bound is accepted, the value of
\* an input is ignored, a bit of GUEST_FIELD_SELECT is, keys are not
\* reproducible, or only for the guest that asked first.
Faults(layout) ==
  [kind : {"none", "random", "guest"}, what : {"-"}]
    \cup [kind : {"strict"}, what : {"guestSvn"}]
    \cup [kind : {"unbounded"}, what : Components(layout) \cup {"guestSvn"}]
    \cup [kind : {"ignored"}, what : Components(layout) \cup {"guestSvn", "root", "vmpl"}]
    \cup [kind : {"unselected"}, what : Bits]

\* The files in the guest that a key is written to, by the request it is for.
KeyFiles ==
  {"det_key1", "det_key2", "vmpl_cur", "vmpl_hi", "vcek_key", "vmrk_key", "cross_cvm_key"}
    \cup {"svn"} \X Nat \cup {"tcb"} \X RawTcbs \cup {"gfs"} \X SUBSET Bits

\* What a platform gives its guests, their reports and their keys.
Cpus       == [family : Nat, model : Nat]
Launches   == [n : 1 .. 2, svn : Nat, ok : BOOLEAN]
ReportData == [version : Nat, cpuid : Cpus, svn : Nat, launchTcb : RawTcbs]
Keys       == [root : {"vcek", "vmrk"}, vmpl : Nat, gfs : SUBSET Bits, svn : Nat,
               tcb : UNION {TcbVersions(layout) : layout \in Layouts},
               salt : (KeyFiles \cup {"guest", "none"}) \X Nat]

\* The files of the artifact directory, with the run that has written them.
ReportFiles    == [data : ReportData, run : Nat]
VmplFiles      == [vmpl : 0 .. 3, run : Nat]
ReferenceFiles == [key : Keys, n : 1 .. 2, run : Nat]

\* A platform: the CPU that the host and that the report name, if both are
\* known of one generation, the layout that its firmware really uses, the launch
\* TCB, the SVN of the ID block, the VMPL the guest runs at, the version of its
\* reports.  What stands for nothing is none of these.
ASSUME KeyDerivationAssumption ==
  /\ \A h \in Hosts : \A p \in h :
       /\ p.layout \in Layouts
       /\ p.tcb \in TcbVersions(p.layout)
       /\ p.svn \in Nat /\ p.vmpl \in 0 .. 3 /\ p.version \in Nat
       /\ p.fault \in Faults(p.layout)
       /\ {p.cpu, p.cpuid} \subseteq Cpus
       /\ Resolves(p.cpu) => ResolveGeneration(p.cpu).layout = p.layout
       /\ Resolves(p.cpu) /\ Resolves(p.cpuid) =>
            ResolveGeneration(p.cpu) = ResolveGeneration(p.cpuid)
  /\ MaxRuns \in Nat /\ SweepAll \in Nat \ {0, 1} /\ AboveSteps \in Nat \ {0}
  /\ NoLaunch \notin Launches /\ NoKey \notin Keys
  /\ NoFile \notin ReportFiles \cup VmplFiles \cup ReferenceFiles

VARIABLES
  platform,  \* the host as it is booted
  running,   \* the test is being executed
  step,      \* index of the current step
  overall,   \* the verdict so far, or of the last run
  launch,    \* the guest that execute_test tracks: its number, SVN, whether ok
  guestFile, \* report.bin in the guest
  report,    \* report.bin in the artifact directory, with the run it is from
  vmplFile,  \* the file vmpl in the artifact directory, with its run
  reference, \* cross_cvm_key_1.bin, with the guest that derived it
  runs,      \* runs begun
  guests,    \* guests launched in this run
  compared,  \* history: the guests whose keys this run has compared
  calm,      \* history: nothing but the firmware has made a step of this run fail
  misled     \* history: the device was lost between a control and its test

loop    == <<running, step, overall, runs>>
files   == <<report, vmplFile, reference>>
guest   == <<launch, guests, guestFile>>
history == <<compared, calm, misled>>
vars    == <<platform, loop, guest, files, history>>

TypeOK ==
  /\ platform \in UNION Hosts
  /\ {running, calm, misled} \subseteq BOOLEAN
  /\ step \in 1 .. 20
  /\ overall \in {"none", "pass", "fail"}
  /\ guests \in 0 .. 2
  /\ launch \in [n : 1 .. 2, svn : {0, platform.svn}, ok : BOOLEAN] \cup {NoLaunch}
  /\ report # NoFile => report.run \in 1 .. MaxRuns
  /\ vmplFile # NoFile => vmplFile \in [vmpl : 0 .. 3, run : 1 .. MaxRuns]
  /\ reference # NoFile =>
       reference.n \in 1 .. 2 /\ reference.run \in 1 .. MaxRuns /\ reference.key # NoKey
  /\ compared \subseteq [n : 1 .. 2, run : 1 .. MaxRuns]
  /\ runs \in 0 .. MaxRuns

----------------------------------------------------------------------------
(* The firmware *)

Is(kind, what) == platform.fault = [kind |-> kind, what |-> what]

\* A request is accepted up to the guest's own VMPL, SVN and launch TCB.
Accepts(req) ==
  LET tcb == FromBytes(req.tcb, platform.layout)
  IN /\ req.vmpl \in platform.vmpl .. 3
     /\ req.svn <= launch.svn \/ Is("unbounded", "guestSvn")
     /\ req.svn \in {0, launch.svn} \/ ~Is("strict", "guestSvn")
     /\ \A c \in DOMAIN tcb : tcb[c] <= platform.tcb[c] \/ Is("unbounded", c)

\* The derived key stands for what has gone into it.  salt: what should not.
DerivedKey(req) ==
  LET gfs == {b \in req.gfs : ~Is("unselected", b)}
      tcb == FromBytes(req.tcb, platform.layout)
  IN [root |-> IF Is("ignored", "root") THEN "vcek" ELSE req.root,
      vmpl |-> IF Is("ignored", "vmpl") THEN 0 ELSE req.vmpl,
      gfs  |-> gfs,
      svn  |-> IF "svn" \notin gfs \/ Is("ignored", "guestSvn") THEN 0 ELSE req.svn,
      tcb  |-> [c \in DOMAIN tcb |->
                  IF "tcb" \notin gfs \/ Is("ignored", c) THEN 0 ELSE tcb[c]],
      salt |-> IF Is("random", "-") THEN <<req.file, launch.n>>
               ELSE IF Is("guest", "-") THEN <<"guest", launch.n>> ELSE <<"none", 0>>]

----------------------------------------------------------------------------
(* Requests.  A handler makes them in up to three phases: a control, what    *)
(* the control is for, a sweep.  In each of them the device may reject every *)
(* request ("broken") and the fetching of a key may fail ("fetch").          *)

Phases  == {"control", "test", "sweep"}
Trouble == [Phases -> {"none", "broken", "fetch"}]

ZeroTcb == [i \in 0 .. 7 |-> 0]

\* The defaults of _derive_key.
Req(file) ==
  [file |-> file, root |-> "vcek", vmpl |-> vmplFile.vmpl, svn |-> 0, tcb |-> ZeroTcb,
   gfs |-> {"policy"}]

\* Mutant: a key that is derived and cannot be fetched counts as a rejection.
DeriveKeyFolding(req, trouble) ==
  IF trouble = "none" /\ Accepts(req) THEN [outcome |-> "key", key |-> DerivedKey(req)]
  ELSE [outcome |-> "rejected", key |-> NoKey]

\* _derive_key returns the key, returns False, or raises.
DeriveKey(req, trouble) ==
  IF trouble = "broken" \/ ~Accepts(req) THEN [outcome |-> "rejected", key |-> NoKey]
  ELSE IF trouble = "fetch" THEN [outcome |-> "raises", key |-> NoKey]
  ELSE [outcome |-> "key", key |-> DerivedKey(req)]

Raise(reqs, trouble)  == \E q \in reqs : DeriveKey(q, trouble).outcome = "raises"
Reject(reqs, trouble) == \A q \in reqs : DeriveKey(q, trouble).outcome = "rejected"
Succeed(reqs, trouble) == {q \in reqs : DeriveKey(q, trouble).outcome = "key"}

\* Two requests, then a comparison of their keys.
Pair(q1, q2, equal, t) ==
  LET d1 == DeriveKey(q1, t["control"])
      d2 == DeriveKey(q2, t["test"])
  IN IF "raises" \in {d1.outcome, d2.outcome} THEN "error"
     ELSE IF "rejected" \in {d1.outcome, d2.outcome} THEN "fail"
     ELSE IF (d1.key = d2.key) = equal THEN "pass" ELSE "fail"

----------------------------------------------------------------------------
(* Bounds and sweeps *)

SweepValues(bound) ==
  IF bound < SweepAll THEN 0 .. bound
  ELSE LET mid == bound \div 2
       IN {0, 1, 2, mid - 1, mid, mid + 1, bound - 2, bound - 1, bound}

\* Mutant: a value that does not fit into the component's byte is tried.
AboveAll(bound) == bound + 1 .. bound + AboveSteps

\* The values above a TCB component's bound that fit into its byte.
Above(bound) == {v \in bound + 1 .. bound + AboveSteps : v <= 255}

\* test_svn and test_tcb: the request at the bound is accepted, those above it
\* are rejected, and those of the sweep have different keys, as far as they
\* have any and there is more than one of them.
Bounded(control, above, sweep, t) ==
  LET c     == DeriveKey(control, t["control"]).outcome
      keyed == Succeed(sweep, t["sweep"])
      keys  == {DeriveKey(q, t["sweep"]).key : q \in keyed}
  IN IF c = "raises" THEN "error"
     ELSE IF c = "rejected" THEN "fail"
     ELSE IF Raise(above, t["test"]) THEN "error"
     ELSE IF ~Reject(above, t["test"]) THEN "fail"
     ELSE IF Raise(sweep, t["sweep"]) THEN "error"
     ELSE IF Cardinality(sweep) < 2 THEN "pass"
     ELSE IF Cardinality(keyed) >= 2 /\ Cardinality(keys) = Cardinality(keyed)
     THEN "pass" ELSE "fail"

----------------------------------------------------------------------------
(* The handlers *)

HostGeneration == ResolveGeneration(platform.cpu)

\* _load_report: the host's CPUID has to resolve, and parse must not raise.
LoadReport ==
  IF report = NoFile \/ ~Resolves(platform.cpu) THEN ReportError
  ELSE Parse(report.data, HostGeneration)

Determinism(t) == Pair(Req("det_key1"), Req("det_key2"), TRUE, t)

VmplIsolation(t) ==
  LET higher == [Req("vmpl_hi") EXCEPT !.vmpl = @ + 1]
  IN IF vmplFile.vmpl < 3 THEN Pair(Req("vmpl_cur"), higher, FALSE, t)
     ELSE LET outcome == DeriveKey(Req("vmpl_cur"), t["control"]).outcome
          IN IF outcome = "key" THEN "pass" ELSE IF outcome = "rejected" THEN "fail" ELSE "error"

RootKeys(t) == Pair(Req("vcek_key"), [Req("vmrk_key") EXCEPT !.root = "vmrk"], FALSE, t)

SvnReq(svn) == [Req(<<"svn", svn>>) EXCEPT !.svn = svn, !.gfs = {"svn"}]

Svn(t) ==
  LET bound == LoadReport.svn
      above == {SvnReq(v) : v \in bound + 1 .. bound + 3}
      sweep == IF bound = 0 THEN {} ELSE {SvnReq(v) : v \in SweepValues(bound)}
  IN IF LoadReport = ReportError THEN "fail" ELSE Bounded(SvnReq(bound), above, sweep, t)

\* _make_tcb: the other components are zero.
MakeTcb(component, value) ==
  [c \in Components(HostGeneration.layout) |-> IF c = component THEN value ELSE 0]

TcbReq(tcb) ==
  LET u64 == ToU64(tcb, HostGeneration.layout)
  IN [Req(<<"tcb", u64>>) EXCEPT !.tcb = u64, !.gfs = {"tcb"}]

Tcb(t) ==
  LET bound == LoadReport.launchTcb
      above == UNION {{TcbReq(MakeTcb(c, v)) : v \in Above(bound[c])} : c \in DOMAIN bound}
      sweep == UNION {{TcbReq(MakeTcb(c, v)) : v \in SweepValues(bound[c])} : c \in DOMAIN bound}
  IN IF LoadReport = ReportError THEN "fail"
     ELSE IF bound = NoTcb THEN "fail"
     ELSE Bounded(TcbReq(bound), above, sweep, t)

GfsReq(bits) == [Req(<<"gfs", bits>>) EXCEPT !.gfs = bits]

Gfs(t) == Pair(GfsReq({"policy"}), GfsReq({"imageId"}), FALSE, t)

\* Each bit alone changes the key.
FieldMixing(t) ==
  LET baseline == DeriveKey(GfsReq({}), t["control"])
      single   == {GfsReq({b}) : b \in Bits}
  IN IF baseline.outcome = "raises" THEN "error"
     ELSE IF baseline.outcome = "rejected" THEN "fail"
     ELSE IF Raise(single, t["test"]) THEN "error"
     ELSE IF \A q \in single : DeriveKey(q, t["test"]).key \notin {baseline.key, NoKey}
     THEN "pass" ELSE "fail"

----------------------------------------------------------------------------
(* The plan *)

Op(name, type) == [name |-> name, type |-> type]

\* Mutant: the report and the VMPL are required steps.
PlanNoSetup ==
  << Op("calculate", "setup"), Op("generate", "setup"), Op("launch", "setup"),
     Op("guest-report", "required"), Op("pull-report", "required"), Op("parse", "required"),
     Op("detect-vmpl", "required"), Op("determinism", "required"), Op("vmpl", "required"),
     Op("root", "required"), Op("svn", "required"), Op("tcb", "required"),
     Op("gfs", "required"), Op("field-mixing", "required"), Op("save", "required"),
     Op("stop", "info"), Op("launch", "setup"), Op("verify", "required"), Op("stop", "info") >>

Plan ==
  << Op("calculate", "setup"), Op("generate", "setup"), Op("launch", "setup"),
     Op("guest-report", "setup"), Op("pull-report", "setup"), Op("parse", "required"),
     Op("detect-vmpl", "setup"), Op("determinism", "required"), Op("vmpl", "required"),
     Op("root", "required"), Op("svn", "required"), Op("tcb", "required"),
     Op("gfs", "required"), Op("field-mixing", "required"), Op("save", "required"),
     Op("stop", "info"), Op("launch", "setup"), Op("verify", "required"), Op("stop", "info") >>

At(name) == running /\ step <= Len(Plan) /\ Plan[step].name = name

\* The outcome of the step is recorded.  A failed setup step is the last one.
Record(r) ==
  /\ overall' = IF r # "pass" /\ Plan[step].type # "info" THEN "fail" ELSE overall
  /\ step' = IF r # "pass" /\ Plan[step].type = "setup" THEN Len(Plan) + 1 ELSE step + 1
  /\ UNCHANGED <<running, runs>>

StartRun ==
  /\ ~running
  /\ runs < MaxRuns
  /\ running' = TRUE
  /\ step' = 1
  /\ overall' = "pass"
  /\ runs' = runs + 1
  /\ launch' = NoLaunch
  /\ guests' = 0
  /\ guestFile' = NoFile
  /\ compared' = {}
  /\ calm' = TRUE
  /\ misled' = FALSE
  /\ UNCHANGED <<platform, files>>

\* calculate_measurement and generate_id_block (see IdBlock).
MakeIdBlock ==
  /\ At("calculate") \/ At("generate")
  /\ \E r \in {"pass", "fail"} : Record(r) /\ calm' = (calm /\ r = "pass")
  /\ UNCHANGED <<platform, guest, files, compared, misled>>

\* Mutant: a guest that is still running is taken for the new one.
LaunchReusing ==
  /\ At("launch")
  /\ \/ /\ launch = NoLaunch
        /\ \E svn \in {0, platform.svn} : launch' = [n |-> guests + 1, svn |-> svn, ok |-> TRUE]
        /\ guests' = guests + 1
        /\ Record("pass")
        /\ UNCHANGED calm
     \/ launch # NoLaunch /\ Record("pass") /\ UNCHANGED <<launch, guests, calm>>
     \/ Record("fail") /\ calm' = FALSE /\ UNCHANGED <<launch, guests>>
  /\ guestFile' = NoFile
  /\ UNCHANGED <<platform, files, compared, misled>>

\* A new guest has no files, and the SVN of its ID block, which generate leaves
\* out when there is no measurement.  A launch that is still tracked makes this
\* one a duplicate, which is an error.  One that fails may be kept.
Launch ==
  /\ At("launch")
  /\ IF launch # NoLaunch
     THEN Record("fail") /\ calm' = FALSE /\ UNCHANGED <<launch, guests, guestFile>>
     ELSE /\ guestFile' = NoFile
          /\ guests' = guests + 1
          /\ \E svn \in {0, platform.svn}, ok \in BOOLEAN :
               /\ launch' \in {[n |-> guests + 1, svn |-> svn, ok |-> ok]}
                               \cup (IF ok THEN {} ELSE {NoLaunch})
               /\ calm' = (calm /\ ok)
               /\ Record(IF ok THEN "pass" ELSE "fail")
  /\ UNCHANGED <<platform, files, compared, misled>>

GuestData ==
  [version |-> platform.version, cpuid |-> platform.cpuid, svn |-> launch.svn,
   launchTcb |-> ToU64(platform.tcb, platform.layout)]

GuestReport ==
  /\ At("guest-report")
  /\ \/ guestFile' = GuestData /\ Record("pass") /\ UNCHANGED calm
     \/ guestFile' \in {GuestData, guestFile} /\ Record("fail") /\ calm' = FALSE
  /\ UNCHANGED <<platform, launch, guests, files, compared, misled>>

\* A pull that fails leaves the report of an earlier run in place.
PullReport ==
  /\ At("pull-report")
  /\ \/ /\ guestFile # NoFile
        /\ report' = [data |-> guestFile, run |-> runs]
        /\ Record("pass")
        /\ UNCHANGED calm
     \/ Record("fail") /\ calm' = FALSE /\ UNCHANGED report
  /\ UNCHANGED <<platform, guest, vmplFile, reference, compared, misled>>

ParseReport ==
  /\ At("parse")
  /\ \/ Record(IF LoadReport # ReportError THEN "pass" ELSE "fail") /\ UNCHANGED calm
     \/ Record("fail") /\ calm' = FALSE
  /\ UNCHANGED <<platform, guest, files, compared, misled>>

\* The lowest VMPL for which a key is derived.  A step that times out may have
\* written it.
DetectVmpl ==
  /\ At("detect-vmpl")
  /\ \/ LET accepted == {v \in 0 .. 3 : Accepts([vmpl |-> v, svn |-> 0, tcb |-> ZeroTcb])}
            lowest   == CHOOSE v \in accepted : \A w \in accepted : v <= w
        IN /\ vmplFile' = [vmpl |-> lowest, run |-> runs]
           /\ \E r \in {"pass", "fail"} : Record(r) /\ calm' = (calm /\ r = "pass")
     \/ Record("fail") /\ calm' = FALSE /\ UNCHANGED vmplFile
  /\ UNCHANGED <<platform, guest, report, reference, compared, misled>>

\* The device worked for the control and not for what it is the control of.
Misleading(t) == t["control"] # "broken" /\ t["test"] = "broken"

\* A step of one handler: what it finds, or an error in the harness: a timeout,
\* an agent that does not answer.
Handler(name, finding) ==
  /\ At(name)
  /\ \/ \E t \in Trouble :
          /\ Record(finding[t])
          /\ calm' = (calm /\ t = [p \in Phases |-> "none"])
          /\ misled' = (misled \/ Misleading(t))
     \/ Record("fail") /\ calm' = FALSE /\ UNCHANGED misled
  /\ UNCHANGED <<platform, guest, files, compared>>

TestDeterminism == Handler("determinism", [t \in Trouble |-> Determinism(t)])
TestVmpl        == Handler("vmpl", [t \in Trouble |-> VmplIsolation(t)])
TestRootKeys    == Handler("root", [t \in Trouble |-> RootKeys(t)])
TestSvn         == Handler("svn", [t \in Trouble |-> Svn(t)])
TestTcb         == Handler("tcb", [t \in Trouble |-> Tcb(t)])
TestGfs         == Handler("gfs", [t \in Trouble |-> Gfs(t)])
TestFieldMixing == Handler("field-mixing", [t \in Trouble |-> FieldMixing(t)])

\* Mutant: the key is saved whatever has become of the request.
SaveKeyUnchecked ==
  /\ At("save")
  /\ \/ \E t \in {"none", "broken", "fetch"} :
          LET d == DeriveKey(Req("cross_cvm_key"), t)
          IN /\ reference' = [key |-> d.key, n |-> launch.n, run |-> runs]
             /\ \E r \in {"pass", "fail"} : Record(r) /\ calm' = (calm /\ r = "pass")
     \/ Record("fail") /\ calm' = FALSE /\ UNCHANGED reference
  /\ UNCHANGED <<platform, guest, report, vmplFile, compared, misled>>

\* save_cross_cvm_key.  A handler that its step's timeout has given up on
\* still writes the reference.
SaveKey ==
  /\ At("save")
  /\ \/ \E t \in {"none", "broken", "fetch"} :
          LET d == DeriveKey(Req("cross_cvm_key"), t)
          IN \/ /\ d.outcome = "key"
                /\ reference' = [key |-> d.key, n |-> launch.n, run |-> runs]
                /\ \E r \in {"pass", "fail"} : Record(r) /\ calm' = (calm /\ r = "pass")
             \/ /\ d.outcome # "key"
                /\ Record("fail")
                /\ calm' = (calm /\ t = "none")
                /\ UNCHANGED reference
     \/ Record("fail") /\ calm' = FALSE /\ UNCHANGED reference
  /\ UNCHANGED <<platform, guest, report, vmplFile, compared, misled>>

\* verify_cross_cvm_key.  The reference may be one of an earlier run.
VerifyKey ==
  /\ At("verify")
  /\ \/ \E t \in {"none", "broken", "fetch"} :
          LET d == DeriveKey(Req("cross_cvm_key"), t)
          IN IF d.outcome = "key" /\ reference # NoFile
             THEN /\ Record(IF d.key = reference.key THEN "pass" ELSE "fail")
                  /\ compared' = compared \cup {[n |-> launch.n, run |-> runs],
                                                [n |-> reference.n, run |-> reference.run]}
                  /\ UNCHANGED calm
             ELSE Record("fail") /\ calm' = (calm /\ t = "none") /\ UNCHANGED compared
     \/ Record("fail") /\ calm' = FALSE /\ UNCHANGED compared
  /\ UNCHANGED <<platform, guest, files, misled>>

\* A stop that fails keeps the launch.
StopVM ==
  /\ At("stop")
  /\ \/ launch # NoLaunch /\ launch' = NoLaunch /\ guestFile' = NoFile
        /\ Record("pass") /\ UNCHANGED calm
     \/ UNCHANGED <<launch, guestFile>> /\ Record("fail") /\ calm' = FALSE
  /\ UNCHANGED <<platform, guests, files, compared, misled>>

\* The finally block stops the guest, and the test returns its verdict.
Return ==
  /\ running /\ step > Len(Plan)
  /\ running' = FALSE
  /\ launch' = NoLaunch
  /\ guestFile' = NoFile
  /\ UNCHANGED <<platform, step, overall, runs, guests, files, history>>

Run ==
  \/ MakeIdBlock \/ Launch \/ GuestReport \/ PullReport \/ ParseReport \/ DetectVmpl
  \/ TestDeterminism \/ TestVmpl \/ TestRootKeys \/ TestSvn \/ TestTcb \/ TestGfs
  \/ TestFieldMixing \/ SaveKey \/ VerifyKey \/ StopVM \/ Return

\* Between two runs other firmware, another guest policy or another SVN.
ChangePlatform ==
  /\ ~running
  /\ \E h \in Hosts : platform \in h /\ platform' \in h \ {platform}
  /\ launch' = NoLaunch
  /\ overall' = "none"
  /\ UNCHANGED <<running, step, runs, guests, guestFile, files, history>>

----------------------------------------------------------------------------
Init ==
  /\ platform \in UNION Hosts
  /\ running = FALSE
  /\ step = 1
  /\ overall = "none"
  /\ launch = NoLaunch
  /\ guestFile = NoFile
  /\ report = NoFile
  /\ vmplFile = NoFile
  /\ reference = NoFile
  /\ runs = 0
  /\ guests = 0
  /\ compared = {}
  /\ calm = TRUE
  /\ misled = FALSE

Next == StartRun \/ Run \/ ChangePlatform

Spec == Init /\ [][Next]_vars

----------------------------------------------------------------------------
(* Properties *)

\* A fault that no request of the test could bring to light: there is no value
\* above the bound, or only one below it, or no higher VMPL to compare with.
\* Values that a sweep is refused are not counted against the firmware as long
\* as two are accepted.
OutOfReach ==
  \/ platform.fault.kind \in {"none", "strict"}
  \/ platform.fault.kind = "unbounded" /\ platform.fault.what \in DOMAIN platform.tcb
       /\ platform.tcb[platform.fault.what] = 255
  \/ platform.fault.kind = "ignored" /\ platform.fault.what \in DOMAIN platform.tcb
       /\ platform.tcb[platform.fault.what] = 0
  \/ Is("ignored", "guestSvn") /\ report.data.svn = 0
  \/ Is("ignored", "vmpl") /\ platform.vmpl = 3

\* A firmware that passes has none of the faults within reach of the test,
\* also when requests are rejected for another reason all along and when keys
\* are lost on the way: a rejection is put down to a bound only where the same
\* request at the bound has been accepted, and a key that cannot be fetched is
\* no rejection.  Only a device that is lost just after a control misleads.
PassMeansSound ==
  ~running /\ overall = "pass" /\ ~misled => OutOfReach

\* A firmware without a fault, on a CPU and with a report that are known, never
\* fails: no value is asked for that does not fit into its byte or that the
\* guest may not ask for, and the bounds are decoded with the right layout.
ConformantPasses ==
  /\ calm
  /\ platform.fault.kind = "none" /\ Resolves(platform.cpu) /\ platform.version >= 3
  => overall # "fail"

\* What the handlers read from the artifact directory, the report and the VMPL,
\* is of this run, although the files of earlier runs are still there.
ReadsOwnArtifacts ==
  running /\ step \in 8 .. Len(Plan) =>
    /\ report # NoFile /\ report.run = runs
    /\ vmplFile # NoFile /\ vmplFile.run = runs

\* A run that passes has compared the keys of two guests of this run: the first
\* guest, when its stop has failed, is not taken for the second, and neither is
\* the reference of an earlier run.
TwoGuestsCompared ==
  ~running /\ overall = "pass" => compared = [n : 1 .. 2, run : {runs}]
=============================================================================
