------------------------ MODULE KeyDerivationProofs ------------------------
(***************************************************************************)
(* Proofs about KeyDerivation, for every set of platforms, of either       *)
(* layout and with any TCB, SVN and VMPL, and any number of runs: a        *)
(* firmware that passes has no fault within reach, one without a fault     *)
(* passes, and the keys that are compared are of two guests of one run.    *)
(* They rest on the encodings of AttestationReport, about which two        *)
(* theorems come first.                                                    *)
(***************************************************************************)
EXTENDS KeyDerivation, FiniteSetTheorems, TLAPS

----------------------------------------------------------------------------
(* Encoding and decoding of a TCB_VERSION, and the table of generations *)

\* `& 0xFF` leaves a byte alone.
LEMMA LowOfByte == \A b \in Byte : Low(b) = b
  BY SMT DEF Low, Byte

\* to_u64 followed by from_bytes is the identity on the TCBs of a layout, whose
\* components are bytes: the TCB a guest sends back to the firmware in a key
\* request is the one its report was decoded to.
THEOREM RoundTrip ==
  ASSUME NEW layout \in Layouts, NEW tcb \in TcbVersions(layout)
  PROVE  FromBytes(ToU64(tcb, layout), layout) = tcb
<1>1. CASE layout = "turin"
  <2> DEFINE comps == {"bootloader", "tee", "snp", "microcode", "fmc"}
  <2>1. Components(layout) = comps
    BY <1>1 DEF Components, CoreComponents
  <2>2. tcb \in [comps -> Byte]
    BY <2>1 DEF TcbVersions
  <2>3. \A c \in comps : Low(tcb[c]) = tcb[c]
    BY <2>2, LowOfByte
  <2>4. "fmc" \in DOMAIN tcb
    BY <2>2
  <2>5. /\ ToU64(tcb, layout)[0] = tcb["fmc"]
        /\ ToU64(tcb, layout)[1] = tcb["bootloader"]
        /\ ToU64(tcb, layout)[2] = tcb["tee"]
        /\ ToU64(tcb, layout)[3] = tcb["snp"]
        /\ ToU64(tcb, layout)[7] = tcb["microcode"]
    BY <1>1, <2>3, <2>4 DEF ToU64
  <2> DEFINE decoded == FromBytes(ToU64(tcb, layout), layout)
  <2>6. decoded = [c \in comps |-> decoded[c]]
    BY <1>1, <2>1 DEF FromBytes
  <2>7. \A c \in comps : decoded[c] = tcb[c]
    BY <1>1, <2>1, <2>5 DEF FromBytes
  <2>8. tcb = [c \in comps |-> tcb[c]]
    BY <2>2
  <2> QED BY <2>6, <2>7, <2>8
<1>2. CASE layout = "legacy"
  <2> DEFINE comps == {"bootloader", "tee", "snp", "microcode"}
  <2>1. Components(layout) = comps /\ layout # "turin"
    BY <1>2 DEF Components, CoreComponents
  <2>2. tcb \in [comps -> Byte]
    BY <2>1 DEF TcbVersions
  <2>3. \A c \in comps : Low(tcb[c]) = tcb[c]
    BY <2>2, LowOfByte
  <2>4. /\ ToU64(tcb, layout)[0] = tcb["bootloader"]
        /\ ToU64(tcb, layout)[1] = tcb["tee"]
        /\ ToU64(tcb, layout)[6] = tcb["snp"]
        /\ ToU64(tcb, layout)[7] = tcb["microcode"]
    BY <2>1, <2>3 DEF ToU64
  <2> DEFINE decoded == FromBytes(ToU64(tcb, layout), layout)
  <2>5. decoded = [c \in comps |-> decoded[c]]
    BY <1>2, <2>1 DEF FromBytes
  <2>6. \A c \in comps : decoded[c] = tcb[c]
    BY <1>2, <2>1, <2>4 DEF FromBytes
  <2>7. tcb = [c \in comps |-> tcb[c]]
    BY <2>2
  <2> QED BY <2>5, <2>6, <2>7
<1> QED BY <1>1, <1>2 DEF Layouts

\* resolve_generation takes the first entry that matches; no CPUID matches two,
\* so the order of SUPPORTED_GENERATIONS decides nothing, and the CHOOSE of
\* ResolveGeneration has one candidate.
THEOREM OneGeneration ==
  ASSUME NEW family \in Nat, NEW model \in Nat
  PROVE  LET cpu == [family |-> family, model |-> model]
         IN \A g, h \in Matching(cpu) : g = h
<1> DEFINE cpu == [family |-> family, model |-> model]
<1> SUFFICES ASSUME NEW g \in Matching(cpu), NEW h \in Matching(cpu) PROVE g = h
  OBVIOUS
<1> DEFINE milan   == Generation(25, 0 .. 15, "Milan", "legacy")
           genoa   == Generation(25, 16 .. 31, "Genoa", "legacy")
           bergamo == Generation(25, 160 .. 175, "Bergamo/Siena", "legacy")
           turin   == Generation(26, 0 .. 17, "Turin", "turin")
<1>1. \A e \in Matching(cpu) :
        /\ e \in {milan, genoa, bergamo, turin}
        /\ e = milan   => family = 25 /\ model \in 0 .. 15
        /\ e = genoa   => family = 25 /\ model \in 16 .. 31
        /\ e = bergamo => family = 25 /\ model \in 160 .. 175
        /\ e = turin   => family = 26
  BY DEF Matching, SupportedGenerations, Generation
<1> HIDE DEF milan, genoa, bergamo, turin
<1> QED BY <1>1

----------------------------------------------------------------------------
(* The inductive invariant *)

\* A run that has a verdict has come to the end of its plan.
RunState ==
  /\ running => runs \in 1 .. MaxRuns /\ overall \in {"pass", "fail"}
  /\ ~running /\ overall = "pass" => step = 20

\* The guest of each step: a setup step that fails to launch is the last one,
\* and the first guest is only there at the second launch when its stop failed.
GuestOfStep ==
  running =>
    /\ step \in 1 .. 3 => launch = NoLaunch /\ guests = 0
    /\ step \in 4 .. 16 => launch # NoLaunch /\ launch.n = 1 /\ guests = 1
    /\ step = 17 => guests = 1 /\ (launch # NoLaunch => launch.n = 1)
    /\ step \in 18 .. 19 => launch # NoLaunch /\ launch.n = 2 /\ guests = 2

\* The report and the VMPL are those of the first guest of this run.
Artifacts ==
  running =>
    /\ step = 5 => guestFile = GuestData
    /\ step \in 6 .. 16 => report = [data |-> GuestData, run |-> runs]
    /\ step \in 6 .. 19 => report # NoFile /\ report.run = runs
    /\ step \in 8 .. 19 => vmplFile = [vmpl |-> platform.vmpl, run |-> runs]

\* What has been compared so far in a run without a failure.
ComparedSoFar ==
  overall = "pass" =>
    /\ step \in 1 .. 18 => compared = {}
    /\ step \in 16 .. 20 => reference.n = 1 /\ reference.run = runs
    /\ step \in 19 .. 20 => compared = [n : 1 .. 2, run : {runs}]

\* The faults that a run without a failure has ruled out, by its step.
RuledOut ==
  overall = "pass" /\ ~misled =>
    /\ step >= 9 => ~Is("random", "-")
    /\ step >= 10 => ~(Is("ignored", "vmpl") /\ platform.vmpl < 3)
    /\ step >= 11 => ~Is("ignored", "root")
    /\ step >= 12 => /\ ~Is("unbounded", "guestSvn")
                     /\ Is("ignored", "guestSvn") => report.data.svn = 0
    /\ step >= 13 => \A c \in DOMAIN platform.tcb :
                       /\ Is("unbounded", c) => platform.tcb[c] = 255
                       /\ Is("ignored", c) => platform.tcb[c] = 0
    /\ step >= 15 => \A b \in Bits : ~Is("unselected", b)
    /\ step >= 16 /\ Is("guest", "-") => reference.key.salt = <<"guest", 1>>
    /\ step >= 19 => ~Is("guest", "-")

\* A firmware without a fault, on a CPU and with a report that are known.
Conforms ==
  platform.fault.kind = "none" /\ Resolves(platform.cpu) /\ platform.version >= 3

\* A run of such a firmware that nothing else disturbs.
Conformant ==
  calm /\ Conforms =>
    /\ overall # "fail"
    /\ running /\ step = 17 => launch = NoLaunch
    /\ running /\ step \in 16 .. 19 =>
         reference # NoFile /\ reference.key = DerivedKey(Req("cross_cvm_key"))

IInv ==
  /\ TypeOK
  /\ RunState
  /\ GuestOfStep
  /\ Artifacts
  /\ ComparedSoFar
  /\ RuledOut
  /\ Conformant

----------------------------------------------------------------------------
(* The plan *)

\* The steps of the plan, one by one.
LEMMA PlanSteps ==
  /\ Len(Plan) = 19
  /\ Plan[1]  = Op("calculate", "setup")
  /\ Plan[2]  = Op("generate", "setup")
  /\ Plan[3]  = Op("launch", "setup")
  /\ Plan[4]  = Op("guest-report", "setup")
  /\ Plan[5]  = Op("pull-report", "setup")
  /\ Plan[6]  = Op("parse", "required")
  /\ Plan[7]  = Op("detect-vmpl", "setup")
  /\ Plan[8]  = Op("determinism", "required")
  /\ Plan[9]  = Op("vmpl", "required")
  /\ Plan[10] = Op("root", "required")
  /\ Plan[11] = Op("svn", "required")
  /\ Plan[12] = Op("tcb", "required")
  /\ Plan[13] = Op("gfs", "required")
  /\ Plan[14] = Op("field-mixing", "required")
  /\ Plan[15] = Op("save", "required")
  /\ Plan[16] = Op("stop", "info")
  /\ Plan[17] = Op("launch", "setup")
  /\ Plan[18] = Op("verify", "required")
  /\ Plan[19] = Op("stop", "info")
BY DEF Plan, Op

Setups   == {1, 2, 3, 4, 5, 7, 17}
Stops    == {16, 19}
Launched == {3, 17}

\* A step of the plan has its name and its type from its place.
LEMMA Places ==
  ASSUME step \in 1 .. 19
  PROVE  /\ Plan[step].name \in {"calculate", "generate"} <=> step \in 1 .. 2
         /\ Plan[step].name = "launch" <=> step \in Launched
         /\ Plan[step].name = "guest-report" <=> step = 4
         /\ Plan[step].name = "pull-report" <=> step = 5
         /\ Plan[step].name = "parse" <=> step = 6
         /\ Plan[step].name = "detect-vmpl" <=> step = 7
         /\ Plan[step].name = "determinism" <=> step = 8
         /\ Plan[step].name = "vmpl" <=> step = 9
         /\ Plan[step].name = "root" <=> step = 10
         /\ Plan[step].name = "svn" <=> step = 11
         /\ Plan[step].name = "tcb" <=> step = 12
         /\ Plan[step].name = "gfs" <=> step = 13
         /\ Plan[step].name = "field-mixing" <=> step = 14
         /\ Plan[step].name = "save" <=> step = 15
         /\ Plan[step].name = "stop" <=> step \in Stops
         /\ Plan[step].name = "verify" <=> step = 18
         /\ Plan[step].type = "setup" <=> step \in Setups
         /\ Plan[step].type = "info" <=> step \in Stops
<1>1. step \in {1, 2, 3, 4, 5, 6, 7, 8, 9, 10}
        \/ step \in {11, 12, 13, 14, 15, 16, 17, 18, 19}
  OBVIOUS
<1>2. CASE step \in {1, 2, 3, 4, 5, 6, 7, 8, 9, 10}
  BY <1>2, PlanSteps DEF Op, Setups, Stops, Launched
<1>3. CASE step \in {11, 12, 13, 14, 15, 16, 17, 18, 19}
  BY <1>3, PlanSteps DEF Op, Setups, Stops, Launched
<1> QED
  BY <1>1, <1>2, <1>3

\* What an outcome does to the loop: a setup step that does not pass skips the
\* rest, and a run goes on without a failure only over passes and stops.
Recorded(r) ==
  /\ running /\ running' /\ step \in 1 .. 19
  /\ step' = IF r # "pass" /\ step \in Setups THEN 20 ELSE step + 1
  /\ overall' = IF r # "pass" /\ step \notin Stops THEN "fail" ELSE overall
  /\ UNCHANGED runs

\* Recording an outcome does that.
LEMMA Records ==
  ASSUME running, step \in 1 .. 19, NEW r, Record(r)
  PROVE  Recorded(r)
BY Places, PlanSteps DEF Record, Recorded

----------------------------------------------------------------------------
(* Classes of steps *)

Handlers ==
  \/ TestDeterminism \/ TestVmpl \/ TestRootKeys \/ TestSvn \/ TestTcb \/ TestGfs
  \/ TestFieldMixing

\* The steps of the plan.
InPlan ==
  \/ MakeIdBlock \/ Launch \/ GuestReport \/ PullReport \/ ParseReport \/ DetectVmpl
  \/ Handlers \/ SaveKey \/ VerifyKey \/ StopVM

\* The steps of Next.
LEMMA Steps ==
  ASSUME Next
  PROVE  InPlan \/ StartRun \/ Return \/ ChangePlatform
BY DEF Next, Run, InPlan, Handlers

\* What every handler does to the state, whatever it finds.
HandlerStep(finding) ==
  /\ \/ \E t \in Trouble :
          /\ Record(finding[t])
          /\ calm' = (calm /\ t = [p \in Phases |-> "none"])
          /\ misled' = (misled \/ Misleading(t))
     \/ Record("fail") /\ calm' = FALSE /\ UNCHANGED misled
  /\ UNCHANGED <<platform, guest, files, compared>>

\* The action that takes each step of the plan.
LEMMA StepActions ==
  ASSUME TypeOK, InPlan
  PROVE  /\ running /\ step \in 1 .. 19
         /\ MakeIdBlock <=> step \in 1 .. 2
         /\ Launch <=> step \in Launched
         /\ GuestReport <=> step = 4
         /\ PullReport <=> step = 5
         /\ ParseReport <=> step = 6
         /\ DetectVmpl <=> step = 7
         /\ TestDeterminism <=> step = 8
         /\ TestVmpl <=> step = 9
         /\ TestRootKeys <=> step = 10
         /\ TestSvn <=> step = 11
         /\ TestTcb <=> step = 12
         /\ TestGfs <=> step = 13
         /\ TestFieldMixing <=> step = 14
         /\ SaveKey <=> step = 15
         /\ VerifyKey <=> step = 18
         /\ StopVM <=> step \in Stops
<1>1. running /\ step \in 1 .. 19
  BY PlanSteps
     DEF TypeOK, InPlan, Handlers, MakeIdBlock, Launch, GuestReport, PullReport, ParseReport,
         DetectVmpl, TestDeterminism, TestVmpl, TestRootKeys, TestSvn, TestTcb, TestGfs,
         TestFieldMixing, Handler, SaveKey, VerifyKey, StopVM, At
<1>2. /\ MakeIdBlock => Plan[step].name \in {"calculate", "generate"}
      /\ Launch => Plan[step].name = "launch"
      /\ GuestReport => Plan[step].name = "guest-report"
      /\ PullReport => Plan[step].name = "pull-report"
      /\ ParseReport => Plan[step].name = "parse"
      /\ DetectVmpl => Plan[step].name = "detect-vmpl"
      /\ SaveKey => Plan[step].name = "save"
      /\ VerifyKey => Plan[step].name = "verify"
      /\ StopVM => Plan[step].name = "stop"
  BY DEF MakeIdBlock, Launch, GuestReport, PullReport, ParseReport, DetectVmpl, SaveKey,
         VerifyKey, StopVM, At
<1>3. /\ TestDeterminism => Plan[step].name = "determinism"
      /\ TestVmpl => Plan[step].name = "vmpl"
      /\ TestRootKeys => Plan[step].name = "root"
      /\ TestSvn => Plan[step].name = "svn"
      /\ TestTcb => Plan[step].name = "tcb"
      /\ TestGfs => Plan[step].name = "gfs"
      /\ TestFieldMixing => Plan[step].name = "field-mixing"
  BY DEF TestDeterminism, TestVmpl, TestRootKeys, TestSvn, TestTcb, TestGfs, TestFieldMixing,
         Handler, At
<1> QED
  BY <1>1, <1>2, <1>3, Places, Zenon DEF InPlan, Handlers, Launched, Stops

----------------------------------------------------------------------------
(* The platform and its firmware *)

\* What a platform is.
LEMMA PlatformTyped ==
  ASSUME TypeOK
  PROVE  /\ platform.layout \in Layouts
         /\ platform.tcb \in TcbVersions(platform.layout)
         /\ platform.svn \in Nat /\ platform.vmpl \in 0 .. 3 /\ platform.version \in Nat
         /\ platform.fault \in Faults(platform.layout)
         /\ {platform.cpu, platform.cpuid} \subseteq Cpus
         /\ Resolves(platform.cpu) =>
              ResolveGeneration(platform.cpu).layout = platform.layout
         /\ Resolves(platform.cpu) /\ Resolves(platform.cpuid) =>
              ResolveGeneration(platform.cpu) = ResolveGeneration(platform.cpuid)
BY KeyDerivationAssumption DEF TypeOK

\* The components of a layout.
LEMMA ComponentsOf ==
  ASSUME NEW layout \in Layouts
  PROVE  /\ Components("turin") = {"bootloader", "tee", "snp", "microcode", "fmc"}
         /\ Components("legacy") = {"bootloader", "tee", "snp", "microcode"}
         /\ layout \in {"turin", "legacy"}
         /\ IsFiniteSet(Components(layout))
<1>1. /\ Components("turin") = {"bootloader", "tee", "snp", "microcode", "fmc"}
      /\ Components("legacy") = {"bootloader", "tee", "snp", "microcode"}
      /\ layout \in {"turin", "legacy"}
  BY DEF Components, CoreComponents, Layouts
<1> DEFINE core == (({"bootloader"} \cup {"tee"}) \cup {"snp"}) \cup {"microcode"}
<1>2. IsFiniteSet(core) /\ IsFiniteSet(core \cup {"fmc"})
  <2>1. \A S, x : IsFiniteSet(S) => IsFiniteSet(S \cup {x})
    BY FS_AddElement
  <2>2. \A x : IsFiniteSet({x})
    BY FS_Singleton
  <2> QED
    BY <2>1, <2>2, Zenon
<1>3. Components("legacy") = core /\ Components("turin") = core \cup {"fmc"}
  BY <1>1
<1>4. IsFiniteSet(Components("legacy")) /\ IsFiniteSet(Components("turin"))
  BY <1>2, <1>3, Zenon
<1> QED
  BY <1>1, <1>4

\* A TCB of zeros is decoded to zeros.
LEMMA ZeroDecoded ==
  ASSUME NEW layout \in Layouts
  PROVE  FromBytes(ZeroTcb, layout) = [c \in Components(layout) |-> 0]
<1>1. \A i \in 0 .. 7 : ZeroTcb[i] = 0
  BY DEF ZeroTcb
<1>2. /\ ZeroTcb[0] = 0 /\ ZeroTcb[1] = 0 /\ ZeroTcb[2] = 0
      /\ ZeroTcb[3] = 0 /\ ZeroTcb[6] = 0 /\ ZeroTcb[7] = 0
  BY <1>1
<1> DEFINE decoded == FromBytes(ZeroTcb, layout)
<1>3. CASE layout = "turin"
  <2> DEFINE comps == {"bootloader", "tee", "snp", "microcode", "fmc"}
  <2>1. Components(layout) = comps
    BY <1>3 DEF Components, CoreComponents
  <2>2. decoded = [c \in comps |-> decoded[c]]
    BY <1>3, <2>1 DEF FromBytes
  <2>3. \A c \in comps : decoded[c] = 0
    BY <1>2, <1>3, <2>1 DEF FromBytes
  <2> QED
    BY <2>1, <2>2, <2>3
<1>4. CASE layout = "legacy"
  <2> DEFINE comps == {"bootloader", "tee", "snp", "microcode"}
  <2>1. Components(layout) = comps /\ layout # "turin"
    BY <1>4 DEF Components, CoreComponents
  <2>2. decoded = [c \in comps |-> decoded[c]]
    BY <1>4, <2>1 DEF FromBytes
  <2>3. \A c \in comps : decoded[c] = 0
    BY <1>2, <1>4, <2>1 DEF FromBytes
  <2> QED
    BY <2>1, <2>2, <2>3
<1> QED
  BY <1>3, <1>4 DEF Layouts

\* What decides whether a request without a TCB is accepted.
LEMMA AcceptsSvn ==
  ASSUME TypeOK, NEW req, req.tcb = ZeroTcb
  PROVE  Accepts(req) <=>
           /\ req.vmpl \in platform.vmpl .. 3
           /\ req.svn <= launch.svn \/ Is("unbounded", "guestSvn")
           /\ req.svn \in {0, launch.svn} \/ ~Is("strict", "guestSvn")
<1> DEFINE tcb == FromBytes(req.tcb, platform.layout)
<1>1. tcb = [c \in Components(platform.layout) |-> 0]
  BY PlatformTyped, ZeroDecoded
<1>2. \A c \in Components(platform.layout) : platform.tcb[c] \in 0 .. 255
  BY PlatformTyped DEF TcbVersions, Byte
<1>3. \A c \in DOMAIN tcb : tcb[c] <= platform.tcb[c] \/ Is("unbounded", c)
  BY <1>1, <1>2
<1> QED
  BY <1>3 DEF Accepts

\* A guest may always ask for a key of SVN 0 and no TCB, at its own VMPL or above.
LEMMA AcceptsDefault ==
  ASSUME TypeOK, launch # NoLaunch, NEW req,
         req.tcb = ZeroTcb, req.svn = 0
  PROVE  Accepts(req) <=> req.vmpl \in platform.vmpl .. 3
<1>1. launch.svn \in Nat
  BY PlatformTyped DEF TypeOK
<1> QED
  BY <1>1, AcceptsSvn

\* A request without an SVN is accepted up to the launch TCB, component by
\* component, where the firmware enforces it.
LEMMA AcceptsTcb ==
  ASSUME TypeOK, launch # NoLaunch, NEW tcb \in TcbVersions(platform.layout), NEW req,
         req.tcb = ToU64(tcb, platform.layout), req.svn = 0, req.vmpl = platform.vmpl
  PROVE  /\ FromBytes(req.tcb, platform.layout) = tcb
         /\ Accepts(req) <=> \A c \in Components(platform.layout) :
                               tcb[c] <= platform.tcb[c] \/ Is("unbounded", c)
<1>1. FromBytes(req.tcb, platform.layout) = tcb
  BY PlatformTyped, RoundTrip
<1>2. DOMAIN tcb = Components(platform.layout)
  BY DEF TcbVersions
<1>3. launch.svn \in Nat /\ platform.vmpl \in platform.vmpl .. 3
  BY PlatformTyped DEF TypeOK
<1>4. Accepts(req) <=>
        /\ req.vmpl \in platform.vmpl .. 3
        /\ req.svn <= launch.svn \/ Is("unbounded", "guestSvn")
        /\ req.svn \in {0, launch.svn} \/ ~Is("strict", "guestSvn")
        /\ \A c \in DOMAIN tcb : tcb[c] <= platform.tcb[c] \/ Is("unbounded", c)
  BY <1>1 DEF Accepts
<1> QED
  BY <1>1, <1>2, <1>3, <1>4

\* The outcomes of _derive_key.
LEMMA DeriveKeyOutcomes ==
  ASSUME NEW req, NEW t
  PROVE  /\ DeriveKey(req, t).outcome = "key" <=> t \notin {"broken", "fetch"} /\ Accepts(req)
         /\ DeriveKey(req, t).outcome = "raises" <=> t = "fetch" /\ Accepts(req)
         /\ DeriveKey(req, t).outcome = "rejected" <=> t = "broken" \/ ~Accepts(req)
         /\ DeriveKey(req, t).outcome \in {"key", "raises", "rejected"}
         /\ DeriveKey(req, t).outcome = "key" => DeriveKey(req, t).key = DerivedKey(req)
         /\ DeriveKey(req, t).outcome # "key" => DeriveKey(req, t).key = NoKey
<1>1. CASE t = "broken" \/ ~Accepts(req)
  BY <1>1 DEF DeriveKey
<1>2. CASE ~(t = "broken" \/ ~Accepts(req)) /\ t = "fetch"
  BY <1>2 DEF DeriveKey
<1>3. CASE ~(t = "broken" \/ ~Accepts(req)) /\ t # "fetch"
  BY <1>3 DEF DeriveKey
<1> QED
  BY <1>1, <1>2, <1>3

\* A comparison for equal keys, or for different ones.
Equals(q1, q2, t)  == Pair(q1, q2, TRUE, t)
Differs(q1, q2, t) == Pair(q1, q2, FALSE, t)

\* Two requests pass their comparison when nothing disturbs them, both are
\* accepted, and the keys are equal or not, as they should be.
LEMMA PairPasses ==
  ASSUME NEW q1, NEW q2, NEW t \in Trouble
  PROVE  /\ Equals(q1, q2, t) = "pass" <=>
              /\ t["control"] = "none" /\ Accepts(q1)
              /\ t["test"] = "none" /\ Accepts(q2)
              /\ DerivedKey(q1) = DerivedKey(q2)
         /\ Differs(q1, q2, t) = "pass" <=>
              /\ t["control"] = "none" /\ Accepts(q1)
              /\ t["test"] = "none" /\ Accepts(q2)
              /\ DerivedKey(q1) # DerivedKey(q2)
<1>1. t["control"] \in {"none", "broken", "fetch"} /\ t["test"] \in {"none", "broken", "fetch"}
  BY DEF Trouble, Phases
<1> DEFINE d1 == DeriveKey(q1, t["control"])
           d2 == DeriveKey(q2, t["test"])
<1>2. /\ d1.outcome \in {"key", "raises", "rejected"} /\ d2.outcome \in {"key", "raises", "rejected"}
      /\ d1.outcome = "key" <=> t["control"] = "none" /\ Accepts(q1)
      /\ d2.outcome = "key" <=> t["test"] = "none" /\ Accepts(q2)
      /\ d1.outcome = "key" => d1.key = DerivedKey(q1)
      /\ d2.outcome = "key" => d2.key = DerivedKey(q2)
  BY <1>1, DeriveKeyOutcomes
<1>3. /\ Equals(q1, q2, t) =
           IF "raises" \in {d1.outcome, d2.outcome} THEN "error"
           ELSE IF "rejected" \in {d1.outcome, d2.outcome} THEN "fail"
           ELSE IF (d1.key = d2.key) = TRUE THEN "pass" ELSE "fail"
      /\ Differs(q1, q2, t) =
           IF "raises" \in {d1.outcome, d2.outcome} THEN "error"
           ELSE IF "rejected" \in {d1.outcome, d2.outcome} THEN "fail"
           ELSE IF (d1.key = d2.key) = FALSE THEN "pass" ELSE "fail"
  BY DEF Pair, Equals, Differs
<1> HIDE DEF d1, d2
<1>4. /\ Equals(q1, q2, t) = "pass" <=>
           d1.outcome = "key" /\ d2.outcome = "key" /\ d1.key = d2.key
      /\ Differs(q1, q2, t) = "pass" <=>
           d1.outcome = "key" /\ d2.outcome = "key" /\ d1.key # d2.key
  BY <1>2, <1>3
<1> QED
  BY <1>2, <1>4

----------------------------------------------------------------------------
(* Requests and keys *)

\* What the handlers start from: a guest, and the VMPL that it runs at.
Ready == TypeOK /\ launch # NoLaunch /\ vmplFile = [vmpl |-> platform.vmpl, run |-> runs]

Undisturbed == [p \in Phases |-> "none"]

\* The requests of the handlers, field by field.
LEMMA Requests ==
  ASSUME Ready
  PROVE  /\ platform.vmpl \in 0 .. 3
         /\ \A file : Req(file) =
              [file |-> file, root |-> "vcek", vmpl |-> platform.vmpl, svn |-> 0,
               tcb |-> ZeroTcb, gfs |-> {"policy"}]
         /\ \A svn : SvnReq(svn) =
              [file |-> <<"svn", svn>>, root |-> "vcek", vmpl |-> platform.vmpl, svn |-> svn,
               tcb |-> ZeroTcb, gfs |-> {"svn"}]
         /\ \A bits : GfsReq(bits) =
              [file |-> <<"gfs", bits>>, root |-> "vcek", vmpl |-> platform.vmpl, svn |-> 0,
               tcb |-> ZeroTcb, gfs |-> bits]
<1>1. platform.vmpl \in 0 .. 3
  BY PlatformTyped DEF Ready
<1>2. \A file : Req(file) =
        [file |-> file, root |-> "vcek", vmpl |-> platform.vmpl, svn |-> 0,
         tcb |-> ZeroTcb, gfs |-> {"policy"}]
  BY DEF Ready, Req
<1>3. \A svn : SvnReq(svn) =
        [file |-> <<"svn", svn>>, root |-> "vcek", vmpl |-> platform.vmpl, svn |-> svn,
         tcb |-> ZeroTcb, gfs |-> {"svn"}]
  <2> TAKE svn
  <2>1. SvnReq(svn) = [Req(<<"svn", svn>>) EXCEPT !.svn = svn, !.gfs = {"svn"}]
    BY DEF SvnReq
  <2>2. Req(<<"svn", svn>>) =
          [file |-> <<"svn", svn>>, root |-> "vcek", vmpl |-> platform.vmpl, svn |-> 0,
           tcb |-> ZeroTcb, gfs |-> {"policy"}]
    BY <1>2, Zenon
  <2>3. SvnReq(svn) =
          [[file |-> <<"svn", svn>>, root |-> "vcek", vmpl |-> platform.vmpl, svn |-> 0,
            tcb |-> ZeroTcb, gfs |-> {"policy"}] EXCEPT !.svn = svn, !.gfs = {"svn"}]
    BY <2>1, <2>2, Zenon
  <2> QED
    BY <2>3
<1>4. \A bits : GfsReq(bits) =
        [file |-> <<"gfs", bits>>, root |-> "vcek", vmpl |-> platform.vmpl, svn |-> 0,
         tcb |-> ZeroTcb, gfs |-> bits]
  <2> TAKE bits
  <2>1. GfsReq(bits) = [Req(<<"gfs", bits>>) EXCEPT !.gfs = bits]
    BY DEF GfsReq
  <2>2. Req(<<"gfs", bits>>) =
          [file |-> <<"gfs", bits>>, root |-> "vcek", vmpl |-> platform.vmpl, svn |-> 0,
           tcb |-> ZeroTcb, gfs |-> {"policy"}]
    BY <1>2, Zenon
  <2> QED
    BY <2>1, <2>2
<1> QED
  BY <1>1, <1>2, <1>3, <1>4

\* A fault is one thing at a time.
LEMMA OneFault ==
  ASSUME NEW k, NEW w, Is(k, w)
  PROVE  /\ platform.fault.kind = k /\ platform.fault.what = w
         /\ \A l, v : Is(l, v) => l = k /\ v = w
BY DEF Is

\* The key of a request without a TCB.
LEMMA PlainKey ==
  ASSUME TypeOK, NEW req, req.tcb = ZeroTcb
  PROVE  DerivedKey(req) =
           [root |-> IF Is("ignored", "root") THEN "vcek" ELSE req.root,
            vmpl |-> IF Is("ignored", "vmpl") THEN 0 ELSE req.vmpl,
            gfs  |-> {b \in req.gfs : ~Is("unselected", b)},
            svn  |-> IF "svn" \notin {b \in req.gfs : ~Is("unselected", b)}
                          \/ Is("ignored", "guestSvn") THEN 0 ELSE req.svn,
            tcb  |-> [c \in Components(platform.layout) |-> 0],
            salt |-> IF Is("random", "-") THEN <<req.file, launch.n>>
                     ELSE IF Is("guest", "-") THEN <<"guest", launch.n>> ELSE <<"none", 0>>]
<1> DEFINE tcb == FromBytes(req.tcb, platform.layout)
           gfs == {b \in req.gfs : ~Is("unselected", b)}
           mixed == [c \in DOMAIN tcb |->
                       IF "tcb" \notin gfs \/ Is("ignored", c) THEN 0 ELSE tcb[c]]
<1>1. tcb = [c \in Components(platform.layout) |-> 0]
  BY PlatformTyped, ZeroDecoded
<1> HIDE DEF tcb
<1>2. mixed = [c \in Components(platform.layout) |-> 0]
  BY <1>1
<1>3. DerivedKey(req) =
           [root |-> IF Is("ignored", "root") THEN "vcek" ELSE req.root,
            vmpl |-> IF Is("ignored", "vmpl") THEN 0 ELSE req.vmpl,
            gfs  |-> gfs,
            svn  |-> IF "svn" \notin gfs \/ Is("ignored", "guestSvn") THEN 0 ELSE req.svn,
            tcb  |-> mixed,
            salt |-> IF Is("random", "-") THEN <<req.file, launch.n>>
                     ELSE IF Is("guest", "-") THEN <<"guest", launch.n>> ELSE <<"none", 0>>]
  BY DEF DerivedKey, tcb
<1> QED
  BY <1>2, <1>3, Zenon

\* The key of a request for a TCB.
LEMMA TcbKey ==
  ASSUME TypeOK, NEW tcb \in TcbVersions(platform.layout), NEW req,
         req.tcb = ToU64(tcb, platform.layout), req.gfs = {"tcb"}
  PROVE  DerivedKey(req) =
           [root |-> IF Is("ignored", "root") THEN "vcek" ELSE req.root,
            vmpl |-> IF Is("ignored", "vmpl") THEN 0 ELSE req.vmpl,
            gfs  |-> {b \in {"tcb"} : ~Is("unselected", b)},
            svn  |-> 0,
            tcb  |-> [c \in Components(platform.layout) |->
                        IF Is("unselected", "tcb") \/ Is("ignored", c) THEN 0 ELSE tcb[c]],
            salt |-> IF Is("random", "-") THEN <<req.file, launch.n>>
                     ELSE IF Is("guest", "-") THEN <<"guest", launch.n>> ELSE <<"none", 0>>]
<1> DEFINE decoded == FromBytes(req.tcb, platform.layout)
           gfs == {b \in req.gfs : ~Is("unselected", b)}
           mixed == [c \in DOMAIN decoded |->
                       IF "tcb" \notin gfs \/ Is("ignored", c) THEN 0 ELSE decoded[c]]
           svn == IF "svn" \notin gfs \/ Is("ignored", "guestSvn") THEN 0 ELSE req.svn
<1>1. decoded = tcb /\ DOMAIN tcb = Components(platform.layout)
  BY PlatformTyped, RoundTrip DEF TcbVersions
<1> HIDE DEF decoded
<1>2. mixed = [c \in Components(platform.layout) |->
                 IF Is("unselected", "tcb") \/ Is("ignored", c) THEN 0 ELSE tcb[c]]
  BY <1>1
<1>3. svn = 0 /\ gfs = {b \in {"tcb"} : ~Is("unselected", b)}
  BY DEF svn
<1>4. DerivedKey(req) =
           [root |-> IF Is("ignored", "root") THEN "vcek" ELSE req.root,
            vmpl |-> IF Is("ignored", "vmpl") THEN 0 ELSE req.vmpl,
            gfs  |-> gfs, svn  |-> svn, tcb  |-> mixed,
            salt |-> IF Is("random", "-") THEN <<req.file, launch.n>>
                     ELSE IF Is("guest", "-") THEN <<"guest", launch.n>> ELSE <<"none", 0>>]
  BY DEF DerivedKey, decoded
<1> QED
  BY <1>2, <1>3, <1>4, Zenon

\* A key is not the absence of one.
LEMMA KeyTyped ==
  ASSUME Ready, NEW req, req.tcb = ZeroTcb, req.root \in {"vcek", "vmrk"},
         req.vmpl \in Nat, req.gfs \in SUBSET Bits, req.svn \in Nat, req.file \in KeyFiles
  PROVE  DerivedKey(req) \in Keys /\ DerivedKey(req) # NoKey
<1> DEFINE key == DerivedKey(req)
<1>1. launch.n \in Nat
  BY DEF Ready, TypeOK
<1> DEFINE Files == KeyFiles \cup {"guest", "none"}
<1>2. "guest" \in Files /\ "none" \in Files /\ req.file \in Files
  OBVIOUS
<1> HIDE DEF Files
<1>3. /\ <<req.file, launch.n>> \in Files \X Nat
      /\ <<"guest", launch.n>> \in Files \X Nat /\ <<"none", 0>> \in Files \X Nat
  BY <1>1, <1>2
<1>4. [c \in Components(platform.layout) |-> 0] \in UNION {TcbVersions(layout) : layout \in Layouts}
  <2>1. [c \in Components(platform.layout) |-> 0] \in TcbVersions(platform.layout)
    BY DEF TcbVersions, Byte
  <2>2. platform.layout \in Layouts
    BY PlatformTyped DEF Ready
  <2> QED
    BY <2>1, <2>2
<1> DEFINE salt == IF Is("random", "-") THEN <<req.file, launch.n>>
                   ELSE IF Is("guest", "-") THEN <<"guest", launch.n>> ELSE <<"none", 0>>
           tcb == [c \in Components(platform.layout) |-> 0]
           gfs == {b \in req.gfs : ~Is("unselected", b)}
           svn == IF "svn" \notin gfs \/ Is("ignored", "guestSvn") THEN 0 ELSE req.svn
           root == IF Is("ignored", "root") THEN "vcek" ELSE req.root
           vmpl == IF Is("ignored", "vmpl") THEN 0 ELSE req.vmpl
<1>5. /\ salt \in Files \X Nat
      /\ tcb \in UNION {TcbVersions(layout) : layout \in Layouts}
      /\ gfs \in SUBSET Bits /\ svn \in Nat /\ root \in {"vcek", "vmrk"} /\ vmpl \in Nat
  <2>1. salt \in Files \X Nat
    BY <1>3, Zenon
  <2>2. tcb \in UNION {TcbVersions(layout) : layout \in Layouts}
    BY <1>4, Zenon
  <2>3. gfs \in SUBSET Bits /\ svn \in Nat /\ root \in {"vcek", "vmrk"} /\ vmpl \in Nat
    OBVIOUS
  <2> QED
    BY <2>1, <2>2, <2>3, Zenon
<1>6. key = [root |-> root, vmpl |-> vmpl, gfs |-> gfs, svn |-> svn, tcb |-> tcb, salt |-> salt]
  BY PlainKey, Zenon DEF Ready
<1> HIDE DEF salt, tcb, gfs, svn, root, vmpl, key
<1>7. key \in Keys
  BY <1>5, <1>6 DEF Keys, Files
<1>8. key # NoKey
  BY <1>7, KeyDerivationAssumption, Zenon
<1> QED
  BY <1>7, <1>8, Zenon DEF key

----------------------------------------------------------------------------
(* What the handlers find *)

\* Two requests for the same key, written to two files.
LEMMA FindsDeterminism ==
  ASSUME Ready, NEW t \in Trouble
  PROVE  /\ Determinism(t) = "pass" => ~Is("random", "-")
         /\ t = Undisturbed /\ platform.fault.kind = "none" => Determinism(t) = "pass"
<1> DEFINE r1 == Req("det_key1")
           r2 == Req("det_key2")
<1>1. /\ r1.tcb = ZeroTcb /\ r1.svn = 0 /\ r1.vmpl \in platform.vmpl .. 3
      /\ r2.tcb = ZeroTcb /\ r2.svn = 0 /\ r2.vmpl \in platform.vmpl .. 3
      /\ r1.root = r2.root /\ r1.vmpl = r2.vmpl /\ r1.gfs = r2.gfs
      /\ r1.file = "det_key1" /\ r2.file = "det_key2"
  <2>1. /\ platform.vmpl \in 0 .. 3
        /\ r1 = [file |-> "det_key1", root |-> "vcek", vmpl |-> platform.vmpl, svn |-> 0,
                 tcb |-> ZeroTcb, gfs |-> {"policy"}]
        /\ r2 = [file |-> "det_key2", root |-> "vcek", vmpl |-> platform.vmpl, svn |-> 0,
                 tcb |-> ZeroTcb, gfs |-> {"policy"}]
    BY Requests, Zenon
  <2> QED
    BY <2>1
<1>2. Determinism(t) = Equals(r1, r2, t)
  BY DEF Determinism, Equals
<1> HIDE DEF r1, r2
<1>3. Accepts(r1) /\ Accepts(r2)
  BY <1>1, AcceptsDefault DEF Ready
<1>4. Determinism(t) = "pass" <=>
        t["control"] = "none" /\ t["test"] = "none" /\ DerivedKey(r1) = DerivedKey(r2)
  <2>1. Equals(r1, r2, t) = "pass" <=>
          /\ t["control"] = "none" /\ Accepts(r1)
          /\ t["test"] = "none" /\ Accepts(r2)
          /\ DerivedKey(r1) = DerivedKey(r2)
    BY PairPasses
  <2> QED
    BY <1>2, <1>3, <2>1
<1>5. ASSUME Is("random", "-") PROVE DerivedKey(r1) # DerivedKey(r2)
  <2>1. DerivedKey(r1).salt = <<"det_key1", launch.n>>
    BY <1>1, <1>5, PlainKey DEF Ready
  <2>2. DerivedKey(r2).salt = <<"det_key2", launch.n>>
    BY <1>1, <1>5, PlainKey DEF Ready
  <2> QED
    BY <2>1, <2>2
<1>6. ASSUME platform.fault.kind = "none" PROVE DerivedKey(r1) = DerivedKey(r2)
  <2>1. \A k, w : Is(k, w) => k = "none"
    BY <1>6 DEF Is
  <2>2. ~Is("random", "-") /\ ~Is("guest", "-")
    BY <2>1
  <2> QED
    BY <1>1, <2>1, <2>2, PlainKey DEF Ready
<1>7. t = Undisturbed => t["control"] = "none" /\ t["test"] = "none"
  BY DEF Undisturbed, Phases
<1> QED
  BY <1>4, <1>5, <1>6, <1>7

\* A request at the guest's own VMPL and one at the next.
LEMMA FindsVmplIsolation ==
  ASSUME Ready, NEW t \in Trouble
  PROVE  /\ VmplIsolation(t) = "pass" => ~(Is("ignored", "vmpl") /\ platform.vmpl < 3)
         /\ t = Undisturbed /\ platform.fault.kind = "none" => VmplIsolation(t) = "pass"
<1> DEFINE r1 == Req("vmpl_cur")
           r2 == [Req("vmpl_hi") EXCEPT !.vmpl = @ + 1]
           o  == DeriveKey(r1, t["control"]).outcome
<1>1. /\ platform.vmpl \in 0 .. 3 /\ vmplFile.vmpl = platform.vmpl
      /\ r1.tcb = ZeroTcb /\ r1.svn = 0 /\ r1.vmpl = platform.vmpl
      /\ r2.tcb = ZeroTcb /\ r2.svn = 0 /\ r2.vmpl = platform.vmpl + 1
      /\ r1.root = r2.root /\ r1.gfs = r2.gfs
  <2>1. /\ platform.vmpl \in 0 .. 3
        /\ r1 = [file |-> "vmpl_cur", root |-> "vcek", vmpl |-> platform.vmpl, svn |-> 0,
                 tcb |-> ZeroTcb, gfs |-> {"policy"}]
        /\ Req("vmpl_hi") = [file |-> "vmpl_hi", root |-> "vcek", vmpl |-> platform.vmpl,
                             svn |-> 0, tcb |-> ZeroTcb, gfs |-> {"policy"}]
    BY Requests, Zenon
  <2>2. r2 = [file |-> "vmpl_hi", root |-> "vcek", vmpl |-> platform.vmpl + 1,
              svn |-> 0, tcb |-> ZeroTcb, gfs |-> {"policy"}]
    BY <2>1
  <2> QED
    BY <2>1, <2>2 DEF Ready
<1>2. VmplIsolation(t) =
        IF vmplFile.vmpl < 3 THEN Differs(r1, r2, t)
        ELSE IF o = "key" THEN "pass" ELSE IF o = "rejected" THEN "fail" ELSE "error"
  BY DEF VmplIsolation, Differs
<1>3. o = "key" <=> t["control"] \notin {"broken", "fetch"} /\ Accepts(r1)
  BY DeriveKeyOutcomes
<1> HIDE DEF r1, r2, o
<1>4. Accepts(r1) /\ (platform.vmpl < 3 => Accepts(r2))
  <2>1. Accepts(r1) <=> r1.vmpl \in platform.vmpl .. 3
    BY <1>1, AcceptsDefault DEF Ready
  <2>2. Accepts(r2) <=> r2.vmpl \in platform.vmpl .. 3
    BY <1>1, AcceptsDefault DEF Ready
  <2> QED
    BY <1>1, <2>1, <2>2
<1>5. Differs(r1, r2, t) = "pass" <=>
        /\ t["control"] = "none" /\ Accepts(r1)
        /\ t["test"] = "none" /\ Accepts(r2)
        /\ DerivedKey(r1) # DerivedKey(r2)
  BY PairPasses
<1>6. ASSUME Is("ignored", "vmpl") PROVE DerivedKey(r1) = DerivedKey(r2)
  <2>1. ~Is("random", "-") /\ ~Is("guest", "-")
    BY <1>6, OneFault
  <2> QED
    BY <1>1, <1>6, <2>1, PlainKey DEF Ready
<1>7. ASSUME platform.fault.kind = "none" PROVE DerivedKey(r1) # DerivedKey(r2)
  <2>1. ~Is("ignored", "vmpl")
    BY <1>7 DEF Is
  <2>2. DerivedKey(r1).vmpl = r1.vmpl
    BY <1>1, <2>1, PlainKey DEF Ready
  <2>3. DerivedKey(r2).vmpl = r2.vmpl
    BY <1>1, <2>1, PlainKey DEF Ready
  <2> QED
    BY <1>1, <2>2, <2>3
<1>8. t = Undisturbed => t["control"] = "none" /\ t["test"] = "none"
  BY DEF Undisturbed, Phases
<1> QED
  BY <1>1, <1>2, <1>3, <1>4, <1>5, <1>6, <1>7, <1>8

\* A request for a key of each root.
LEMMA FindsRootKeys ==
  ASSUME Ready, NEW t \in Trouble
  PROVE  /\ RootKeys(t) = "pass" => ~Is("ignored", "root")
         /\ t = Undisturbed /\ platform.fault.kind = "none" => RootKeys(t) = "pass"
<1> DEFINE r1 == Req("vcek_key")
           r2 == [Req("vmrk_key") EXCEPT !.root = "vmrk"]
<1>1. /\ r1.tcb = ZeroTcb /\ r1.svn = 0 /\ r1.vmpl \in platform.vmpl .. 3
      /\ r2.tcb = ZeroTcb /\ r2.svn = 0 /\ r2.vmpl \in platform.vmpl .. 3
      /\ r1.vmpl = r2.vmpl /\ r1.gfs = r2.gfs /\ r1.root = "vcek" /\ r2.root = "vmrk"
  <2>1. /\ platform.vmpl \in 0 .. 3
        /\ r1 = [file |-> "vcek_key", root |-> "vcek", vmpl |-> platform.vmpl, svn |-> 0,
                 tcb |-> ZeroTcb, gfs |-> {"policy"}]
        /\ Req("vmrk_key") = [file |-> "vmrk_key", root |-> "vcek", vmpl |-> platform.vmpl,
                              svn |-> 0, tcb |-> ZeroTcb, gfs |-> {"policy"}]
    BY Requests, Zenon
  <2>2. r2 = [file |-> "vmrk_key", root |-> "vmrk", vmpl |-> platform.vmpl,
              svn |-> 0, tcb |-> ZeroTcb, gfs |-> {"policy"}]
    BY <2>1
  <2> QED
    BY <2>1, <2>2
<1>2. RootKeys(t) = Differs(r1, r2, t)
  BY DEF RootKeys, Differs
<1> HIDE DEF r1, r2
<1>3. Accepts(r1) /\ Accepts(r2)
  BY <1>1, AcceptsDefault DEF Ready
<1>4. Differs(r1, r2, t) = "pass" <=>
        /\ t["control"] = "none" /\ Accepts(r1)
        /\ t["test"] = "none" /\ Accepts(r2)
        /\ DerivedKey(r1) # DerivedKey(r2)
  BY PairPasses
<1>5. ASSUME Is("ignored", "root") PROVE DerivedKey(r1) = DerivedKey(r2)
  <2>1. ~Is("random", "-") /\ ~Is("guest", "-")
    BY <1>5, OneFault
  <2> QED
    BY <1>1, <1>5, <2>1, PlainKey DEF Ready
<1>6. ASSUME platform.fault.kind = "none" PROVE DerivedKey(r1) # DerivedKey(r2)
  <2>1. ~Is("ignored", "root")
    BY <1>6 DEF Is
  <2>2. DerivedKey(r1).root = "vcek"
    BY <1>1, <2>1, PlainKey DEF Ready
  <2>3. DerivedKey(r2).root = "vmrk"
    BY <1>1, <2>1, PlainKey DEF Ready
  <2> QED
    BY <2>2, <2>3
<1>7. t = Undisturbed => t["control"] = "none" /\ t["test"] = "none"
  BY DEF Undisturbed, Phases
<1> QED
  BY <1>2, <1>3, <1>4, <1>5, <1>6, <1>7

\* The key of a request for some fields.
LEMMA GfsKey ==
  ASSUME Ready, NEW bits \in SUBSET Bits
  PROVE  /\ Accepts(GfsReq(bits))
         /\ DerivedKey(GfsReq(bits)).gfs = {b \in bits : ~Is("unselected", b)}
         /\ DerivedKey(GfsReq(bits)) # NoKey
<1> DEFINE r == GfsReq(bits)
<1>1. /\ platform.vmpl \in 0 .. 3
      /\ r = [file |-> <<"gfs", bits>>, root |-> "vcek", vmpl |-> platform.vmpl, svn |-> 0,
              tcb |-> ZeroTcb, gfs |-> bits]
  BY Requests, Zenon
<1>2. /\ r.tcb = ZeroTcb /\ r.svn = 0 /\ r.vmpl \in platform.vmpl .. 3 /\ r.vmpl \in Nat
      /\ r.root \in {"vcek", "vmrk"} /\ r.gfs = bits /\ r.svn \in Nat
      /\ r.file = <<"gfs", bits>>
  BY <1>1
<1>3. <<"gfs", bits>> \in KeyFiles
  BY DEF KeyFiles
<1> HIDE DEF r
<1>4. Accepts(r)
  BY <1>2, AcceptsDefault DEF Ready
<1>5. DerivedKey(r).gfs = {b \in bits : ~Is("unselected", b)}
  BY <1>2, PlainKey DEF Ready
<1>6. DerivedKey(r) # NoKey
  BY <1>2, <1>3, KeyTyped
<1> QED
  BY <1>4, <1>5, <1>6 DEF r

\* Two fields.
LEMMA FindsGfs ==
  ASSUME Ready, NEW t \in Trouble, t = Undisturbed, platform.fault.kind = "none"
  PROVE  Gfs(t) = "pass"
<1> DEFINE r1 == GfsReq({"policy"})
           r2 == GfsReq({"imageId"})
<1>1. Gfs(t) = Differs(r1, r2, t)
  BY DEF Gfs, Differs
<1>2. {"policy"} \in SUBSET Bits /\ {"imageId"} \in SUBSET Bits
  BY DEF Bits
<1>3. /\ Accepts(r1) /\ DerivedKey(r1).gfs = {b \in {"policy"} : ~Is("unselected", b)}
      /\ Accepts(r2) /\ DerivedKey(r2).gfs = {b \in {"imageId"} : ~Is("unselected", b)}
  BY <1>2, GfsKey, Zenon
<1>4. \A b : ~Is("unselected", b)
  BY DEF Is
<1> HIDE DEF r1, r2
<1>5. DerivedKey(r1).gfs = {"policy"} /\ DerivedKey(r2).gfs = {"imageId"}
  BY <1>3, <1>4
<1>6. Differs(r1, r2, t) = "pass" <=>
        /\ t["control"] = "none" /\ Accepts(r1)
        /\ t["test"] = "none" /\ Accepts(r2)
        /\ DerivedKey(r1) # DerivedKey(r2)
  BY PairPasses
<1>7. t["control"] = "none" /\ t["test"] = "none"
  BY DEF Undisturbed, Phases
<1> QED
  BY <1>1, <1>3, <1>5, <1>6, <1>7

\* No field, and each alone.
LEMMA FindsFieldMixing ==
  ASSUME Ready, NEW t \in Trouble
  PROVE  /\ FieldMixing(t) = "pass" => \A b \in Bits : ~Is("unselected", b)
         /\ t = Undisturbed /\ platform.fault.kind = "none" => FieldMixing(t) = "pass"
<1> DEFINE base == DeriveKey(GfsReq({}), t["control"])
           single == {GfsReq({b}) : b \in Bits}
<1>1. FieldMixing(t) =
        IF base.outcome = "raises" THEN "error"
        ELSE IF base.outcome = "rejected" THEN "fail"
        ELSE IF Raise(single, t["test"]) THEN "error"
        ELSE IF \A q \in single : DeriveKey(q, t["test"]).key \notin {base.key, NoKey}
        THEN "pass" ELSE "fail"
  BY DEF FieldMixing
<1>2. /\ base.outcome = "key" <=> t["control"] \notin {"broken", "fetch"}
      /\ base.outcome \in {"key", "raises", "rejected"}
      /\ base.outcome = "key" => base.key = DerivedKey(GfsReq({}))
      /\ DerivedKey(GfsReq({})).gfs = {}
  <2>1. {} \in SUBSET Bits
    OBVIOUS
  <2>2. Accepts(GfsReq({})) /\ DerivedKey(GfsReq({})).gfs = {b \in {} : ~Is("unselected", b)}
    BY <2>1, GfsKey, Zenon
  <2> QED
    BY <2>2, DeriveKeyOutcomes
<1>3. ASSUME NEW b \in Bits
      PROVE  /\ GfsReq({b}) \in single
             /\ Accepts(GfsReq({b}))
             /\ DerivedKey(GfsReq({b})).gfs = {x \in {b} : ~Is("unselected", x)}
             /\ DerivedKey(GfsReq({b})) # NoKey
  <2>1. {b} \in SUBSET Bits
    OBVIOUS
  <2>2. /\ Accepts(GfsReq({b}))
        /\ DerivedKey(GfsReq({b})).gfs = {x \in {b} : ~Is("unselected", x)}
        /\ DerivedKey(GfsReq({b})) # NoKey
    BY <2>1, GfsKey, Zenon
  <2> QED
    BY <2>2
<1>4. ASSUME FieldMixing(t) = "pass", NEW b \in Bits, Is("unselected", b) PROVE FALSE
  <2>1. base.outcome = "key" /\ ~Raise(single, t["test"])
        /\ \A q \in single : DeriveKey(q, t["test"]).key \notin {base.key, NoKey}
    BY <1>1, <1>2, <1>4
  <2>2. DeriveKey(GfsReq({b}), t["test"]).key \notin {base.key, NoKey}
    BY <1>3, <2>1
  <2>3. DeriveKey(GfsReq({b}), t["test"]).key = DerivedKey(GfsReq({b}))
    BY <2>2, DeriveKeyOutcomes
  <2>4. DerivedKey(GfsReq({b})) = DerivedKey(GfsReq({}))
    <3>1. /\ GfsReq({}) = [file |-> <<"gfs", {}>>, root |-> "vcek", vmpl |-> platform.vmpl,
                           svn |-> 0, tcb |-> ZeroTcb, gfs |-> {}]
          /\ GfsReq({b}) = [file |-> <<"gfs", {b}>>, root |-> "vcek", vmpl |-> platform.vmpl,
                            svn |-> 0, tcb |-> ZeroTcb, gfs |-> {b}]
      BY Requests, Zenon
    <3> DEFINE r1 == GfsReq({})
               r2 == GfsReq({b})
    <3>2. /\ r1.tcb = ZeroTcb /\ r1.svn = 0 /\ r1.gfs = {}
          /\ r2.tcb = ZeroTcb /\ r2.svn = 0 /\ r2.gfs = {b}
          /\ r1.root = r2.root /\ r1.vmpl = r2.vmpl
      BY <3>1
    <3>3. {x \in r1.gfs : ~Is("unselected", x)} = {x \in r2.gfs : ~Is("unselected", x)}
      BY <1>4, <3>2
    <3>4. ~Is("random", "-") /\ ~Is("guest", "-")
      BY <1>4, OneFault
    <3> HIDE DEF r1, r2
    <3>5. DerivedKey(r2) = DerivedKey(r1)
      BY <3>2, <3>3, <3>4, PlainKey DEF Ready
    <3> QED
      BY <3>5 DEF r1, r2
  <2> QED
    BY <1>2, <2>1, <2>2, <2>3, <2>4
<1>5. ASSUME t = Undisturbed, platform.fault.kind = "none" PROVE FieldMixing(t) = "pass"
  <2>1. t["control"] = "none" /\ t["test"] = "none"
    BY <1>5 DEF Undisturbed, Phases
  <2>2. \A b : ~Is("unselected", b)
    BY <1>5 DEF Is
  <2>3. ~Raise(single, t["test"])
    BY <2>1, DeriveKeyOutcomes DEF Raise
  <2>4. ASSUME NEW q \in single PROVE DeriveKey(q, t["test"]).key \notin {base.key, NoKey}
    <3>1. PICK b \in Bits : q = GfsReq({b})
      OBVIOUS
    <3>2. DeriveKey(q, t["test"]).key = DerivedKey(q)
      BY <1>3, <2>1, <3>1, DeriveKeyOutcomes
    <3>3. DerivedKey(q).gfs = {b} /\ DerivedKey(q) # NoKey
      BY <1>3, <2>2, <3>1
    <3>4. base.key.gfs = {}
      BY <1>2, <2>1
    <3> QED
      BY <3>2, <3>3, <3>4
  <2> HIDE DEF base, single
  <2> QED
    BY <1>1, <1>2, <2>1, <2>3, <2>4
<1> QED
  BY <1>4, <1>5

----------------------------------------------------------------------------
(* Reports *)

\* The CPU's generation, where it has one.
LEMMA HostKnown ==
  ASSUME TypeOK, Resolves(platform.cpu)
  PROVE  HostGeneration # NoGeneration /\ HostGeneration.layout = platform.layout
<1> DEFINE g == CHOOSE g \in Matching(platform.cpu) : TRUE
<1>1. g \in SupportedGenerations
  BY DEF Resolves, Matching
<1>2. HostGeneration = [name |-> g.name, layout |-> g.layout]
  BY DEF HostGeneration, ResolveGeneration
<1>3. HostGeneration.layout = platform.layout
  BY PlatformTyped DEF HostGeneration
<1> HIDE DEF g
<1> QED
  BY <1>1, <1>2, <1>3, AttestationReportAssumption

\* What the handlers read in the report of the first guest: its SVN, and, as far
\* as it is decoded, the launch TCB of the platform.
LEMMA ReportRead ==
  ASSUME TypeOK, launch # NoLaunch, report # NoFile, report.data = GuestData
  PROVE  /\ LoadReport # ReportError =>
              /\ Resolves(platform.cpu) /\ LoadReport.svn = launch.svn
              /\ LoadReport.launchTcb \in {platform.tcb, NoTcb}
         /\ Resolves(platform.cpu) /\ platform.version >= 3 =>
              /\ LoadReport # ReportError /\ LoadReport.svn = launch.svn
              /\ LoadReport.launchTcb = platform.tcb
         /\ platform.tcb # NoTcb
<1>1. /\ platform.layout \in Layouts /\ platform.tcb \in TcbVersions(platform.layout)
      /\ platform.version \in Nat /\ launch.svn \in Nat
  BY PlatformTyped DEF TypeOK
<1>2. platform.tcb # NoTcb
  BY <1>1, AttestationReportAssumption
<1>3. SUFFICES ASSUME Resolves(platform.cpu)
               PROVE  /\ LoadReport # ReportError =>
                           /\ LoadReport.svn = launch.svn
                           /\ LoadReport.launchTcb \in {platform.tcb, NoTcb}
                      /\ platform.version >= 3 =>
                           /\ LoadReport # ReportError /\ LoadReport.svn = launch.svn
                           /\ LoadReport.launchTcb = platform.tcb
  BY <1>2 DEF LoadReport
<1>4. LoadReport = Parse(GuestData, HostGeneration)
  BY <1>3 DEF LoadReport
<1>5. HostGeneration # NoGeneration /\ HostGeneration.layout = platform.layout
  BY <1>3, HostKnown
<1>6. /\ GuestData.version = platform.version /\ GuestData.cpuid = platform.cpuid
      /\ GuestData.svn = launch.svn
      /\ GuestData.launchTcb = ToU64(platform.tcb, platform.layout)
  BY DEF GuestData
<1>7. Deciding(GuestData, HostGeneration) = HostGeneration
  BY <1>5 DEF Deciding
<1>8. FromBytes(GuestData.launchTcb, HostGeneration.layout) = platform.tcb
  BY <1>1, <1>5, <1>6, RoundTrip
<1> DEFINE parsed == [svn |-> launch.svn,
                      launchTcb |-> IF HasCpuid(GuestData) THEN platform.tcb ELSE NoTcb]
<1>9. LoadReport = IF GuestData.version < Oldest \/ Foreign(GuestData, HostGeneration)
                   THEN ReportError ELSE parsed
  BY <1>4, <1>5, <1>6, <1>7, <1>8 DEF Parse
<1>10. parsed # ReportError
  <2>1. parsed.svn \in Nat
        /\ parsed.launchTcb \in {NoTcb} \cup UNION {TcbVersions(layout) : layout \in Layouts}
    BY <1>1
  <2>2. parsed \in [svn : Nat, launchTcb : {NoTcb} \cup
                      UNION {TcbVersions(layout) : layout \in Layouts}]
    BY <2>1
  <2> QED
    BY <2>2, AttestationReportAssumption, Zenon
<1>11. ~Foreign(GuestData, HostGeneration)
  BY <1>3, <1>6, PlatformTyped DEF Foreign, HostGeneration
<1>12. platform.version >= 3 => HasCpuid(GuestData) /\ ~(GuestData.version < Oldest)
  BY <1>1, <1>6 DEF HasCpuid, Oldest
<1> QED
  BY <1>9, <1>10, <1>11, <1>12

----------------------------------------------------------------------------
(* Bounds and sweeps *)

\* A set with two elements has at least two.
LEMMA TwoElements ==
  ASSUME NEW S, IsFiniteSet(S), NEW p \in S, NEW q \in S, p # q
  PROVE  Cardinality(S) >= 2
<1>1. IsFiniteSet({p}) /\ Cardinality({p}) = 1
  BY FS_Singleton
<1>2. IsFiniteSet({p} \cup {q}) /\ Cardinality({p} \cup {q}) = 2
  <2>1. q \notin {p}
    OBVIOUS
  <2>2. /\ IsFiniteSet({p} \cup {q})
        /\ Cardinality({p} \cup {q}) = IF q \in {p} THEN Cardinality({p}) ELSE Cardinality({p}) + 1
    BY <1>1, FS_AddElement, Zenon
  <2> QED
    BY <1>1, <2>1, <2>2
<1>3. {p} \cup {q} \in SUBSET S
  OBVIOUS
<1>4. Cardinality({p} \cup {q}) <= Cardinality(S)
  BY <1>3, FS_Subset
<1>5. Cardinality(S) \in Nat
  BY FS_CardinalityType
<1> QED
  BY <1>2, <1>4, <1>5

\* The values of a function on a finite domain are finitely many.
LEMMA FiniteImage ==
  ASSUME NEW f, IsFiniteSet(DOMAIN f), f = [x \in DOMAIN f |-> f[x]]
  PROVE  IsFiniteSet({f[x] : x \in DOMAIN f})
<1> DEFINE T == {f[x] : x \in DOMAIN f}
<1>1. f \in Surjection(DOMAIN f, T)
  BY DEF Surjection
<1> QED
  BY <1>1, FS_Surjection

\* A sweep stays within its bound, and has both its ends.
LEMMA SweepWithin ==
  ASSUME NEW bound \in Nat
  PROVE  /\ SweepValues(bound) \subseteq 0 .. bound
         /\ 0 \in SweepValues(bound) /\ bound \in SweepValues(bound)
         /\ IsFiniteSet(SweepValues(bound))
<1> DEFINE mid == bound \div 2
<1>1. SweepAll \in Nat /\ SweepAll >= 2
  BY KeyDerivationAssumption
<1>2. bound >= SweepAll => bound >= 2 /\ mid \in Nat /\ mid >= 1 /\ mid + 1 <= bound
  BY <1>1
<1> HIDE DEF mid
<1>3. SweepValues(bound) =
        IF bound < SweepAll THEN 0 .. bound
        ELSE {0, 1, 2, mid - 1, mid, mid + 1, bound - 2, bound - 1, bound}
  BY DEF SweepValues, mid
<1>4. /\ SweepValues(bound) \subseteq 0 .. bound
      /\ 0 \in SweepValues(bound) /\ bound \in SweepValues(bound)
  BY <1>1, <1>2, <1>3
<1>5. IsFiniteSet(0 .. bound)
  BY FS_Interval
<1> QED
  BY <1>4, <1>5, FS_Subset

\* A pass says that the bound is accepted, that nothing above it is, unless the
\* device was lost in between, and that no two accepted requests of the sweep
\* give the same key.
LEMMA BoundedFinds ==
  ASSUME NEW control, NEW above, NEW sweep, IsFiniteSet(sweep), NEW t \in Trouble,
         Bounded(control, above, sweep, t) = "pass"
  PROVE  /\ Misleading(t) \/ \A q \in above : ~Accepts(q)
         /\ \A p, q \in sweep :
              Accepts(p) /\ Accepts(q) /\ DerivedKey(p) = DerivedKey(q) => p = q
<1> DEFINE c     == DeriveKey(control, t["control"]).outcome
           keyed == Succeed(sweep, t["sweep"])
           keys  == {DeriveKey(q, t["sweep"]).key : q \in keyed}
<1>1. Bounded(control, above, sweep, t) =
        IF c = "raises" THEN "error"
        ELSE IF c = "rejected" THEN "fail"
        ELSE IF Raise(above, t["test"]) THEN "error"
        ELSE IF ~Reject(above, t["test"]) THEN "fail"
        ELSE IF Raise(sweep, t["sweep"]) THEN "error"
        ELSE IF Cardinality(sweep) < 2 THEN "pass"
        ELSE IF Cardinality(keyed) >= 2 /\ Cardinality(keys) = Cardinality(keyed)
        THEN "pass" ELSE "fail"
  BY DEF Bounded
<1>2. c \in {"key", "raises", "rejected"}
  BY DeriveKeyOutcomes
<1>3. /\ c = "key" /\ ~Raise(above, t["test"]) /\ Reject(above, t["test"])
      /\ ~Raise(sweep, t["sweep"])
      /\ Cardinality(sweep) < 2
           \/ (Cardinality(keyed) >= 2 /\ Cardinality(keys) = Cardinality(keyed))
  <2> HIDE DEF c, keyed, keys
  <2> QED
    BY <1>1, <1>2
<1>4. Misleading(t) \/ \A q \in above : ~Accepts(q)
  <2>1. t["control"] # "broken"
    BY <1>3, DeriveKeyOutcomes
  <2>2. CASE t["test"] = "broken"
    BY <2>1, <2>2 DEF Misleading
  <2>3. CASE t["test"] # "broken"
    BY <1>3, <2>3, DeriveKeyOutcomes DEF Reject
  <2> QED
    BY <2>2, <2>3
<1>5. ASSUME NEW p \in sweep, NEW q \in sweep, Accepts(p), Accepts(q),
             DerivedKey(p) = DerivedKey(q), p # q
      PROVE  FALSE
  <2>1. Cardinality(sweep) >= 2 /\ Cardinality(sweep) \in Nat
    BY <1>5, TwoElements, FS_CardinalityType
  <2>2. Cardinality(keyed) >= 2 /\ Cardinality(keys) = Cardinality(keyed)
    BY <1>3, <2>1
  <2>3. t["sweep"] # "fetch"
    BY <1>3, <1>5, DeriveKeyOutcomes DEF Raise
  <2>4. t["sweep"] # "broken"
    <3>1. SUFFICES ASSUME t["sweep"] = "broken" PROVE FALSE
      OBVIOUS
    <3>2. keyed = {}
      BY <3>1, DeriveKeyOutcomes DEF Succeed
    <3> QED
      BY <2>2, <3>2, FS_EmptySet
  <2>5. p \in keyed /\ q \in keyed
    BY <1>5, <2>3, <2>4, DeriveKeyOutcomes DEF Succeed
  <2> DEFINE f == [x \in keyed |-> DeriveKey(x, t["sweep"]).key]
  <2>6. f \in Surjection(keyed, keys)
    BY DEF Surjection
  <2>7. IsFiniteSet(keyed)
    <3>1. keyed \in SUBSET sweep
      BY DEF Succeed
    <3> QED
      BY <3>1, FS_Subset
  <2>8. f \in Injection(keyed, keys)
    <3> HIDE DEF f, keyed, keys
    <3> QED
      BY <2>2, <2>6, <2>7, FS_SurjSameCardinalityImpliesInj
  <2>9. f[p] = DerivedKey(p) /\ f[q] = DerivedKey(q)
    BY <2>5, DeriveKeyOutcomes DEF Succeed
  <2> HIDE DEF f, keyed, keys
  <2> QED
    BY <1>5, <2>5, <2>8, <2>9 DEF Injection, IsInjective
<1> QED
  BY <1>4, <1>5

\* When nothing disturbs it, the bound is accepted, nothing above it is, and the
\* requests of the sweep are and have different keys, the test passes.
LEMMA BoundedPasses ==
  ASSUME NEW control, NEW above, NEW sweep, IsFiniteSet(sweep),
         NEW t \in Trouble, t = Undisturbed,
         Accepts(control), \A q \in above : ~Accepts(q), \A q \in sweep : Accepts(q),
         \A p, q \in sweep : DerivedKey(p) = DerivedKey(q) => p = q
  PROVE  Bounded(control, above, sweep, t) = "pass"
<1> DEFINE c     == DeriveKey(control, t["control"]).outcome
           keyed == Succeed(sweep, t["sweep"])
           keys  == {DeriveKey(q, t["sweep"]).key : q \in keyed}
<1>1. Bounded(control, above, sweep, t) =
        IF c = "raises" THEN "error"
        ELSE IF c = "rejected" THEN "fail"
        ELSE IF Raise(above, t["test"]) THEN "error"
        ELSE IF ~Reject(above, t["test"]) THEN "fail"
        ELSE IF Raise(sweep, t["sweep"]) THEN "error"
        ELSE IF Cardinality(sweep) < 2 THEN "pass"
        ELSE IF Cardinality(keyed) >= 2 /\ Cardinality(keys) = Cardinality(keyed)
        THEN "pass" ELSE "fail"
  BY DEF Bounded
<1>2. t["control"] = "none" /\ t["test"] = "none" /\ t["sweep"] = "none"
  BY DEF Undisturbed, Phases
<1>3. c = "key" /\ ~Raise(above, t["test"]) /\ Reject(above, t["test"]) /\ ~Raise(sweep, t["sweep"])
  BY <1>2, DeriveKeyOutcomes DEF Raise, Reject
<1>4. keyed = sweep /\ \A q \in keyed : DeriveKey(q, t["sweep"]).key = DerivedKey(q)
  BY <1>2, DeriveKeyOutcomes DEF Succeed
<1> DEFINE f == [x \in keyed |-> DeriveKey(x, t["sweep"]).key]
<1>5. f \in Surjection(keyed, keys)
  BY DEF Surjection
<1>6. f \in Injection(keyed, keys)
  BY <1>4 DEF Injection, IsInjective
<1>7. Cardinality(keys) = Cardinality(keyed)
  <2> HIDE DEF f, keyed, keys
  <2> QED
    BY <1>4, <1>5, <1>6, FS_Surjection
<1>8. Cardinality(sweep) \in Nat
  BY FS_CardinalityType
<1> HIDE DEF c, keyed, keys
<1> QED
  BY <1>1, <1>3, <1>4, <1>7, <1>8

\* What the handlers that read the report start from.
Reported == Ready /\ report # NoFile /\ report.data = GuestData

\* The sweep of the guest SVN.
LEMMA FindsSvn ==
  ASSUME Reported, NEW t \in Trouble
  PROVE  /\ Svn(t) = "pass" =>
              /\ Misleading(t) \/ ~Is("unbounded", "guestSvn")
              /\ Is("ignored", "guestSvn") => launch.svn = 0
         /\ t = Undisturbed /\ Conforms => Svn(t) = "pass"
<1> DEFINE bound == LoadReport.svn
           above == {SvnReq(v) : v \in bound + 1 .. bound + 3}
           sweep == IF bound = 0 THEN {} ELSE {SvnReq(v) : v \in SweepValues(bound)}
<1>1. TypeOK /\ Ready /\ launch # NoLaunch /\ launch.svn \in Nat
  BY PlatformTyped DEF Reported, Ready, TypeOK
<1>2. Svn(t) = IF LoadReport = ReportError THEN "fail"
               ELSE Bounded(SvnReq(bound), above, sweep, t)
  BY DEF Svn
<1>3. /\ LoadReport # ReportError => bound = launch.svn
      /\ Conforms => LoadReport # ReportError
  BY <1>1, ReportRead DEF Reported, Conforms
<1>4. SUFFICES ASSUME LoadReport # ReportError
               PROVE  /\ Bounded(SvnReq(bound), above, sweep, t) = "pass" =>
                           /\ Misleading(t) \/ ~Is("unbounded", "guestSvn")
                           /\ Is("ignored", "guestSvn") => launch.svn = 0
                      /\ t = Undisturbed /\ Conforms =>
                           Bounded(SvnReq(bound), above, sweep, t) = "pass"
  BY <1>2, <1>3
<1>5. bound = launch.svn /\ bound \in Nat
  BY <1>1, <1>3, <1>4
<1>6. ASSUME NEW v
      PROVE  /\ SvnReq(v) = [file |-> <<"svn", v>>, root |-> "vcek", vmpl |-> platform.vmpl,
                             svn |-> v, tcb |-> ZeroTcb, gfs |-> {"svn"}]
             /\ Accepts(SvnReq(v)) <=> /\ v <= launch.svn \/ Is("unbounded", "guestSvn")
                                       /\ v \in {0, launch.svn} \/ ~Is("strict", "guestSvn")
  <2>1. /\ platform.vmpl \in 0 .. 3
        /\ SvnReq(v) = [file |-> <<"svn", v>>, root |-> "vcek", vmpl |-> platform.vmpl,
                        svn |-> v, tcb |-> ZeroTcb, gfs |-> {"svn"}]
    BY <1>1, Requests, Zenon
  <2> DEFINE r == SvnReq(v)
  <2>2. r.tcb = ZeroTcb /\ r.svn = v /\ r.vmpl \in platform.vmpl .. 3
    BY <2>1
  <2> HIDE DEF r
  <2>3. Accepts(r) <=> /\ v <= launch.svn \/ Is("unbounded", "guestSvn")
                       /\ v \in {0, launch.svn} \/ ~Is("strict", "guestSvn")
    BY <1>1, <2>2, AcceptsSvn
  <2> QED
    BY <2>1, <2>3 DEF r
<1>7. IsFiniteSet(sweep)
  <2> DEFINE f == [v \in SweepValues(bound) |-> SvnReq(v)]
             image == {f[v] : v \in DOMAIN f}
  <2>1. IsFiniteSet(DOMAIN f)
    BY <1>5, SweepWithin
  <2>2. f = [v \in DOMAIN f |-> f[v]]
    OBVIOUS
  <2>3. image = {SvnReq(v) : v \in SweepValues(bound)}
    OBVIOUS
  <2>4. IsFiniteSet(image)
    <3> HIDE DEF f
    <3> QED
      BY <2>1, <2>2, FiniteImage
  <2>5. IsFiniteSet({})
    BY FS_EmptySet
  <2>6. sweep = image \/ sweep = {}
    BY <2>3
  <2> HIDE DEF image, sweep
  <2> QED
    BY <2>4, <2>5, <2>6
<1>8. ASSUME Bounded(SvnReq(bound), above, sweep, t) = "pass"
      PROVE  /\ Misleading(t) \/ ~Is("unbounded", "guestSvn")
             /\ Is("ignored", "guestSvn") => launch.svn = 0
  <2>1. /\ Misleading(t) \/ \A q \in above : ~Accepts(q)
        /\ \A p, q \in sweep :
             Accepts(p) /\ Accepts(q) /\ DerivedKey(p) = DerivedKey(q) => p = q
    <3> DEFINE control == SvnReq(bound)
    <3> HIDE DEF control, above, sweep
    <3>1. Bounded(control, above, sweep, t) = "pass"
      BY <1>8 DEF control
    <3> QED
      BY <1>7, <3>1, BoundedFinds
  <2>2. ASSUME Is("unbounded", "guestSvn") PROVE Misleading(t)
    <3>1. SvnReq(bound + 1) \in above
      BY <1>5
    <3>2. ~Is("strict", "guestSvn")
      BY <2>2, OneFault
    <3>3. Accepts(SvnReq(bound + 1))
      BY <1>6, <2>2, <3>2
    <3> HIDE DEF above
    <3> QED
      BY <2>1, <3>1, <3>3
  <2>3. ASSUME Is("ignored", "guestSvn"), bound # 0 PROVE FALSE
    <3>1. SvnReq(0) \in sweep /\ SvnReq(bound) \in sweep
      BY <1>5, <2>3, SweepWithin
    <3>2. ~Is("strict", "guestSvn") /\ ~Is("random", "-") /\ ~Is("guest", "-")
      BY <2>3, OneFault
    <3>3. Accepts(SvnReq(0)) /\ Accepts(SvnReq(bound))
      BY <1>5, <1>6, <3>2
    <3> DEFINE r1 == SvnReq(0)
               r2 == SvnReq(bound)
    <3>4. /\ r1.tcb = ZeroTcb /\ r1.gfs = {"svn"} /\ r1.svn = 0
          /\ r2.tcb = ZeroTcb /\ r2.gfs = {"svn"} /\ r2.svn = bound
          /\ r1.root = r2.root /\ r1.vmpl = r2.vmpl
      <4>1. /\ r1 = [file |-> <<"svn", 0>>, root |-> "vcek", vmpl |-> platform.vmpl,
                     svn |-> 0, tcb |-> ZeroTcb, gfs |-> {"svn"}]
            /\ r2 = [file |-> <<"svn", bound>>, root |-> "vcek", vmpl |-> platform.vmpl,
                     svn |-> bound, tcb |-> ZeroTcb, gfs |-> {"svn"}]
        BY <1>6, Zenon
      <4> QED
        BY <4>1
    <3>5. DerivedKey(r1) = DerivedKey(r2)
      <4> HIDE DEF r1, r2
      <4> QED
        BY <1>1, <2>3, <3>2, <3>4, PlainKey
    <3>6. r1 # r2
      <4> HIDE DEF r1, r2
      <4> QED
        BY <2>3, <3>4
    <3> HIDE DEF sweep
    <3> QED
      BY <2>1, <3>1, <3>3, <3>5, <3>6
  <2> QED
    BY <1>5, <2>2, <2>3
<1>9. ASSUME t = Undisturbed, Conforms
      PROVE  Bounded(SvnReq(bound), above, sweep, t) = "pass"
  <2>1. \A k, w : Is(k, w) => k = "none"
    BY <1>9 DEF Is, Conforms
  <2>2. \A v : Accepts(SvnReq(v)) <=> v <= launch.svn
    BY <1>6, <2>1
  <2>3. Accepts(SvnReq(bound))
    BY <1>5, <2>2
  <2>4. \A q \in above : ~Accepts(q)
    BY <1>5, <2>2
  <2>5. \A q \in sweep : \E v \in 0 .. bound : q = SvnReq(v)
    BY <1>5, SweepWithin
  <2>6. \A q \in sweep : Accepts(q)
    <3> HIDE DEF sweep
    <3> QED
      BY <1>5, <2>2, <2>5
  <2>7. ASSUME NEW v \in Nat PROVE DerivedKey(SvnReq(v)).svn = v
    <3> DEFINE r == SvnReq(v)
    <3>1. r = [file |-> <<"svn", v>>, root |-> "vcek", vmpl |-> platform.vmpl,
               svn |-> v, tcb |-> ZeroTcb, gfs |-> {"svn"}]
      BY <1>6, Zenon
    <3>2. r.tcb = ZeroTcb /\ r.gfs = {"svn"} /\ r.svn = v
      BY <3>1
    <3>3. ~Is("ignored", "guestSvn") /\ ~Is("unselected", "svn")
      BY <2>1
    <3> HIDE DEF r
    <3>4. "svn" \in {b \in r.gfs : ~Is("unselected", b)}
      BY <3>2, <3>3
    <3>5. DerivedKey(r).svn = v
      BY <1>1, <3>2, <3>3, <3>4, PlainKey
    <3> QED
      BY <3>5 DEF r
  <2>8. \A p, q \in sweep : DerivedKey(p) = DerivedKey(q) => p = q
    <3> SUFFICES ASSUME NEW p \in sweep, NEW q \in sweep, DerivedKey(p) = DerivedKey(q)
                 PROVE  p = q
      OBVIOUS
    <3>1. PICK v \in 0 .. bound : p = SvnReq(v)
      BY <2>5
    <3>2. PICK w \in 0 .. bound : q = SvnReq(w)
      BY <2>5
    <3>3. DerivedKey(p).svn = v /\ DerivedKey(q).svn = w
      BY <1>5, <2>7, <3>1, <3>2
    <3> QED
      BY <3>1, <3>2, <3>3
  <2> DEFINE control == SvnReq(bound)
  <2> HIDE DEF control, above, sweep
  <2>9. Accepts(control)
    BY <2>3 DEF control
  <2>10. Bounded(control, above, sweep, t) = "pass"
    BY <1>7, <1>9, <2>4, <2>6, <2>8, <2>9, BoundedPasses
  <2> QED
    BY <2>10 DEF control
<1> QED
  BY <1>8, <1>9

\* A request for a TCB of one component.
LEMMA OneComponent ==
  ASSUME Ready, Resolves(platform.cpu), NEW tcb \in TcbVersions(platform.layout)
  PROVE  /\ TcbReq(tcb).tcb = ToU64(tcb, platform.layout)
         /\ TcbReq(tcb).svn = 0 /\ TcbReq(tcb).vmpl = platform.vmpl
         /\ TcbReq(tcb).gfs = {"tcb"} /\ TcbReq(tcb).root = "vcek"
         /\ \A c \in Components(platform.layout), v \in Byte :
              /\ MakeTcb(c, v) \in TcbVersions(platform.layout)
              /\ \A d \in Components(platform.layout) :
                   MakeTcb(c, v)[d] = IF d = c THEN v ELSE 0
<1>1. HostGeneration.layout = platform.layout
  BY HostKnown DEF Ready
<1> DEFINE u64 == ToU64(tcb, HostGeneration.layout)
<1>2. TcbReq(tcb) = [Req(<<"tcb", u64>>) EXCEPT !.tcb = u64, !.gfs = {"tcb"}]
  BY DEF TcbReq
<1>3. Req(<<"tcb", u64>>) = [file |-> <<"tcb", u64>>, root |-> "vcek", vmpl |-> platform.vmpl,
                             svn |-> 0, tcb |-> ZeroTcb, gfs |-> {"policy"}]
  BY Requests, Zenon
<1>4. TcbReq(tcb) = [[file |-> <<"tcb", u64>>, root |-> "vcek", vmpl |-> platform.vmpl,
                      svn |-> 0, tcb |-> ZeroTcb, gfs |-> {"policy"}]
                       EXCEPT !.tcb = u64, !.gfs = {"tcb"}]
  BY <1>2, <1>3, Zenon
<1>5. u64 = ToU64(tcb, platform.layout)
  BY <1>1
<1> HIDE DEF u64
<1>6. /\ TcbReq(tcb).tcb = u64 /\ TcbReq(tcb).svn = 0 /\ TcbReq(tcb).vmpl = platform.vmpl
      /\ TcbReq(tcb).gfs = {"tcb"} /\ TcbReq(tcb).root = "vcek"
  BY <1>4
<1>7. \A c \in Components(platform.layout), v \in Byte :
        /\ MakeTcb(c, v) \in TcbVersions(platform.layout)
        /\ \A d \in Components(platform.layout) : MakeTcb(c, v)[d] = IF d = c THEN v ELSE 0
  BY <1>1 DEF MakeTcb, TcbVersions, Byte
<1> QED
  BY <1>5, <1>6, <1>7

\* The sweeps of the TCB's components.
LEMMA FindsTcb ==
  ASSUME Reported, NEW t \in Trouble
  PROVE  /\ Tcb(t) = "pass" =>
              \A c \in Components(platform.layout) :
                /\ Misleading(t) \/ platform.tcb[c] = 255 \/ ~Is("unbounded", c)
                /\ Is("ignored", c) => platform.tcb[c] = 0
         /\ t = Undisturbed /\ Conforms => Tcb(t) = "pass"
<1> DEFINE bound == LoadReport.launchTcb
           comps == Components(platform.layout)
           above == UNION {{TcbReq(MakeTcb(c, v)) : v \in Above(bound[c])} : c \in DOMAIN bound}
           sweep == UNION {{TcbReq(MakeTcb(c, v)) : v \in SweepValues(bound[c])}
                             : c \in DOMAIN bound}
<1>1. /\ TypeOK /\ Ready /\ launch # NoLaunch /\ platform.layout \in Layouts
      /\ platform.tcb \in [comps -> Byte]
  BY PlatformTyped DEF Reported, Ready, TcbVersions
<1>2. Tcb(t) = IF LoadReport = ReportError THEN "fail"
               ELSE IF bound = NoTcb THEN "fail"
               ELSE Bounded(TcbReq(bound), above, sweep, t)
  BY DEF Tcb
<1>3. /\ LoadReport # ReportError => Resolves(platform.cpu) /\ bound \in {platform.tcb, NoTcb}
      /\ Conforms => LoadReport # ReportError /\ bound = platform.tcb
      /\ platform.tcb # NoTcb
  BY <1>1, ReportRead DEF Reported, Conforms
<1>4. SUFFICES ASSUME Resolves(platform.cpu), bound = platform.tcb
               PROVE  /\ Bounded(TcbReq(bound), above, sweep, t) = "pass" =>
                           \A c \in comps :
                             /\ Misleading(t) \/ platform.tcb[c] = 255 \/ ~Is("unbounded", c)
                             /\ Is("ignored", c) => platform.tcb[c] = 0
                      /\ t = Undisturbed /\ Conforms =>
                           Bounded(TcbReq(bound), above, sweep, t) = "pass"
  <2> HIDE DEF above, sweep, bound
  <2> QED
    BY <1>2, <1>3
<1>5. bound \in TcbVersions(platform.layout) /\ DOMAIN bound = comps
      /\ \A c \in comps : bound[c] \in 0 .. 255 /\ bound[c] = platform.tcb[c]
  BY <1>1, <1>4 DEF TcbVersions, Byte
<1> HIDE DEF bound
<1>6. ASSUME NEW c \in comps, NEW v \in Byte
      PROVE  /\ MakeTcb(c, v) \in TcbVersions(platform.layout)
             /\ \A d \in comps : MakeTcb(c, v)[d] = IF d = c THEN v ELSE 0
             /\ Accepts(TcbReq(MakeTcb(c, v))) <=> v <= bound[c] \/ Is("unbounded", c)
  <2> DEFINE tcb == MakeTcb(c, v)
             r   == TcbReq(tcb)
  <2>1. tcb \in TcbVersions(platform.layout) /\ \A d \in comps : tcb[d] = IF d = c THEN v ELSE 0
    BY <1>1, <1>4, <1>5, OneComponent, Zenon
  <2> HIDE DEF tcb
  <2>2. r.tcb = ToU64(tcb, platform.layout) /\ r.svn = 0 /\ r.vmpl = platform.vmpl
    BY <1>1, <1>4, <2>1, OneComponent
  <2> HIDE DEF r
  <2>3. Accepts(r) <=> \A d \in comps : tcb[d] <= platform.tcb[d] \/ Is("unbounded", d)
    BY <1>1, <2>1, <2>2, AcceptsTcb
  <2>4. Accepts(r) <=> v <= bound[c] \/ Is("unbounded", c)
    BY <1>5, <2>1, <2>3 DEF Byte
  <2> QED
    BY <2>1, <2>4 DEF tcb, r
<1>7. IsFiniteSet(sweep)
  <2> DEFINE f == [x \in comps \X (0 .. 255) |-> TcbReq(MakeTcb(x[1], x[2]))]
             image == {f[x] : x \in DOMAIN f}
  <2>1. IsFiniteSet(comps) /\ IsFiniteSet(0 .. 255)
    <3>1. IsFiniteSet(comps)
      BY <1>1, ComponentsOf
    <3>2. 0 \in Int /\ 255 \in Int
      OBVIOUS
    <3>3. IsFiniteSet(0 .. 255)
      BY <3>2, FS_Interval
    <3> QED
      BY <3>1, <3>3
  <2>2. IsFiniteSet(DOMAIN f)
    <3> HIDE DEF comps
    <3> QED
      BY <2>1, FS_Product
  <2>3. f = [x \in DOMAIN f |-> f[x]]
    OBVIOUS
  <2>4. IsFiniteSet(image)
    <3> HIDE DEF f
    <3> QED
      BY <2>2, <2>3, FiniteImage
  <2>5. ASSUME NEW q \in sweep PROVE q \in image
    <3>1. PICK c \in comps : q \in {TcbReq(MakeTcb(c, v)) : v \in SweepValues(bound[c])}
      BY <1>5, <2>5
    <3>2. PICK v \in SweepValues(bound[c]) : q = TcbReq(MakeTcb(c, v))
      BY <3>1
    <3>3. v \in 0 .. 255
      BY <1>5, <3>2, SweepWithin
    <3>4. <<c, v>> \in DOMAIN f /\ f[<<c, v>>] = TcbReq(MakeTcb(c, v))
      BY <3>3
    <3> HIDE DEF f
    <3> QED
      BY <3>2, <3>4
  <2> HIDE DEF image, sweep
  <2>6. sweep \in SUBSET image
    BY <2>5
  <2> QED
    BY <2>4, <2>6, FS_Subset
<1>8. ASSUME Bounded(TcbReq(bound), above, sweep, t) = "pass", NEW c \in comps
      PROVE  /\ Misleading(t) \/ platform.tcb[c] = 255 \/ ~Is("unbounded", c)
             /\ Is("ignored", c) => platform.tcb[c] = 0
  <2>1. /\ Misleading(t) \/ \A q \in above : ~Accepts(q)
        /\ \A p, q \in sweep :
             Accepts(p) /\ Accepts(q) /\ DerivedKey(p) = DerivedKey(q) => p = q
    <3> DEFINE control == TcbReq(bound)
    <3> HIDE DEF control, above, sweep
    <3>1. Bounded(control, above, sweep, t) = "pass"
      BY <1>8 DEF control
    <3> QED
      BY <1>7, <3>1, BoundedFinds
  <2>2. ASSUME Is("unbounded", c), platform.tcb[c] # 255 PROVE Misleading(t)
    <3>1. bound[c] + 1 \in Above(bound[c]) /\ bound[c] + 1 \in Byte
      BY <1>5, <2>2, KeyDerivationAssumption DEF Above, Byte
    <3>2. TcbReq(MakeTcb(c, bound[c] + 1)) \in above
      BY <1>5, <3>1
    <3>3. Accepts(TcbReq(MakeTcb(c, bound[c] + 1)))
      BY <1>6, <2>2, <3>1
    <3> HIDE DEF above
    <3> QED
      BY <2>1, <3>2, <3>3
  <2>3. ASSUME Is("ignored", c), platform.tcb[c] # 0 PROVE FALSE
    <3> DEFINE low  == MakeTcb(c, 0)
               high == MakeTcb(c, bound[c])
               r1   == TcbReq(low)
               r2   == TcbReq(high)
    <3>1. 0 \in Byte /\ bound[c] \in Byte /\ bound[c] \in Nat /\ bound[c] # 0
      BY <1>5, <2>3 DEF Byte
    <3>2. r1 \in sweep /\ r2 \in sweep
      BY <1>5, <3>1, SweepWithin
    <3>3. Accepts(r1) /\ Accepts(r2)
      BY <1>6, <3>1 DEF Byte
    <3>4. /\ low \in TcbVersions(platform.layout) /\ high \in TcbVersions(platform.layout)
          /\ \A d \in comps : low[d] = 0
          /\ \A d \in comps : high[d] = IF d = c THEN bound[c] ELSE 0
      BY <1>6, <3>1
    <3> HIDE DEF low, high
    <3>5. /\ r1.tcb = ToU64(low, platform.layout) /\ r1.gfs = {"tcb"} /\ r1.root = "vcek"
          /\ r1.vmpl = platform.vmpl
          /\ r2.tcb = ToU64(high, platform.layout) /\ r2.gfs = {"tcb"} /\ r2.root = "vcek"
          /\ r2.vmpl = platform.vmpl
      BY <1>1, <1>4, <3>4, OneComponent
    <3> HIDE DEF r1, r2
    <3>6. DerivedKey(r1) = DerivedKey(r2)
      <4>1. ~Is("random", "-") /\ ~Is("guest", "-") /\ ~Is("unselected", "tcb")
        BY <2>3, OneFault
      <4>2. [d \in comps |-> IF Is("unselected", "tcb") \/ Is("ignored", d) THEN 0 ELSE low[d]]
              = [d \in comps |-> IF Is("unselected", "tcb") \/ Is("ignored", d) THEN 0 ELSE high[d]]
        BY <2>3, <3>4
      <4> DEFINE mixed(tcb) == [d \in Components(platform.layout) |->
                                  IF Is("unselected", "tcb") \/ Is("ignored", d) THEN 0 ELSE tcb[d]]
                 key(req, tcb) ==
                   [root |-> IF Is("ignored", "root") THEN "vcek" ELSE req.root,
                    vmpl |-> IF Is("ignored", "vmpl") THEN 0 ELSE req.vmpl,
                    gfs  |-> {b \in {"tcb"} : ~Is("unselected", b)},
                    svn  |-> 0,
                    tcb  |-> mixed(tcb),
                    salt |-> IF Is("random", "-") THEN <<req.file, launch.n>>
                             ELSE IF Is("guest", "-") THEN <<"guest", launch.n>>
                             ELSE <<"none", 0>>]
      <4>3. DerivedKey(r1) = key(r1, low)
        BY <1>1, <3>4, <3>5, TcbKey
      <4>4. DerivedKey(r2) = key(r2, high)
        BY <1>1, <3>4, <3>5, TcbKey
      <4>5. mixed(low) = mixed(high)
        BY <4>2
      <4>6. key(r1, low) = key(r2, high)
        <5> DEFINE m1 == mixed(low)
                   m2 == mixed(high)
        <5>1. m1 = m2
          BY <4>5
        <5>2. r1.root = r2.root /\ r1.vmpl = r2.vmpl
          BY <3>5
        <5> HIDE DEF m1, m2
        <5> QED
          BY <4>1, <5>1, <5>2 DEF m1, m2
      <4> HIDE DEF key
      <4> QED
        BY <4>3, <4>4, <4>6
    <3>7. r1 # r2
      <4>1. FromBytes(r1.tcb, platform.layout) = low /\ FromBytes(r2.tcb, platform.layout) = high
        BY <1>1, <3>4, <3>5, RoundTrip
      <4> QED
        BY <3>1, <3>4, <4>1
    <3> HIDE DEF sweep
    <3> QED
      BY <2>1, <3>2, <3>3, <3>6, <3>7
  <2> QED
    BY <2>2, <2>3
<1>9. ASSUME t = Undisturbed, Conforms
      PROVE  Bounded(TcbReq(bound), above, sweep, t) = "pass"
  <2>1. \A k, w : Is(k, w) => k = "none"
    BY <1>9 DEF Is, Conforms
  <2>2. Accepts(TcbReq(bound))
    <3> DEFINE r == TcbReq(bound)
    <3>1. r.tcb = ToU64(bound, platform.layout) /\ r.svn = 0 /\ r.vmpl = platform.vmpl
      BY <1>1, <1>4, <1>5, OneComponent
    <3> HIDE DEF r
    <3>2. Accepts(r) <=> \A d \in comps : bound[d] <= platform.tcb[d] \/ Is("unbounded", d)
      BY <1>1, <1>5, <3>1, AcceptsTcb
    <3>3. Accepts(r)
      BY <1>5, <3>2
    <3> QED
      BY <3>3 DEF r
  <2>3. ASSUME NEW q \in above PROVE ~Accepts(q)
    <3>1. PICK c \in comps : q \in {TcbReq(MakeTcb(c, v)) : v \in Above(bound[c])}
      BY <1>5, <2>3
    <3>2. PICK v \in Above(bound[c]) : q = TcbReq(MakeTcb(c, v))
      BY <3>1
    <3>3. v \in Byte /\ ~(v <= bound[c])
      BY <1>5, <3>2, KeyDerivationAssumption DEF Above, Byte
    <3> QED
      BY <1>6, <2>1, <3>2, <3>3
  <2>4. ASSUME NEW q \in sweep
        PROVE  \E c \in comps : \E v \in SweepValues(bound[c]) :
                 /\ q = TcbReq(MakeTcb(c, v)) /\ v \in Byte /\ v <= bound[c]
    <3>1. PICK c \in comps : q \in {TcbReq(MakeTcb(c, v)) : v \in SweepValues(bound[c])}
      BY <1>5, <2>4
    <3>2. PICK v \in SweepValues(bound[c]) : q = TcbReq(MakeTcb(c, v))
      BY <3>1
    <3>3. v \in 0 .. bound[c]
      BY <1>5, <3>2, SweepWithin
    <3>4. v \in Byte /\ v <= bound[c]
      BY <1>5, <3>3 DEF Byte
    <3> QED
      BY <3>2, <3>4
  <2>5. \A q \in sweep : Accepts(q)
    <3> SUFFICES ASSUME NEW q \in sweep PROVE Accepts(q)
      OBVIOUS
    <3>1. PICK c \in comps : \E v \in SweepValues(bound[c]) :
                 /\ q = TcbReq(MakeTcb(c, v)) /\ v \in Byte /\ v <= bound[c]
      BY <2>4
    <3> HIDE DEF sweep
    <3> QED
      BY <1>6, <3>1
  <2>6. ASSUME NEW tcb \in TcbVersions(platform.layout)
        PROVE  DerivedKey(TcbReq(tcb)).tcb = tcb
    <3> DEFINE r == TcbReq(tcb)
    <3>1. r.tcb = ToU64(tcb, platform.layout) /\ r.gfs = {"tcb"}
      BY <1>1, <1>4, OneComponent
    <3> HIDE DEF r
    <3>2. DerivedKey(r).tcb =
            [c \in comps |-> IF Is("unselected", "tcb") \/ Is("ignored", c) THEN 0 ELSE tcb[c]]
      BY <1>1, <3>1, TcbKey
    <3>3. DerivedKey(r).tcb = [c \in comps |-> tcb[c]]
      BY <2>1, <3>2
    <3>4. tcb = [c \in comps |-> tcb[c]]
      BY DEF TcbVersions
    <3> QED
      BY <3>3, <3>4 DEF r
  <2>7. \A p, q \in sweep : DerivedKey(p) = DerivedKey(q) => p = q
    <3> SUFFICES ASSUME NEW p \in sweep, NEW q \in sweep, DerivedKey(p) = DerivedKey(q)
                 PROVE  p = q
      OBVIOUS
    <3>1. \A r \in sweep : \E tcb \in TcbVersions(platform.layout) : r = TcbReq(tcb)
      <4> SUFFICES ASSUME NEW r \in sweep
                   PROVE  \E tcb \in TcbVersions(platform.layout) : r = TcbReq(tcb)
        OBVIOUS
      <4>1. PICK c \in comps : \E v \in SweepValues(bound[c]) :
                   /\ r = TcbReq(MakeTcb(c, v)) /\ v \in Byte /\ v <= bound[c]
        BY <2>4
      <4> HIDE DEF sweep
      <4> QED
        BY <1>6, <4>1
    <3>2. PICK x \in TcbVersions(platform.layout) : p = TcbReq(x)
      BY <3>1
    <3>3. PICK y \in TcbVersions(platform.layout) : q = TcbReq(y)
      BY <3>1
    <3>4. DerivedKey(p).tcb = x /\ DerivedKey(q).tcb = y
      BY <2>6, <3>2, <3>3
    <3> QED
      BY <3>2, <3>3, <3>4
  <2> DEFINE control == TcbReq(bound)
  <2> HIDE DEF control, above, sweep
  <2>8. Accepts(control) /\ \A q \in above : ~Accepts(q)
    BY <2>2, <2>3 DEF control
  <2>9. Bounded(control, above, sweep, t) = "pass"
    BY <1>7, <1>9, <2>5, <2>7, <2>8, BoundedPasses
  <2> QED
    BY <2>9 DEF control
<1> QED
  BY <1>8, <1>9

----------------------------------------------------------------------------
(* The conjuncts of the invariant over a step *)

\* The steps of the plan record an outcome.
LEMMA PlanRecords ==
  ASSUME TypeOK, InPlan
  PROVE  \E r : Record(r) /\ Recorded(r)
<1>1. running /\ step \in 1 .. 19
  BY StepActions
<1>2. \E r : Record(r)
  BY DEF InPlan, Handlers, MakeIdBlock, Launch, GuestReport, PullReport, ParseReport,
         DetectVmpl, TestDeterminism, TestVmpl, TestRootKeys, TestSvn, TestTcb, TestGfs,
         TestFieldMixing, Handler, SaveKey, VerifyKey, StopVM
<1> QED
  BY <1>1, <1>2, Records

\* What the steps of the plan leave alone.
LEMMA PlanLeaves ==
  ASSUME TypeOK, InPlan
  PROVE  /\ UNCHANGED platform
         /\ step \notin Launched /\ step \notin Stops => UNCHANGED launch
         /\ step \notin Launched => UNCHANGED guests
         /\ step # 5 => UNCHANGED report
         /\ step # 7 => UNCHANGED vmplFile
         /\ step # 15 => UNCHANGED reference
         /\ step # 18 => UNCHANGED compared
         /\ step \notin 8 .. 14 => UNCHANGED misled
<1>1. Handlers => /\ UNCHANGED <<platform, launch, guests, report, vmplFile, reference, compared>>
                  /\ step \in 8 .. 14
  <2>1. Handlers => UNCHANGED <<platform, guest, files, compared>>
    BY DEF Handlers, TestDeterminism, TestVmpl, TestRootKeys, TestSvn, TestTcb, TestGfs,
           TestFieldMixing, Handler
  <2>2. Handlers => step \in 8 .. 14
    BY StepActions DEF Handlers
  <2> QED
    BY <2>1, <2>2 DEF guest, files
<1>2. /\ UNCHANGED platform
      /\ ~Launch /\ ~StopVM => UNCHANGED launch
      /\ ~Launch => UNCHANGED guests
      /\ ~PullReport => UNCHANGED report
      /\ ~DetectVmpl => UNCHANGED vmplFile
      /\ ~SaveKey => UNCHANGED reference
      /\ ~VerifyKey => UNCHANGED compared
      /\ ~Handlers => UNCHANGED misled
  BY <1>1 DEF InPlan, MakeIdBlock, Launch, GuestReport, PullReport, ParseReport, DetectVmpl,
              SaveKey, VerifyKey, StopVM, guest, files, history
<1> QED
  BY <1>1, <1>2, StepActions, Zenon

\* A failure that is recorded ends the plan at a setup step, and the run fails
\* at any step but a stop.
LEMMA FailureEnds ==
  ASSUME TypeOK, InPlan, Record("fail")
  PROVE  /\ step \in Setups => step' = 20
         /\ step \notin Stops => overall' = "fail"
<1>1. Recorded("fail")
  BY StepActions, Records
<1> QED
  BY <1>1 DEF Recorded

\* The SEV device is asked for the lowest VMPL: it is the guest's own.
LEMMA DetectedVmpl ==
  ASSUME TypeOK, launch # NoLaunch, DetectVmpl
  PROVE  \/ vmplFile' = [vmpl |-> platform.vmpl, run |-> runs]
         \/ Record("fail") /\ UNCHANGED vmplFile
<1> DEFINE accepted == {v \in 0 .. 3 : Accepts([vmpl |-> v, svn |-> 0, tcb |-> ZeroTcb])}
           lowest   == CHOOSE v \in accepted : \A w \in accepted : v <= w
<1>1. platform.vmpl \in 0 .. 3
  BY PlatformTyped
<1>2. ASSUME NEW v \in 0 .. 3
      PROVE  Accepts([vmpl |-> v, svn |-> 0, tcb |-> ZeroTcb]) <=> v \in platform.vmpl .. 3
  <2> DEFINE r == [vmpl |-> v, svn |-> 0, tcb |-> ZeroTcb]
  <2>1. r.tcb = ZeroTcb /\ r.svn = 0 /\ r.vmpl = v
    OBVIOUS
  <2> HIDE DEF r
  <2>2. Accepts(r) <=> v \in platform.vmpl .. 3
    BY <2>1, AcceptsDefault
  <2> QED
    BY <2>2 DEF r
<1>3. accepted = platform.vmpl .. 3
  BY <1>1, <1>2
<1>4. lowest = platform.vmpl
  <2> HIDE DEF accepted
  <2>1. platform.vmpl \in accepted /\ \A w \in accepted : platform.vmpl <= w
    BY <1>1, <1>3
  <2>2. lowest \in accepted /\ \A w \in accepted : lowest <= w
    BY <2>1, Zenon
  <2> QED
    BY <1>1, <1>3, <2>1, <2>2
<1>5. \/ vmplFile' = [vmpl |-> lowest, run |-> runs]
      \/ Record("fail") /\ UNCHANGED vmplFile
  BY DEF DetectVmpl
<1> HIDE DEF lowest, accepted
<1> QED
  BY <1>4, <1>5

\* A TCB is sent as eight bytes.
LEMMA ToU64Typed ==
  ASSUME NEW layout \in Layouts, NEW tcb \in TcbVersions(layout)
  PROVE  ToU64(tcb, layout) \in RawTcbs
<1> DEFINE u64 == ToU64(tcb, layout)
<1>2. CASE layout = "turin"
  <2>1. tcb \in [{"bootloader", "tee", "snp", "microcode", "fmc"} -> Byte]
    BY <1>2 DEF TcbVersions, Components, CoreComponents
  <2>2. \A c \in {"bootloader", "tee", "snp", "microcode", "fmc"} : Low(tcb[c]) \in Byte
    <3>1. \A c \in {"bootloader", "tee", "snp", "microcode", "fmc"} : tcb[c] \in Byte
      BY <2>1
    <3> QED
      BY <3>1, LowOfByte
  <2>3. "fmc" \in DOMAIN tcb
    BY <2>1
  <2>4. u64 = [i \in 0 .. 7 |-> u64[i]]
    BY <1>2 DEF ToU64
  <2>5. u64[0] \in Byte /\ u64[1] \in Byte /\ u64[2] \in Byte /\ u64[3] \in Byte
        /\ u64[4] \in Byte /\ u64[5] \in Byte /\ u64[6] \in Byte /\ u64[7] \in Byte
    <3>1. u64[0] = Low(tcb["fmc"]) /\ u64[1] = Low(tcb["bootloader"]) /\ u64[2] = Low(tcb["tee"])
          /\ u64[3] = Low(tcb["snp"]) /\ u64[7] = Low(tcb["microcode"])
      BY <1>2, <2>3 DEF ToU64
    <3>2. u64[4] = 0 /\ u64[5] = 0 /\ u64[6] = 0
      BY <1>2 DEF ToU64
    <3> QED
      BY <2>2, <3>1, <3>2 DEF Byte
  <2> HIDE DEF u64
  <2>6. \A i \in 0 .. 7 : u64[i] \in Byte
    BY <2>5
  <2>7. u64 \in RawTcbs
    <3>1. [i \in 0 .. 7 |-> u64[i]] \in [0 .. 7 -> Byte]
      BY <2>6, Zenon
    <3> QED
      BY <2>4, <3>1, Zenon DEF RawTcbs
  <2> QED
    BY <2>7 DEF u64
<1>3. CASE layout = "legacy"
  <2>1. tcb \in [{"bootloader", "tee", "snp", "microcode"} -> Byte] /\ layout # "turin"
    BY <1>3 DEF TcbVersions, Components, CoreComponents
  <2>2. \A c \in {"bootloader", "tee", "snp", "microcode"} : Low(tcb[c]) \in Byte
    <3>1. \A c \in {"bootloader", "tee", "snp", "microcode"} : tcb[c] \in Byte
      BY <2>1
    <3> QED
      BY <3>1, LowOfByte
  <2>4. u64 = [i \in 0 .. 7 |-> u64[i]]
    BY <2>1 DEF ToU64
  <2>5. u64[0] \in Byte /\ u64[1] \in Byte /\ u64[2] \in Byte /\ u64[3] \in Byte
        /\ u64[4] \in Byte /\ u64[5] \in Byte /\ u64[6] \in Byte /\ u64[7] \in Byte
    <3>1. u64[0] = Low(tcb["bootloader"]) /\ u64[1] = Low(tcb["tee"])
          /\ u64[6] = Low(tcb["snp"]) /\ u64[7] = Low(tcb["microcode"])
      BY <2>1 DEF ToU64
    <3>2. u64[2] = 0 /\ u64[3] = 0 /\ u64[4] = 0 /\ u64[5] = 0
      BY <2>1 DEF ToU64
    <3> QED
      BY <2>2, <3>1, <3>2 DEF Byte
  <2> HIDE DEF u64
  <2>6. \A i \in 0 .. 7 : u64[i] \in Byte
    BY <2>5
  <2>7. u64 \in RawTcbs
    <3>1. [i \in 0 .. 7 |-> u64[i]] \in [0 .. 7 -> Byte]
      BY <2>6, Zenon
    <3> QED
      BY <2>4, <3>1, Zenon DEF RawTcbs
  <2> QED
    BY <2>7 DEF u64
<1> QED
  BY <1>2, <1>3 DEF Layouts

\* The report of a guest is one.
LEMMA GuestDataTyped ==
  ASSUME TypeOK, launch # NoLaunch
  PROVE  GuestData \in ReportData
<1>1. /\ platform.version \in Nat /\ platform.cpuid \in Cpus /\ launch.svn \in Nat
      /\ platform.layout \in Layouts /\ platform.tcb \in TcbVersions(platform.layout)
  BY PlatformTyped DEF TypeOK
<1>2. ToU64(platform.tcb, platform.layout) \in RawTcbs
  BY <1>1, ToU64Typed
<1> QED
  BY <1>1, <1>2 DEF GuestData, ReportData

\* The handlers have what they start from.
LEMMA ReadyAt ==
  ASSUME TypeOK, GuestOfStep, Artifacts, running
  PROVE  /\ step \in 8 .. 16 => Ready
         /\ step \in 8 .. 16 => Reported
         /\ step = 18 => Ready
         /\ step \in 6 .. 16 => launch # NoLaunch /\ report # NoFile /\ report.data = GuestData
<1>1. step \in 6 .. 16 => launch # NoLaunch /\ report # NoFile /\ report.data = GuestData
  BY DEF GuestOfStep, Artifacts
<1>2. step \in 8 .. 16 \/ step = 18 => Ready
  BY DEF GuestOfStep, Artifacts, Ready
<1> QED
  BY <1>1, <1>2 DEF Reported

\* The key that is kept to be compared with.
LEMMA CrossKey ==
  ASSUME Ready
  PROVE  LET r == Req("cross_cvm_key")
         IN /\ Accepts(r)
            /\ DerivedKey(r) \in Keys /\ DerivedKey(r) # NoKey
            /\ Is("guest", "-") => DerivedKey(r).salt = <<"guest", launch.n>>
<1> DEFINE r == Req("cross_cvm_key")
<1>1. /\ platform.vmpl \in 0 .. 3
      /\ r = [file |-> "cross_cvm_key", root |-> "vcek", vmpl |-> platform.vmpl, svn |-> 0,
              tcb |-> ZeroTcb, gfs |-> {"policy"}]
  BY Requests, Zenon
<1>2. /\ r.tcb = ZeroTcb /\ r.svn = 0 /\ r.vmpl \in platform.vmpl .. 3 /\ r.vmpl \in Nat
      /\ r.root \in {"vcek", "vmrk"} /\ r.gfs \in SUBSET Bits /\ r.svn \in Nat
      /\ r.file \in KeyFiles
  BY <1>1 DEF KeyFiles, Bits
<1> HIDE DEF r
<1>3. Accepts(r)
  BY <1>2, AcceptsDefault DEF Ready
<1>4. DerivedKey(r) \in Keys /\ DerivedKey(r) # NoKey
  BY <1>2, KeyTyped
<1>5. ASSUME Is("guest", "-") PROVE DerivedKey(r).salt = <<"guest", launch.n>>
  <2>1. ~Is("random", "-")
    BY <1>5, OneFault
  <2> QED
    BY <1>2, <1>5, <2>1, PlainKey DEF Ready
<1> QED
  BY <1>3, <1>4, <1>5 DEF r

\* What a handler's step means for the history: a run that goes on without a
\* failure and without being misled got a pass from its handler, and a calm run
\* the undisturbed finding.
LEMMA HandlerLeaves ==
  ASSUME TypeOK, running, step \in 8 .. 14, NEW finding, HandlerStep(finding)
  PROVE  /\ overall' = "pass" /\ ~misled' =>
              /\ overall = "pass" /\ ~misled
              /\ \E t \in Trouble : finding[t] = "pass" /\ ~Misleading(t)
         /\ calm' => calm /\ Record(finding[Undisturbed])
<1>1. \A r : Record(r) /\ overall' = "pass" => overall = "pass" /\ r = "pass"
  BY Records DEF Recorded, Stops
<1>2. CASE Record("fail") /\ calm' = FALSE
  BY <1>1, <1>2
<1>3. CASE \E t \in Trouble : /\ Record(finding[t])
                              /\ calm' = (calm /\ t = [p \in Phases |-> "none"])
                              /\ misled' = (misled \/ Misleading(t))
  <2>1. PICK t \in Trouble : /\ Record(finding[t])
                             /\ calm' = (calm /\ t = [p \in Phases |-> "none"])
                             /\ misled' = (misled \/ Misleading(t))
    BY <1>3
  <2>2. (calm' => calm /\ t = Undisturbed) /\ (~misled' => ~misled /\ ~Misleading(t))
    BY <2>1, Zenon DEF Undisturbed
  <2>3. overall' = "pass" => overall = "pass" /\ finding[t] = "pass"
    BY <1>1, <2>1
  <2> QED
    BY <2>1, <2>2, <2>3, Zenon
<1> QED
  BY <1>2, <1>3 DEF HandlerStep

\* What a handler's step adds to what a run without a failure has ruled out.
Finding ==
  /\ step = 8 => ~Is("random", "-")
  /\ step = 9 => ~(Is("ignored", "vmpl") /\ platform.vmpl < 3)
  /\ step = 10 => ~Is("ignored", "root")
  /\ step = 11 => /\ ~Is("unbounded", "guestSvn")
                  /\ Is("ignored", "guestSvn") => report.data.svn = 0
  /\ step = 12 => \A c \in DOMAIN platform.tcb :
                    /\ Is("unbounded", c) => platform.tcb[c] = 255
                    /\ Is("ignored", c) => platform.tcb[c] = 0
  /\ step = 14 => \A b \in Bits : ~Is("unselected", b)

\* A handler that lets a run go on without a failure has found that; undisturbed,
\* it passes a firmware without a fault.
LEMMA HandlersFind ==
  ASSUME TypeOK, GuestOfStep, Artifacts, InPlan, step \in 8 .. 14
  PROVE  /\ overall' = "pass" /\ ~misled' => overall = "pass" /\ ~misled /\ Finding
         /\ calm' /\ Conforms => calm /\ Record("pass")
<1>1. running /\ step \in 8 .. 16
  BY StepActions
<1>2. Ready /\ Reported
  BY <1>1, ReadyAt
<1>3. Undisturbed \in Trouble
  BY DEF Undisturbed, Trouble
<1>4. CASE step = 8
  <2> DEFINE finding == [t \in Trouble |-> Determinism(t)]
  <2>1. HandlerStep(finding)
    BY <1>4, StepActions DEF TestDeterminism, Handler, HandlerStep
  <2>2. \A t \in Trouble : finding[t] = Determinism(t)
    OBVIOUS
  <2> HIDE DEF finding
  <2>3. /\ overall' = "pass" /\ ~misled' =>
             /\ overall = "pass" /\ ~misled
             /\ \E t \in Trouble : Determinism(t) = "pass" /\ ~Misleading(t)
        /\ calm' => calm /\ Record(Determinism(Undisturbed))
    <3>1. /\ overall' = "pass" /\ ~misled' =>
               /\ overall = "pass" /\ ~misled
               /\ \E t \in Trouble : finding[t] = "pass" /\ ~Misleading(t)
          /\ calm' => calm /\ Record(finding[Undisturbed])
      BY <1>1, <2>1, HandlerLeaves
    <3> QED
      BY <1>3, <2>2, <3>1, Zenon
  <2>4. Conforms => Determinism(Undisturbed) = "pass"
    BY <1>2, <1>3, FindsDeterminism DEF Conforms
  <2>5. ASSUME NEW t \in Trouble, Determinism(t) = "pass", ~Misleading(t)
        PROVE  Finding
    BY <1>2, <1>4, <2>5, FindsDeterminism DEF Finding
  <2> QED
    BY <2>3, <2>4, <2>5, Zenon
<1>5. CASE step = 9
  <2> DEFINE finding == [t \in Trouble |-> VmplIsolation(t)]
  <2>1. HandlerStep(finding)
    BY <1>5, StepActions DEF TestVmpl, Handler, HandlerStep
  <2>2. \A t \in Trouble : finding[t] = VmplIsolation(t)
    OBVIOUS
  <2> HIDE DEF finding
  <2>3. /\ overall' = "pass" /\ ~misled' =>
             /\ overall = "pass" /\ ~misled
             /\ \E t \in Trouble : VmplIsolation(t) = "pass" /\ ~Misleading(t)
        /\ calm' => calm /\ Record(VmplIsolation(Undisturbed))
    <3>1. /\ overall' = "pass" /\ ~misled' =>
               /\ overall = "pass" /\ ~misled
               /\ \E t \in Trouble : finding[t] = "pass" /\ ~Misleading(t)
          /\ calm' => calm /\ Record(finding[Undisturbed])
      BY <1>1, <2>1, HandlerLeaves
    <3> QED
      BY <1>3, <2>2, <3>1, Zenon
  <2>4. Conforms => VmplIsolation(Undisturbed) = "pass"
    BY <1>2, <1>3, FindsVmplIsolation DEF Conforms
  <2>5. ASSUME NEW t \in Trouble, VmplIsolation(t) = "pass", ~Misleading(t)
        PROVE  Finding
    BY <1>2, <1>5, <2>5, FindsVmplIsolation DEF Finding
  <2> QED
    BY <2>3, <2>4, <2>5, Zenon
<1>6. CASE step = 10
  <2> DEFINE finding == [t \in Trouble |-> RootKeys(t)]
  <2>1. HandlerStep(finding)
    BY <1>6, StepActions DEF TestRootKeys, Handler, HandlerStep
  <2>2. \A t \in Trouble : finding[t] = RootKeys(t)
    OBVIOUS
  <2> HIDE DEF finding
  <2>3. /\ overall' = "pass" /\ ~misled' =>
             /\ overall = "pass" /\ ~misled
             /\ \E t \in Trouble : RootKeys(t) = "pass" /\ ~Misleading(t)
        /\ calm' => calm /\ Record(RootKeys(Undisturbed))
    <3>1. /\ overall' = "pass" /\ ~misled' =>
               /\ overall = "pass" /\ ~misled
               /\ \E t \in Trouble : finding[t] = "pass" /\ ~Misleading(t)
          /\ calm' => calm /\ Record(finding[Undisturbed])
      BY <1>1, <2>1, HandlerLeaves
    <3> QED
      BY <1>3, <2>2, <3>1, Zenon
  <2>4. Conforms => RootKeys(Undisturbed) = "pass"
    BY <1>2, <1>3, FindsRootKeys DEF Conforms
  <2>5. ASSUME NEW t \in Trouble, RootKeys(t) = "pass", ~Misleading(t)
        PROVE  Finding
    BY <1>2, <1>6, <2>5, FindsRootKeys DEF Finding
  <2> QED
    BY <2>3, <2>4, <2>5, Zenon
<1>7. CASE step = 11
  <2> DEFINE finding == [t \in Trouble |-> Svn(t)]
  <2>1. HandlerStep(finding)
    BY <1>7, StepActions DEF TestSvn, Handler, HandlerStep
  <2>2. \A t \in Trouble : finding[t] = Svn(t)
    OBVIOUS
  <2> HIDE DEF finding
  <2>3. /\ overall' = "pass" /\ ~misled' =>
             /\ overall = "pass" /\ ~misled
             /\ \E t \in Trouble : Svn(t) = "pass" /\ ~Misleading(t)
        /\ calm' => calm /\ Record(Svn(Undisturbed))
    <3>1. /\ overall' = "pass" /\ ~misled' =>
               /\ overall = "pass" /\ ~misled
               /\ \E t \in Trouble : finding[t] = "pass" /\ ~Misleading(t)
          /\ calm' => calm /\ Record(finding[Undisturbed])
      BY <1>1, <2>1, HandlerLeaves
    <3> QED
      BY <1>3, <2>2, <3>1, Zenon
  <2>4. Conforms => Svn(Undisturbed) = "pass"
    BY <1>2, <1>3, FindsSvn DEF Conforms
  <2>5. ASSUME NEW t \in Trouble, Svn(t) = "pass", ~Misleading(t)
        PROVE  Finding
    <3>1. report.data.svn = launch.svn
      BY <1>2 DEF Reported, GuestData
    <3> QED
      BY <1>2, <1>7, <2>5, <3>1, FindsSvn DEF Finding
  <2> QED
    BY <2>3, <2>4, <2>5, Zenon
<1>8. CASE step = 12
  <2> DEFINE finding == [t \in Trouble |-> Tcb(t)]
  <2>1. HandlerStep(finding)
    BY <1>8, StepActions DEF TestTcb, Handler, HandlerStep
  <2>2. \A t \in Trouble : finding[t] = Tcb(t)
    OBVIOUS
  <2> HIDE DEF finding
  <2>3. /\ overall' = "pass" /\ ~misled' =>
             /\ overall = "pass" /\ ~misled
             /\ \E t \in Trouble : Tcb(t) = "pass" /\ ~Misleading(t)
        /\ calm' => calm /\ Record(Tcb(Undisturbed))
    <3>1. /\ overall' = "pass" /\ ~misled' =>
               /\ overall = "pass" /\ ~misled
               /\ \E t \in Trouble : finding[t] = "pass" /\ ~Misleading(t)
          /\ calm' => calm /\ Record(finding[Undisturbed])
      BY <1>1, <2>1, HandlerLeaves
    <3> QED
      BY <1>3, <2>2, <3>1, Zenon
  <2>4. Conforms => Tcb(Undisturbed) = "pass"
    BY <1>2, <1>3, FindsTcb DEF Conforms
  <2>5. ASSUME NEW t \in Trouble, Tcb(t) = "pass", ~Misleading(t)
        PROVE  Finding
    <3>1. DOMAIN platform.tcb = Components(platform.layout)
      BY PlatformTyped DEF TcbVersions
    <3>2. \A c \in Components(platform.layout) :
            /\ Is("unbounded", c) => platform.tcb[c] = 255
            /\ Is("ignored", c) => platform.tcb[c] = 0
      BY <1>2, <2>5, FindsTcb
    <3> QED
      BY <1>8, <3>1, <3>2 DEF Finding
  <2> QED
    BY <2>3, <2>4, <2>5, Zenon
<1>9. CASE step = 13
  <2> DEFINE finding == [t \in Trouble |-> Gfs(t)]
  <2>1. HandlerStep(finding)
    BY <1>9, StepActions DEF TestGfs, Handler, HandlerStep
  <2>2. \A t \in Trouble : finding[t] = Gfs(t)
    OBVIOUS
  <2> HIDE DEF finding
  <2>3. /\ overall' = "pass" /\ ~misled' =>
             /\ overall = "pass" /\ ~misled
             /\ \E t \in Trouble : Gfs(t) = "pass" /\ ~Misleading(t)
        /\ calm' => calm /\ Record(Gfs(Undisturbed))
    <3>1. /\ overall' = "pass" /\ ~misled' =>
               /\ overall = "pass" /\ ~misled
               /\ \E t \in Trouble : finding[t] = "pass" /\ ~Misleading(t)
          /\ calm' => calm /\ Record(finding[Undisturbed])
      BY <1>1, <2>1, HandlerLeaves
    <3> QED
      BY <1>3, <2>2, <3>1, Zenon
  <2>4. Conforms => Gfs(Undisturbed) = "pass"
    BY <1>2, <1>3, FindsGfs DEF Conforms
  <2>5. Finding
    BY <1>9 DEF Finding
  <2> QED
    BY <2>3, <2>4, <2>5, Zenon
<1>10. CASE step = 14
  <2> DEFINE finding == [t \in Trouble |-> FieldMixing(t)]
  <2>1. HandlerStep(finding)
    BY <1>10, StepActions DEF TestFieldMixing, Handler, HandlerStep
  <2>2. \A t \in Trouble : finding[t] = FieldMixing(t)
    OBVIOUS
  <2> HIDE DEF finding
  <2>3. /\ overall' = "pass" /\ ~misled' =>
             /\ overall = "pass" /\ ~misled
             /\ \E t \in Trouble : FieldMixing(t) = "pass" /\ ~Misleading(t)
        /\ calm' => calm /\ Record(FieldMixing(Undisturbed))
    <3>1. /\ overall' = "pass" /\ ~misled' =>
               /\ overall = "pass" /\ ~misled
               /\ \E t \in Trouble : finding[t] = "pass" /\ ~Misleading(t)
          /\ calm' => calm /\ Record(finding[Undisturbed])
      BY <1>1, <2>1, HandlerLeaves
    <3> QED
      BY <1>3, <2>2, <3>1, Zenon
  <2>4. Conforms => FieldMixing(Undisturbed) = "pass"
    BY <1>2, <1>3, FindsFieldMixing DEF Conforms
  <2>5. ASSUME NEW t \in Trouble, FieldMixing(t) = "pass", ~Misleading(t)
        PROVE  Finding
    BY <1>2, <1>10, <2>5, FindsFieldMixing DEF Finding
  <2> QED
    BY <2>3, <2>4, <2>5, Zenon
<1> QED
  BY <1>4, <1>5, <1>6, <1>7, <1>8, <1>9, <1>10

\* The first launch of a run is tracked as guest 1, the second as guest 2, and a
\* launch is only tried when none is tracked.
LEMMA LaunchTracks ==
  ASSUME TypeOK, GuestOfStep, InPlan, step \in Launched
  PROVE  /\ guests \in 0 .. 1 /\ guests' \in {guests, guests + 1}
         /\ launch' \in [n : {guests + 1}, svn : {0, platform.svn}, ok : BOOLEAN]
                          \cup {launch, NoLaunch}
         /\ \/ /\ launch' \in [n : {guests + 1}, svn : {0, platform.svn}, ok : BOOLEAN]
               /\ guests' = guests + 1 /\ launch' # NoLaunch
            \/ Record("fail")
         /\ calm' => calm /\ Record("pass")
<1>1. Launch /\ guests \in 0 .. 1
  BY StepActions DEF GuestOfStep, Launched, TypeOK
<1>2. CASE launch # NoLaunch
  <2>1. Record("fail") /\ calm' = FALSE /\ UNCHANGED <<launch, guests>>
    BY <1>1, <1>2 DEF Launch
  <2> QED
    BY <1>1, <2>1
<1>3. CASE launch = NoLaunch
  <2>1. PICK svn \in {0, platform.svn}, ok \in BOOLEAN :
          /\ guests' = guests + 1
          /\ launch' \in {[n |-> guests + 1, svn |-> svn, ok |-> ok]}
                           \cup (IF ok THEN {} ELSE {NoLaunch})
          /\ calm' = (calm /\ ok)
          /\ Record(IF ok THEN "pass" ELSE "fail")
    BY <1>1, <1>3 DEF Launch
  <2> DEFINE new == [n |-> guests + 1, svn |-> svn, ok |-> ok]
  <2>2. new \in [n : {guests + 1}, svn : {0, platform.svn}, ok : BOOLEAN] /\ new # NoLaunch
    <3>1. new \in [n : {guests + 1}, svn : {0, platform.svn}, ok : BOOLEAN]
      OBVIOUS
    <3>2. new \in Launches
      BY <1>1, <2>1, PlatformTyped DEF Launches
    <3> QED
      BY <3>1, <3>2, KeyDerivationAssumption
  <2>3. launch' = new \/ (launch' = NoLaunch /\ ok = FALSE)
    BY <2>1
  <2>4. ok = FALSE => Record("fail")
    BY <2>1
  <2>5. calm' => calm /\ Record("pass")
    <3>1. ok => Record("pass")
      BY <2>1
    <3> QED
      BY <2>1, <3>1, Zenon
  <2>7. launch' = new \/ (launch' = NoLaunch /\ Record("fail"))
    BY <2>3, <2>4
  <2> HIDE DEF new
  <2> QED
    BY <1>1, <1>3, <2>1, <2>2, <2>5, <2>7
<1> QED
  BY <1>2, <1>3

\* What saving the key does: it is the cross key of the guest that is running.
LEMMA Saves ==
  ASSUME TypeOK, GuestOfStep, Artifacts, InPlan, step = 15
  PROVE  \/ /\ reference' = [key |-> DerivedKey(Req("cross_cvm_key")), n |-> 1, run |-> runs]
            /\ calm' => calm /\ Record("pass")
         \/ Record("fail") /\ UNCHANGED reference /\ ~calm'
<1> DEFINE q == Req("cross_cvm_key")
<1>1. SaveKey /\ running /\ Ready /\ launch.n = 1
  BY StepActions, ReadyAt DEF GuestOfStep
<1>2. Accepts(q)
  BY <1>1, CrossKey
<1>3. CASE \E t \in {"none", "broken", "fetch"} :
             \/ /\ DeriveKey(q, t).outcome = "key"
                /\ reference' = [key |-> DeriveKey(q, t).key, n |-> launch.n, run |-> runs]
                /\ \E r \in {"pass", "fail"} : Record(r) /\ calm' = (calm /\ r = "pass")
             \/ /\ DeriveKey(q, t).outcome # "key"
                /\ Record("fail")
                /\ calm' = (calm /\ t = "none")
                /\ UNCHANGED reference
  <2> HIDE DEF q
  <2>1. PICK t \in {"none", "broken", "fetch"} :
             \/ /\ DeriveKey(q, t).outcome = "key"
                /\ reference' = [key |-> DeriveKey(q, t).key, n |-> launch.n, run |-> runs]
                /\ \E r \in {"pass", "fail"} : Record(r) /\ calm' = (calm /\ r = "pass")
             \/ /\ DeriveKey(q, t).outcome # "key"
                /\ Record("fail")
                /\ calm' = (calm /\ t = "none")
                /\ UNCHANGED reference
    BY <1>3
  <2>2. CASE /\ DeriveKey(q, t).outcome = "key"
             /\ reference' = [key |-> DeriveKey(q, t).key, n |-> launch.n, run |-> runs]
             /\ \E r \in {"pass", "fail"} : Record(r) /\ calm' = (calm /\ r = "pass")
    <3>1. calm' => calm /\ Record("pass")
      BY <2>2, Zenon
    <3>2. DeriveKey(q, t).key = DerivedKey(q)
      BY <2>2, DeriveKeyOutcomes
    <3>3. reference' = [key |-> DerivedKey(q), n |-> 1, run |-> runs]
      BY <1>1, <2>2, <3>2
    <3> QED
      BY <3>1, <3>3, Zenon DEF q
  <2>3. CASE /\ DeriveKey(q, t).outcome # "key"
             /\ Record("fail")
             /\ calm' = (calm /\ t = "none")
             /\ UNCHANGED reference
    <3>1. t # "none"
      BY <1>2, <2>3, DeriveKeyOutcomes
    <3>2. ~calm'
      BY <2>3, <3>1, Zenon
    <3> QED
      BY <2>3, <3>2
  <2> QED
    BY <2>1, <2>2, <2>3
<1>4. CASE Record("fail") /\ calm' = FALSE /\ UNCHANGED reference
  BY <1>4
<1> QED
  BY <1>1, <1>3, <1>4 DEF SaveKey

\* What verifying the key does: the second guest's cross key is compared with the
\* reference, when there is one.
LEMMA Verifies ==
  ASSUME TypeOK, GuestOfStep, Artifacts, InPlan, step = 18
  PROVE  \/ /\ reference # NoFile
            /\ Record(IF DerivedKey(Req("cross_cvm_key")) = reference.key
                      THEN "pass" ELSE "fail")
            /\ compared' = compared \cup {[n |-> 2, run |-> runs],
                                          [n |-> reference.n, run |-> reference.run]}
            /\ calm' => calm
         \/ /\ Record("fail") /\ UNCHANGED compared
            /\ calm' => reference = NoFile
<1> DEFINE q == Req("cross_cvm_key")
<1>1. VerifyKey /\ running /\ Ready /\ launch.n = 2
  BY StepActions, ReadyAt DEF GuestOfStep
<1>2. Accepts(q)
  BY <1>1, CrossKey
<1>3. CASE Record("fail") /\ calm' = FALSE /\ UNCHANGED compared
  BY <1>3
<1>4. CASE \E t \in {"none", "broken", "fetch"} :
             IF DeriveKey(q, t).outcome = "key" /\ reference # NoFile
             THEN /\ Record(IF DeriveKey(q, t).key = reference.key THEN "pass" ELSE "fail")
                  /\ compared' = compared \cup {[n |-> launch.n, run |-> runs],
                                                [n |-> reference.n, run |-> reference.run]}
                  /\ UNCHANGED calm
             ELSE Record("fail") /\ calm' = (calm /\ t = "none") /\ UNCHANGED compared
  <2> HIDE DEF q
  <2>1. PICK t \in {"none", "broken", "fetch"} :
             IF DeriveKey(q, t).outcome = "key" /\ reference # NoFile
             THEN /\ Record(IF DeriveKey(q, t).key = reference.key THEN "pass" ELSE "fail")
                  /\ compared' = compared \cup {[n |-> launch.n, run |-> runs],
                                                [n |-> reference.n, run |-> reference.run]}
                  /\ UNCHANGED calm
             ELSE Record("fail") /\ calm' = (calm /\ t = "none") /\ UNCHANGED compared
    BY <1>4
  <2>2. CASE DeriveKey(q, t).outcome = "key" /\ reference # NoFile
    <3>1. DeriveKey(q, t).key = DerivedKey(q)
      BY <2>2, DeriveKeyOutcomes
    <3>2. /\ Record(IF DeriveKey(q, t).key = reference.key THEN "pass" ELSE "fail")
          /\ compared' = compared \cup {[n |-> launch.n, run |-> runs],
                                        [n |-> reference.n, run |-> reference.run]}
          /\ calm' => calm
      BY <2>1, <2>2, Zenon
    <3> QED
      BY <1>1, <2>2, <3>1, <3>2 DEF q
  <2>3. CASE ~(DeriveKey(q, t).outcome = "key" /\ reference # NoFile)
    <3>1. Record("fail") /\ calm' = (calm /\ t = "none") /\ UNCHANGED compared
      BY <2>1, <2>3
    <3>2. t = "none" => reference = NoFile
      BY <1>2, <2>3, DeriveKeyOutcomes
    <3>3. calm' => reference = NoFile
      BY <3>1, <3>2, Zenon
    <3> QED
      BY <3>1, <3>3, Zenon
  <2> QED
    BY <2>2, <2>3
<1> QED
  BY <1>1, <1>3, <1>4 DEF VerifyKey

----------------------------------------------------------------------------
(* Each part of the invariant over a step *)

\* The verdict of a run, over a step.
LEMMA RunStateKept ==
  ASSUME TypeOK, RunState, Next
  PROVE  RunState'
<1>1. CASE InPlan
  <2>1. PICK r : Recorded(r)
    BY <1>1, PlanRecords
  <2> QED
    BY <2>1 DEF Recorded, RunState
<1>2. CASE StartRun
  BY <1>2, KeyDerivationAssumption DEF StartRun, RunState, TypeOK
<1>3. CASE Return
  BY <1>3, PlanSteps DEF Return, RunState, TypeOK, history
<1>4. CASE ChangePlatform
  BY <1>4 DEF ChangePlatform, RunState
<1> QED
  BY <1>1, <1>2, <1>3, <1>4, Steps

\* The guest of each step, over a step.
LEMMA GuestOfStepKept ==
  ASSUME TypeOK, GuestOfStep, Next
  PROVE  GuestOfStep'
<1>1. CASE InPlan
  <2>1. PICK r : Recorded(r)
    BY <1>1, PlanRecords
  <2>2. /\ running /\ step \in 1 .. 19
        /\ step' = step + 1 \/ step' = 20
    BY <2>1 DEF Recorded
  <2>3. CASE step \in Launched
    <3>1. CASE Record("fail")
      <4>1. step' = 20
        BY <1>1, <2>3, <3>1, FailureEnds DEF Launched, Setups
      <4> QED
        BY <4>1 DEF GuestOfStep
    <3>2. CASE ~Record("fail")
      <4>1. launch'.n = guests + 1 /\ guests' = guests + 1 /\ launch' # NoLaunch
        BY <1>1, <2>3, <3>2, LaunchTracks
      <4>2. guests = IF step = 3 THEN 0 ELSE 1
        BY <2>2, <2>3 DEF Launched, GuestOfStep
      <4> QED
        BY <2>2, <2>3, <4>1, <4>2 DEF Launched, GuestOfStep
    <3> QED
      BY <3>1, <3>2
  <2>4. CASE step \in Stops
    <3>1. /\ launch' = NoLaunch \/ UNCHANGED launch
          /\ UNCHANGED guests
      BY <1>1, <2>4, StepActions DEF StopVM
    <3> QED
      BY <2>2, <2>4, <3>1 DEF Stops, GuestOfStep
  <2>5. CASE step \notin Launched /\ step \notin Stops
    <3>1. UNCHANGED <<launch, guests>>
      BY <1>1, <2>5, PlanLeaves
    <3> QED
      BY <2>2, <2>5, <3>1 DEF Launched, Stops, GuestOfStep
  <2> QED
    BY <2>3, <2>4, <2>5
<1>2. CASE StartRun
  BY <1>2 DEF StartRun, GuestOfStep
<1>3. CASE Return \/ ChangePlatform
  BY <1>3 DEF Return, ChangePlatform, GuestOfStep
<1> QED
  BY <1>1, <1>2, <1>3, Steps

\* The artifacts of a run, over a step.
LEMMA ArtifactsKept ==
  ASSUME TypeOK, GuestOfStep, Artifacts, Next
  PROVE  Artifacts'
<1>1. CASE InPlan
  <2>1. PICK r : Recorded(r)
    BY <1>1, PlanRecords
  <2>2. /\ running /\ step \in 1 .. 19 /\ UNCHANGED <<platform, runs>>
        /\ step' = step + 1 \/ step' = 20
    BY <1>1, <2>1, PlanLeaves DEF Recorded
  <2>3. step \in 4 .. 15 => launch # NoLaunch /\ GuestData' = GuestData
    BY <1>1, <2>2, PlanLeaves DEF GuestOfStep, Launched, Stops, GuestData
  <2>4. step' = 5 => guestFile' = GuestData'
    <3>1. SUFFICES ASSUME step' = 5 PROVE guestFile' = GuestData'
      OBVIOUS
    <3>2. step = 4 /\ ~Record("fail")
      BY <1>1, <2>2, <3>1, FailureEnds DEF Setups
    <3>3. GuestReport /\ GuestData' = GuestData
      BY <1>1, <2>3, <3>2, StepActions
    <3>4. guestFile' = GuestData
      BY <3>2, <3>3, Zenon DEF GuestReport
    <3> QED
      BY <3>3, <3>4, Zenon
  <2>5. CASE step = 5
    <3>1. SUFFICES ASSUME step' = 6
                   PROVE  report' = [data |-> GuestData', run |-> runs'] /\ report' # NoFile
      BY <2>2, <2>5 DEF Artifacts
    <3>2. ~Record("fail")
      BY <1>1, <2>5, <3>1, FailureEnds DEF Setups
    <3>3. report' = [data |-> GuestData, run |-> runs]
      BY <1>1, <2>2, <2>5, <3>2, StepActions DEF PullReport, Artifacts
    <3>4. [data |-> GuestData, run |-> runs] \in ReportFiles
      <4>1. GuestData \in ReportData /\ runs \in Nat
        BY <2>3, <2>5, GuestDataTyped, KeyDerivationAssumption DEF TypeOK
      <4> QED
        BY <4>1 DEF ReportFiles
    <3> QED
      BY <2>2, <2>3, <2>5, <3>3, <3>4, KeyDerivationAssumption
  <2>6. CASE step = 7
    <3>1. SUFFICES ASSUME step' = 8 PROVE vmplFile' = [vmpl |-> platform.vmpl, run |-> runs]
      BY <1>1, <2>2, <2>3, <2>6, PlanLeaves DEF Artifacts
    <3>2. ~Record("fail")
      BY <1>1, <2>6, <3>1, FailureEnds DEF Setups
    <3> QED
      BY <1>1, <2>3, <2>6, <3>2, StepActions, DetectedVmpl
  <2>7. CASE step \notin {5, 7}
    <3>1. UNCHANGED <<report, vmplFile>>
      BY <1>1, <2>7, PlanLeaves
    <3> QED
      BY <2>2, <2>3, <2>4, <2>7, <3>1 DEF Artifacts
  <2> QED
    BY <2>5, <2>6, <2>7
<1>2. CASE StartRun
  BY <1>2 DEF StartRun, Artifacts
<1>3. CASE Return \/ ChangePlatform
  BY <1>3 DEF Return, ChangePlatform, Artifacts
<1> QED
  BY <1>1, <1>2, <1>3, Steps

\* What has been compared, over a step.
LEMMA ComparedKept ==
  ASSUME TypeOK, GuestOfStep, Artifacts, ComparedSoFar, Next
  PROVE  ComparedSoFar'
<1>1. CASE InPlan /\ overall' = "pass"
  <2>1. PICK r : Recorded(r)
    BY <1>1, PlanRecords
  <2>2. /\ running /\ step \in 1 .. 19 /\ step' = step + 1 /\ overall = "pass"
        /\ UNCHANGED runs
    BY <1>1, <2>1 DEF Recorded, Setups, Stops
  <2>3. CASE step = 15
    <3>1. ~Record("fail")
      BY <1>1, <2>3, FailureEnds DEF Stops
    <3>2. reference'.n = 1 /\ reference'.run = runs
      BY <1>1, <2>3, <3>1, Saves
    <3> QED
      BY <1>1, <2>2, <2>3, <3>2, PlanLeaves DEF ComparedSoFar
  <2>4. CASE step = 18
    <3>1. ~Record("fail")
      BY <1>1, <2>4, FailureEnds DEF Stops
    <3>2. compared' = compared \cup {[n |-> 2, run |-> runs],
                                     [n |-> reference.n, run |-> reference.run]}
      BY <1>1, <2>4, <3>1, Verifies
    <3>3. compared = {} /\ reference.n = 1 /\ reference.run = runs /\ UNCHANGED reference
      BY <1>1, <2>2, <2>4, PlanLeaves DEF ComparedSoFar
    <3>4. [n : 1 .. 2, run : {runs}] = {[n |-> 2, run |-> runs], [n |-> 1, run |-> runs]}
      <4>1. 1 .. 2 = {1, 2}
        OBVIOUS
      <4>2. \A x : x \in [n : 1 .. 2, run : {runs}] <=>
                     x = [n |-> 2, run |-> runs] \/ x = [n |-> 1, run |-> runs]
        BY <4>1
      <4> QED
        BY <4>2, Zenon
    <3>5. compared' = [n : 1 .. 2, run : {runs}]
      BY <3>2, <3>3, <3>4
    <3> QED
      BY <2>2, <2>4, <3>3, <3>5 DEF ComparedSoFar
  <2>5. CASE step \notin {15, 18}
    <3>1. UNCHANGED <<reference, compared>>
      BY <1>1, <2>5, PlanLeaves
    <3> QED
      BY <2>2, <2>5, <3>1 DEF ComparedSoFar
  <2> QED
    BY <2>3, <2>4, <2>5
<1>2. CASE InPlan /\ overall' # "pass"
  BY <1>2 DEF ComparedSoFar
<1>3. CASE StartRun
  BY <1>3 DEF StartRun, ComparedSoFar
<1>4. CASE Return
  BY <1>4 DEF Return, files, history, ComparedSoFar
<1>5. CASE ChangePlatform
  BY <1>5 DEF ChangePlatform, ComparedSoFar
<1> QED
  BY <1>1, <1>2, <1>3, <1>4, <1>5, Steps

\* The faults that are ruled out, over a step.
LEMMA RuledOutKept ==
  ASSUME TypeOK, GuestOfStep, Artifacts, RuledOut, Next
  PROVE  RuledOut'
<1>1. CASE InPlan /\ overall' = "pass" /\ ~misled'
  <2>1. PICK r : Recorded(r)
    BY <1>1, PlanRecords
  <2>2. /\ running /\ step \in 1 .. 19 /\ step' = step + 1 /\ overall = "pass"
        /\ UNCHANGED platform
        /\ \A k, w : Is(k, w)' <=> Is(k, w)
    BY <1>1, <2>1, PlanLeaves DEF Recorded, Setups, Stops, Is
  <2>3. CASE step \in 1 .. 7
    BY <2>2, <2>3 DEF RuledOut
  <2>4. CASE step \in 8 .. 14
    <3>1. Finding /\ ~misled
      BY <1>1, <2>4, HandlersFind
    <3>2. UNCHANGED <<report, reference>>
      BY <1>1, <2>4, PlanLeaves
    <3> QED
      BY <2>2, <2>4, <3>1, <3>2 DEF RuledOut, Finding
  <2>5. ASSUME step \in 15 .. 19 PROVE ~misled /\ UNCHANGED report
    BY <1>1, <2>5, PlanLeaves
  <2>6. CASE step = 15
    <3>1. ~Record("fail")
      BY <1>1, <2>6, FailureEnds DEF Stops
    <3>2. reference'.key = DerivedKey(Req("cross_cvm_key"))
      BY <1>1, <2>6, <3>1, Saves
    <3>3. Ready /\ launch.n = 1
      BY <2>2, <2>6, ReadyAt DEF GuestOfStep
    <3>4. Is("guest", "-") => reference'.key.salt = <<"guest", 1>>
      BY <3>2, <3>3, CrossKey
    <3> QED
      BY <2>2, <2>5, <2>6, <3>4 DEF RuledOut
  <2>7. CASE step = 18
    <3>1. ~Record("fail")
      BY <1>1, <2>7, FailureEnds DEF Stops
    <3>2. DerivedKey(Req("cross_cvm_key")) = reference.key
      BY <1>1, <2>7, <3>1, Verifies
    <3>3. Ready /\ launch.n = 2
      BY <2>2, <2>7, ReadyAt DEF GuestOfStep
    <3>4. Is("guest", "-") => reference.key.salt = <<"guest", 2>>
      BY <3>2, <3>3, CrossKey
    <3>5. ~Is("guest", "-")
      BY <2>2, <2>5, <2>7, <3>4 DEF RuledOut
    <3>6. UNCHANGED reference
      BY <1>1, <2>7, PlanLeaves
    <3> QED
      BY <2>2, <2>5, <2>7, <3>5, <3>6 DEF RuledOut
  <2>8. CASE step \in {16, 17, 19}
    <3>1. UNCHANGED reference
      BY <1>1, <2>8, PlanLeaves
    <3> QED
      BY <2>2, <2>5, <2>8, <3>1 DEF RuledOut
  <2> QED
    BY <2>2, <2>3, <2>4, <2>6, <2>7, <2>8
<1>2. CASE InPlan /\ ~(overall' = "pass" /\ ~misled')
  BY <1>2 DEF RuledOut
<1>3. CASE StartRun
  BY <1>3 DEF StartRun, RuledOut
<1>4. CASE Return
  <2>1. UNCHANGED <<platform, step, overall, misled, report, reference>>
    BY <1>4 DEF Return, files, history
  <2> QED
    BY <2>1 DEF RuledOut, Is
<1>5. CASE ChangePlatform
  BY <1>5 DEF ChangePlatform, RuledOut
<1> QED
  BY <1>1, <1>2, <1>3, <1>4, <1>5, Steps

\* Without a fault the key that is compared does not depend on the guest.
LEMMA SameKey ==
  ASSUME UNCHANGED <<platform, vmplFile>>, platform.fault.kind = "none"
  PROVE  DerivedKey(Req("cross_cvm_key"))' = DerivedKey(Req("cross_cvm_key"))
<1>1. \A w : ~Is("random", w) /\ ~Is("guest", w) /\ ~Is("random", w)' /\ ~Is("guest", w)'
  BY DEF Is
<1>2. Req("cross_cvm_key")' = Req("cross_cvm_key")
  BY DEF Req
<1>3. \A k, w : Is(k, w)' <=> Is(k, w)
  BY DEF Is
<1> QED
  BY <1>1, <1>2, <1>3 DEF DerivedKey

\* A step that leaves a run of a firmware without a fault undisturbed passes.
LEMMA CalmPasses ==
  ASSUME TypeOK, GuestOfStep, Artifacts, InPlan, Conforms, calm',
         step = 18 => reference # NoFile /\ reference.key = DerivedKey(Req("cross_cvm_key"))
  PROVE  calm /\ Record("pass") /\ (step = 16 => launch' = NoLaunch)
<1>1. running /\ step \in 1 .. 19
  BY StepActions
<1>2. CASE step \in 1 .. 2
  <2>1. \E r \in {"pass", "fail"} : Record(r) /\ calm' = (calm /\ r = "pass")
    BY <1>2, StepActions DEF MakeIdBlock
  <2>2. calm /\ Record("pass")
    BY <2>1, Zenon
  <2> QED
    BY <1>2, <2>2
<1>3. CASE step \in Launched
  BY <1>3, LaunchTracks DEF Launched
<1>4. CASE step = 4
  <2>1. GuestReport
    BY <1>4, StepActions
  <2>2. calm /\ Record("pass")
    BY <2>1, Zenon DEF GuestReport
  <2> QED
    BY <1>4, <2>2
<1>5. CASE step = 5
  <2>1. PullReport
    BY <1>5, StepActions
  <2>2. calm /\ Record("pass")
    BY <2>1, Zenon DEF PullReport
  <2> QED
    BY <1>5, <2>2
<1>6. CASE step = 6
  <2>1. ParseReport
    BY <1>6, StepActions
  <2>2. LoadReport # ReportError
    BY <1>1, <1>6, ReadyAt, ReportRead DEF Conforms
  <2>3. \/ Record("pass") /\ UNCHANGED calm
        \/ Record("fail") /\ calm' = FALSE
    BY <2>1, <2>2 DEF ParseReport
  <2>4. calm /\ Record("pass")
    BY <2>3, Zenon
  <2> QED
    BY <1>6, <2>4
<1>7. CASE step = 7
  <2>1. DetectVmpl
    BY <1>7, StepActions
  <2>2. \/ \E r \in {"pass", "fail"} : Record(r) /\ calm' = (calm /\ r = "pass")
        \/ Record("fail") /\ calm' = FALSE
    BY <2>1, Zenon DEF DetectVmpl
  <2>3. calm /\ Record("pass")
    BY <2>2, Zenon
  <2> QED
    BY <1>7, <2>3
<1>8. CASE step \in 8 .. 14
  <2>1. calm /\ Record("pass")
    BY <1>8, HandlersFind
  <2> QED
    BY <1>8, <2>1
<1>9. CASE step = 15
  <2>1. calm /\ Record("pass")
    BY <1>9, Saves
  <2> QED
    BY <1>9, <2>1
<1>10. CASE step \in Stops
  <2>1. StopVM
    BY <1>10, StepActions
  <2> QED
    BY <2>1, Zenon DEF StopVM
<1>11. CASE step = 18
  <2>1. Record(IF DerivedKey(Req("cross_cvm_key")) = reference.key THEN "pass" ELSE "fail") /\ calm
    BY <1>11, Verifies
  <2>2. calm /\ Record("pass")
    BY <1>11, <2>1
  <2> QED
    BY <1>11, <2>2
<1>12. \/ step \in 1 .. 2 \/ step \in Launched \/ step = 4 \/ step = 5 \/ step = 6 \/ step = 7
       \/ step \in 8 .. 14 \/ step = 15 \/ step \in Stops \/ step = 18
  BY <1>1 DEF Launched, Stops
<1> QED
  BY <1>2, <1>3, <1>4, <1>5, <1>6, <1>7, <1>8, <1>9, <1>10, <1>11, <1>12

\* The undisturbed run, over a step.
LEMMA ConformantKept ==
  ASSUME TypeOK, GuestOfStep, Artifacts, Conformant, Next
  PROVE  Conformant'
<1>1. CASE InPlan
  <2>1. SUFFICES ASSUME calm', Conforms'
                 PROVE  /\ overall' # "fail"
                        /\ running' /\ step' = 17 => launch' = NoLaunch
                        /\ running' /\ step' \in 16 .. 19 =>
                             /\ reference' # NoFile
                             /\ reference'.key = DerivedKey(Req("cross_cvm_key"))'
    BY DEF Conformant
  <2>2. running /\ step \in 1 .. 19 /\ Conforms /\ UNCHANGED platform
    BY <1>1, <2>1, StepActions, PlanLeaves DEF Conforms
  <2>3. step = 18 /\ calm =>
          reference # NoFile /\ reference.key = DerivedKey(Req("cross_cvm_key"))
    BY <2>2 DEF Conformant
  <2>4. calm
    <3>1. CASE step = 18
      <4>1. VerifyKey
        BY <1>1, <3>1, StepActions
      <4> QED
        BY <2>1, <4>1, Zenon DEF VerifyKey
    <3>2. CASE step # 18
      BY <1>1, <2>1, <2>2, <3>2, CalmPasses
    <3> QED
      BY <3>1, <3>2
  <2>5. Record("pass") /\ (step = 16 => launch' = NoLaunch)
    BY <1>1, <2>1, <2>2, <2>3, <2>4, CalmPasses
  <2>6. step' = step + 1 /\ overall' = overall /\ UNCHANGED runs
    BY <2>2, <2>5, Records DEF Recorded
  <2>7. overall # "fail"
    BY <2>2, <2>4 DEF Conformant
  <2>8. ASSUME step' \in 16 .. 19
        PROVE  reference' # NoFile /\ reference'.key = DerivedKey(Req("cross_cvm_key"))'
    <3>1. step \in 15 .. 18
      BY <2>2, <2>6, <2>8
    <3>2. DerivedKey(Req("cross_cvm_key"))' = DerivedKey(Req("cross_cvm_key"))
      BY <1>1, <2>2, <3>1, PlanLeaves, SameKey DEF Conforms
    <3>3. CASE step = 15
      <4> DEFINE key == DerivedKey(Req("cross_cvm_key"))
      <4>1. reference' = [key |-> key, n |-> 1, run |-> runs]
        BY <1>1, <2>1, <3>3, Saves
      <4>2. key \in Keys /\ runs \in Nat
        BY <2>2, <3>3, ReadyAt, CrossKey, KeyDerivationAssumption DEF TypeOK
      <4> HIDE DEF key
      <4>3. reference' \in ReferenceFiles
        BY <4>1, <4>2 DEF ReferenceFiles
      <4>4. reference' # NoFile /\ reference'.key = key
        BY <4>1, <4>3, KeyDerivationAssumption
      <4> QED
        BY <3>2, <4>4 DEF key
    <3>4. CASE step \in 16 .. 18
      <4>1. UNCHANGED reference
        BY <1>1, <3>4, PlanLeaves
      <4>2. reference # NoFile /\ reference.key = DerivedKey(Req("cross_cvm_key"))
        BY <2>2, <2>4, <3>4 DEF Conformant
      <4> QED
        BY <3>2, <4>1, <4>2
    <3> QED
      BY <3>1, <3>3, <3>4
  <2>9. step' = 17 => launch' = NoLaunch
    BY <2>2, <2>5, <2>6
  <2> QED
    BY <2>6, <2>7, <2>8, <2>9
<1>2. CASE StartRun
  BY <1>2 DEF StartRun, Conformant
<1>3. CASE Return
  <2>1. UNCHANGED <<platform, overall, calm>> /\ running' = FALSE
    BY <1>3 DEF Return, history
  <2> QED
    BY <2>1 DEF Conformant, Conforms
<1>4. CASE ChangePlatform
  BY <1>4 DEF ChangePlatform, Conformant
<1> QED
  BY <1>1, <1>2, <1>3, <1>4, Steps

\* The history's flags are flags.
LEMMA FlagsTyped ==
  ASSUME TypeOK, InPlan
  PROVE  {calm', misled'} \subseteq BOOLEAN
<1>1. {calm, misled} \subseteq BOOLEAN
  BY DEF TypeOK
<1>2. CASE Handlers
  BY <1>1, <1>2, Zenon
     DEF Handlers, TestDeterminism, TestVmpl, TestRootKeys, TestSvn, TestTcb, TestGfs,
         TestFieldMixing, Handler
<1>3. CASE MakeIdBlock \/ Launch \/ GuestReport
  BY <1>1, <1>3, Zenon DEF MakeIdBlock, Launch, GuestReport
<1>4. CASE PullReport \/ ParseReport \/ DetectVmpl
  BY <1>1, <1>4, Zenon DEF PullReport, ParseReport, DetectVmpl
<1>5. CASE SaveKey \/ VerifyKey
  BY <1>1, <1>5, Zenon DEF SaveKey, VerifyKey
<1>6. CASE StopVM
  BY <1>1, <1>6, Zenon DEF StopVM
<1> QED
  BY <1>2, <1>3, <1>4, <1>5, <1>6 DEF InPlan

\* The files stay typed over a step of the plan.
LEMMA FilesTyped ==
  ASSUME TypeOK, RunState, GuestOfStep, Artifacts, InPlan
  PROVE  /\ report' # NoFile => report'.run \in 1 .. MaxRuns
         /\ vmplFile' # NoFile => vmplFile' \in [vmpl : 0 .. 3, run : 1 .. MaxRuns]
         /\ reference' # NoFile =>
              /\ reference'.n \in 1 .. 2 /\ reference'.run \in 1 .. MaxRuns
              /\ reference'.key # NoKey
         /\ compared' \subseteq [n : 1 .. 2, run : 1 .. MaxRuns]
<1>1. running /\ step \in 1 .. 19 /\ runs \in 1 .. MaxRuns
  BY StepActions DEF RunState
<1>2. report' # NoFile => report'.run \in 1 .. MaxRuns
  <2>1. PullReport => UNCHANGED report \/ report' = [data |-> guestFile, run |-> runs]
    BY DEF PullReport
  <2>2. UNCHANGED report \/ report' = [data |-> guestFile, run |-> runs]
    BY <2>1, PlanLeaves, StepActions
  <2> QED
    BY <1>1, <2>2 DEF TypeOK
<1>3. vmplFile' # NoFile => vmplFile' \in [vmpl : 0 .. 3, run : 1 .. MaxRuns]
  <2>1. CASE step = 7
    <3>1. DetectVmpl /\ launch # NoLaunch
      BY <1>1, <2>1, StepActions DEF GuestOfStep
    <3>2. vmplFile' = [vmpl |-> platform.vmpl, run |-> runs] \/ UNCHANGED vmplFile
      BY <3>1, DetectedVmpl
    <3> QED
      BY <1>1, <3>2, PlatformTyped DEF TypeOK
  <2>2. CASE step # 7
    BY <2>2, PlanLeaves DEF TypeOK
  <2> QED
    BY <2>1, <2>2
<1>4. reference' # NoFile =>
        /\ reference'.n \in 1 .. 2 /\ reference'.run \in 1 .. MaxRuns
        /\ reference'.key # NoKey
  <2>1. CASE step = 15
    <3> DEFINE key == DerivedKey(Req("cross_cvm_key"))
    <3>1. key # NoKey
      BY <1>1, <2>1, ReadyAt, CrossKey
    <3>2. reference' = [key |-> key, n |-> 1, run |-> runs] \/ UNCHANGED reference
      BY <2>1, Saves
    <3> HIDE DEF key
    <3> QED
      BY <1>1, <3>1, <3>2 DEF TypeOK
  <2>2. CASE step # 15
    BY <2>2, PlanLeaves DEF TypeOK
  <2> QED
    BY <2>1, <2>2
<1>5. compared' \subseteq [n : 1 .. 2, run : 1 .. MaxRuns]
  <2>1. CASE step = 18
    <3>1. \/ UNCHANGED compared
          \/ /\ reference # NoFile
             /\ compared' = compared \cup {[n |-> 2, run |-> runs],
                                           [n |-> reference.n, run |-> reference.run]}
      BY <2>1, Verifies
    <3> QED
      BY <1>1, <3>1 DEF TypeOK
  <2>2. CASE step # 18
    BY <2>2, PlanLeaves DEF TypeOK
  <2> QED
    BY <2>1, <2>2
<1> QED
  BY <1>2, <1>3, <1>4, <1>5

\* The types, over a step.
LEMMA TypeKept ==
  ASSUME TypeOK, RunState, GuestOfStep, Artifacts, Next
  PROVE  TypeOK'
<1>1. CASE InPlan
  <2>1. PICK r : Recorded(r)
    BY <1>1, PlanRecords
  <2>2. /\ running' /\ step' \in 1 .. 20 /\ overall' \in {"none", "pass", "fail"}
        /\ runs' \in 0 .. MaxRuns /\ platform' = platform
    BY <1>1, <2>1, PlanLeaves DEF Recorded, TypeOK
  <2>3. /\ guests' \in 0 .. 2
        /\ launch' \in [n : 1 .. 2, svn : {0, platform.svn}, ok : BOOLEAN] \cup {NoLaunch}
    <3>1. CASE step \in Launched
      <4>1. /\ guests \in 0 .. 1 /\ guests' \in {guests, guests + 1}
            /\ launch' \in [n : {guests + 1}, svn : {0, platform.svn}, ok : BOOLEAN]
                             \cup {launch, NoLaunch}
        BY <1>1, <3>1, LaunchTracks
      <4> QED
        BY <4>1 DEF TypeOK
    <3>2. CASE step \in Stops
      <4>1. launch' = NoLaunch \/ UNCHANGED launch
        BY <1>1, <3>2, StepActions DEF StopVM
      <4>2. UNCHANGED guests
        BY <1>1, <3>2, PlanLeaves DEF Launched, Stops
      <4> QED
        BY <4>1, <4>2 DEF TypeOK
    <3>3. CASE step \notin Launched /\ step \notin Stops
      BY <1>1, <3>3, PlanLeaves DEF TypeOK
    <3> QED
      BY <3>1, <3>2, <3>3
  <2>4. {running', calm', misled'} \subseteq BOOLEAN
    <3>1. {calm', misled'} \subseteq BOOLEAN
      BY <1>1, FlagsTyped
    <3>2. running' \in BOOLEAN
      <4>1. running' = running
        BY <1>1, <2>1, PlanRecords DEF Record
      <4> QED
        BY <4>1, Zenon DEF TypeOK
    <3> QED
      BY <3>1, <3>2, Zenon
  <2>5. platform' \in UNION Hosts
    BY <2>2 DEF TypeOK
  <2>6. /\ report' # NoFile => report'.run \in 1 .. MaxRuns
        /\ vmplFile' # NoFile => vmplFile' \in [vmpl : 0 .. 3, run : 1 .. MaxRuns]
        /\ reference' # NoFile =>
             /\ reference'.n \in 1 .. 2 /\ reference'.run \in 1 .. MaxRuns
             /\ reference'.key # NoKey
        /\ compared' \subseteq [n : 1 .. 2, run : 1 .. MaxRuns]
    BY <1>1, FilesTyped
  <2> QED
    BY <2>2, <2>3, <2>4, <2>5, <2>6, Zenon DEF TypeOK
<1>2. CASE StartRun
  <2>1. UNCHANGED <<platform, report, vmplFile, reference>>
    BY <1>2 DEF StartRun, files
  <2>2. {running', calm', misled'} \subseteq BOOLEAN
    BY <1>2, Zenon DEF StartRun
  <2>3. /\ step' = 1 /\ overall' = "pass" /\ guests' = 0 /\ launch' = NoLaunch
        /\ compared' = {} /\ runs' \in 0 .. MaxRuns
    BY <1>2, KeyDerivationAssumption DEF StartRun, TypeOK
  <2> QED
    BY <2>1, <2>2, <2>3 DEF TypeOK
<1>3. CASE Return
  <2>1. /\ UNCHANGED <<platform, step, overall, runs, guests, report, vmplFile, reference,
                       compared, calm, misled>>
        /\ launch' = NoLaunch
    BY <1>3 DEF Return, files, history
  <2>2. {running', calm', misled'} \subseteq BOOLEAN
    BY <1>3, <2>1, Zenon DEF Return, TypeOK
  <2> QED
    BY <2>1, <2>2 DEF TypeOK
<1>4. CASE ChangePlatform
  <2>1. /\ UNCHANGED <<step, runs, guests, report, vmplFile, reference, compared, calm, misled,
                       running>>
        /\ launch' = NoLaunch /\ overall' = "none"
        /\ platform' \in UNION Hosts
    BY <1>4 DEF ChangePlatform, files, history
  <2>2. {running', calm', misled'} \subseteq BOOLEAN
    BY <2>1, Zenon DEF TypeOK
  <2> QED
    BY <2>1, <2>2 DEF TypeOK
<1> QED
  BY <1>1, <1>2, <1>3, <1>4, Steps

----------------------------------------------------------------------------
(* The inductive invariant *)

\* It holds at the start.
LEMMA InitIInv == Init => IInv
<1> SUFFICES ASSUME Init PROVE IInv
  OBVIOUS
<1>1. TypeOK
  <2>1. {running, calm, misled} \subseteq BOOLEAN
    BY Zenon DEF Init
  <2>2. runs \in 0 .. MaxRuns /\ guests \in 0 .. 2 /\ step \in 1 .. 20 /\ compared = {}
    BY KeyDerivationAssumption DEF Init
  <2> QED
    BY <2>1, <2>2 DEF Init, TypeOK
<1>2. RunState /\ GuestOfStep /\ Artifacts /\ ComparedSoFar /\ RuledOut /\ Conformant
  BY DEF Init, RunState, GuestOfStep, Artifacts, ComparedSoFar, RuledOut, Conformant
<1> QED
  BY <1>1, <1>2 DEF IInv

\* Every step keeps it.
LEMMA NextIInv == IInv /\ [Next]_vars => IInv'
<1> SUFFICES ASSUME IInv, [Next]_vars PROVE IInv'
  OBVIOUS
<1>1. CASE Next
  BY <1>1, TypeKept, RunStateKept, GuestOfStepKept, ArtifactsKept, ComparedKept, RuledOutKept,
     ConformantKept DEF IInv
<1>2. CASE UNCHANGED vars
  <2>1. UNCHANGED <<platform, running, step, overall, runs, launch, guests, guestFile, report,
                    vmplFile, reference, compared, calm, misled>>
    BY <1>2 DEF vars, loop, guest, files, history
  <2>2. TypeOK' /\ RunState' /\ GuestOfStep'
    BY <2>1 DEF IInv, TypeOK, RunState, GuestOfStep
  <2>3. Artifacts' /\ ComparedSoFar' /\ RuledOut'
    BY <2>1 DEF IInv, Artifacts, ComparedSoFar, RuledOut, GuestData, Is
  <2>4. Conformant'
    <3>1. DerivedKey(Req("cross_cvm_key"))' = DerivedKey(Req("cross_cvm_key"))
      BY <2>1 DEF DerivedKey, Req, Is
    <3> QED
      BY <2>1, <3>1 DEF IInv, Conformant, Conforms
  <2> QED
    BY <2>2, <2>3, <2>4 DEF IInv
<1> QED
  BY <1>1, <1>2

\* It holds of every behaviour.
THEOREM Invariance == Spec => []IInv
BY InitIInv, NextIInv, PTL DEF Spec

----------------------------------------------------------------------------
(* Results *)

\* The test's state is typed: at most two guests are launched, and what is read
\* back from the artifact directory has been written there.
THEOREM TypeCorrect == Spec => []TypeOK
<1>1. IInv => TypeOK
  BY DEF IInv
<1> QED
  BY <1>1, Invariance, PTL

\* A firmware that passes has none of the faults within reach of the test, for
\* any SVN, TCB, VMPL and layout: the sweeps and the values above the bounds
\* are enough.
THEOREM PassIsSound == Spec => []PassMeansSound
<1>1. IInv => PassMeansSound
  <2> SUFFICES ASSUME IInv, ~running, overall = "pass", ~misled
               PROVE  OutOfReach
    BY DEF PassMeansSound
  <2>1. step = 20
    BY DEF IInv, RunState
  <2>2. /\ \A w \in {"-"} : ~Is("random", w) /\ ~Is("guest", w)
        /\ Is("ignored", "vmpl") => ~(platform.vmpl < 3)
        /\ ~Is("ignored", "root") /\ ~Is("unbounded", "guestSvn")
        /\ Is("ignored", "guestSvn") => report.data.svn = 0
        /\ \A c \in DOMAIN platform.tcb :
             /\ Is("unbounded", c) => platform.tcb[c] = 255
             /\ Is("ignored", c) => platform.tcb[c] = 0
        /\ \A b \in Bits : ~Is("unselected", b)
    BY <2>1 DEF IInv, RuledOut
  <2>3. /\ platform.fault \in Faults(platform.layout) /\ platform.vmpl \in 0 .. 3
        /\ DOMAIN platform.tcb = Components(platform.layout)
    BY PlatformTyped DEF IInv, TcbVersions
  <2>4. CASE platform.fault \in [kind : {"none", "random", "guest"}, what : {"-"}]
    BY <2>2, <2>4 DEF Is, OutOfReach
  <2>5. CASE platform.fault \in [kind : {"strict"}, what : {"guestSvn"}]
    BY <2>5 DEF OutOfReach
  <2>6. CASE platform.fault \in
               [kind : {"unbounded"}, what : Components(platform.layout) \cup {"guestSvn"}]
    <3>1. Is("unbounded", platform.fault.what)
      BY <2>6 DEF Is
    <3> QED
      BY <2>2, <2>3, <2>6, <3>1 DEF OutOfReach
  <2>7. CASE platform.fault \in
               [kind : {"ignored"},
                what : Components(platform.layout) \cup {"guestSvn", "root", "vmpl"}]
    <3>1. Is("ignored", platform.fault.what) /\ platform.fault.kind = "ignored"
      BY <2>7 DEF Is
    <3>2. CASE platform.fault.what \in Components(platform.layout)
      BY <2>2, <2>3, <3>1, <3>2 DEF OutOfReach
    <3>3. CASE platform.fault.what \in {"guestSvn", "root", "vmpl"}
      BY <2>2, <2>3, <3>1, <3>3 DEF OutOfReach
    <3> QED
      BY <2>7, <3>2, <3>3
  <2>8. CASE platform.fault \in [kind : {"unselected"}, what : Bits]
    BY <2>2, <2>8 DEF Is
  <2> QED
    BY <2>3, <2>4, <2>5, <2>6, <2>7, <2>8 DEF Faults
<1> QED
  BY <1>1, Invariance, PTL

\* A firmware without a fault, on a known CPU and with a report that names it,
\* never fails in a run that nothing else disturbs, whatever it is launched with.
THEOREM ConformantPass == Spec => []ConformantPasses
<1>1. IInv => ConformantPasses
  BY DEF IInv, Conformant, Conforms, ConformantPasses
<1> QED
  BY <1>1, Invariance, PTL

\* What the handlers read from the artifact directory is of this run.
THEOREM ReadsOwn == Spec => []ReadsOwnArtifacts
<1>1. IInv => ReadsOwnArtifacts
  <2> SUFFICES ASSUME IInv, running, step \in 8 .. Len(Plan)
               PROVE  /\ report # NoFile /\ report.run = runs
                      /\ vmplFile # NoFile /\ vmplFile.run = runs
    BY DEF ReadsOwnArtifacts
  <2>1. step \in 8 .. 19
    BY PlanSteps
  <2>2. /\ report # NoFile /\ report.run = runs
        /\ vmplFile = [vmpl |-> platform.vmpl, run |-> runs]
    BY <2>1 DEF IInv, Artifacts
  <2>3. [vmpl |-> platform.vmpl, run |-> runs] \in VmplFiles
    BY PlatformTyped, KeyDerivationAssumption DEF IInv, TypeOK, VmplFiles
  <2> QED
    BY <2>2, <2>3, KeyDerivationAssumption
<1> QED
  BY <1>1, Invariance, PTL

\* A run that passes has compared the keys of two guests of this run.
THEOREM ComparesTwoGuests == Spec => []TwoGuestsCompared
<1>1. IInv => TwoGuestsCompared
  BY DEF IInv, RunState, ComparedSoFar, TwoGuestsCompared
<1> QED
  BY <1>1, Invariance, PTL
=============================================================================
