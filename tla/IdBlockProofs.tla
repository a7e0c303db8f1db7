--------------------------- MODULE IdBlockProofs ---------------------------
(***************************************************************************)
(* Proofs about IdBlock, for every set of guest images and of ID_BLOCK_*   *)
(* variables and any number of runs and of changes of the measurement: a   *)
(* valid block is fresh, an invalid one has one defect, a refusal counts   *)
(* for the block of its own case, and a pass has exercised them all.       *)
(***************************************************************************)
EXTENDS IdBlock, SequenceTheorems, TLAPS

\* The last step of the plan.
Last == IF smtAtLoad THEN 16 ELSE 14

\* A run that has a verdict has come to the end of its plan.
RunState ==
  /\ step <= Last + 1
  /\ running => 1 <= runs /\ overall \in {"pass", "fail"}
  /\ ~running /\ overall = "pass" => step = Last + 1

\* The block in the profile is that of the current case, or of an earlier one
\* that was left there; the valid one has booted by then.
BlockInUse ==
  /\ profile.policy.abi = "high" => profile.block # NoBlock /\ profile.block.by = "abi"
  /\ running /\ step <= 10 /\ profile.block # NoBlock =>
       profile.block.by \in {"valid", "measurement"}
  /\ running /\ step \in 4 .. 9 /\ profile.block # NoBlock /\ profile.block.by = "valid" =>
       profile.block.digest = [image |-> image, flipped |-> FALSE]
  /\ running /\ step = 4 => launch \in [profile : Profiles, ok : BOOLEAN]

\* Unless it is replaced, the measurement of a run is that of its image, and
\* the one that was signed.
Measured ==
  running /\ untouched =>
    /\ step \in 2 .. Last => measurement = [image |-> image, run |-> runs]
    /\ step \in 3 .. Last => signed = measurement

PolicyOf(case) == IF case = "valid" THEN meta.policy ELSE BadPolicy(case)

\* Unless it was made from another measurement, a block differs from the valid
\* one in what its case is about.
Built ==
  untouched /\ profile.block # NoBlock =>
    /\ meta \in Metas \ {InvalidMeta}
    /\ profile.block.digest =
         [image |-> signed.image, flipped |-> profile.block.by = "measurement"]
    /\ profile.policy = PolicyOf(profile.block.by)

\* The cases that a run without a failure has seen refused.
Due ==
  (IF step >= 10 THEN {"measurement"} ELSE {})
    \cup (IF smtAtLoad /\ step >= 13 THEN {"smt"} ELSE {})
    \cup (IF step >= Last THEN {"abi"} ELSE {})

\* How far the exercise has come in a run without a failure.
Exercised ==
  overall = "pass" =>
    /\ step = 5 => guestReport \in Reports /\ guestReport.run = runs
    /\ step >= 6 => artifact \in Reports /\ artifact.run = runs
    /\ step >= 8 => FieldsMatch(artifact)
    /\ {r.case : r \in refused} = Due

IInv ==
  /\ TypeOK
  /\ RunState
  /\ BlockInUse
  /\ Measured
  /\ SignedFresh
  /\ Built
  /\ RejectedForItsReason
  /\ Exercised

----------------------------------------------------------------------------
(* The plan *)

\* The steps of the plan, one by one, on a host with SMT and on one without.
LEMMA PlanSteps ==
  /\ Len(Plan) = Last
  /\ Plan[1]  = Op("calculate", "setup", "valid")
  /\ Plan[2]  = Op("generate", "setup", "valid")
  /\ Plan[3]  = Op("launch", "setup", "valid")
  /\ Plan[4]  = Op("guest-report", "required", "valid")
  /\ Plan[5]  = Op("pull-report", "required", "valid")
  /\ Plan[6]  = Op("stop", "info", "valid")
  /\ Plan[7]  = Op("verify", "required", "valid")
  /\ Plan[8]  = Op("set", "required", "measurement")
  /\ Plan[9]  = Op("launch", "required", "measurement")
  /\ Plan[10] = Op("stop", "info", "measurement")
  /\ smtAtLoad => /\ Plan[11] = Op("set", "required", "smt")
                  /\ Plan[12] = Op("launch", "required", "smt")
                  /\ Plan[13] = Op("stop", "info", "smt")
                  /\ Plan[14] = Op("set", "required", "abi")
                  /\ Plan[15] = Op("launch", "required", "abi")
                  /\ Plan[16] = Op("stop", "info", "abi")
  /\ ~smtAtLoad => /\ Plan[11] = Op("not-applicable", "info", "smt")
                   /\ Plan[12] = Op("set", "required", "abi")
                   /\ Plan[13] = Op("launch", "required", "abi")
                   /\ Plan[14] = Op("stop", "info", "abi")
<1>1. CASE smtAtLoad
  BY <1>1 DEF Plan, Positive, Negative, NotApplicable, Op, Last
<1>2. CASE ~smtAtLoad
  BY <1>2 DEF Plan, Positive, Negative, NotApplicable, Op, Last
<1> QED
  BY <1>1, <1>2

\* Where the steps of each kind are.
Sets     == {8} \cup IF smtAtLoad THEN {11, 14} ELSE {12}
Launches == {3, 9} \cup IF smtAtLoad THEN {12, 15} ELSE {13}
Stops    == {6, 10} \cup IF smtAtLoad THEN {13, 16} ELSE {14}

\* The case of a step, by its place.
CaseAt ==
  IF step <= 7 THEN "valid" ELSE IF step <= 10 THEN "measurement"
  ELSE IF step <= Last - 3 THEN "smt" ELSE "abi"

\* A step of the plan has its name, its type and its case from its place.
LEMMA Places ==
  ASSUME step \in 1 .. 17, step <= Last
  PROVE  /\ Plan[step].name = "calculate" <=> step = 1
         /\ Plan[step].name = "generate" <=> step = 2
         /\ Plan[step].name = "launch" <=> step \in Launches
         /\ Plan[step].name = "guest-report" <=> step = 4
         /\ Plan[step].name = "pull-report" <=> step = 5
         /\ Plan[step].name = "stop" <=> step \in Stops
         /\ Plan[step].name = "verify" <=> step = 7
         /\ Plan[step].name = "set" <=> step \in Sets
         /\ Plan[step].name = "not-applicable" <=> ~smtAtLoad /\ step = 11
         /\ Plan[step].type = "setup" <=> step \in 1 .. 3
         /\ Plan[step].type = "info" <=> step \in Stops \/ (~smtAtLoad /\ step = 11)
         /\ Case = CaseAt
<1>1. step \in {1, 2, 3, 4, 5, 6, 7, 8, 9, 10}
        \/ (smtAtLoad /\ step \in {11, 12, 13, 14, 15, 16})
        \/ (~smtAtLoad /\ step \in {11, 12, 13, 14})
  BY DEF Last
<1>2. CASE step \in {1, 2, 3, 4, 5, 6, 7, 8, 9, 10}
  BY <1>2, PlanSteps DEF Op, Launches, Stops, Sets, Case, CaseAt, Last
<1>3. CASE smtAtLoad /\ step \in {11, 12, 13, 14, 15, 16}
  BY <1>3, PlanSteps DEF Op, Launches, Stops, Sets, Case, CaseAt, Last
<1>4. CASE ~smtAtLoad /\ step \in {11, 12, 13, 14}
  BY <1>4, PlanSteps DEF Op, Launches, Stops, Sets, Case, CaseAt, Last
<1> QED
  BY <1>1, <1>2, <1>3, <1>4

\* What an outcome does to the loop: only a failed setup step skips the rest,
\* and a run goes on without a failure only over passes and info steps.
Recorded(r) ==
  /\ running /\ running' /\ step \in 1 .. Last
  /\ step' = step + 1 \/ (step \in 1 .. 3 /\ step' = Last + 1 /\ r # "pass")
  /\ overall' \in {"pass", "fail"}
  /\ overall' = "pass" =>
       /\ overall = "pass" /\ step' = step + 1
       /\ r = "pass" \/ step \in Stops \/ (~smtAtLoad /\ step = 11)
  /\ UNCHANGED <<smtAtLoad, meta, runs>>

\* Recording an outcome does that.
LEMMA Records ==
  ASSUME TypeOK, RunState, running, step <= Last, NEW r, Record(r)
  PROVE  Recorded(r)
<1>1. step \in 1 .. Last /\ step \in 1 .. 17
  BY DEF TypeOK, Last
<1>2. overall \in {"pass", "fail"}
  BY DEF RunState
<1> QED
  BY <1>1, <1>2, Places, PlanSteps DEF Record, Recorded

----------------------------------------------------------------------------
(* Classes of steps *)

\* The steps of the plan.
InPlan ==
  \/ CalculateMeasurement \/ GenerateIdBlock \/ LaunchGuest \/ GuestReport \/ PullReport
  \/ StopVM \/ Verify \/ SetBad \/ NotApplicableStep

\* The steps of Next.
LEMMA Steps ==
  ASSUME Next
  PROVE  \/ InPlan \/ StartRun \/ Return \/ Killed
         \/ ReplaceMeasurement \/ SwitchSmt \/ InstallImage
BY DEF Next, Run, InPlan

\* A step of the plan records an outcome.
LEMMA PlanRecords ==
  ASSUME TypeOK, RunState, InPlan
  PROVE  \E r : Record(r) /\ Recorded(r)
<1>1. running /\ step <= Last
  BY PlanSteps
     DEF InPlan, CalculateMeasurement, GenerateIdBlock, LaunchGuest, GuestReport, PullReport,
         StopVM, Verify, SetBad, NotApplicableStep, At
<1>2. \E r : Record(r)
  BY DEF InPlan, CalculateMeasurement, GenerateIdBlock, LaunchGuest, GuestReport, PullReport,
         StopVM, Verify, SetBad, NotApplicableStep
<1> QED
  BY <1>1, <1>2, Records

\* The action that takes each step of the plan.
LEMMA StepActions ==
  ASSUME TypeOK, InPlan
  PROVE  /\ running /\ step \in 1 .. Last
         /\ CalculateMeasurement <=> step = 1
         /\ GenerateIdBlock <=> step = 2
         /\ LaunchGuest <=> step \in Launches
         /\ GuestReport <=> step = 4
         /\ PullReport <=> step = 5
         /\ StopVM <=> step \in Stops
         /\ Verify <=> step = 7
         /\ SetBad <=> step \in Sets
         /\ NotApplicableStep <=> ~smtAtLoad /\ step = 11
<1>1. running /\ step \in 1 .. 17 /\ step <= Last
  BY PlanSteps
     DEF TypeOK, InPlan, CalculateMeasurement, GenerateIdBlock, LaunchGuest, GuestReport,
         PullReport, StopVM, Verify, SetBad, NotApplicableStep, At
<1>2. /\ CalculateMeasurement => Plan[step].name = "calculate"
      /\ GenerateIdBlock => Plan[step].name = "generate"
      /\ LaunchGuest => Plan[step].name = "launch"
      /\ GuestReport => Plan[step].name = "guest-report"
      /\ PullReport => Plan[step].name = "pull-report"
      /\ StopVM => Plan[step].name = "stop"
      /\ Verify => Plan[step].name = "verify"
      /\ SetBad => Plan[step].name = "set"
      /\ NotApplicableStep => Plan[step].name = "not-applicable"
  BY DEF CalculateMeasurement, GenerateIdBlock, LaunchGuest, GuestReport, PullReport,
         StopVM, Verify, SetBad, NotApplicableStep, At
<1>3. step \in 1 .. Last
  BY <1>1 DEF Last
<1> QED
  BY <1>1, <1>2, <1>3, Places DEF InPlan

----------------------------------------------------------------------------
(* Policies, blocks and reports *)

\* The variables that can be used hold a policy that no guest refuses for its ABI.
LEMMA MetaTyped ==
  ASSUME meta \in Metas, meta # InvalidMeta
  PROVE  /\ meta.ids \in Ids
         /\ meta.policy \in Policies /\ meta.policy.abi = "low"
         /\ meta.policy = [smt |-> meta.policy.smt, abi |-> "low", rest |-> meta.policy.rest]
         /\ meta.policy.smt \in BOOLEAN /\ meta.policy.rest \in {"own", "qemu"}
BY IdBlockAssumption DEF Policies

\* The policies that must be refused, field by field.
LEMMA BadPolicies ==
  ASSUME meta \in Metas, meta # InvalidMeta
  PROVE  /\ BadPolicy("measurement") = meta.policy
         /\ BadPolicy("smt") = [smt |-> FALSE, abi |-> "low", rest |-> meta.policy.rest]
         /\ BadPolicy("abi") = [smt |-> meta.policy.smt, abi |-> "high", rest |-> meta.policy.rest]
         /\ \A c \in {"measurement", "smt", "abi"} :
              BadPolicy(c) \in Policies /\ (BadPolicy(c).abi = "high" => c = "abi")
<1>1. BadPolicy("measurement") = meta.policy
  BY DEF BadPolicy
<1>2. BadPolicy("smt") = [meta.policy EXCEPT !.smt = FALSE]
  BY DEF BadPolicy
<1>3. BadPolicy("abi") = [meta.policy EXCEPT !.abi = "high"]
  BY DEF BadPolicy
<1>4. BadPolicy("smt") = [smt |-> FALSE, abi |-> "low", rest |-> meta.policy.rest]
  BY <1>2, MetaTyped DEF Policies
<1>5. BadPolicy("abi") = [smt |-> meta.policy.smt, abi |-> "high", rest |-> meta.policy.rest]
  BY <1>3, MetaTyped DEF Policies
<1>6. BadPolicy("measurement") \in Policies /\ BadPolicy("measurement").abi # "high"
  BY <1>1, MetaTyped
<1>7. BadPolicy("smt") \in Policies /\ BadPolicy("smt").abi # "high"
  <2>1. [smt |-> FALSE, abi |-> "low", rest |-> meta.policy.rest] \in Policies
    BY MetaTyped DEF Policies
  <2>2. [smt |-> FALSE, abi |-> "low", rest |-> meta.policy.rest].abi = "low"
    OBVIOUS
  <2> QED
    BY <1>4, <2>1, <2>2, Zenon
<1>8. BadPolicy("abi") \in Policies
  BY <1>5, MetaTyped DEF Policies
<1> QED
  BY <1>1, <1>4, <1>5, <1>6, <1>7, <1>8

\* A block that is made is a block, in a profile.
LEMMA WithBlockTyped ==
  ASSUME meta \in Metas, meta # InvalidMeta, NEW i \in Images, NEW f \in BOOLEAN,
         NEW p \in Policies, NEW c \in Cases
  PROVE  /\ WithBlock(i, f, p, c) \in Profiles
         /\ WithBlock(i, f, p, c).policy = p
         /\ WithBlock(i, f, p, c).block # NoBlock
         /\ WithBlock(i, f, p, c).block.by = c
         /\ WithBlock(i, f, p, c).block.digest = [image |-> i, flipped |-> f]
<1>1. WithBlock(i, f, p, c).block \in Blocks
  BY MetaTyped DEF WithBlock, Blocks, Digests
<1> QED
  BY <1>1, IdBlockAssumption DEF WithBlock, Profiles

\* A guest's report is a report of this run.
LEMMA ReportTyped ==
  ASSUME TypeOK, RunState, running, NEW p \in Profiles
  PROVE  ReportOf(p) \in Reports /\ ReportOf(p).run = runs
<1>1. runs \in 1 .. MaxRuns
  BY IdBlockAssumption DEF TypeOK, RunState
<1>2. p.policy \in Policies /\ (p.block = NoBlock \/ p.block.ids \in Ids)
  BY DEF Profiles, Blocks
<1>3. (IF p.block = NoBlock THEN "zero" ELSE p.block.ids) \in Ids
  BY <1>2 DEF Ids
<1> QED
  BY <1>1, <1>2, <1>3 DEF ReportOf, Reports

\* What a positive launch that boots, and one that is refused, say of the block.
LEMMA Verdicts ==
  ASSUME NEW p
  PROVE  /\ Verdict(p) = "booted" /\ p.block # NoBlock =>
              p.block.digest = [image |-> image, flipped |-> FALSE]
         /\ Verdict(p) = "measurement" =>
              p.block # NoBlock /\ p.block.digest # [image |-> image, flipped |-> FALSE]
         /\ Verdict(p) = "policy" => p.policy.abi = "high"
         /\ Verdict(p) \in {"smt", "policy", "measurement", "booted"}
<1>1. CASE ~p.policy.smt /\ smtActive
  BY <1>1 DEF Verdict
<1>2. CASE ~(~p.policy.smt /\ smtActive) /\ p.policy.abi = "high"
  BY <1>2 DEF Verdict
<1>3. CASE /\ ~(~p.policy.smt /\ smtActive) /\ p.policy.abi # "high"
           /\ p.block # NoBlock /\ p.block.digest # [image |-> image, flipped |-> FALSE]
  BY <1>3 DEF Verdict
<1>4. CASE /\ ~(~p.policy.smt /\ smtActive) /\ p.policy.abi # "high"
           /\ ~(p.block # NoBlock /\ p.block.digest # [image |-> image, flipped |-> FALSE])
  BY <1>4 DEF Verdict
<1> QED
  BY <1>1, <1>2, <1>3, <1>4

----------------------------------------------------------------------------
(* The conjuncts of the invariant over a step *)

\* The case of a step that builds a block is one that must be refused.
LEMMA SetCases ==
  ASSUME TypeOK, SetBad
  PROVE  /\ Case = CaseAt /\ Case \in {"measurement", "smt", "abi"}
         /\ step \in 8 .. Last /\ step # 9 /\ step # 10
         /\ step = 8 <=> Case = "measurement"
<1>1. step \in Sets /\ step \in 1 .. Last
  BY StepActions DEF InPlan
<1>2. Case = CaseAt
  BY <1>1, Places DEF TypeOK
<1> QED
  BY <1>1, <1>2 DEF Sets, CaseAt, Last

\* What a step that builds a block leaves in the profile.
LEMMA SetBuilds ==
  ASSUME TypeOK, SetBad, profile' # profile
  PROVE  /\ meta \in Metas /\ meta # InvalidMeta
         /\ measurement \in Measurements
         /\ profile' = WithBlock(measurement.image, Case = "measurement", BadPolicy(Case), Case)
         /\ profile' \in Profiles
         /\ profile'.policy = BadPolicy(Case)
         /\ profile'.block # NoBlock /\ profile'.block.by = Case
         /\ profile'.block.digest =
              [image |-> measurement.image, flipped |-> Case = "measurement"]
<1>1. /\ meta \in Metas /\ meta # InvalidMeta
      /\ measurement \in Measurements
      /\ profile' = WithBlock(measurement.image, Case = "measurement", BadPolicy(Case), Case)
  BY DEF SetBad, TypeOK, Readable
<1>2. Case \in {"measurement", "smt", "abi"} /\ Case \in Cases
  BY SetCases DEF Cases
<1>3. measurement.image \in Images /\ (Case = "measurement") \in BOOLEAN
  BY <1>1 DEF Measurements
<1>4. BadPolicy(Case) \in Policies
  BY <1>1, <1>2, BadPolicies
<1> DEFINE f == Case = "measurement"
           c == Case
<1>5. f \in BOOLEAN /\ c \in Cases /\ BadPolicy(c) \in Policies
  BY <1>2, <1>3, <1>4
<1>6. profile' = WithBlock(measurement.image, f, BadPolicy(c), c)
  BY <1>1
<1> HIDE DEF f, c
<1>7. /\ profile' \in Profiles
      /\ profile'.policy = BadPolicy(c)
      /\ profile'.block # NoBlock /\ profile'.block.by = c
      /\ profile'.block.digest = [image |-> measurement.image, flipped |-> f]
  BY <1>1, <1>3, <1>5, <1>6, WithBlockTyped
<1> QED
  BY <1>1, <1>7 DEF f, c

\* What the step that builds the valid block leaves in the profile.
LEMMA GenerateBuilds ==
  ASSUME TypeOK, GenerateIdBlock
  PROVE  \/ UNCHANGED <<profile, signed>>
         \/ /\ meta \in Metas /\ meta # InvalidMeta
            /\ measurement \in Measurements /\ signed' = measurement
            /\ profile' \in Profiles
            /\ profile'.policy = meta.policy
            /\ profile'.block # NoBlock /\ profile'.block.by = "valid"
            /\ profile'.block.digest = [image |-> measurement.image, flipped |-> FALSE]
<1>1. SUFFICES ASSUME meta # InvalidMeta, Readable, signed' = measurement,
                      profile' = WithBlock(measurement.image, FALSE, meta.policy, "valid")
               PROVE  /\ meta \in Metas /\ meta # InvalidMeta
                      /\ measurement \in Measurements /\ signed' = measurement
                      /\ profile' \in Profiles
                      /\ profile'.policy = meta.policy
                      /\ profile'.block # NoBlock /\ profile'.block.by = "valid"
                      /\ profile'.block.digest = [image |-> measurement.image, flipped |-> FALSE]
  BY DEF GenerateIdBlock
<1>2. meta \in Metas /\ measurement \in Measurements /\ measurement.image \in Images
  BY <1>1 DEF TypeOK, Readable, Measurements
<1>3. "valid" \in Cases /\ meta.policy \in Policies /\ FALSE \in BOOLEAN
  BY <1>1, <1>2, MetaTyped DEF Cases
<1> DEFINE i == measurement.image
           f == FALSE
           p == meta.policy
           c == "valid"
<1>4. /\ i \in Images /\ f \in BOOLEAN /\ p \in Policies /\ c \in Cases
      /\ profile' = WithBlock(i, f, p, c)
  BY <1>1, <1>2, <1>3
<1> HIDE DEF i, f, p, c
<1>5. /\ WithBlock(i, f, p, c) \in Profiles
      /\ WithBlock(i, f, p, c).policy = p
      /\ WithBlock(i, f, p, c).block # NoBlock
      /\ WithBlock(i, f, p, c).block.by = c
      /\ WithBlock(i, f, p, c).block.digest = [image |-> i, flipped |-> f]
  <2>1. meta \in Metas /\ meta # InvalidMeta
    BY <1>1, <1>2
  <2> QED
    BY <1>4, <2>1, WithBlockTyped
<1>6. /\ profile' \in Profiles
      /\ profile'.policy = p
      /\ profile'.block # NoBlock /\ profile'.block.by = c
      /\ profile'.block.digest = [image |-> i, flipped |-> f]
  BY <1>4, <1>5, Zenon
<1> QED
  BY <1>1, <1>2, <1>6 DEF i, f, p, c

\* What a launch adds to the refusals.
LEMMA LaunchRefuses ==
  ASSUME TypeOK, LaunchGuest, refused' # refused
  PROVE  \E why \in Outcomes(profile) :
           /\ Expected(Case, why)
           /\ Case # "valid" /\ Case \in Cases
           /\ refused' = refused \cup {[case |-> Case, launched |-> profile, why |-> why]}
<1>1. step \in Launches /\ step \in 1 .. Last
  BY StepActions DEF InPlan
<1>2. Case \in Cases
  BY <1>1, Places DEF TypeOK, CaseAt, Cases
<1> QED
  BY <1>2 DEF LaunchGuest

\* What the steps of the plan leave alone.
LEMMA PlanLeaves ==
  ASSUME TypeOK, InPlan
  PROVE  /\ UNCHANGED <<host, replaced, untouched>>
         /\ step # 1 => UNCHANGED measurement
         /\ step # 2 => UNCHANGED signed
         /\ step # 2 /\ step \notin Sets => UNCHANGED profile
         /\ step \notin Launches => UNCHANGED refused
         /\ step # 5 => UNCHANGED artifact
<1>1. /\ UNCHANGED <<host, replaced, untouched>>
      /\ ~CalculateMeasurement => UNCHANGED measurement
      /\ ~GenerateIdBlock => UNCHANGED signed
      /\ ~GenerateIdBlock /\ ~SetBad => UNCHANGED profile
      /\ ~LaunchGuest => UNCHANGED refused
      /\ ~PullReport => UNCHANGED artifact
  BY DEF InPlan, CalculateMeasurement, GenerateIdBlock, LaunchGuest, GuestReport, PullReport,
         StopVM, Verify, SetBad, NotApplicableStep, files, history
<1> QED
  BY <1>1, StepActions, Zenon

\* The guest's variables over a step of the plan.
LEMMA GuestTyped ==
  ASSUME TypeOK, RunState, BlockInUse, InPlan
  PROVE  /\ launch' \in [profile : Profiles, ok : BOOLEAN] \cup {NoLaunch}
         /\ guestReport' \in Reports \cup {NoFile}
<1>1. CASE LaunchGuest
  <2>1. profile \in Profiles
    BY DEF TypeOK
  <2>2. \A ok \in BOOLEAN : [profile |-> profile, ok |-> ok] \in [profile : Profiles, ok : BOOLEAN]
    BY <2>1
  <2>3. launch' \in {launch, NoLaunch, [profile |-> profile, ok |-> TRUE],
                     [profile |-> profile, ok |-> FALSE]}
        /\ guestReport' \in {guestReport, NoFile}
    BY <1>1 DEF LaunchGuest, guest
  <2> QED
    BY <2>2, <2>3 DEF TypeOK
<1>2. CASE GuestReport
  <2>1. running /\ step = 4
    BY <1>2, StepActions
  <2>2. launch.profile \in Profiles
    BY <2>1 DEF BlockInUse
  <2>3. ReportOf(launch.profile) \in Reports
    BY <2>1, <2>2, ReportTyped
  <2> QED
    BY <1>2, <2>3 DEF GuestReport, TypeOK
<1>3. CASE ~LaunchGuest /\ ~GuestReport
  BY <1>3 DEF InPlan, CalculateMeasurement, GenerateIdBlock, PullReport, StopVM, Verify,
              SetBad, NotApplicableStep, guest, TypeOK
<1> QED
  BY <1>1, <1>2, <1>3

\* Every step keeps the types.
LEMMA TypeKept ==
  ASSUME TypeOK, RunState, BlockInUse, Next
  PROVE  TypeOK'
<1>1. CASE InPlan
  <2>1. PICK r : Recorded(r)
    BY <1>1, PlanRecords
  <2>2. /\ step' \in 1 .. 17 /\ running' = TRUE /\ overall' \in {"none", "pass", "fail"}
        /\ UNCHANGED <<smtAtLoad, meta, runs>>
    BY <2>1 DEF Recorded, Last
  <2>3. UNCHANGED <<image, smtActive, replaced, untouched>>
    BY <1>1, PlanLeaves DEF host
  <2>4. profile' \in Profiles /\ signed' \in Measurements \cup {NoFile}
    <3>1. CASE GenerateIdBlock
      BY <3>1, GenerateBuilds DEF TypeOK
    <3>2. CASE SetBad
      BY <3>2, SetBuilds DEF TypeOK, SetBad, history
    <3>3. CASE ~GenerateIdBlock /\ ~SetBad
      BY <1>1, <3>3 DEF InPlan, CalculateMeasurement, LaunchGuest, GuestReport, PullReport,
                        StopVM, Verify, NotApplicableStep, history, TypeOK
    <3> QED
      BY <3>1, <3>2, <3>3
  <2>5. measurement' \in Measurements \cup {NoFile, Malformed}
    <3>1. [image |-> image, run |-> runs] \in Measurements
      BY DEF TypeOK, Measurements
    <3>2. measurement' \in {measurement, [image |-> image, run |-> runs]}
      BY <1>1, PlanLeaves, StepActions DEF CalculateMeasurement
    <3> QED
      BY <3>1, <3>2 DEF TypeOK
  <2>6. artifact' \in Reports \cup {NoFile}
    BY <1>1, PlanLeaves, StepActions DEF PullReport, TypeOK
  <2>7. refused' \subseteq Refusals
    <3>1. CASE refused' = refused
      BY <3>1 DEF TypeOK
    <3>2. CASE refused' # refused
      <4>1. LaunchGuest
        BY <1>1, <3>2, PlanLeaves, StepActions
      <4>2. PICK why \in Outcomes(profile) :
              /\ Expected(Case, why)
              /\ Case # "valid" /\ Case \in Cases
              /\ refused' = refused \cup {[case |-> Case, launched |-> profile, why |-> why]}
        BY <3>2, <4>1, LaunchRefuses
      <4>3. why \in {"measurement", "smt", "policy", "start", "other"}
        <5>1. Case = "measurement" \/ Case = "smt" \/ Case = "abi"
          BY <4>2 DEF Cases
        <5> QED
          BY <4>2, <5>1 DEF Expected
      <4>4. [case |-> Case, launched |-> profile, why |-> why] \in Refusals
        BY <4>2, <4>3 DEF Refusals, TypeOK
      <4> QED
        BY <4>2, <4>4 DEF TypeOK
    <3> QED
      BY <3>1, <3>2
  <2>8. /\ launch' \in [profile : Profiles, ok : BOOLEAN] \cup {NoLaunch}
        /\ guestReport' \in Reports \cup {NoFile}
    BY <1>1, GuestTyped
  <2> QED
    BY <2>2, <2>3, <2>4, <2>5, <2>6, <2>7, <2>8 DEF TypeOK
<1>2. CASE StartRun
  <2>1. runs' \in 0 .. MaxRuns
    BY <1>2, IdBlockAssumption DEF StartRun, TypeOK
  <2>2. [block |-> NoBlock, policy |-> QemuPolicy] \in Profiles
    BY DEF Profiles, Policies, QemuPolicy
  <2> QED
    BY <1>2, <2>1, <2>2 DEF StartRun, TypeOK, host, files
<1>3. CASE Return \/ Killed
  BY <1>3 DEF Return, Killed, TypeOK, host, files, history
<1>4. CASE ReplaceMeasurement
  <2>1. replaced' \in 0 .. MaxReplaced
    BY <1>4, IdBlockAssumption DEF ReplaceMeasurement, TypeOK
  <2>2. measurement' \in Measurements \cup {NoFile, Malformed}
    <3>1. 0 \in 0 .. MaxRuns
      BY IdBlockAssumption
    <3> QED
      BY <1>4, <3>1 DEF ReplaceMeasurement, Measurements
  <2> QED
    BY <1>4, <2>1, <2>2 DEF ReplaceMeasurement, TypeOK, host, loop, guest
<1>5. CASE SwitchSmt \/ InstallImage
  BY <1>5 DEF SwitchSmt, InstallImage, TypeOK, loop, guest, files, history
<1> QED
  BY <1>1, <1>2, <1>3, <1>4, <1>5, Steps

\* A run has come to the end of its plan when it returns.
LEMMA RunStateKept ==
  ASSUME TypeOK, RunState, Next
  PROVE  RunState'
<1>1. Last \in {14, 16} /\ (smtAtLoad' = smtAtLoad => Last' = Last) /\ Last' \in {14, 16}
  BY DEF Last
<1>2. CASE InPlan
  <2>1. PICK r : Recorded(r)
    BY <1>2, PlanRecords
  <2> QED
    BY <1>1, <2>1 DEF Recorded, RunState
<1>3. CASE StartRun
  BY <1>1, <1>3 DEF StartRun, RunState, TypeOK
<1>4. CASE Return
  BY <1>1, <1>4, PlanSteps DEF Return, RunState, TypeOK
<1>5. CASE Killed
  BY <1>1, <1>5 DEF Killed, RunState
<1>6. CASE ReplaceMeasurement \/ SwitchSmt \/ InstallImage
  BY <1>1, <1>6 DEF ReplaceMeasurement, SwitchSmt, InstallImage, loop, RunState
<1> QED
  BY <1>2, <1>3, <1>4, <1>5, <1>6, Steps

\* A failure that is recorded ends the plan at a setup step, and the exercise at
\* any step but an info step.
LEMMA FailureEnds ==
  ASSUME TypeOK, RunState, InPlan, Record("fail")
  PROVE  /\ step \in 1 .. 3 => step' = Last + 1
         /\ step \notin Stops /\ ~(~smtAtLoad /\ step = 11) => overall' # "pass"
<1>1. running /\ step \in 1 .. Last /\ step \in 1 .. 17
  BY StepActions DEF TypeOK
<1> QED
  BY <1>1, Places, PlanSteps DEF Record

\* After the positive launch its block has booted.
LEMMA PositiveLaunch ==
  ASSUME TypeOK, RunState, InPlan, step = 3, step' = 4
  PROVE  Verdict(profile) = "booted" /\ launch' = [profile |-> profile, ok |-> TRUE]
<1>1. LaunchGuest
  BY StepActions DEF Launches
<1>2. Case = "valid"
  BY Places DEF Last, CaseAt, TypeOK
<1>3. ~Record("fail")
  BY FailureEnds DEF Last
<1>4. PICK why \in Outcomes(profile) :
        /\ Expected("valid", why)
        /\ launch' \in IF why = "booted" THEN {[profile |-> profile, ok |-> TRUE]}
                       ELSE {NoLaunch, [profile |-> profile, ok |-> FALSE]}
  BY <1>1, <1>2, <1>3 DEF LaunchGuest
<1>5. why = "booted"
  BY <1>4 DEF Expected
<1> QED
  BY <1>4, <1>5 DEF Outcomes

\* The profile changes only where a block is built.
LEMMA BlockBuilt ==
  ASSUME TypeOK, InPlan, profile' # profile
  PROVE  /\ meta \in Metas /\ meta # InvalidMeta
         /\ measurement \in Measurements
         /\ profile'.block # NoBlock
         /\ profile'.policy = PolicyOf(profile'.block.by)
         /\ profile'.block.digest =
              [image |-> measurement.image, flipped |-> profile'.block.by = "measurement"]
         /\ \/ step = 2 /\ profile'.block.by = "valid" /\ signed' = measurement
            \/ step = 8 /\ profile'.block.by = "measurement"
            \/ step \in 11 .. Last /\ profile'.block.by \in {"smt", "abi"}
<1>1. CASE step = 2
  <2>1. GenerateIdBlock
    BY <1>1, StepActions
  <2>2. /\ meta \in Metas /\ meta # InvalidMeta
        /\ measurement \in Measurements /\ signed' = measurement
        /\ profile'.policy = meta.policy
        /\ profile'.block # NoBlock /\ profile'.block.by = "valid"
        /\ profile'.block.digest = [image |-> measurement.image, flipped |-> FALSE]
    BY <2>1, GenerateBuilds
  <2>3. (profile'.block.by = "measurement") = FALSE
    BY <2>2
  <2> QED
    BY <1>1, <2>2, <2>3 DEF PolicyOf
<1>2. CASE step # 2
  <2>1. SetBad
    BY <1>2, PlanLeaves, StepActions
  <2>2. /\ meta \in Metas /\ meta # InvalidMeta
        /\ measurement \in Measurements
        /\ profile'.policy = BadPolicy(Case)
        /\ profile'.block # NoBlock /\ profile'.block.by = Case
        /\ profile'.block.digest =
             [image |-> measurement.image, flipped |-> Case = "measurement"]
    BY <2>1, SetBuilds
  <2>3. /\ Case \in {"measurement", "smt", "abi"}
        /\ step \in 8 .. Last /\ step # 9 /\ step # 10
        /\ step = 8 <=> Case = "measurement"
    BY <2>1, SetCases
  <2>4. step = 8 \/ step \in 11 .. Last
    BY <2>3 DEF Last
  <2> QED
    BY <2>2, <2>3, <2>4 DEF PolicyOf
<1> QED
  BY <1>1, <1>2

\* The block in use, over a step.
LEMMA BlockInUseKept ==
  ASSUME TypeOK, RunState, BlockInUse, Next
  PROVE  BlockInUse'
<1>1. CASE InPlan
  <2>1. PICK r : Recorded(r)
    BY <1>1, PlanRecords
  <2>2. /\ step \in 1 .. Last /\ running
        /\ step' = step + 1 \/ step' = Last + 1
        /\ Last \in {14, 16}
    BY <2>1 DEF Recorded, Last
  <2>3. UNCHANGED image
    BY <1>1, PlanLeaves DEF host
  <2>4. profile'.policy.abi = "high" => profile'.block # NoBlock /\ profile'.block.by = "abi"
    <3>1. CASE profile' = profile
      BY <3>1 DEF BlockInUse
    <3>2. CASE profile' # profile
      <4>1. /\ meta \in Metas /\ meta # InvalidMeta /\ profile'.block # NoBlock
            /\ profile'.policy = PolicyOf(profile'.block.by)
            /\ profile'.block.by \in {"valid", "measurement", "smt", "abi"}
        BY <1>1, <3>2, BlockBuilt
      <4>2. PolicyOf("valid").abi = "low"
        BY <4>1, MetaTyped DEF PolicyOf
      <4>3. \A c \in {"measurement", "smt", "abi"} : PolicyOf(c).abi = "high" => c = "abi"
        BY <4>1, BadPolicies DEF PolicyOf
      <4> QED
        BY <4>1, <4>2, <4>3
    <3> QED
      BY <3>1, <3>2
  <2>5. ASSUME step' <= 10, profile'.block # NoBlock
        PROVE  profile'.block.by \in {"valid", "measurement"}
    <3>1. step <= 9
      BY <2>2, <2>5
    <3> QED
      BY <1>1, <2>2, <2>5, <3>1, BlockBuilt DEF BlockInUse
  <2>6. ASSUME step' \in 4 .. 9, profile'.block # NoBlock, profile'.block.by = "valid"
        PROVE  profile'.block.digest = [image |-> image, flipped |-> FALSE]
    <3>1. step \in 3 .. 8
      BY <2>2, <2>6
    <3>2. profile' = profile
      BY <1>1, <2>6, <3>1, BlockBuilt
    <3>3. CASE step = 3
      <4>1. step' = 4
        BY <2>2, <2>6, <3>3
      <4> QED
        BY <1>1, <2>6, <3>2, <3>3, <4>1, PositiveLaunch, Verdicts
    <3>4. CASE step # 3
      BY <2>2, <2>6, <3>1, <3>2, <3>4 DEF BlockInUse
    <3> QED
      BY <3>3, <3>4
  <2>7. ASSUME step' = 4
        PROVE  launch' \in [profile : Profiles, ok : BOOLEAN]
    <3>1. step = 3
      BY <2>2, <2>7
    <3>2. launch' = [profile |-> profile, ok |-> TRUE]
      BY <1>1, <2>7, <3>1, PositiveLaunch
    <3> QED
      BY <3>2 DEF TypeOK
  <2> QED
    BY <2>3, <2>4, <2>5, <2>6, <2>7 DEF BlockInUse
<1>2. CASE StartRun
  BY <1>2 DEF StartRun, BlockInUse, QemuPolicy
<1>3. CASE Return \/ Killed
  BY <1>3 DEF Return, Killed, BlockInUse
<1>4. CASE ReplaceMeasurement \/ SwitchSmt
  <2>1. UNCHANGED <<image, running, step, profile, launch>>
    BY <1>4 DEF ReplaceMeasurement, SwitchSmt, host, loop, guest
  <2> QED
    BY <2>1 DEF BlockInUse
<1>5. CASE InstallImage
  BY <1>5 DEF InstallImage, loop, guest, BlockInUse
<1> QED
  BY <1>1, <1>2, <1>3, <1>4, <1>5, Steps

\* The measurement of a run and its signature, over a step.
LEMMA MeasuredKept ==
  ASSUME TypeOK, RunState, Measured, SignedFresh, Next
  PROVE  Measured' /\ SignedFresh'
<1>1. CASE InPlan
  <2>1. PICK r : Recorded(r)
    BY <1>1, PlanRecords
  <2>2. /\ step \in 1 .. Last /\ running
        /\ step' = step + 1 \/ step' = Last + 1
        /\ Last \in {14, 16} /\ Last' = Last
        /\ UNCHANGED runs
    BY <2>1 DEF Recorded, Last
  <2>3. UNCHANGED <<image, untouched>>
    BY <1>1, PlanLeaves DEF host
  <2>4. SUFFICES ASSUME untouched PROVE Measured' /\ SignedFresh'
    BY <2>3 DEF Measured, SignedFresh
  <2>5. CASE step = 1
    <3>1. step' = 2 => measurement' = [image |-> image, run |-> runs]
      BY <1>1, <2>2, <2>5, StepActions, FailureEnds DEF CalculateMeasurement
    <3>2. UNCHANGED signed
      BY <1>1, <2>5, PlanLeaves
    <3> QED
      BY <2>2, <2>3, <2>4, <2>5, <3>1, <3>2 DEF Measured, SignedFresh
  <2>6. CASE step = 2
    <3>1. measurement = [image |-> image, run |-> runs] /\ UNCHANGED measurement
      BY <1>1, <2>2, <2>4, <2>6, PlanLeaves DEF Measured
    <3>2. measurement # NoFile
      <4>1. [image |-> image, run |-> runs] \in Measurements
        BY DEF TypeOK, Measurements
      <4> QED
        BY <3>1, <4>1, IdBlockAssumption
    <3>3. signed' = measurement \/ (UNCHANGED signed /\ Record("fail"))
      BY <1>1, <2>6, <3>2, StepActions DEF GenerateIdBlock
    <3>4. step' = 3 => signed' = measurement
      BY <1>1, <2>2, <2>6, <3>3, FailureEnds
    <3> QED
      BY <2>2, <2>3, <2>4, <2>6, <3>1, <3>3, <3>4 DEF Measured, SignedFresh
  <2>7. CASE step >= 3
    <3>1. UNCHANGED <<measurement, signed>>
      BY <1>1, <2>2, <2>7, PlanLeaves
    <3> QED
      BY <2>2, <2>3, <2>4, <2>7, <3>1 DEF Measured, SignedFresh
  <2> QED
    BY <2>2, <2>5, <2>6, <2>7
<1>2. CASE StartRun
  BY <1>2 DEF StartRun, Measured, SignedFresh
<1>3. CASE Return \/ Killed
  BY <1>3 DEF Return, Killed, Measured, SignedFresh
<1>4. CASE ReplaceMeasurement
  BY <1>4 DEF ReplaceMeasurement, Measured, SignedFresh
<1>5. CASE SwitchSmt
  BY <1>5 DEF SwitchSmt, loop, files, history, Measured, SignedFresh, Last
<1>6. CASE InstallImage
  BY <1>6 DEF InstallImage, loop, Measured, SignedFresh
<1> QED
  BY <1>1, <1>2, <1>3, <1>4, <1>5, <1>6, Steps

\* What a block was built from, over a step.
LEMMA BuiltKept ==
  ASSUME TypeOK, RunState, Measured, Built, Next
  PROVE  Built'
<1>1. CASE InPlan
  <2>1. PICK r : Recorded(r)
    BY <1>1, PlanRecords
  <2>2. /\ step \in 1 .. Last /\ running /\ UNCHANGED <<meta, untouched>>
        /\ \A c : PolicyOf(c)' = PolicyOf(c)
    BY <1>1, <2>1, PlanLeaves DEF Recorded, PolicyOf, BadPolicy
  <2>3. CASE profile' = profile
    <3>1. CASE UNCHANGED signed
      BY <2>2, <2>3, <3>1 DEF Built
    <3>2. CASE signed' # signed
      <4>1. step = 2
        BY <1>1, <3>2, PlanLeaves
      <4>2. /\ profile'.block # NoBlock /\ profile'.policy = meta.policy
            /\ meta \in Metas /\ meta # InvalidMeta
            /\ signed' = measurement
            /\ profile'.block.by = "valid"
            /\ profile'.block.digest = [image |-> measurement.image, flipped |-> FALSE]
        BY <1>1, <3>2, <4>1, GenerateBuilds, StepActions
      <4>3. (profile'.block.by = "measurement") = FALSE
        BY <4>2
      <4>4. profile'.policy = PolicyOf(profile'.block.by)
        BY <4>2 DEF PolicyOf
      <4> QED
        BY <2>2, <4>2, <4>3, <4>4 DEF Built
    <3> QED
      BY <3>1, <3>2
  <2>4. CASE profile' # profile /\ untouched
    <3>1. signed' = measurement
      <4>1. CASE step = 2
        BY <1>1, <2>4, <4>1, BlockBuilt
      <4>2. CASE step # 2
        <5>1. step \in 3 .. Last
          BY <1>1, <2>2, <2>4, <4>2, BlockBuilt DEF Last
        <5> QED
          BY <1>1, <2>2, <2>4, <4>2, <5>1, PlanLeaves DEF Measured
      <4> QED
        BY <4>1, <4>2
    <3>2. /\ meta \in Metas \ {InvalidMeta}
          /\ profile'.policy = PolicyOf(profile'.block.by)
          /\ profile'.block.digest =
               [image |-> measurement.image, flipped |-> profile'.block.by = "measurement"]
      BY <1>1, <2>4, BlockBuilt
    <3> QED
      BY <2>2, <3>1, <3>2 DEF Built
  <2> QED
    BY <2>2, <2>3, <2>4 DEF Built
<1>2. CASE StartRun
  BY <1>2 DEF StartRun, Built
<1>3. CASE ReplaceMeasurement
  BY <1>3 DEF ReplaceMeasurement, Built
<1>4. CASE Return \/ Killed \/ SwitchSmt \/ InstallImage
  <2>1. UNCHANGED <<meta, profile, signed, untouched>>
    BY <1>4 DEF Return, Killed, SwitchSmt, InstallImage, loop, history
  <2> QED
    BY <2>1 DEF Built, PolicyOf, BadPolicy
<1> QED
  BY <1>1, <1>2, <1>3, <1>4, Steps

\* A refusal is for the block of its own case: the block of the case before
\* would have been let in, or refused for something else.
LEMMA RejectedKept ==
  ASSUME TypeOK, RunState, BlockInUse, RejectedForItsReason, Next
  PROVE  RejectedForItsReason'
<1>1. CASE InPlan /\ refused' # refused
  <2>1. running /\ step \in Launches /\ step \in 1 .. Last
    BY <1>1, PlanLeaves, StepActions
  <2>2. PICK why \in Outcomes(profile) :
          /\ Expected(Case, why)
          /\ Case # "valid" /\ Case \in Cases
          /\ refused' = refused \cup {[case |-> Case, launched |-> profile, why |-> why]}
    BY <1>1, <2>1, LaunchRefuses, StepActions
  <2>3. CASE Case = "measurement"
    <3>1. step = 9
      BY <2>1, <2>3, Places DEF TypeOK, Launches, CaseAt, Last
    <3>2. Verdict(profile) = "measurement"
      BY <2>2, <2>3 DEF Expected, Outcomes
    <3>3. profile.block # NoBlock /\ profile.block.by = "measurement"
      <4>1. /\ profile.block # NoBlock
            /\ profile.block.digest # [image |-> image, flipped |-> FALSE]
        BY <3>2, Verdicts
      <4>2. profile.block.by \in {"valid", "measurement"}
        BY <2>1, <3>1, <4>1 DEF BlockInUse
      <4>3. profile.block.by # "valid"
        BY <2>1, <3>1, <4>1 DEF BlockInUse
      <4> QED
        BY <4>1, <4>2, <4>3
    <3> QED
      BY <2>2, <2>3, <3>3 DEF RejectedForItsReason
  <2>4. CASE Case = "abi"
    <3>1. Verdict(profile) = "policy"
      BY <2>2, <2>4 DEF Expected, Outcomes
    <3>2. profile.block # NoBlock /\ profile.block.by = "abi"
      BY <3>1, Verdicts DEF BlockInUse
    <3> QED
      BY <2>2, <2>4, <3>2 DEF RejectedForItsReason
  <2>5. CASE Case = "smt"
    <3>1. why # "other"
      BY <2>2, <2>5 DEF Expected
    <3> QED
      BY <2>2, <2>5, <3>1 DEF RejectedForItsReason
  <2> QED
    BY <2>2, <2>3, <2>4, <2>5 DEF Cases
<1>2. CASE refused' = refused
  BY <1>2 DEF RejectedForItsReason
<1>3. CASE StartRun
  BY <1>3 DEF StartRun, RejectedForItsReason
<1>4. CASE Return \/ Killed \/ ReplaceMeasurement \/ SwitchSmt \/ InstallImage
  BY <1>2, <1>4 DEF Return, Killed, ReplaceMeasurement, SwitchSmt, InstallImage, history
<1> QED
  BY <1>1, <1>2, <1>3, <1>4, Steps

\* The refusals of a run without a failure are those that are due.
LEMMA RefusalsDue ==
  ASSUME TypeOK, RunState, InPlan, {q.case : q \in refused} = Due, overall' = "pass"
  PROVE  {q.case : q \in refused'} = Due'
<1>1. PICK r : Recorded(r)
  BY PlanRecords
<1>2. step \in 1 .. Last /\ step' = step + 1 /\ UNCHANGED smtAtLoad /\ Last' = Last
  BY <1>1 DEF Recorded, Last
<1>3. CASE step \notin Launches \/ step = 3
  <2>1. UNCHANGED refused
    <3>1. CASE step = 3
      <4>1. Case = "valid"
        BY <3>1, Places DEF TypeOK, CaseAt, Last
      <4> QED
        BY <4>1, LaunchRefuses, StepActions, <3>1 DEF Launches
    <3>2. CASE step \notin Launches
      BY <3>2, PlanLeaves
    <3> QED
      BY <1>3, <3>1, <3>2
  <2>2. Due' = Due
    BY <1>2, <1>3 DEF Due, Launches, Last
  <2> QED
    BY <2>1, <2>2
<1>4. CASE step \in Launches /\ step # 3
  <2>1. Case = CaseAt /\ Case # "valid"
    BY <1>2, <1>4, Places DEF TypeOK, CaseAt, Launches, Last
  <2>2. ~Record("fail")
    <3>1. step \notin Stops /\ ~(~smtAtLoad /\ step = 11)
      BY <1>4 DEF Launches, Stops
    <3> QED
      BY <3>1, FailureEnds
  <2>3. LaunchGuest
    BY <1>4, StepActions
  <2>4. PICK why :
          refused' = refused \cup {[case |-> Case, launched |-> profile, why |-> why]}
    BY <2>1, <2>2, <2>3 DEF LaunchGuest
  <2>5. {q.case : q \in refused'} = {q.case : q \in refused} \cup {Case}
    <3> DEFINE new == [case |-> Case, launched |-> profile, why |-> why]
    <3>1. new.case = Case /\ refused' = refused \cup {new}
      BY <2>4
    <3> HIDE DEF new
    <3> QED
      BY <3>1
  <2>6. Due' = Due \cup {CaseAt}
    BY <1>2, <1>4 DEF Due, Launches, Last, CaseAt
  <2> QED
    BY <2>1, <2>5, <2>6
<1> QED
  BY <1>3, <1>4

\* The exercise of a run, over a step.
LEMMA ExercisedKept ==
  ASSUME TypeOK, RunState, BlockInUse, Exercised, Next
  PROVE  Exercised'
<1>1. CASE InPlan /\ overall' = "pass"
  <2>1. PICK r : Recorded(r)
    BY <1>1, PlanRecords
  <2>2. /\ running /\ step \in 1 .. Last /\ step' = step + 1 /\ overall = "pass"
        /\ UNCHANGED <<meta, runs>>
    BY <1>1, <2>1 DEF Recorded
  <2>3. step \in {4, 5, 7} => ~Record("fail")
    BY <1>1, FailureEnds DEF Stops
  <2>4. step = 4 => guestReport' \in Reports /\ guestReport'.run = runs
    <3>1. SUFFICES ASSUME step = 4 PROVE guestReport' \in Reports /\ guestReport'.run = runs
      OBVIOUS
    <3>2. launch.profile \in Profiles
      BY <2>2, <3>1 DEF BlockInUse
    <3>3. guestReport' = ReportOf(launch.profile)
      BY <1>1, <2>3, <3>1, StepActions DEF GuestReport
    <3> QED
      BY <2>2, <3>2, <3>3, ReportTyped
  <2>5. step = 5 => artifact' \in Reports /\ artifact'.run = runs
    BY <1>1, <2>2, <2>3, StepActions DEF PullReport, Exercised
  <2>6. step >= 6 => artifact' \in Reports /\ artifact'.run = runs
    BY <1>1, <2>2, PlanLeaves DEF Exercised
  <2>7. step >= 7 => FieldsMatch(artifact)'
    <3>1. step = 7 => FieldsMatch(artifact)
      BY <1>1, <2>3, StepActions DEF Verify
    <3>2. step >= 7 => FieldsMatch(artifact)
      BY <2>2, <3>1 DEF Exercised
    <3>3. step >= 7 => UNCHANGED artifact
      BY <1>1, <2>2, PlanLeaves
    <3> QED
      BY <2>2, <3>2, <3>3 DEF FieldsMatch
  <2>8. {q.case : q \in refused'} = Due'
    BY <1>1, <2>2, RefusalsDue DEF Exercised
  <2> QED
    BY <2>2, <2>4, <2>5, <2>6, <2>7, <2>8 DEF Exercised
<1>2. CASE InPlan /\ overall' # "pass"
  BY <1>2 DEF Exercised
<1>3. CASE StartRun
  <2>1. step' = 1 /\ refused' = {} /\ Due' = {}
    BY <1>3 DEF StartRun, Due, Last
  <2>2. {q.case : q \in refused'} = Due'
    BY <2>1
  <2> QED
    BY <2>1, <2>2 DEF Exercised
<1>4. CASE Killed
  BY <1>4 DEF Killed, Exercised
<1>5. CASE Return
  <2>1. /\ step = Last + 1 /\ Last \in {14, 16}
        /\ UNCHANGED <<step, smtAtLoad, meta, overall, runs, artifact, refused>>
    BY <1>5, PlanSteps DEF Return, RunState, TypeOK, files, history, Last
  <2> QED
    BY <2>1 DEF Exercised, FieldsMatch, Due, Last
<1>6. CASE ReplaceMeasurement \/ SwitchSmt \/ InstallImage
  <2>1. UNCHANGED <<step, smtAtLoad, meta, overall, runs, guestReport, artifact, refused>>
    BY <1>6 DEF ReplaceMeasurement, SwitchSmt, InstallImage, loop, guest, files, history
  <2> QED
    BY <2>1 DEF Exercised, FieldsMatch, Due, Last
<1> QED
  BY <1>1, <1>2, <1>3, <1>4, <1>5, <1>6, Steps

----------------------------------------------------------------------------
(* The inductive invariant *)

\* It holds at the start.
LEMMA InitIInv == Init => IInv
<1> SUFFICES ASSUME Init PROVE IInv
  OBVIOUS
<1>1. TypeOK
  <2>1. profile \in Profiles
    BY DEF Init, Profiles, Policies, QemuPolicy
  <2>2. runs \in 0 .. MaxRuns /\ replaced \in 0 .. MaxReplaced /\ step \in 1 .. 17
    BY IdBlockAssumption DEF Init
  <2>3. {smtActive, running, smtAtLoad, untouched} \subseteq BOOLEAN
    BY Zenon DEF Init
  <2> QED
    BY <2>1, <2>2, <2>3, Zenon DEF Init, TypeOK
<1>2. RunState /\ BlockInUse /\ Measured /\ SignedFresh
  BY DEF Init, RunState, BlockInUse, Measured, SignedFresh, QemuPolicy, Last
<1>3. Built /\ RejectedForItsReason /\ Exercised
  BY DEF Init, Built, RejectedForItsReason, Exercised
<1> QED
  BY <1>1, <1>2, <1>3 DEF IInv

\* Every step keeps it.
LEMMA NextIInv == IInv /\ [Next]_vars => IInv'
<1> SUFFICES ASSUME IInv, [Next]_vars PROVE IInv'
  OBVIOUS
<1>1. CASE Next
  BY <1>1, TypeKept, RunStateKept, BlockInUseKept, MeasuredKept, BuiltKept, RejectedKept,
     ExercisedKept DEF IInv
<1>2. CASE UNCHANGED vars
  <2>1. UNCHANGED <<image, smtActive, running, step, smtAtLoad, meta, overall, runs, profile,
                    launch, guestReport, measurement, artifact, replaced, refused, signed,
                    untouched>>
    BY <1>2 DEF vars, host, loop, guest, files, history
  <2>2. TypeOK' /\ RunState'
    BY <2>1 DEF IInv, TypeOK, RunState, Last
  <2>3. BlockInUse' /\ Measured' /\ SignedFresh'
    BY <2>1 DEF IInv, BlockInUse, Measured, SignedFresh, Last
  <2>4. Built'
    BY <2>1 DEF IInv, Built, PolicyOf, BadPolicy
  <2>5. RejectedForItsReason' /\ Exercised'
    BY <2>1 DEF IInv, RejectedForItsReason, Exercised, FieldsMatch, Due, Last
  <2> QED
    BY <2>2, <2>3, <2>4, <2>5 DEF IInv
<1> QED
  BY <1>1, <1>2

\* It holds of every behaviour.
THEOREM Invariance == Spec => []IInv
BY InitIInv, NextIInv, PTL DEF Spec

----------------------------------------------------------------------------
(* Results *)

\* The test's state is typed: every profile it launches has a policy and a block
\* that the four cases can build, and the plan has at most 16 steps.
THEOREM TypeCorrect == Spec => []TypeOK
<1>1. IInv => TypeOK
  BY DEF IInv
<1> QED
  BY <1>1, Invariance, PTL

\* The digest in a signed block is that of the image under test, measured in
\* this run, unless somebody has replaced the measurement during the run.
THEOREM SignsFresh == Spec => []SignedFresh
<1>1. IInv => SignedFresh
  BY DEF IInv
<1> QED
  BY <1>1, Invariance, PTL

\* A negative case never passes on a block that an earlier case has left behind.
THEOREM RejectsForItsReason == Spec => []RejectedForItsReason
<1>1. IInv => RejectedForItsReason
  BY DEF IInv
<1> QED
  BY <1>1, Invariance, PTL

\* A block that must be refused has exactly the defect of its case.
THEOREM DefectsAreSingle == Spec => []OneDefect
<1>1. IInv => OneDefect
  <2> SUFFICES ASSUME IInv, untouched, profile.block # NoBlock
               PROVE  OneDefect
    BY DEF OneDefect
  <2> DEFINE b == profile.block
             D(d) == CASE d = "digest" -> b.digest # [image |-> signed.image, flipped |-> FALSE]
                       [] d = "smt"    -> profile.policy.smt # meta.policy.smt
                       [] d = "abi"    -> profile.policy.abi # meta.policy.abi
                       [] d = "rest"   -> profile.policy.rest # meta.policy.rest
             defects == {d \in {"digest", "smt", "abi", "rest"} : D(d)}
  <2>1. /\ D("digest") <=> b.digest # [image |-> signed.image, flipped |-> FALSE]
        /\ D("smt") <=> profile.policy.smt # meta.policy.smt
        /\ D("abi") <=> profile.policy.abi # meta.policy.abi
        /\ D("rest") <=> profile.policy.rest # meta.policy.rest
    OBVIOUS
  <2>2. /\ meta \in Metas /\ meta # InvalidMeta
        /\ b.digest = [image |-> signed.image, flipped |-> b.by = "measurement"]
        /\ profile.policy = PolicyOf(b.by)
        /\ b.by \in Cases
    BY DEF IInv, Built, TypeOK, Profiles, Blocks
  <2>3. D("digest") => b.by = "measurement"
    <3>1. b.by # "measurement" => (b.by = "measurement") = FALSE
      OBVIOUS
    <3> HIDE DEF D
    <3> QED
      BY <2>1, <2>2, <3>1
  <2>4. /\ D("smt") => b.by = "smt"
        /\ D("abi") => b.by = "abi"
        /\ ~D("rest")
    <3>1. /\ PolicyOf("valid") = meta.policy
          /\ PolicyOf("measurement") = meta.policy
          /\ PolicyOf("smt") = [smt |-> FALSE, abi |-> "low", rest |-> meta.policy.rest]
          /\ PolicyOf("abi") = [smt |-> meta.policy.smt, abi |-> "high",
                                rest |-> meta.policy.rest]
          /\ meta.policy.abi = "low"
      BY <2>2, BadPolicies, MetaTyped DEF PolicyOf
    <3> HIDE DEF D
    <3> QED
      BY <2>1, <2>2, <3>1 DEF Cases
  <2>5. \A d, e \in defects : d = e
    <3> HIDE DEF D
    <3> QED
      BY <2>3, <2>4
  <2> QED
    BY <2>5, Zenon DEF OneDefect
<1> QED
  BY <1>1, Invariance, PTL

\* A pass means that the run's own guest had the ID block that was asked for,
\* and that every negative case of the plan was refused.
THEOREM PassIsEarned == Spec => []PassMeansExercised
<1>1. IInv => PassMeansExercised
  <2> SUFFICES ASSUME IInv, ~running, overall = "pass"
               PROVE  /\ artifact = [ids |-> meta.ids, policy |-> meta.policy,
                                     idBlockUsed |-> TRUE, run |-> runs]
                      /\ {r.case : r \in refused}
                           = {"measurement", "abi"} \cup (IF smtAtLoad THEN {"smt"} ELSE {})
    BY DEF PassMeansExercised
  <2>1. step = Last + 1 /\ Last \in {14, 16} /\ (smtAtLoad <=> Last = 16)
    BY DEF IInv, RunState, Last
  <2>2. artifact \in Reports /\ artifact.run = runs /\ FieldsMatch(artifact)
    BY <2>1 DEF IInv, Exercised
  <2>3. {r.case : r \in refused} = Due
    BY DEF IInv, Exercised
  <2>4. Due = {"measurement", "abi"} \cup (IF smtAtLoad THEN {"smt"} ELSE {})
    BY <2>1 DEF Due
  <2>5. artifact.idBlockUsed = TRUE /\ artifact.ids = meta.ids /\ artifact.policy = meta.policy
    BY <2>2 DEF FieldsMatch, Reports
  <2> QED
    BY <2>2, <2>3, <2>4, <2>5 DEF Reports
<1> QED
  BY <1>1, Invariance, PTL
=============================================================================
