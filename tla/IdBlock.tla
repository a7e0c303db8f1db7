------------------------------ MODULE IdBlock ------------------------------
(***************************************************************************)
(* The ID block test (id_block_test.py, cvm_props.py): it measures the     *)
(* guest image, signs the measurement into an ID block, launches a guest   *)
(* with it and reads the block's fields back from an attestation report.   *)
(* Then it launches three times with a block that must be refused: for its *)
(* digest, for a policy without SMT on a host with SMT, for an ABI version *)
(* no firmware has.                                                        *)
(*                                                                         *)
(* The artifact directory outlives a run: the measurement and the report   *)
(* of an earlier run, of another guest image or under other ID_BLOCK_*     *)
(* variables, are found by the steps of a later one.  While a run is under *)
(* way the operator may switch SMT, and the measurement may be replaced or *)
(* removed.                                                                *)
(***************************************************************************)
EXTENDS Integers, Sequences

CONSTANTS
  Images,       \* guest images; an image stands for its launch digest
  Metas,        \* values of the ID_BLOCK_* variables, usable ones and InvalidMeta
  InvalidMeta,  \* a variable holds something that cannot be used
  NoFile,       \* guest_measurement.txt or report.bin does not exist
  Malformed,    \* a measurement that is no 48-byte hex digest
  NoBlock,      \* a profile without an ID block
  NoLaunch,     \* execute_test tracks no launch
  MaxRuns,      \* bound: runs of the test in one behaviour
  MaxReplaced   \* bound: changes of the measurement between two steps

Policies == [smt : BOOLEAN, abi : {"low", "high"}, rest : {"own", "qemu"}]

\* FAMILY_ID, IMAGE_ID and GUEST_SVN are all zero or not.
Ids == {"zero", "set"}

\* QEMU's policy when none is given: SMT is allowed, and no ABI is asked for.
QemuPolicy == [smt |-> TRUE, abi |-> "low", rest |-> "qemu"]

Cases == {"valid", "measurement", "smt", "abi"}

\* The digest an ID block asks for is that of an image, or one flipped from it.
Digests == [image : Images, flipped : BOOLEAN]

Blocks   == [digest : Digests, ids : Ids, by : Cases]
Profiles == [block : Blocks \cup {NoBlock}, policy : Policies]

\* What calculate_measurement has written, and in which run; 0: replaced.
Measurements == [image : Images, run : 0 .. MaxRuns]

\* ATTESTATION_REPORT: the ID block's fields, the policy, and whether
\* ID_KEY_DIGEST is set; with the run that requested it.
Reports == [ids : Ids, policy : Policies, idBlockUsed : BOOLEAN, run : 1 .. MaxRuns]

ASSUME IdBlockAssumption ==
  /\ \A m \in Metas \ {InvalidMeta} :
       m \in [ids : Ids, policy : {p \in Policies : p.abi = "low"}]
  /\ NoBlock \notin Blocks
  /\ NoFile \notin Measurements
  /\ MaxRuns \in Nat /\ MaxReplaced \in Nat

VARIABLES
  image,       \* the guest image that is installed
  smtActive,   \* smt/active
  running,     \* the test is being executed
  step,        \* index of the current step
  smtAtLoad,   \* _smt_status when steps() made the plan
  meta,        \* the ID_BLOCK_* variables of this invocation
  overall,     \* the verdict so far, or of the last run
  profile,     \* ctx.profile
  launch,      \* the launch execute_test tracks: its profile, and whether it is ok
  guestReport, \* report.bin in the guest
  measurement, \* guest_measurement.txt
  artifact,    \* report.bin in the artifact directory
  runs,        \* runs begun
  replaced,    \* how often the measurement has been replaced or removed
  refused,     \* history: launches of this run that were refused as expected
  signed,      \* history: the measurement signed for the valid case of this run
  untouched    \* history: the measurement has not been replaced in this run

host    == <<image, smtActive>>
loop    == <<running, step, smtAtLoad, meta, overall, runs>>
guest   == <<launch, guestReport>>
files   == <<measurement, artifact>>
history == <<refused, signed, untouched>>
vars    == <<host, loop, profile, guest, files, replaced, history>>

Refusals == [case : Cases, launched : Profiles, why : {"measurement", "smt", "policy", "start", "other"}]

TypeOK ==
  /\ image \in Images
  /\ {smtActive, running, smtAtLoad, untouched} \subseteq BOOLEAN
  /\ step \in 1 .. 17
  /\ meta \in Metas
  /\ overall \in {"none", "pass", "fail"}
  /\ profile \in Profiles
  /\ launch \in [profile : Profiles, ok : BOOLEAN] \cup {NoLaunch}
  /\ guestReport \in Reports \cup {NoFile}
  /\ measurement \in Measurements \cup {NoFile, Malformed}
  /\ artifact \in Reports \cup {NoFile}
  /\ runs \in 0 .. MaxRuns
  /\ replaced \in 0 .. MaxReplaced
  /\ refused \subseteq Refusals
  /\ signed \in Measurements \cup {NoFile}

----------------------------------------------------------------------------
(* The plan *)

Op(name, type, case) == [name |-> name, type |-> type, case |-> case]

\* Mutant: the measurement is a required step, and the run goes on without it.
PositiveMeasuringRequired ==
  << Op("calculate", "required", "valid"), Op("generate", "setup", "valid"),
     Op("launch", "setup", "valid"), Op("guest-report", "required", "valid"),
     Op("pull-report", "required", "valid"), Op("stop", "info", "valid"),
     Op("verify", "required", "valid") >>

Positive ==
  << Op("calculate", "setup", "valid"), Op("generate", "setup", "valid"),
     Op("launch", "setup", "valid"), Op("guest-report", "required", "valid"),
     Op("pull-report", "required", "valid"), Op("stop", "info", "valid"),
     Op("verify", "required", "valid") >>

Negative(case) ==
  << Op("set", "required", case), Op("launch", "required", case), Op("stop", "info", case) >>

NotApplicable == << Op("not-applicable", "info", "smt") >>

Plan ==
  Positive \o Negative("measurement")
    \o (IF smtAtLoad THEN Negative("smt") ELSE NotApplicable) \o Negative("abi")

At(name) == running /\ step <= Len(Plan) /\ Plan[step].name = name

Case == Plan[step].case

\* The outcome of the step is recorded.  A failed setup step is the last one.
Record(r) ==
  /\ overall' = IF r # "pass" /\ Plan[step].type # "info" THEN "fail" ELSE overall
  /\ step' = IF r # "pass" /\ Plan[step].type = "setup" THEN Len(Plan) + 1 ELSE step + 1
  /\ UNCHANGED <<running, smtAtLoad, meta, runs>>

\* A run starts with the profile of the test module, which has no ID block.
StartRun ==
  /\ ~running
  /\ runs < MaxRuns
  /\ running' = TRUE
  /\ step' = 1
  /\ smtAtLoad' = smtActive
  /\ meta' \in Metas
  /\ overall' = "pass"
  /\ runs' = runs + 1
  /\ profile' = [block |-> NoBlock, policy |-> QemuPolicy]
  /\ launch' = NoLaunch
  /\ guestReport' = NoFile
  /\ refused' = {}
  /\ signed' = NoFile
  /\ untouched' = TRUE
  /\ UNCHANGED <<host, files, replaced>>

----------------------------------------------------------------------------
(* The callable steps *)

\* snpguest generate measurement.  It may fail before or after it has written
\* its file, or be ended by the step's timeout.
CalculateMeasurement ==
  /\ At("calculate")
  /\ \/ measurement' = [image |-> image, run |-> runs] /\ \E r \in {"pass", "fail"} : Record(r)
     \/ UNCHANGED measurement /\ Record("fail")
  /\ UNCHANGED <<host, profile, guest, artifact, replaced, history>>

\* read_measurement finds a digest.
Readable == measurement \notin {NoFile, Malformed}

\* snpguest generate id-block: the new block replaces that of ctx.profile.
WithBlock(image_, flipped, policy, case) ==
  [block  |-> [digest |-> [image |-> image_, flipped |-> flipped], ids |-> meta.ids, by |-> case],
   policy |-> policy]

\* A handler that outlives its step's timeout has changed ctx.profile.  One
\* that fails, before or after the point where it would, leaves it alone.
GenerateIdBlock ==
  /\ At("generate")
  /\ \/ /\ meta # InvalidMeta /\ Readable
        /\ profile' = WithBlock(measurement.image, FALSE, meta.policy, "valid")
        /\ signed' = measurement
        /\ \E r \in {"pass", "fail"} : Record(r)
     \/ /\ meta # InvalidMeta /\ measurement = NoFile  \* the block is left out
        /\ Record("pass")
        /\ UNCHANGED <<profile, signed>>
     \/ Record("fail") /\ UNCHANGED <<profile, signed>>
  /\ UNCHANGED <<host, guest, files, replaced, refused, untouched>>

\* Mutant: the policy is changed in the profile of the step before.
BadPolicyOfProfile(case) ==
  CASE case = "measurement" -> meta.policy
    [] case = "smt" -> [profile.policy EXCEPT !.smt = FALSE]
    [] case = "abi" -> [profile.policy EXCEPT !.abi = "high"]

\* set_bad_measurement, set_incompatible_policy and set_bad_abi_version each
\* start from the variables, not from the profile of the case before.
BadPolicy(case) ==
  CASE case = "measurement" -> meta.policy
    [] case = "smt" -> [meta.policy EXCEPT !.smt = FALSE]
    [] case = "abi" -> [meta.policy EXCEPT !.abi = "high"]

\* The SMT case asks for the state of SMT again.
SetBad ==
  /\ At("set")
  /\ \/ /\ meta # InvalidMeta /\ Readable
        /\ Case = "smt" => smtActive
        /\ profile' = WithBlock(measurement.image, Case = "measurement", BadPolicy(Case), Case)
        /\ \E r \in {"pass", "fail"} : Record(r)
     \/ Record("fail") /\ UNCHANGED profile
  /\ UNCHANGED <<host, guest, files, replaced, history>>

NotApplicableStep ==
  /\ At("not-applicable")
  /\ \E r \in {"pass", "fail"} : Record(r)
  /\ UNCHANGED <<host, profile, guest, files, replaced, history>>

\* Mutant: the report need not say that there was an ID block.
FieldsMatchAny(r) == r.ids = meta.ids /\ r.policy = meta.policy

\* verify_id_block_fields
FieldsMatch(r) == r.ids = meta.ids /\ r.policy = meta.policy /\ r.idBlockUsed

Verify ==
  /\ At("verify")
  /\ \/ /\ artifact # NoFile /\ meta # InvalidMeta
        /\ FieldsMatch(artifact)
        /\ Record("pass")
     \/ Record("fail")
  /\ UNCHANGED <<host, profile, guest, files, replaced, history>>

----------------------------------------------------------------------------
(* The guest *)

\* What becomes of a launch that gets as far as asking KVM and the firmware.
Verdict(p) ==
  IF ~p.policy.smt /\ smtActive THEN "smt"        \* KVM, at SNP_LAUNCH_START
  ELSE IF p.policy.abi = "high" THEN "policy"     \* the firmware, at SNP_LAUNCH_START
  ELSE IF p.block # NoBlock /\ p.block.digest # [image |-> image, flipped |-> FALSE]
  THEN "measurement"                              \* the firmware, at SNP_LAUNCH_FINISH
  ELSE "booted"

\* It may also be refused at SNP_LAUNCH_START for want of a resource, or not
\* get there, or never boot.
Outcomes(p) == {Verdict(p), "start", "other"}

\* Mutant: any launch that fails will do.
ExpectedAnyFailure(case, why) ==
  IF case = "valid" THEN why = "booted" ELSE why # "booted"

\* Mutant: a launch that must fail has the default expected_result, exit_code:0.
ExpectedDefault(case, why) == why = "booted"

\* expected_result of the four launches, in the message of the outcome: QEMU
\* names the command that failed, and what the firmware says of it.
Expected(case, why) ==
  CASE case = "valid"       -> why = "booted"
    [] case = "measurement" -> why = "measurement"
    [] case = "smt"         -> why \in {"smt", "policy", "start"}
    [] case = "abi"         -> why = "policy"

\* A guest that QEMU gave up on at once is no launch; one that failed later is
\* kept, and vm_stop has it to stop.  A launch that a failed stop has left
\* makes this one a duplicate.
LaunchGuest ==
  /\ At("launch")
  /\ IF launch # NoLaunch THEN Record("fail") /\ UNCHANGED <<guest, refused>>
     ELSE \E why \in Outcomes(profile) :
            LET expected == Expected(Case, why)
            IN /\ launch' \in IF why = "booted" THEN {[profile |-> profile, ok |-> TRUE]}
                              ELSE {NoLaunch, [profile |-> profile, ok |-> FALSE]}
               /\ guestReport' = NoFile
               /\ refused' = IF expected /\ Case # "valid"
                             THEN refused \cup {[case |-> Case, launched |-> profile, why |-> why]}
                             ELSE refused
               /\ Record(IF expected THEN "pass" ELSE "fail")
  /\ UNCHANGED <<host, profile, files, replaced, signed, untouched>>

\* The report of a guest: without an ID block its fields are zero.
ReportOf(p) ==
  [ids |-> IF p.block = NoBlock THEN "zero" ELSE p.block.ids, policy |-> p.policy,
   idBlockUsed |-> p.block # NoBlock, run |-> runs]

\* snpguest report, by the guest agent.  One that fails may have left its report.
GuestReport ==
  /\ At("guest-report")
  /\ \/ guestReport' = ReportOf(launch.profile) /\ \E r \in {"pass", "fail"} : Record(r)
     \/ UNCHANGED guestReport /\ Record("fail")
  /\ UNCHANGED <<host, profile, launch, files, replaced, history>>

\* A pull that fails leaves the report of an earlier run in place.
PullReport ==
  /\ At("pull-report")
  /\ \/ guestReport # NoFile /\ artifact' = guestReport /\ Record("pass")
     \/ UNCHANGED artifact /\ Record("fail")
  /\ UNCHANGED <<host, profile, guest, measurement, replaced, history>>

\* A stop that fails keeps the launch.
StopVM ==
  /\ At("stop")
  /\ \/ launch # NoLaunch /\ launch' = NoLaunch /\ guestReport' = NoFile /\ Record("pass")
     \/ UNCHANGED guest /\ Record("fail")
  /\ UNCHANGED <<host, profile, files, replaced, history>>

\* The finally block stops the guest, and the test returns its verdict.
Return ==
  /\ running /\ step > Len(Plan)
  /\ running' = FALSE
  /\ launch' = NoLaunch
  /\ guestReport' = NoFile
  /\ UNCHANGED <<host, step, smtAtLoad, meta, overall, runs, profile, files, replaced, history>>

Killed ==
  /\ running
  /\ running' = FALSE
  /\ overall' = "none"
  /\ launch' = NoLaunch
  /\ guestReport' = NoFile
  /\ UNCHANGED <<host, step, smtAtLoad, meta, runs, profile, files, replaced, history>>

Run ==
  \/ CalculateMeasurement \/ GenerateIdBlock \/ LaunchGuest \/ GuestReport \/ PullReport
  \/ StopVM \/ Verify \/ SetBad \/ NotApplicableStep \/ Return

----------------------------------------------------------------------------
(* The host *)

\* "the steps are separated in time, so the file can change (or be replaced)
\* in between"
ReplaceMeasurement ==
  /\ running
  /\ replaced < MaxReplaced
  /\ measurement' \in [image : Images, run : {0}] \cup {NoFile, Malformed}
  /\ measurement' # measurement
  /\ replaced' = replaced + 1
  /\ untouched' = FALSE
  /\ UNCHANGED <<host, loop, profile, guest, artifact, refused, signed>>

SwitchSmt ==
  /\ smtActive' = ~smtActive
  /\ UNCHANGED <<image, loop, profile, guest, files, replaced, history>>

InstallImage ==
  /\ ~running
  /\ image' \in Images \ {image}
  /\ UNCHANGED <<smtActive, loop, profile, guest, files, replaced, history>>

----------------------------------------------------------------------------
Init ==
  /\ image \in Images
  /\ smtActive \in BOOLEAN
  /\ running = FALSE
  /\ step = 1
  /\ smtAtLoad = FALSE
  /\ meta \in Metas
  /\ overall = "none"
  /\ profile = [block |-> NoBlock, policy |-> QemuPolicy]
  /\ launch = NoLaunch
  /\ guestReport = NoFile
  /\ measurement = NoFile
  /\ artifact = NoFile
  /\ runs = 0
  /\ replaced = 0
  /\ refused = {}
  /\ signed = NoFile
  /\ untouched = TRUE

Next ==
  \/ StartRun \/ Run \/ Killed
  \/ ReplaceMeasurement \/ SwitchSmt \/ InstallImage

Spec == Init /\ [][Next]_vars

----------------------------------------------------------------------------
(* Properties *)

\* A run that passes has done what it is for: the report in the artifact
\* directory was requested in this run, of a guest that had an ID block with
\* the identity and the policy asked for, and each negative case of the plan
\* was refused.
PassMeansExercised ==
  ~running /\ overall = "pass" =>
    /\ artifact = [ids |-> meta.ids, policy |-> meta.policy, idBlockUsed |-> TRUE, run |-> runs]
    /\ {r.case : r \in refused} = {"measurement", "abi"} \cup (IF smtAtLoad THEN {"smt"} ELSE {})

\* A refusal that lets a case pass is due to the block that this very case has
\* built: the block of the case before, which a set step that fails leaves in
\* the profile, is never taken for it.  The comment at id_block_test.py:401
\* asks for this of the first case.  For SMT there is no message to tell it by;
\* what passes there has at least been refused before a guest ran.
RejectedForItsReason ==
  \A r \in refused :
    /\ r.case # "smt" => r.launched.block # NoBlock /\ r.launched.block.by = r.case
    /\ r.case = "smt" => r.why # "other"

\* The measurement in a positive ID block was taken in the run that signs it,
\* although the file of every earlier run is still there: a block never asks
\* for the digest of an image that has been replaced since.
SignedFresh ==
  running /\ untouched /\ signed # NoFile => signed = [image |-> image, run |-> runs]

\* A block that must be refused differs from the valid one in one respect at
\* most, or its refusal would not say which of them the platform checks.
OneDefect ==
  untouched /\ profile.block # NoBlock =>
    LET b == profile.block
        defects == {d \in {"digest", "smt", "abi", "rest"} :
                      CASE d = "digest" -> b.digest # [image |-> signed.image, flipped |-> FALSE]
                        [] d = "smt"    -> profile.policy.smt # meta.policy.smt
                        [] d = "abi"    -> profile.policy.abi # meta.policy.abi
                        [] d = "rest"   -> profile.policy.rest # meta.policy.rest}
    IN \A d, e \in defects : d = e
=============================================================================
