----------------------------- MODULE TcbCommit -----------------------------
(***************************************************************************)
(* The snphost-config-commit test (snphost_config_commit.py): it lowers    *)
(* the firmware's ReportedTcb with `snphost config set', has a fresh guest *)
(* report it, resets it, has the same guest report again, and runs         *)
(* `snphost commit' behind a gate that reads the second report.            *)
(*                                                                         *)
(* Three kinds of state outlive a run of the test: the firmware's TCB      *)
(* values, until the host reboots; the artifact directory, for good; and   *)
(* the guest's files, as long as the guest.  Between two runs the operator *)
(* may load a provisional firmware, roll it back or reboot the host, and a *)
(* run may be killed at any step.                                          *)
(*                                                                         *)
(* The loop over the steps is the one of SevTest, reduced to what decides  *)
(* which steps run and with which verdict the test ends.                   *)
(***************************************************************************)
EXTENDS Integers, Sequences

CONSTANTS
  CoreFields,   \* the fields of a TCB on every generation
  Fields,       \* the fields of a TCB on this host: FMC too, on Turin
  LowerOrder,   \* the core fields, the one to lower first in front
  Installed,    \* TCBs of the firmware in flash
  Provisional,  \* TCBs of the images the operator may load on top of it
  NoOverride,   \* ReportedTcb is not overridden
  NoReport,     \* a report file that does not exist
  MaxRuns       \* bound: runs of the test in one behaviour

TCBs == [Fields -> Nat]

ASSUME TcbAssumption ==
  /\ CoreFields \subseteq Fields
  /\ LowerOrder \in Seq(CoreFields)
  /\ \A f \in CoreFields : \E k \in DOMAIN LowerOrder : LowerOrder[k] = f
  /\ Installed \subseteq TCBs
  /\ Provisional \subseteq TCBs
  /\ NoOverride \notin TCBs
  /\ MaxRuns \in Nat

VARIABLES
  flash,      \* TCB of the installed firmware
  current,    \* CurrentTcb
  committed,  \* CommittedTcb, the anti-rollback floor
  override,   \* the ReportedTcb that SNP_CONFIG has set
  follows,    \* the TCB that ReportedTcb is without an override
  running,    \* the test is being executed
  step,       \* index of the current step
  plat,       \* the Platform TCB that steps() has read
  allow,      \* --allow-host-changes
  overall,    \* the verdict so far, or of the last run
  launch,     \* the launch execute_test tracks
  guestFile,  \* the report files in the guest
  artifact,   \* the report files in the artifact directory
  setIn,      \* history: the run that has set the override
  failedResets, \* history: the config resets of this run without an effect
  runs        \* runs begun

firmware == <<flash, current, committed, override, follows>>
loop     == <<running, step, plat, allow, overall, runs>>
files    == <<guestFile, artifact>>
history  == <<setIn, failedResets>>
vars     == <<firmware, loop, launch, files, history>>

----------------------------------------------------------------------------
(* TCB values *)

Below(a, b) == \A f \in Fields : a[f] <= b[f]

\* Mutant: FMC is not compared.
CoreFieldsMatch(a, b) == \A f \in CoreFields : a[f] = b[f]

TcbFieldsMatch(a, b) == \A f \in Fields : a[f] = b[f]

CanLower(t) == \E f \in CoreFields : t[f] > 0

\* Mutant: the first field is decremented whatever its value.
LoweredFirst(t) == [t EXCEPT ![LowerOrder[1]] = @ - 1]

\* The first non-zero field is decremented; FMC never is.
Lowered(t) ==
  LET first == CHOOSE k \in DOMAIN LowerOrder :
                 /\ t[LowerOrder[k]] > 0
                 /\ \A j \in 1 .. k - 1 : t[LowerOrder[j]] = 0
  IN [t EXCEPT ![LowerOrder[first]] = @ - 1]

\* ReportedTcb.  The project's description of SNP_CONFIG names CurrentTcb as
\* its value without an override and CommittedTcb as its upper bound: on
\* provisional firmware a host does the one or the other.
Reported ==
  IF override # NoOverride THEN override
  ELSE IF follows = "current" THEN current ELSE committed

\* A report, as snpguest display shows it, and the run that requested it.
Report  == [reported |-> Reported, committed |-> committed, current |-> current, run |-> runs]
Reports == [reported : TCBs, committed : TCBs, current : TCBs, run : 1 .. MaxRuns]

Which == {"report", "report_after_reset"}

TypeOK ==
  /\ {flash, current, committed, plat} \subseteq TCBs
  /\ override \in TCBs \cup {NoOverride}
  /\ follows \in {"current", "committed"}
  /\ running \in BOOLEAN
  /\ step \in 1 .. 18
  /\ allow \in BOOLEAN
  /\ overall \in {"none", "pass", "fail", "error"}
  /\ launch \in {"none", "ok", "failed"}
  /\ guestFile \in [Which -> Reports \cup {NoReport}]
  /\ artifact \in [Which -> Reports \cup {NoReport}]
  /\ setIn \in 0 .. MaxRuns
  /\ failedResets \in 0 .. 2
  /\ runs \in 0 .. MaxRuns

----------------------------------------------------------------------------
(* The plan *)

Op(name, type) == [name |-> name, type |-> type]
GuestOp(name, type, file) == [name |-> name, type |-> type, file |-> file]

\* Steps 1 to 8: lower ReportedTcb and have a fresh guest report it.
Lowering ==
  << Op("show-tcb", "setup"), Op("config-set-lower", "required"),
     Op("verify-differ", "required"), Op("launch", "required"),
     GuestOp("guest-report", "required", "report"),
     GuestOp("pull-report", "required", "report"),
     Op("verify-lowered", "required"), Op("verify-signature", "required") >>

\* Steps 9 to 13: reset it and have the same guest report again.
Restoring ==
  << Op("config-reset", "required"), Op("verify-match", "required"),
     GuestOp("guest-report", "required", "report_after_reset"),
     GuestOp("pull-report", "required", "report_after_reset"),
     Op("verify-restored", "required") >>

CleaningUp == << Op("stop", "info"), Op("config-reset", "info") >>

Committing == << Op("verify-committed-equals-current", "setup"), Op("commit", "required") >>

\* Mutant: the clean-up comes last.
PlanCleaningUpLast == Lowering \o Restoring \o Committing \o CleaningUp

Plan == Lowering \o Restoring \o CleaningUp \o Committing

At(name) == running /\ step <= Len(Plan) /\ Plan[step].name = name

\* The outcome of the step is recorded.  A failed setup step is the last one.
Record(r) ==
  /\ overall' = IF r # "pass" /\ Plan[step].type # "info" THEN "fail" ELSE overall
  /\ step' = IF r # "pass" /\ Plan[step].type = "setup" THEN Len(Plan) + 1 ELSE step + 1
  /\ UNCHANGED <<running, plat, allow, runs>>

----------------------------------------------------------------------------
(* A run of the test *)

\* steps() reads the Platform TCB and finds a field to lower; the plan is
\* fixed from then on.
StartRun ==
  /\ ~running
  /\ runs < MaxRuns
  /\ CanLower(current)
  /\ running' = TRUE
  /\ step' = 1
  /\ plat' = current
  /\ allow' \in BOOLEAN
  /\ overall' = "pass"
  /\ launch' = "none"
  /\ failedResets' = 0
  /\ runs' = runs + 1
  /\ UNCHANGED <<firmware, files, setIn>>

\* steps() raises: `snphost show tcb' fails, or every core field is zero.
LoadFails ==
  /\ ~running
  /\ runs < MaxRuns
  /\ overall' = "error"
  /\ runs' = runs + 1
  /\ UNCHANGED <<history, firmware, running, step, plat, allow, launch, files>>

ShowTcb ==
  /\ At("show-tcb")
  /\ \E r \in {"pass", "fail"} : Record(r)
  /\ UNCHANGED <<firmware, launch, files, history>>

\* SNP_CONFIG does not accept a ReportedTcb above the floor.  A command that
\* is killed by its timeout may have taken effect.
ConfigSetLower ==
  /\ At("config-set-lower")
  /\ \/ /\ Below(Lowered(plat), committed)
        /\ override' = Lowered(plat)
        /\ setIn' = runs
        /\ \E r \in {"pass", "fail"} : Record(r)
     \/ /\ UNCHANGED <<override, setIn>>
        /\ Record("fail")
  /\ UNCHANGED <<flash, current, committed, follows, launch, files, failedResets>>

\* _verify_result compares what `snphost show tcb' prints; it takes sections
\* it cannot parse for different ones.
VerifyDiffer ==
  /\ At("verify-differ")
  /\ \/ Record(IF ~TcbFieldsMatch(Reported, current) THEN "pass" ELSE "fail")
     \/ \E r \in {"pass", "fail"} : Record(r)  \* unparsable; not run
  /\ UNCHANGED <<firmware, launch, files, history>>

\* ... where they should match, naming the command raises.
VerifyMatch ==
  /\ At("verify-match")
  /\ \/ Record(IF TcbFieldsMatch(Reported, current) THEN "pass" ELSE "fail")
     \/ Record("fail")
  /\ UNCHANGED <<firmware, launch, files, history>>

\* Steps 9 and 15.
ConfigReset ==
  /\ At("config-reset")
  /\ \/ /\ override' = NoOverride
        /\ \E r \in {"pass", "fail"} : Record(r)
        /\ UNCHANGED failedResets
     \/ /\ UNCHANGED override
        /\ Record("fail")
        /\ failedResets' = failedResets + 1
  /\ UNCHANGED <<flash, current, committed, follows, setIn, launch, files>>

NoFiles == [w \in Which |-> NoReport]

\* A fresh guest has no files.  Without a launch a guest step launches one,
\* and then finds no report in it.
Launch ==
  /\ At("launch")
  /\ \/ launch' = "ok" /\ guestFile' = NoFiles /\ Record("pass")
     \/ launch' \in {"none", "failed"} /\ UNCHANGED guestFile /\ Record("fail")
  /\ UNCHANGED <<firmware, artifact, history>>

\* The guest agent runs `snpguest report'.  A command that fails or times out
\* may have left its report.
GuestReport ==
  /\ At("guest-report")
  /\ \E launched \in (IF launch = "none" THEN {"none", "failed", "ok"} ELSE {launch}) :
       LET had     == IF launch = "none" THEN NoFiles ELSE guestFile
           written == [had EXCEPT ![Plan[step].file] = Report]
       IN /\ launch' = launched
          /\ \/ launched = "ok" /\ guestFile' = written /\ Record("pass")
             \/ launched = "ok" /\ guestFile' \in {had, written} /\ Record("fail")
             \/ launched # "ok" /\ guestFile' = had /\ Record("fail")
  /\ UNCHANGED <<firmware, artifact, history>>

\* Mutant: a pull that fetches nothing passes when the host has a file.
PullReportAnyFile ==
  /\ At("pull-report")
  /\ LET file == Plan[step].file
     IN /\ artifact' \in {[artifact EXCEPT ![file] = guestFile[file]], artifact}
        /\ Record(IF artifact'[file] # NoReport THEN "pass" ELSE "fail")
  /\ UNCHANGED <<firmware, launch, guestFile, history>>

\* A pull that fails leaves the artifact of an earlier run in place.
PullReport ==
  /\ At("pull-report")
  /\ \/ /\ launch = "ok"
        /\ guestFile[Plan[step].file] # NoReport
        /\ artifact' = [artifact EXCEPT ![Plan[step].file] = guestFile[Plan[step].file]]
        /\ UNCHANGED <<launch, guestFile>>
        /\ Record("pass")
     \/ /\ UNCHANGED artifact
        /\ \/ UNCHANGED <<launch, guestFile>>
           \/ launch = "none" /\ launch' \in {"ok", "failed"} /\ guestFile' = NoFiles
        /\ Record("fail")
  /\ UNCHANGED <<firmware, history>>

\* _verify_guest_tcb: the report against the host's values.
GuestTcbMatches(r) ==
  TcbFieldsMatch(r.reported, Reported) /\ TcbFieldsMatch(r.current, current)

\* verify_guest_report_lowered and _restored.  Reading either side may fail.
VerifyGuestReport(name, file, expectMatch) ==
  /\ At(name)
  /\ \/ Record(IF /\ artifact[file] # NoReport
                  /\ GuestTcbMatches(artifact[file])
                  /\ TcbFieldsMatch(Reported, current) = expectMatch
                 THEN "pass" ELSE "fail")
     \/ Record("fail")
  /\ UNCHANGED <<firmware, launch, files, history>>

VerifyLowered  == VerifyGuestReport("verify-lowered", "report", FALSE)
VerifyRestored == VerifyGuestReport("verify-restored", "report_after_reset", TRUE)

\* Whatever its age, a report is signed by the VCEK of its own ReportedTcb,
\* which the KDS may decline to serve.
VerifySignature ==
  /\ At("verify-signature")
  /\ \/ artifact["report"] # NoReport /\ Record("pass")
     \/ Record("fail")
  /\ UNCHANGED <<firmware, launch, files, history>>

\* A stop that fails keeps the launch.
StopVM ==
  /\ At("stop")
  /\ \/ launch # "none" /\ launch' = "none" /\ Record("pass")
     \/ UNCHANGED launch /\ Record("fail")
  /\ UNCHANGED <<firmware, files, history>>

\* verify_committed_equals_current
Gate ==
  /\ At("verify-committed-equals-current")
  /\ LET r == artifact["report_after_reset"]
     IN \/ r # NoReport /\ (TcbFieldsMatch(r.committed, r.current) \/ allow) /\ Record("pass")
        \/ Record("fail")
  /\ UNCHANGED <<firmware, launch, files, history>>

\* SNP_COMMIT raises the floor to CurrentTcb and drops the override; with
\* nothing to commit it changes nothing.  It too may be killed by a timeout.
CommitCurrentTcb ==
  /\ At("commit")
  /\ \/ /\ committed' = current
        /\ override' = IF committed = current THEN override ELSE NoOverride
        /\ \E r \in {"pass", "fail"} : Record(r)
     \/ UNCHANGED <<committed, override>> /\ Record("fail")
  /\ UNCHANGED <<flash, current, follows, launch, files, history>>

\* The finally block stops the guest and the test returns its verdict.
Return ==
  /\ running
  /\ step > Len(Plan)
  /\ running' = FALSE
  /\ launch' = "none"
  /\ UNCHANGED <<firmware, step, plat, allow, overall, runs, files, history>>

\* An exception, a signal or the service's timeout ends sev-verify.
Killed ==
  /\ running
  /\ running' = FALSE
  /\ overall' = "none"
  /\ launch' = "none"
  /\ UNCHANGED <<firmware, step, plat, allow, runs, files, history>>

Run ==
  \/ ShowTcb \/ ConfigSetLower \/ VerifyDiffer \/ Launch \/ GuestReport \/ PullReport
  \/ VerifyLowered \/ VerifySignature \/ ConfigReset \/ VerifyMatch \/ VerifyRestored
  \/ StopVM \/ Gate \/ CommitCurrentTcb \/ Return

----------------------------------------------------------------------------
(* The host between two runs *)

\* DOWNLOAD_FIRMWARE_EX loads an image that is not below the floor, which
\* includes the one committed before.
LoadFirmware(image) ==
  /\ ~running
  /\ Below(committed, image)
  /\ current' = image
  /\ UNCHANGED <<flash, committed, override, follows, loop, launch, files, history>>

\* The firmware is loaded from flash; its values start over.
Reboot ==
  /\ ~running
  /\ current' = flash
  /\ committed' = flash
  /\ override' = NoOverride
  /\ UNCHANGED <<flash, follows, loop, launch, files, history>>

----------------------------------------------------------------------------
Init ==
  /\ flash \in Installed
  /\ current = flash
  /\ committed = flash
  /\ override = NoOverride
  /\ follows \in {"current", "committed"}
  /\ running = FALSE
  /\ step = 1
  /\ plat = flash
  /\ allow = FALSE
  /\ overall = "none"
  /\ launch = "none"
  /\ guestFile = NoFiles
  /\ artifact = NoFiles
  /\ setIn = 0
  /\ failedResets = 0
  /\ runs = 0

Next ==
  \/ StartRun \/ LoadFails \/ Run \/ Killed
  \/ Reboot
  \/ \E image \in Provisional \cup Installed : LoadFirmware(image)

Spec == Init /\ [][Next]_vars

----------------------------------------------------------------------------
(* Properties *)

\* The run is past its clean-up: at the commit gate, or over with a verdict.
CleanedUp ==
  /\ overall \in {"pass", "fail"}
  /\ \/ step > Len(Plan)
     \/ At("verify-committed-equals-current") \/ At("commit")

\* Whether the gate passes or halts, the override that the run has set is
\* gone by then, unless both of its resets failed: the clean-up precedes the
\* gate, and nothing after a reset sets the override again.
LeftClean ==
  CleanedUp /\ override # NoOverride /\ setIn = runs => failedResets = 2

\* A run that passes has shown what it is for: its own two reports, the first
\* with the lowered value and an unchanged CurrentTcb, the second with the
\* restored value.  Artifacts of an earlier run, which every check accepts
\* when a pull fails, never carry a pass.
PassMeansExercised ==
  ~running /\ overall = "pass" =>
    /\ artifact["report"].run = runs
    /\ artifact["report"].reported = Lowered(plat)
    /\ artifact["report"].current = plat
    /\ artifact["report_after_reset"].run = runs
    /\ artifact["report_after_reset"].reported = plat

\* Without --allow-host-changes the commit raises the floor only when the gate
\* has read a report of an earlier run: within a run the gate is sound.
FloorGuarded ==
  [][running /\ ~allow /\ committed' # committed
       => artifact["report_after_reset"].run < runs]_vars

\* verify_committed_equals_current: "if Committed does not already equal
\* Current, committing would advance the floor and bless provisional firmware,
\* so this fails and the runner halts before the commit step -- unless
\* --allow-host-changes is set".
CommitNeverBlesses == [][running /\ ~allow => committed' = committed]_vars

=============================================================================
