-------------------------- MODULE TcbCommitProofs --------------------------
(***************************************************************************)
(* Proofs about TcbCommit, for every set of TCB fields and of firmware     *)
(* images and any number of runs: a verdict is reached with a clean host,  *)
(* a pass has exercised what the test is for, and within a run the commit  *)
(* gate guards the anti-rollback floor.                                    *)
(***************************************************************************)
EXTENDS TcbCommit, SequenceTheorems, WellFoundedInduction, TLAPS

\* A run has a verdict, or is on its way to one.
Verdict == running \/ overall \in {"pass", "fail"}

\* What a run starts from stays so: nobody loads firmware during a run.
RunState ==
  /\ running => 1 <= runs /\ CanLower(plat) /\ current = plat /\ overall \in {"pass", "fail"}
  /\ ~running /\ overall \in {"pass", "fail"} => step = 18

\* The two resets, counted along the plan, against the override of this run.
Cleaning ==
  /\ setIn <= runs
  /\ running /\ step <= 2 => setIn < runs
  /\ running /\ step <= 9 => failedResets = 0
  /\ running /\ step <= 15 => failedResets <= 1
  /\ Verdict /\ override # NoOverride /\ setIn = runs =>
       \/ step \in 3 .. 9
       \/ step \in 10 .. 15 /\ failedResets = 1
       \/ failedResets = 2

\* A report of this run is a report of the firmware as it is until the commit.
Dated(r) ==
  r # NoReport =>
    /\ r.run <= runs
    /\ running /\ step <= 17 /\ r.run = runs => r.committed = committed /\ r.current = current

ReportsDated == \A w \in Which : Dated(guestFile[w]) /\ Dated(artifact[w])

\* What the gate has read when the commit is next.
GateRead ==
  running /\ step = 17 /\ ~allow =>
    LET r == artifact["report_after_reset"]
    IN r # NoReport /\ TcbFieldsMatch(r.committed, r.current)

OfLowered(r)  == r.run = runs /\ r.reported = Lowered(plat) /\ r.current = plat
OfRestored(r) == r.run = runs /\ r.reported = plat

\* How far the exercise has come in a run without a failure.
Exercised ==
  overall = "pass" =>
    /\ step \in 3 .. 9 => override = Lowered(plat)
    /\ step \in 5 .. 14 => launch = "ok"
    /\ step = 6 => OfLowered(guestFile["report"])
    /\ step >= 7 => OfLowered(artifact["report"])
    /\ step = 10 => override = NoOverride
    /\ step = 11 => Reported = plat
    /\ step = 12 => OfRestored(guestFile["report_after_reset"])
    /\ step >= 13 => OfRestored(artifact["report_after_reset"])

IInv ==
  /\ TypeOK
  /\ RunState
  /\ Cleaning
  /\ ReportsDated
  /\ GateRead
  /\ Exercised

----------------------------------------------------------------------------
(* The plan *)

\* The steps of the plan, one by one.
LEMMA PlanSteps ==
  /\ Len(Plan) = 17
  /\ Plan[1]  = Op("show-tcb", "setup")
  /\ Plan[2]  = Op("config-set-lower", "required")
  /\ Plan[3]  = Op("verify-differ", "required")
  /\ Plan[4]  = Op("launch", "required")
  /\ Plan[5]  = GuestOp("guest-report", "required", "report")
  /\ Plan[6]  = GuestOp("pull-report", "required", "report")
  /\ Plan[7]  = Op("verify-lowered", "required")
  /\ Plan[8]  = Op("verify-signature", "required")
  /\ Plan[9]  = Op("config-reset", "required")
  /\ Plan[10] = Op("verify-match", "required")
  /\ Plan[11] = GuestOp("guest-report", "required", "report_after_reset")
  /\ Plan[12] = GuestOp("pull-report", "required", "report_after_reset")
  /\ Plan[13] = Op("verify-restored", "required")
  /\ Plan[14] = Op("stop", "info")
  /\ Plan[15] = Op("config-reset", "info")
  /\ Plan[16] = Op("verify-committed-equals-current", "setup")
  /\ Plan[17] = Op("commit", "required")
BY DEF Plan, Lowering, Restoring, CleaningUp, Committing, Op, GuestOp

\* Where a step of the plan is taken.
LEMMA Places ==
  ASSUME step \in 1 .. 18
  PROVE  /\ At("show-tcb") <=> running /\ step = 1
         /\ At("config-set-lower") <=> running /\ step = 2
         /\ At("verify-differ") <=> running /\ step = 3
         /\ At("launch") <=> running /\ step = 4
         /\ At("guest-report") <=> running /\ step \in {5, 11}
         /\ At("pull-report") <=> running /\ step \in {6, 12}
         /\ At("verify-lowered") <=> running /\ step = 7
         /\ At("verify-signature") <=> running /\ step = 8
         /\ At("config-reset") <=> running /\ step \in {9, 15}
         /\ At("verify-match") <=> running /\ step = 10
         /\ At("verify-restored") <=> running /\ step = 13
         /\ At("stop") <=> running /\ step = 14
         /\ At("verify-committed-equals-current") <=> running /\ step = 16
         /\ At("commit") <=> running /\ step = 17
<1>1. step \in {1, 2, 3, 4, 5, 6, 7, 8, 9, 10, 11, 12, 13, 14, 15, 16, 17, 18}
  OBVIOUS
<1> QED
  BY <1>1, PlanSteps DEF At, Op, GuestOp

\* The report file that a guest step or a pull is about.
LEMMA PlanFiles ==
  /\ Plan[5].file = "report" /\ Plan[6].file = "report"
  /\ Plan[11].file = "report_after_reset" /\ Plan[12].file = "report_after_reset"
BY PlanSteps DEF GuestOp

\* What an outcome does to the loop: only a failed setup step skips the rest,
\* and a run goes on without a failure only over passes and info steps.
Recorded(r) ==
  /\ running /\ running' /\ step \in 1 .. 17
  /\ step' = step + 1 \/ (step \in {1, 16} /\ step' = 18)
  /\ overall' \in {"pass", "fail"}
  /\ overall' = "pass" =>
       overall = "pass" /\ step' = step + 1 /\ (r = "pass" \/ step \in {14, 15})
  /\ UNCHANGED <<plat, allow, runs>>

\* Recording an outcome does that.
LEMMA Records ==
  ASSUME TypeOK, RunState, running, step <= 17, NEW r, Record(r)
  PROVE  Recorded(r)
<1>1. step \in 1 .. 17
  BY DEF TypeOK
<1>2. /\ Plan[step].type = "info" <=> step \in {14, 15}
      /\ Plan[step].type = "setup" <=> step \in {1, 16}
  <2>1. step \in {1, 2, 3, 4, 5, 6, 7, 8, 9, 10, 11, 12, 13, 14, 15, 16, 17}
    BY <1>1
  <2> QED
    BY <2>1, PlanSteps DEF Op, GuestOp
<1>3. overall \in {"pass", "fail"}
  BY DEF RunState
<1> QED
  BY <1>1, <1>2, <1>3, PlanSteps DEF Record, Recorded

----------------------------------------------------------------------------
(* TCB values *)

\* A set of naturals has a smallest element.
LEMMA SmallestOf ==
  ASSUME NEW T \in SUBSET Nat, T # {}
  PROVE  \E x \in T : \A y \in T : x <= y
<1>1. PICK x \in T : \A y \in T : ~ (<<y, x>> \in OpToRel(<, Nat))
  BY WFMin, NatLessThanWellFounded, Zenon
<1>2. ASSUME NEW y \in T
      PROVE  ~ (y < x)
  BY <1>1, Zenon DEF OpToRel
<1> QED
  BY <1>2

\* Values that match in every field are the same.
LEMMA MatchEqual ==
  ASSUME NEW a \in TCBs, NEW b \in TCBs, TcbFieldsMatch(a, b)
  PROVE  a = b
BY DEF TCBs, TcbFieldsMatch

\* A TCB that can be lowered is a TCB when it has been: the field that is
\* decremented is not zero.
LEMMA LoweredTyped ==
  ASSUME NEW t \in TCBs, CanLower(t)
  PROVE  Lowered(t) \in TCBs
<1> DEFINE NonZero == {k \in DOMAIN LowerOrder : t[LowerOrder[k]] > 0}
           IsFirst(k) == /\ t[LowerOrder[k]] > 0
                         /\ \A j \in 1 .. k - 1 : t[LowerOrder[j]] = 0
           first == CHOOSE k \in DOMAIN LowerOrder : IsFirst(k)
<1>1. \A k \in DOMAIN LowerOrder : LowerOrder[k] \in Fields /\ t[LowerOrder[k]] \in Nat
  BY TcbAssumption DEF TCBs
<1>2. DOMAIN LowerOrder = 1 .. Len(LowerOrder) /\ Len(LowerOrder) \in Nat
  BY TcbAssumption
<1>3. NonZero # {} /\ NonZero \in SUBSET Nat
  BY <1>2, TcbAssumption DEF CanLower
<1>4. \E k \in DOMAIN LowerOrder : IsFirst(k)
  <2>1. PICK k \in NonZero : \A j \in NonZero : k <= j
    <3> HIDE DEF NonZero
    <3> QED
      BY <1>3, SmallestOf
  <2>2. ASSUME NEW j \in 1 .. k - 1
        PROVE  t[LowerOrder[j]] = 0
    <3>1. j \in DOMAIN LowerOrder /\ ~ (k <= j)
      BY <1>2, <2>1
    <3>2. ~ (t[LowerOrder[j]] > 0)
      BY <2>1, <3>1
    <3> QED
      BY <1>1, <3>1, <3>2
  <2> QED
    BY <2>1, <2>2
<1>5. first \in DOMAIN LowerOrder /\ IsFirst(first)
  BY <1>4, Zenon
<1>6. Lowered(t) = [t EXCEPT ![LowerOrder[first]] = t[LowerOrder[first]] - 1]
  BY DEF Lowered
<1>7. t[LowerOrder[first]] - 1 \in Nat
  <2> HIDE DEF first
  <2> QED
    BY <1>1, <1>5
<1> HIDE DEF first
<1> QED
  BY <1>1, <1>5, <1>6, <1>7 DEF TCBs

\* What a guest reports is a report.
LEMMA ReportTyped ==
  ASSUME TypeOK
  PROVE  /\ Reported \in TCBs
         /\ RunState /\ running => Report \in Reports
BY TcbAssumption DEF TypeOK, Reported, Report, Reports, RunState

----------------------------------------------------------------------------
(* Classes of steps *)

\* The checks change nothing but the record.
Checks ==
  \/ ShowTcb \/ VerifyDiffer \/ VerifyMatch \/ VerifyLowered \/ VerifyRestored
  \/ VerifySignature \/ Gate

\* The steps of the plan.
InPlan ==
  Checks \/ ConfigSetLower \/ Launch \/ GuestReport \/ PullReport \/ ConfigReset \/ StopVM
  \/ CommitCurrentTcb

\* So they leave firmware, launch, files and history as they are.
LEMMA ChecksLeave == Checks => UNCHANGED <<firmware, launch, files, history>>
BY DEF Checks, ShowTcb, VerifyDiffer, VerifyMatch, VerifyLowered, VerifyRestored,
       VerifyGuestReport, VerifySignature, Gate

\* The steps of Next.
LEMMA Steps ==
  ASSUME Next
  PROVE  \/ InPlan
         \/ StartRun \/ LoadFails \/ Return \/ Killed \/ Reboot
         \/ \E image \in Provisional \cup Installed : LoadFirmware(image)
BY DEF Next, Run, InPlan, Checks

\* The action that takes each step of the plan.
LEMMA StepActions ==
  ASSUME TypeOK, InPlan
  PROVE  /\ running /\ step \in 1 .. 17
         /\ step = 1 => ShowTcb
         /\ step = 2 => ConfigSetLower
         /\ step = 3 => VerifyDiffer
         /\ step = 4 => Launch
         /\ step \in {5, 11} => GuestReport
         /\ step \in {6, 12} => PullReport
         /\ step = 7 => VerifyLowered
         /\ step = 8 => VerifySignature
         /\ step \in {9, 15} => ConfigReset
         /\ step = 10 => VerifyMatch
         /\ step = 13 => VerifyRestored
         /\ step = 14 => StopVM
         /\ step = 16 => Gate
         /\ step = 17 => CommitCurrentTcb
<1>1. step \in 1 .. 18
  BY DEF TypeOK
<1>2. /\ ShowTcb => step = 1 /\ running
      /\ ConfigSetLower => step = 2 /\ running
      /\ VerifyDiffer => step = 3 /\ running
      /\ Launch => step = 4 /\ running
      /\ GuestReport => step \in {5, 11} /\ running
      /\ PullReport => step \in {6, 12} /\ running
      /\ VerifyLowered => step = 7 /\ running
      /\ VerifySignature => step = 8 /\ running
      /\ ConfigReset => step \in {9, 15} /\ running
      /\ VerifyMatch => step = 10 /\ running
      /\ VerifyRestored => step = 13 /\ running
      /\ StopVM => step = 14 /\ running
      /\ Gate => step = 16 /\ running
      /\ CommitCurrentTcb => step = 17 /\ running
  BY <1>1, Places
     DEF ShowTcb, VerifyDiffer, VerifyMatch, VerifyLowered, VerifyRestored, VerifyGuestReport,
         VerifySignature, Gate, ConfigSetLower, Launch, GuestReport, PullReport, ConfigReset,
         StopVM, CommitCurrentTcb
<1> QED
  BY <1>2 DEF InPlan, Checks

\* A step of the plan records an outcome.
LEMMA PlanRecords ==
  ASSUME TypeOK, RunState, InPlan
  PROVE  \E r : Recorded(r)
<1>1. running /\ step <= 17
  BY StepActions
<1>2. \E r : Record(r)
  BY DEF InPlan, Checks, ShowTcb, VerifyDiffer, VerifyMatch, VerifyLowered, VerifyRestored,
         VerifyGuestReport, VerifySignature, Gate, ConfigSetLower, Launch, GuestReport,
         PullReport, ConfigReset, StopVM, CommitCurrentTcb
<1> QED
  BY <1>1, <1>2, Records

----------------------------------------------------------------------------
(* The conjuncts of the invariant over a step *)

\* Type correctness of the files and of the launch over the steps that touch them.
LEMMA FilesTyped ==
  ASSUME TypeOK, RunState, Launch \/ GuestReport \/ PullReport
  PROVE  /\ launch' \in {"none", "ok", "failed"}
         /\ guestFile' \in [Which -> Reports \cup {NoReport}]
         /\ artifact' \in [Which -> Reports \cup {NoReport}]
<1>1. step \in 1 .. 18
  BY DEF TypeOK
<1>2. NoFiles \in [Which -> Reports \cup {NoReport}]
  BY DEF NoFiles
<1>3. CASE Launch
  BY <1>2, <1>3 DEF Launch, TypeOK
<1>4. CASE GuestReport
  <2>1. running /\ Plan[step].file \in Which
    BY <1>1, <1>4, Places, PlanFiles DEF GuestReport, Which
  <2>2. Report \in Reports
    BY <2>1, ReportTyped
  <2> DEFINE had == IF launch = "none" THEN NoFiles ELSE guestFile
             written == [had EXCEPT ![Plan[step].file] = Report]
  <2>3. had \in [Which -> Reports \cup {NoReport}]
    BY <1>2 DEF TypeOK
  <2>4. written \in [Which -> Reports \cup {NoReport}]
    <3> HIDE DEF had
    <3> QED
      BY <2>1, <2>2, <2>3
  <2>5. /\ guestFile' \in {had, written} /\ artifact' = artifact
        /\ launch' \in {"none", "failed", "ok", launch}
    BY <1>4 DEF GuestReport
  <2> HIDE DEF had, written
  <2> QED
    BY <2>3, <2>4, <2>5 DEF TypeOK
<1>5. CASE PullReport
  <2>1. Plan[step].file \in Which
    BY <1>1, <1>5, Places, PlanFiles DEF PullReport, Which
  <2> QED
    BY <1>2, <1>5, <2>1 DEF PullReport, TypeOK
<1> QED
  BY <1>3, <1>4, <1>5

\* Every step keeps the types.
LEMMA TypeKept ==
  ASSUME TypeOK, RunState, Cleaning, Next
  PROVE  TypeOK'
<1>1. CASE InPlan
  <2>1. PICK r : Recorded(r)
    BY <1>1, PlanRecords
  <2>2. step' \in 1 .. 18 /\ overall' \in {"pass", "fail"} /\ running' \in BOOLEAN
        /\ UNCHANGED <<plat, allow, runs>> /\ running
    BY <2>1 DEF Recorded, TypeOK
  <2>3. CASE Checks
    <3>1. UNCHANGED <<firmware, launch, files, history>>
      BY <2>3, ChecksLeave
    <3> QED
      BY <2>2, <3>1 DEF TypeOK, firmware, files, history
  <2>4. CASE ConfigSetLower
    <3>1. Lowered(plat) \in TCBs
      BY <2>2, LoweredTyped DEF TypeOK, RunState
    <3>2. /\ override' \in TCBs \cup {NoOverride} /\ setIn' \in {setIn, runs}
          /\ UNCHANGED <<flash, current, committed, follows, launch, files, failedResets>>
      BY <2>4, <3>1 DEF ConfigSetLower, TypeOK
    <3> QED
      BY <2>2, <3>2 DEF TypeOK, files
  <2>5. CASE Launch \/ GuestReport \/ PullReport
    <3>1. UNCHANGED <<firmware, history>>
      BY <2>5 DEF Launch, GuestReport, PullReport
    <3> QED
      BY <2>2, <2>5, <3>1, FilesTyped DEF TypeOK, firmware, history
  <2>6. CASE ConfigReset
    <3>1. step \in {9, 15}
      BY <2>6, Places DEF ConfigReset, TypeOK
    <3>2. /\ override' \in {override, NoOverride}
          /\ failedResets' \in {failedResets, failedResets + 1}
          /\ UNCHANGED <<flash, current, committed, follows, setIn, launch, files>>
      BY <2>6 DEF ConfigReset
    <3>3. failedResets' \in 0 .. 2
      BY <2>2, <3>1, <3>2 DEF TypeOK, Cleaning
    <3> QED
      BY <2>2, <3>2, <3>3 DEF TypeOK, files
  <2>7. CASE StopVM
    BY <2>2, <2>7 DEF StopVM, TypeOK, firmware, files, history
  <2>8. CASE CommitCurrentTcb
    <3>1. committed' \in {committed, current} /\ override' \in {override, NoOverride}
          /\ UNCHANGED <<flash, current, follows, launch, files, history>>
      BY <2>8 DEF CommitCurrentTcb
    <3> QED
      BY <2>2, <3>1 DEF TypeOK, files, history
  <2> QED
    BY <1>1, <2>3, <2>4, <2>5, <2>6, <2>7, <2>8 DEF InPlan
<1>2. CASE StartRun \/ LoadFails
  <2>1. runs' \in 0 .. MaxRuns
    BY <1>2, TcbAssumption DEF StartRun, LoadFails, TypeOK
  <2>2. CASE StartRun
    BY <2>1, <2>2 DEF StartRun, TypeOK, firmware, files
  <2>3. CASE LoadFails
    BY <2>1, <2>3 DEF LoadFails, TypeOK, firmware, files, history
  <2> QED
    BY <1>2, <2>2, <2>3
<1>3. CASE Return \/ Killed
  BY <1>3 DEF Return, Killed, TypeOK, firmware, files, history
<1>4. CASE Reboot
  BY <1>4 DEF Reboot, TypeOK, loop, files, history
<1>5. CASE \E image \in Provisional \cup Installed : LoadFirmware(image)
  BY <1>5, TcbAssumption DEF LoadFirmware, TypeOK, loop, files, history
<1> QED
  BY <1>1, <1>2, <1>3, <1>4, <1>5, Steps

\* The state of a run is what it started from.
LEMMA RunStateKept ==
  ASSUME TypeOK, RunState, Next
  PROVE  RunState'
<1>1. CASE InPlan
  <2>1. PICK r : Recorded(r)
    BY <1>1, PlanRecords
  <2>2. UNCHANGED current
    BY <1>1, ChecksLeave
       DEF InPlan, ConfigSetLower, Launch, GuestReport, PullReport, ConfigReset, StopVM,
           CommitCurrentTcb, firmware
  <2> QED
    BY <2>1, <2>2 DEF Recorded, RunState, CanLower
<1>2. CASE StartRun
  <2>1. running' /\ runs' = runs + 1 /\ plat' = current /\ current' = current
        /\ overall' = "pass" /\ CanLower(current)
    BY <1>2 DEF StartRun, firmware
  <2>2. 1 <= runs'
    BY <2>1 DEF TypeOK
  <2> QED
    BY <2>1, <2>2 DEF RunState, CanLower
<1>3. CASE LoadFails
  BY <1>3 DEF LoadFails, RunState
<1>4. CASE Return
  <2>1. step = 18
    BY <1>4, PlanSteps DEF Return, TypeOK
  <2> QED
    BY <1>4, <2>1 DEF Return, RunState
<1>5. CASE Killed
  BY <1>5 DEF Killed, RunState
<1>6. CASE Reboot \/ \E image \in Provisional \cup Installed : LoadFirmware(image)
  BY <1>6 DEF Reboot, LoadFirmware, loop, RunState
<1> QED
  BY <1>1, <1>2, <1>3, <1>4, <1>5, <1>6, Steps

\* The override of a run outlives the two resets only if both of them fail.
LEMMA CleaningKept ==
  ASSUME TypeOK, RunState, Cleaning, Next
  PROVE  Cleaning'
<1>1. step \in 1 .. 18 /\ failedResets \in 0 .. 2 /\ setIn \in Int /\ runs \in Int
  BY TcbAssumption DEF TypeOK
<1>2. CASE InPlan
  <2>1. PICK r : Recorded(r)
    BY <1>2, PlanRecords
  <2>2. CASE ConfigSetLower
    <3>1. step = 2 /\ failedResets' = failedResets /\ setIn' \in {setIn, runs}
      BY <1>1, <2>2, Places DEF ConfigSetLower
    <3> QED
      BY <1>1, <2>1, <3>1 DEF Recorded, Cleaning
  <2>3. CASE ConfigReset
    <3>1. /\ step \in {9, 15} /\ setIn' = setIn
          /\ \/ override' = NoOverride /\ failedResets' = failedResets
             \/ override' = override /\ failedResets' = failedResets + 1
      BY <1>1, <2>3, Places DEF ConfigReset
    <3> QED
      BY <1>1, <2>1, <3>1 DEF Recorded, Cleaning, Verdict
  <2>4. CASE CommitCurrentTcb
    <3>1. /\ step = 17 /\ UNCHANGED <<setIn, failedResets>>
          /\ override' = override \/ override' = NoOverride
      BY <1>1, <2>4, Places DEF CommitCurrentTcb, history
    <3> QED
      BY <1>1, <2>1, <3>1 DEF Recorded, Cleaning, Verdict
  <2>5. CASE Checks \/ Launch \/ GuestReport \/ PullReport \/ StopVM
    <3>1. UNCHANGED <<override, setIn, failedResets>>
      BY <2>5, ChecksLeave DEF Launch, GuestReport, PullReport, StopVM, firmware, history
    <3>2. step \notin {2, 9, 15} \/ ConfigSetLower \/ ConfigReset
      BY <1>2, StepActions
    <3> QED
      BY <1>1, <2>1, <2>2, <2>3, <3>1, <3>2 DEF Recorded, Cleaning, Verdict
  <2> QED
    BY <1>2, <2>2, <2>3, <2>4, <2>5 DEF InPlan
<1>3. CASE StartRun
  <2>1. runs' = runs + 1 /\ setIn' = setIn /\ failedResets' = 0
    BY <1>3 DEF StartRun
  <2> QED
    BY <1>1, <2>1 DEF Cleaning
<1>4. CASE LoadFails
  <2>1. runs' = runs + 1 /\ setIn' = setIn /\ ~running' /\ overall' = "error"
    BY <1>4 DEF LoadFails, history
  <2> QED
    BY <1>1, <2>1 DEF Cleaning, Verdict
<1>5. CASE Return
  BY <1>5 DEF Return, firmware, history, Cleaning, Verdict
<1>6. CASE Killed
  BY <1>6 DEF Killed, history, Cleaning, Verdict
<1>7. CASE Reboot
  BY <1>7 DEF Reboot, loop, history, Cleaning, Verdict
<1>8. CASE \E image \in Provisional \cup Installed : LoadFirmware(image)
  BY <1>8 DEF LoadFirmware, loop, history, Cleaning, Verdict
<1> QED
  BY <1>2, <1>3, <1>4, <1>5, <1>6, <1>7, <1>8, Steps

\* What a step of the plan leaves alone.
LEMMA PlanLeaves ==
  ASSUME TypeOK, RunState, InPlan
  PROVE  /\ UNCHANGED <<current, plat, runs, follows>>
         /\ ~CommitCurrentTcb => UNCHANGED committed /\ step <= 16
         /\ ~(Launch \/ GuestReport \/ PullReport) => UNCHANGED files
<1>1. PICK r : Recorded(r)
  BY PlanRecords
<1>2. UNCHANGED <<current, follows>>
  BY ChecksLeave
     DEF InPlan, ConfigSetLower, Launch, GuestReport, PullReport, ConfigReset, StopVM,
         CommitCurrentTcb, firmware
<1>3. ~CommitCurrentTcb => UNCHANGED committed
  BY ChecksLeave
     DEF InPlan, ConfigSetLower, Launch, GuestReport, PullReport, ConfigReset, StopVM, firmware
<1>4. ~CommitCurrentTcb => step <= 16
  BY StepActions
<1>5. ~(Launch \/ GuestReport \/ PullReport) => UNCHANGED files
  BY ChecksLeave
     DEF InPlan, ConfigSetLower, ConfigReset, StopVM, CommitCurrentTcb
<1> QED
  BY <1>1, <1>2, <1>3, <1>4, <1>5 DEF Recorded

\* Where the content of the files comes from.
LEMMA FileSources ==
  ASSUME TypeOK, Launch \/ GuestReport \/ PullReport, NEW w \in Which
  PROVE  /\ guestFile'[w] \in {guestFile[w], NoReport, Report}
         /\ artifact'[w] \in {artifact[w], guestFile[w]}
<1>1. step \in 1 .. 18
  BY DEF TypeOK
<1>2. NoFiles[w] = NoReport
  BY DEF NoFiles
<1>3. CASE Launch
  BY <1>2, <1>3 DEF Launch
<1>4. CASE GuestReport
  <2>1. Plan[step].file \in Which
    BY <1>1, <1>4, Places, PlanFiles DEF GuestReport, Which
  <2> DEFINE had == IF launch = "none" THEN NoFiles ELSE guestFile
             written == [had EXCEPT ![Plan[step].file] = Report]
  <2>2. had \in [Which -> Reports \cup {NoReport}] /\ had[w] \in {guestFile[w], NoReport}
    BY <1>2 DEF TypeOK, NoFiles
  <2>3. written[w] \in {had[w], Report}
    <3> HIDE DEF had
    <3> QED
      BY <2>1, <2>2
  <2>4. guestFile' \in {had, written} /\ artifact' = artifact
    BY <1>4 DEF GuestReport
  <2> HIDE DEF had, written
  <2> QED
    BY <2>2, <2>3, <2>4
<1>5. CASE PullReport
  <2>1. Plan[step].file \in Which
    BY <1>1, <1>5, Places, PlanFiles DEF PullReport, Which
  <2> QED
    BY <1>2, <1>5, <2>1 DEF PullReport, TypeOK
<1> QED
  BY <1>3, <1>4, <1>5

\* Reports of this run stay true of the firmware until the commit.
LEMMA ReportsDatedKept ==
  ASSUME TypeOK, RunState, ReportsDated, Next
  PROVE  ReportsDated'
<1>1. runs \in Int
  BY TcbAssumption DEF TypeOK
<1>2. \A w \in Which : /\ guestFile[w] # NoReport => guestFile[w].run \in Int
                       /\ artifact[w] # NoReport => artifact[w].run \in Int
  BY TcbAssumption DEF TypeOK, Reports
<1>3. CASE InPlan /\ ~CommitCurrentTcb
  <2>1. PICK r : Recorded(r)
    BY <1>3, PlanRecords
  <2>2. UNCHANGED <<current, committed, runs>> /\ running /\ step <= 17
    BY <1>3, <2>1, PlanLeaves DEF Recorded
  <2>3. \A x : Dated(x) => Dated(x)'
    BY <2>2 DEF Dated
  <2>4. Dated(Report)
    BY <1>1 DEF Dated, Report
  <2>5. Dated(NoReport)
    BY DEF Dated
  <2>6. CASE Launch \/ GuestReport \/ PullReport
    <3>1. ASSUME NEW w \in Which
          PROVE  Dated(guestFile'[w]) /\ Dated(artifact'[w])
      BY <2>4, <2>5, <2>6, FileSources DEF ReportsDated
    <3> QED
      BY <2>2, <3>1 DEF ReportsDated, Dated
  <2>7. CASE ~(Launch \/ GuestReport \/ PullReport)
    <3>1. UNCHANGED files
      BY <1>3, <2>7, PlanLeaves
    <3> QED
      BY <2>2, <3>1 DEF ReportsDated, Dated, files
  <2> QED
    BY <2>6, <2>7
<1>4. CASE CommitCurrentTcb
  <2>1. PICK r : Recorded(r)
    BY <1>4, PlanRecords DEF InPlan
  <2>2. step = 17 /\ UNCHANGED <<runs, files>>
    BY <1>4, <2>1, Places DEF TypeOK, CommitCurrentTcb, Recorded
  <2>3. ~(step' <= 17)
    BY <2>1, <2>2 DEF Recorded
  <2> QED
    BY <2>2, <2>3 DEF ReportsDated, Dated, files
<1>5. CASE StartRun
  BY <1>1, <1>2, <1>5 DEF StartRun, ReportsDated, Dated, files
<1>6. CASE LoadFails
  BY <1>1, <1>2, <1>6 DEF LoadFails, ReportsDated, Dated, files
<1>7. CASE Return \/ Killed
  BY <1>7 DEF Return, Killed, ReportsDated, Dated, files
<1>8. CASE Reboot \/ \E image \in Provisional \cup Installed : LoadFirmware(image)
  BY <1>8 DEF Reboot, LoadFirmware, loop, ReportsDated, Dated, files
<1> QED
  BY <1>3, <1>4, <1>5, <1>6, <1>7, <1>8, Steps DEF InPlan

\* A failure that is recorded ends the exercise, but for an info step.
LEMMA FailureEnds ==
  ASSUME TypeOK, RunState, running, step <= 17, step \notin {14, 15}, Record("fail")
  PROVE  overall' # "pass"
BY Records DEF Recorded

\* Only the gate lets a run without --allow-host-changes come to the commit.
LEMMA GateReadKept ==
  ASSUME TypeOK, RunState, GateRead, Next
  PROVE  GateRead'
<1>1. SUFFICES ASSUME running', step' = 17, ~allow'
               PROVE  LET r == artifact'["report_after_reset"]
                      IN r # NoReport /\ TcbFieldsMatch(r.committed, r.current)
  BY DEF GateRead, TcbFieldsMatch
<1>2. CASE InPlan
  <2>1. PICK r : Recorded(r)
    BY <1>2, PlanRecords
  <2>2. step = 16 /\ running /\ ~allow
    BY <1>1, <2>1 DEF Recorded
  <2>3. Gate
    BY <1>2, <2>2, StepActions
  <2>4. ~Record("fail")
    BY <1>1, <2>2, PlanSteps DEF Record, Op
  <2> QED
    BY <2>2, <2>3, <2>4 DEF Gate, files
<1>3. CASE ~InPlan
  <2>1. CASE StartRun
    BY <1>1, <2>1 DEF StartRun
  <2>2. CASE ~StartRun
    <3>1. running' = FALSE \/ (~running /\ running' = running)
      BY <1>3, <2>2, Steps DEF LoadFails, Return, Killed, Reboot, LoadFirmware, loop
    <3> QED
      BY <1>1, <3>1
  <2> QED
    BY <2>1, <2>2
<1> QED
  BY <1>2, <1>3

\* The exercise of a run, along the plan: each of its passes adds what the next
\* ones and the verdict rest on.
LEMMA ExercisedInPlan ==
  ASSUME TypeOK, RunState, Exercised, InPlan
  PROVE  Exercised'
<1>1. SUFFICES ASSUME overall' = "pass" PROVE Exercised'
  BY DEF Exercised
<1>2. PICK r : Recorded(r)
  BY PlanRecords
<1>3. /\ overall = "pass" /\ running /\ step' = step + 1 /\ step \in 1 .. 17
      /\ UNCHANGED <<plat, runs, current, follows>>
      /\ step \notin {14, 15} => ~Record("fail")
  BY <1>1, <1>2, PlanLeaves, FailureEnds DEF Recorded
<1>4. plat = current /\ plat \in TCBs /\ Lowered(plat) \in TCBs /\ Lowered(plat) # NoOverride
      /\ Lowered(plat)' = Lowered(plat)
  BY <1>3, LoweredTyped, TcbAssumption DEF TypeOK, RunState, Lowered
<1>5. Which = {"report", "report_after_reset"}
  BY DEF Which
<1>6. CASE step \in 7 .. 17
  <2>1. /\ OfLowered(artifact["report"])'
        /\ step >= 13 => OfRestored(artifact["report_after_reset"])'
    <3>1. /\ OfLowered(artifact["report"])
          /\ step >= 13 => OfRestored(artifact["report_after_reset"])
      BY <1>3, <1>6 DEF Exercised
    <3>2. artifact'["report"] = artifact["report"]
          /\ (step # 12 => artifact' = artifact)
      <4>1. CASE Launch \/ GuestReport
        BY <4>1 DEF Launch, GuestReport
      <4>2. CASE PullReport
        <5>1. step = 12
          BY <1>3, <1>6, <4>2, Places DEF PullReport, TypeOK
        <5>2. artifact' \in {artifact, [artifact EXCEPT !["report_after_reset"]
                                             = guestFile["report_after_reset"]]}
          BY <4>2, <5>1, PlanFiles DEF PullReport
        <5> QED
          BY <1>5, <5>1, <5>2 DEF TypeOK
      <4>3. CASE ~(Launch \/ GuestReport \/ PullReport)
        BY <4>3, PlanLeaves DEF files
      <4> QED
        BY <4>1, <4>2, <4>3
    <3> QED
      BY <1>3, <1>4, <3>1, <3>2 DEF OfLowered, OfRestored
  <2>2. step = 9 => override' = NoOverride
    BY <1>3, StepActions DEF ConfigReset
  <2>3. step = 10 => Reported' = plat
    <3>1. SUFFICES ASSUME step = 10 PROVE Reported' = plat
      OBVIOUS
    <3>2. VerifyMatch
      BY <3>1, StepActions
    <3>3. TcbFieldsMatch(Reported, current) /\ UNCHANGED firmware
      BY <1>3, <3>1, <3>2 DEF VerifyMatch
    <3>4. Reported = current
      BY <3>3, MatchEqual, ReportTyped DEF TypeOK
    <3> QED
      BY <1>4, <3>3, <3>4 DEF Reported, firmware
  <2>4. step = 11 => OfRestored(guestFile["report_after_reset"])'
    <3>1. SUFFICES ASSUME step = 11 PROVE OfRestored(guestFile["report_after_reset"])'
      OBVIOUS
    <3>2. GuestReport
      BY <3>1, StepActions
    <3>3. launch = "ok" /\ Reported = plat
      BY <1>3, <3>1 DEF Exercised
    <3>4. guestFile' = [guestFile EXCEPT !["report_after_reset"] = Report]
      BY <1>3, <3>1, <3>2, <3>3, PlanFiles DEF GuestReport
    <3>5. guestFile'["report_after_reset"] = Report
      BY <1>5, <3>4 DEF TypeOK
    <3> QED
      BY <1>3, <3>3, <3>5 DEF OfRestored, Report
  <2>5. step = 12 => OfRestored(artifact["report_after_reset"])'
    <3>1. SUFFICES ASSUME step = 12 PROVE OfRestored(artifact["report_after_reset"])'
      OBVIOUS
    <3>2. PullReport
      BY <3>1, StepActions
    <3>3. OfRestored(guestFile["report_after_reset"])
      BY <1>3, <3>1 DEF Exercised
    <3>4. artifact'["report_after_reset"] = guestFile["report_after_reset"]
      BY <1>3, <1>5, <3>1, <3>2, PlanFiles DEF PullReport, TypeOK
    <3> QED
      BY <1>3, <3>3, <3>4 DEF OfRestored
  <2>6. step \in 7 .. 8 => override' = override
    BY StepActions, ChecksLeave DEF Checks, firmware
  <2>7. step \in 7 .. 13 => launch' = "ok"
    <3>1. SUFFICES ASSUME step \in 7 .. 13 PROVE launch' = "ok"
      OBVIOUS
    <3>2. launch = "ok"
      BY <1>3, <3>1 DEF Exercised
    <3> QED
      <4>1. Checks \/ ConfigReset \/ GuestReport \/ PullReport
        BY <3>1, StepActions DEF Checks
      <4> QED
        BY <1>3, <3>1, <3>2, <4>1, ChecksLeave DEF ConfigReset, GuestReport, PullReport
  <2> QED
    BY <1>3, <1>4, <1>6, <2>1, <2>2, <2>3, <2>4, <2>5, <2>6, <2>7 DEF Exercised
<1>7. CASE step \in 1 .. 6
  <2>1. step = 2 => override' = Lowered(plat)
    BY <1>3, StepActions DEF ConfigSetLower
  <2>2. step \in 3 .. 6 => override' = Lowered(plat)
    <3>1. SUFFICES ASSUME step \in 3 .. 6 PROVE override' = Lowered(plat)
      OBVIOUS
    <3>2. override = Lowered(plat)
      BY <1>3, <3>1 DEF Exercised
    <3> QED
      BY <1>3, <3>1, <3>2, StepActions
         DEF VerifyDiffer, Launch, GuestReport, PullReport, firmware
  <2>3. step = 4 => launch' = "ok"
    BY <1>3, StepActions DEF Launch
  <2>4. step = 5 => launch' = "ok" /\ OfLowered(guestFile["report"])'
    <3>1. SUFFICES ASSUME step = 5 PROVE launch' = "ok" /\ OfLowered(guestFile["report"])'
      OBVIOUS
    <3>2. GuestReport
      BY <3>1, StepActions
    <3>3. launch = "ok" /\ override = Lowered(plat)
      BY <1>3, <3>1 DEF Exercised
    <3>4. launch' = "ok" /\ guestFile' = [guestFile EXCEPT !["report"] = Report]
      BY <1>3, <3>1, <3>2, <3>3, PlanFiles DEF GuestReport
    <3>5. guestFile'["report"] = Report
      BY <1>5, <3>4 DEF TypeOK
    <3>6. Reported = Lowered(plat)
      BY <1>4, <3>3 DEF Reported
    <3> QED
      BY <1>3, <1>4, <3>4, <3>5, <3>6 DEF OfLowered, Report
  <2>5. step = 6 => launch' = "ok" /\ OfLowered(artifact["report"])'
    <3>1. SUFFICES ASSUME step = 6 PROVE launch' = "ok" /\ OfLowered(artifact["report"])'
      OBVIOUS
    <3>2. PullReport
      BY <3>1, StepActions
    <3>3. OfLowered(guestFile["report"])
      BY <1>3, <3>1 DEF Exercised
    <3>4. launch' = "ok" /\ artifact'["report"] = guestFile["report"]
      BY <1>3, <1>5, <3>1, <3>2, PlanFiles DEF PullReport, TypeOK
    <3> QED
      BY <1>3, <1>4, <3>3, <3>4 DEF OfLowered
  <2> QED
    BY <1>3, <1>4, <1>7, <2>1, <2>2, <2>3, <2>4, <2>5 DEF Exercised
<1> QED
  BY <1>3, <1>6, <1>7

\* Every step keeps what has been exercised.
LEMMA ExercisedKept ==
  ASSUME TypeOK, RunState, Exercised, Next
  PROVE  Exercised'
<1>1. CASE InPlan
  BY <1>1, ExercisedInPlan
<1>2. CASE StartRun
  BY <1>2 DEF StartRun, Exercised
<1>3. CASE LoadFails \/ Killed
  BY <1>3 DEF LoadFails, Killed, Exercised
<1>4. CASE Return
  <2>1. step = 18
    BY <1>4, PlanSteps DEF Return, TypeOK
  <2> QED
    BY <1>4, <2>1 DEF Return, Exercised, OfLowered, OfRestored, Lowered, files
<1>5. CASE Reboot \/ \E image \in Provisional \cup Installed : LoadFirmware(image)
  <2>1. ~running /\ UNCHANGED <<step, plat, overall, runs, artifact>>
    BY <1>5 DEF Reboot, LoadFirmware, loop, files
  <2>2. overall = "pass" => step = 18
    BY <2>1 DEF RunState
  <2> QED
    BY <2>1, <2>2 DEF Exercised, OfLowered, OfRestored, Lowered
<1> QED
  BY <1>1, <1>2, <1>3, <1>4, <1>5, Steps

----------------------------------------------------------------------------
(* The inductive invariant *)

\* It holds at the start.
LEMMA InitIInv == Init => IInv
<1> SUFFICES ASSUME Init PROVE IInv
  OBVIOUS
<1>1. TypeOK
  <2>1. /\ {flash, current, committed, plat} \subseteq TCBs
        /\ runs \in 0 .. MaxRuns /\ setIn \in 0 .. MaxRuns
    BY TcbAssumption DEF Init
  <2>2. NoFiles \in [Which -> Reports \cup {NoReport}]
    BY DEF NoFiles
  <2>3. step \in 1 .. 18 /\ failedResets \in 0 .. 2
    BY DEF Init
  <2>4. running \in BOOLEAN /\ allow \in BOOLEAN
    BY Zenon DEF Init
  <2>5. overall \in {"none", "pass", "fail", "error"} /\ launch \in {"none", "ok", "failed"}
    BY DEF Init
  <2> QED
    BY <2>1, <2>2, <2>3, <2>4, <2>5, Zenon DEF Init, TypeOK
<1>2. \A w \in Which : Dated(guestFile[w]) /\ Dated(artifact[w])
  BY DEF Init, NoFiles, Dated
<1> QED
  BY <1>1, <1>2 DEF Init, IInv, RunState, Cleaning, Verdict, ReportsDated, GateRead, Exercised

\* Every step keeps it.
LEMMA NextIInv == IInv /\ [Next]_vars => IInv'
<1> SUFFICES ASSUME IInv, [Next]_vars PROVE IInv'
  OBVIOUS
<1>1. CASE Next
  BY <1>1, TypeKept, RunStateKept, CleaningKept, ReportsDatedKept, GateReadKept, ExercisedKept
     DEF IInv
<1>2. CASE UNCHANGED vars
  <2>1. UNCHANGED <<flash, current, committed, override, follows, running, step, plat, allow,
                    overall, runs, launch, guestFile, artifact, setIn, failedResets>>
    BY <1>2 DEF vars, firmware, loop, files, history
  <2>2. TypeOK' /\ RunState' /\ Cleaning'
    BY <2>1 DEF IInv, TypeOK, RunState, CanLower, Cleaning, Verdict
  <2>3. ReportsDated'
    BY <2>1 DEF IInv, ReportsDated, Dated
  <2>4. GateRead'
    BY <2>1 DEF IInv, GateRead, TcbFieldsMatch
  <2>5. Exercised'
    BY <2>1 DEF IInv, Exercised, OfLowered, OfRestored, Lowered, Reported
  <2> QED
    BY <2>2, <2>3, <2>4, <2>5 DEF IInv
<1> QED
  BY <1>1, <1>2

\* It holds of every behaviour.
THEOREM Invariance == Spec => []IInv
BY InitIInv, NextIInv, PTL DEF Spec

----------------------------------------------------------------------------
(* Results *)

\* The test's state is typed: no field of a TCB is ever lowered below zero, and
\* a run resets the configuration at most twice.
THEOREM TypeCorrect == Spec => []TypeOK
<1>1. IInv => TypeOK
  BY DEF IInv
<1> QED
  BY <1>1, Invariance, PTL

\* A run that is past its clean-up has left its override in place only if both
\* of its resets have failed.
THEOREM CleansUp == Spec => []LeftClean
<1>1. IInv => LeftClean
  <2> SUFFICES ASSUME IInv, CleanedUp, override # NoOverride, setIn = runs
               PROVE  failedResets = 2
    BY DEF LeftClean
  <2>1. step \in 16 .. 18
    BY Places, PlanSteps DEF IInv, TypeOK, CleanedUp
  <2>2. Verdict
    BY DEF CleanedUp, Verdict
  <2> QED
    BY <2>1, <2>2 DEF IInv, Cleaning
<1> QED
  BY <1>1, Invariance, PTL

\* A pass is earned by the run's own two reports.
THEOREM PassIsEarned == Spec => []PassMeansExercised
<1>1. IInv => PassMeansExercised
  BY DEF IInv, RunState, Exercised, OfLowered, OfRestored, PassMeansExercised
<1> QED
  BY <1>1, Invariance, PTL

\* Without --allow-host-changes only the report of an earlier run can let the
\* commit raise the floor.
THEOREM GateGuardsFloor == Spec => FloorGuarded
<1>1. IInv /\ [Next]_vars =>
        [running /\ ~allow /\ committed' # committed
           => artifact["report_after_reset"].run < runs]_vars
  <2> SUFFICES ASSUME IInv, Next, running, ~allow, committed' # committed
               PROVE  artifact["report_after_reset"].run < runs
    BY DEF vars, firmware
  <2> DEFINE seen == artifact["report_after_reset"]
  <2>1. CommitCurrentTcb
    <3>1. InPlan
      BY Steps DEF StartRun, LoadFails, Return, Killed, Reboot, LoadFirmware, firmware
    <3> QED
      BY <3>1, PlanLeaves DEF IInv
  <2>2. step = 17 /\ committed' = current
    BY <2>1, Places DEF IInv, TypeOK, CommitCurrentTcb
  <2>3. seen # NoReport /\ TcbFieldsMatch(seen.committed, seen.current)
    BY <2>2 DEF IInv, GateRead
  <2>4. seen \in Reports /\ "report_after_reset" \in Which
    BY <2>3 DEF IInv, TypeOK, Which
  <2>5. /\ seen.run <= runs
        /\ seen.run = runs => seen.committed = committed /\ seen.current = current
    BY <2>2, <2>3, <2>4 DEF IInv, ReportsDated, Dated
  <2>6. seen.committed = seen.current
    BY <2>3, <2>4, MatchEqual DEF Reports
  <2>7. seen.run # runs
    BY <2>2, <2>5, <2>6
  <2>8. seen.run \in Int /\ runs \in Int
    BY <2>4, TcbAssumption DEF Reports, IInv, TypeOK
  <2> QED
    BY <2>5, <2>7, <2>8
<1> QED
  BY <1>1, Invariance, PTL DEF Spec, FloorGuarded
=============================================================================
