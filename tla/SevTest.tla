------------------------------ MODULE SevTest ------------------------------
(***************************************************************************)
(* execute_test of sev_verify/cli.py: the harness runs the steps of one    *)
(* test after the other, boots and stops the QEMU process the guest steps  *)
(* need, and returns a verdict.  The step handlers of runner.py, vm_launch *)
(* and stop_vm of vm_profile.py, and the vsock calls of guest_vsock.py are *)
(* its steps.                                                              *)
(*                                                                         *)
(* Beside the harness run three other actors: the QEMU processes, which    *)
(* boot, die and outlive the harness (they are started in a session of     *)
(* their own); the agent of the guest that holds the vsock CID, which is   *)
(* all the harness can address; and the thread of a callable step.         *)
(*                                                                         *)
(* Tests run one after the other, in one invocation of sev-verify or, once *)
(* an exception has ended it, in a later invocation on the same host.      *)
(***************************************************************************)
EXTENDS Integers, Sequences, FiniteSets

CONSTANTS
  VMs,        \* identities of QEMU processes
  NoVM,       \* no process: launch or cid is None
  Profiles,   \* VMProfile values a test can declare or a handler can build
  NoProfile,  \* ctx.profile of a test whose scope needs no VM
  Tests,      \* the tests: their steps and the profile they declare
  Texts,      \* texts a step can expect in the output of what it ran
  Debug,      \* --debug: the guest's journal is fetched before a stop
  MaxTests    \* bound: tests executed in one behaviour

StepKinds   == {"host", "guest", "guest_pull", "callable", "vm_launch", "vm_stop"}
StepTypes   == {"setup", "required", "info"}
StepResults == {"pass", "fail", "error", "skip"}
Booted      == "VM launched and guest booted"
Stopped     == "Guest VM stopped"
ExitCodes   == {"exit_code:0", "exit_code:1"}

\* expected_result: an exit code, or a text that stdout must contain.
Expectations == ExitCodes \cup Texts
Steps == [kind : StepKinds, type : StepTypes, expect : Expectations]

ASSUME ConstantsAssumption ==
  /\ IsFiniteSet(VMs)
  /\ NoVM \notin VMs
  /\ NoProfile \notin Profiles
  /\ Tests \subseteq [steps : Seq(Steps), profile : Profiles \cup {NoProfile}]
  /\ {Booted, Stopped} \subseteq Texts
  /\ ExitCodes \cap Texts = {}
  /\ Debug \in BOOLEAN
  /\ MaxTests \in Nat

VARIABLES
  pc,            \* where execute_test is
  test,          \* the test being executed
  i,             \* index of the current step
  results,       \* step_results
  overall,       \* overall, the verdict so far
  exc,           \* an exception is on its way out of execute_test
  profile,       \* the local profile, re-read from ctx at each step
  ctxProfile,    \* ctx.profile
  handler,       \* the thread of a callable step
  launch,        \* launch: the QEMU process the harness keeps track of
  launchOk,      \* launch.ok
  launchProfile, \* launch.profile, or the profile being launched
  starting,      \* the process vm_launch has started and not yet returned
  osKnown,       \* "guest_os_pretty_name" in environment
  qemu,          \* state of each QEMU process
  cid,           \* the process that holds the profile's vsock CID
  answered,      \* the process the harness addressed and the one that answered
  tests,         \* tests begun
  crashes        \* tests that ended with an exception, and the harness with them

loopVars   == <<i, results, overall, profile>>
testVars   == <<test, tests>>
launchVars == <<launch, launchOk, launchProfile, starting>>
guestVars  == <<qemu, cid>>
vars == <<pc, loopVars, exc, ctxProfile, handler, launchVars, osKnown, guestVars,
          answered, testVars, crashes>>

Ended == {"idle", "returned", "crashed"}
Pcs == Ended \cup {"step", "settle", "boot", "guest", "handler", "drain", "term",
                   "kill", "finally", "fterm", "fkill"}

TypeOK ==
  /\ pc \in Pcs
  /\ test \in Tests
  /\ i \in Nat \ {0}
  /\ results \in Seq(StepResults)
  /\ overall \in {"pass", "fail", "error"}
  /\ exc \in BOOLEAN
  /\ profile \in Profiles \cup {NoProfile}
  /\ ctxProfile \in Profiles \cup {NoProfile}
  /\ handler \in {"idle", "running"}
  /\ launch \in VMs \cup {NoVM}
  /\ launchOk \in BOOLEAN
  /\ launchProfile \in Profiles \cup {NoProfile}
  /\ starting \in VMs \cup {NoVM}
  /\ osKnown \in BOOLEAN
  /\ qemu \in [VMs -> {"none", "starting", "booting", "ready"}]
  /\ cid \in VMs \cup {NoVM}
  /\ answered \in (VMs \cup {NoVM}) \X (VMs \cup {NoVM})
  /\ tests \in Nat
  /\ crashes \in Nat

----------------------------------------------------------------------------
(* What a step does to the test *)

Step == test.steps[i]

\* _check_expected_values on an outcome, the set of expectations it meets.
Checked(met) == IF Step.expect \in met THEN "pass" ELSE "fail"

Outcomes == {{code} \cup text : code \in ExitCodes, text \in SUBSET Texts}

\* Mutant: a failed info step fails the test.
RecordCountingInfo(r) ==
  LET failed == r \in {"fail", "error"}
      halt   == failed /\ Step.type = "setup"
      skips  == [j \in 1 .. Len(test.steps) - i |-> "skip"]
  IN /\ results' = IF halt THEN Append(results, r) \o skips ELSE Append(results, r)
     /\ overall' = IF failed THEN "fail" ELSE overall
     /\ IF halt \/ i = Len(test.steps)
          THEN pc' = "finally" /\ UNCHANGED <<i, profile>>
          ELSE pc' = "step" /\ i' = i + 1 /\ profile' = ctxProfile
     /\ UNCHANGED <<exc, testVars, crashes>>

\* Mutant: the profile is not re-read from the context between steps.
RecordKeepingProfile(r) ==
  LET failed == r \in {"fail", "error"}
      halt   == failed /\ Step.type = "setup"
      skips  == [j \in 1 .. Len(test.steps) - i |-> "skip"]
  IN /\ results' = IF halt THEN Append(results, r) \o skips ELSE Append(results, r)
     /\ overall' = IF failed /\ Step.type # "info" THEN "fail" ELSE overall
     /\ IF halt \/ i = Len(test.steps)
          THEN pc' = "finally" /\ UNCHANGED i
          ELSE pc' = "step" /\ i' = i + 1
     /\ UNCHANGED <<profile, exc, testVars, crashes>>

\* Append a step result; a failed setup step skips the rest, otherwise the
\* loop goes on, with the profile the context holds by then.
Record(r) ==
  LET failed == r \in {"fail", "error"}
      halt   == failed /\ Step.type = "setup"
      skips  == [j \in 1 .. Len(test.steps) - i |-> "skip"]
  IN /\ results' = IF halt THEN Append(results, r) \o skips ELSE Append(results, r)
     /\ overall' = IF failed /\ Step.type # "info" THEN "fail" ELSE overall
     /\ IF halt \/ i = Len(test.steps)
          THEN pc' = "finally" /\ UNCHANGED <<i, profile>>
          ELSE pc' = "step" /\ i' = i + 1 /\ profile' = ctxProfile
     /\ UNCHANGED <<exc, testVars, crashes>>

\* An exception nothing in execute_test catches.
Raise ==
  /\ pc' = "finally"
  /\ exc' = TRUE
  /\ UNCHANGED <<loopVars, testVars, crashes>>

Goto(label) ==
  /\ pc' = label
  /\ UNCHANGED <<loopVars, exc, testVars, crashes>>

AtStep(kinds) == pc = "step" /\ Step.kind \in kinds

----------------------------------------------------------------------------
(* Beginning a test *)

\* execute_test is called, by the loop over a certification's tests or in a
\* later invocation (after a crash always), whose environment is empty.
Enter(t) ==
  /\ pc \in Ended
  /\ tests < MaxTests
  /\ test' = t
  /\ tests' = tests + 1
  /\ i' = 1
  /\ results' = <<>>
  /\ overall' = "pass"
  /\ profile' = t.profile
  /\ ctxProfile' = t.profile
  /\ launch' = NoVM
  /\ launchOk' = FALSE
  /\ launchProfile' = NoProfile
  /\ starting' = NoVM
  /\ osKnown' \in {osKnown /\ pc # "crashed", FALSE}
  /\ UNCHANGED <<handler, guestVars, answered>>

\* The module is loaded and its steps are known.
StartTest(t) ==
  /\ Enter(t)
  /\ pc' = IF t.steps = <<>> THEN "finally" ELSE "step"
  /\ exc' = FALSE
  /\ UNCHANGED crashes

\* load_test_execution_plan raises: the test is an error without any step.
LoadFails(t) ==
  /\ pc \in Ended
  /\ tests < MaxTests
  /\ test' = t
  /\ tests' = tests + 1
  /\ pc' = "returned"
  /\ i' = 1
  /\ results' = <<>>
  /\ overall' = "error"
  /\ exc' = FALSE
  /\ osKnown' \in {osKnown /\ pc # "crashed", FALSE}
  /\ UNCHANGED <<profile, ctxProfile, handler, launchVars, guestVars, answered, crashes>>

\* What precedes the loop raises: no artifact directory, for instance.
SetupRaises(t) ==
  /\ Enter(t)
  /\ pc' = "finally"
  /\ exc' = TRUE
  /\ UNCHANGED crashes

----------------------------------------------------------------------------
(* vm_launch, as a step of its own or for a guest step that finds no guest *)

LaunchWithoutProfile ==
  /\ AtStep({"vm_launch"})
  /\ profile = NoProfile
  /\ Record("error")
  /\ UNCHANGED <<ctxProfile, handler, launchVars, osKnown, guestVars, answered>>

DuplicateLaunch ==
  /\ AtStep({"vm_launch"})
  /\ profile # NoProfile
  /\ launch # NoVM
  /\ Record("error")
  /\ UNCHANGED <<ctxProfile, handler, launchVars, osKnown, guestVars, answered>>

\* Mutant: no check for a guest that is already running.
CanLaunchAgain ==
  /\ AtStep({"vm_launch", "guest", "guest_pull"})
  /\ profile # NoProfile

CanLaunch ==
  /\ AtStep({"vm_launch", "guest", "guest_pull"})
  /\ profile # NoProfile
  /\ launch = NoVM

\* VMProfileError: no launch.  A vm_launch step that expects it passes.
LaunchRefused(text) ==
  /\ Record(IF Step.kind = "vm_launch" /\ Step.expect \in {"exit_code:1"} \cup text
              THEN "pass" ELSE "error")
  /\ starting' = NoVM
  /\ UNCHANGED <<ctxProfile, handler, launch, launchOk, launchProfile, osKnown,
                 guestVars, answered>>

\* validate or build_qemu_command rejects the profile.
ProfileRejected ==
  /\ CanLaunch
  /\ \E text \in SUBSET (Texts \ {Booted}) : LaunchRefused(text)

\* Popen: a process in a session of its own, then two seconds of sleep.
Spawn(p) ==
  /\ CanLaunch
  /\ qemu[p] = "none"
  /\ qemu' = [qemu EXCEPT ![p] = "starting"]
  /\ starting' = p
  /\ launchProfile' = profile
  /\ Goto("settle")
  /\ UNCHANGED <<ctxProfile, handler, launch, launchOk, osKnown, cid, answered>>

\* Popen, or a log file it needs, raises OSError.
SpawnRaises ==
  /\ CanLaunch
  /\ Raise
  /\ UNCHANGED <<ctxProfile, handler, launchVars, osKnown, guestVars, answered>>

\* VMLaunchError: QEMU exited immediately.
ExitedImmediately ==
  /\ pc = "settle"
  /\ qemu[starting] = "none"
  /\ \E text \in SUBSET (Texts \ {Booted}) : LaunchRefused(text)

Settled ==
  /\ pc = "settle"
  /\ qemu[starting] # "none"
  /\ Goto("boot")
  /\ UNCHANGED <<ctxProfile, handler, launchVars, osKnown, guestVars, answered>>

\* The agent behind the CID can complete an exchange.
AgentUp == cid # NoVM /\ qemu[cid] = "ready"

\* vm_launch returns to execute_test, which keeps the result as its launch.
Launched(ok) ==
  /\ launch' = starting
  /\ launchOk' = ok
  /\ starting' = NoVM
  /\ UNCHANGED <<ctxProfile, handler, launchProfile, guestVars>>

\* The ping is answered, by the agent that holds the CID.  The guest OS is
\* asked for once per invocation.
BootAnswered ==
  /\ pc = "boot"
  /\ AgentUp
  /\ Launched(TRUE)
  /\ answered' = <<starting, cid>>
  /\ osKnown' = TRUE
  /\ IF Step.kind = "vm_launch" THEN Record(Checked({"exit_code:0", Booted}))
                                ELSE Goto("guest")

\* ... and asking for it raises what get_guest_os_info does not catch.
OsInfoRaises ==
  /\ pc = "boot"
  /\ AgentUp
  /\ ~osKnown
  /\ Launched(TRUE)
  /\ answered' = <<starting, cid>>
  /\ UNCHANGED osKnown
  /\ Raise

\* Mutant: the boot wait has no deadline.
BootFailsOnlyIfDead ==
  /\ pc = "boot"
  /\ qemu[starting] = "none"
  /\ Launched(FALSE)
  /\ UNCHANGED <<osKnown, answered>>
  /\ IF Step.kind = "vm_launch" THEN Record(Checked({"exit_code:1"})) ELSE Record("error")

\* The boot timeout passes, or QEMU is found dead: ok is FALSE and the launch
\* is kept.
BootFails ==
  /\ pc = "boot"
  /\ Launched(FALSE)
  /\ UNCHANGED <<osKnown, answered>>
  /\ IF Step.kind = "vm_launch"
       THEN \E text \in SUBSET (Texts \ {Booted}) : Record(Checked({"exit_code:1"} \cup text))
       ELSE Record("error")

\* A ping fails with something other than GuestVsockError, a connection reset
\* by an agent that is restarting for instance: vm_launch never returns, and
\* the only handle on the process it started is gone.
BootRaises ==
  /\ pc = "boot"
  /\ cid # NoVM
  /\ Raise
  /\ starting' = NoVM
  /\ UNCHANGED <<ctxProfile, handler, launch, launchOk, launchProfile, osKnown,
                 guestVars, answered>>

----------------------------------------------------------------------------
(* guest and guest_pull *)

GuestWithoutProfile ==
  /\ AtStep({"guest", "guest_pull"})
  /\ profile = NoProfile
  /\ Record("error")
  /\ UNCHANGED <<ctxProfile, handler, launchVars, osKnown, guestVars, answered>>

GuestNotBooted ==
  /\ AtStep({"guest", "guest_pull"})
  /\ profile # NoProfile
  /\ launch # NoVM
  /\ ~launchOk
  /\ Record("error")
  /\ UNCHANGED <<ctxProfile, handler, launchVars, osKnown, guestVars, answered>>

\* A launched guest is at hand, the step's own or an earlier one's.
AtGuest ==
  \/ pc = "guest"
  \/ /\ AtStep({"guest", "guest_pull"})
     /\ profile # NoProfile
     /\ launch # NoVM
     /\ launchOk

\* The agent behind the CID runs the command and its response comes back.  A
\* pull that fetched the file has exit code 0 and no stdout to check.
GuestAnswers ==
  /\ AtGuest
  /\ AgentUp
  /\ answered' = <<launch, cid>>
  /\ IF Step.kind = "guest" THEN \E met \in Outcomes : Record(Checked(met))
                            ELSE Record(Checked({"exit_code:0"}))
  /\ UNCHANGED <<ctxProfile, handler, launchVars, osKnown, guestVars>>

\* GuestVsockError: no connection, no response in time, nothing to pull.
GuestVsockFails ==
  /\ AtGuest
  /\ Record("error")
  /\ UNCHANGED <<ctxProfile, handler, launchVars, osKnown, guestVars, answered>>

\* Any other exception of the exchange.
GuestRaises ==
  /\ AtGuest
  /\ cid # NoVM
  /\ Raise
  /\ UNCHANGED <<ctxProfile, handler, launchVars, osKnown, guestVars, answered>>

----------------------------------------------------------------------------
(* host and callable *)

HostRuns ==
  /\ AtStep({"host"})
  /\ \E met \in Outcomes : Record(Checked(met))
  /\ UNCHANGED <<ctxProfile, handler, launchVars, osKnown, guestVars, answered>>

\* The command's timeout, or an OSError.
HostFails ==
  /\ AtStep({"host"})
  /\ Record("error")
  /\ UNCHANGED <<ctxProfile, handler, launchVars, osKnown, guestVars, answered>>

\* run_step lets everything else out: output that is not text, for instance.
HostRaises ==
  /\ AtStep({"host"})
  /\ Raise
  /\ UNCHANGED <<ctxProfile, handler, launchVars, osKnown, guestVars, answered>>

\* The test module has no such handler.
HandlerMissing ==
  /\ AtStep({"callable"})
  /\ Record("error")
  /\ UNCHANGED <<ctxProfile, handler, launchVars, osKnown, guestVars, answered>>

HandlerSubmitted ==
  /\ AtStep({"callable"})
  /\ Goto("handler")
  /\ handler' = "running"
  /\ UNCHANGED <<ctxProfile, launchVars, osKnown, guestVars, answered>>

\* The thread's own steps: a handler may replace ctx.profile, and it ends.
HandlerSetsProfile(f) ==
  /\ handler = "running"
  /\ ctxProfile # NoProfile
  /\ ctxProfile' = f
  /\ UNCHANGED <<pc, loopVars, exc, handler, launchVars, osKnown, guestVars,
                 answered, testVars, crashes>>

HandlerEnds ==
  /\ handler = "running"
  /\ handler' = "idle"
  /\ UNCHANGED <<pc, loopVars, exc, ctxProfile, launchVars, osKnown, guestVars,
                 answered, testVars, crashes>>

\* fut.result returns: the handler's result is checked, or the handler raised
\* or returned something that is no StepHandlerResult.
HandlerDone ==
  /\ pc = "handler"
  /\ handler = "idle"
  /\ \/ \E met \in Outcomes : Record(Checked(met))
     \/ Record("error")
  /\ UNCHANGED <<ctxProfile, handler, launchVars, osKnown, guestVars, answered>>

\* Mutant: the step ends at its timeout, its thread still running.
HandlerTimesOutAtOnce ==
  /\ pc = "handler"
  /\ handler = "running"
  /\ Record("error")
  /\ UNCHANGED <<ctxProfile, handler, launchVars, osKnown, guestVars, answered>>

\* fut.result times out; leaving the with block shuts the pool down, which
\* waits for the thread.
HandlerTimesOut ==
  /\ pc = "handler"
  /\ handler = "running"
  /\ Goto("drain")
  /\ UNCHANGED <<ctxProfile, handler, launchVars, osKnown, guestVars, answered>>

\* Mutant: a result of its own for a step that timed out.
HandlerDrainedAsTimeout ==
  /\ pc = "drain"
  /\ handler = "idle"
  /\ Record("timeout")
  /\ UNCHANGED <<ctxProfile, handler, launchVars, osKnown, guestVars, answered>>

HandlerDrained ==
  /\ pc = "drain"
  /\ handler = "idle"
  /\ Record("error")
  /\ UNCHANGED <<ctxProfile, handler, launchVars, osKnown, guestVars, answered>>

----------------------------------------------------------------------------
(* vm_stop *)

StopWithoutGuest ==
  /\ AtStep({"vm_stop"})
  /\ launch = NoVM
  /\ Record("error")
  /\ UNCHANGED <<ctxProfile, handler, launchVars, osKnown, guestVars, answered>>

\* fetch_guest_journal raises something other than GuestVsockError.
JournalRaises ==
  /\ AtStep({"vm_stop"})
  /\ launch # NoVM
  /\ Debug
  /\ cid # NoVM
  /\ Raise
  /\ UNCHANGED <<ctxProfile, handler, launchVars, osKnown, guestVars, answered>>

\* stop_vm: SIGTERM, then wait for the process.
StopTerminates ==
  /\ AtStep({"vm_stop"})
  /\ launch # NoVM
  /\ Goto("term")
  /\ UNCHANGED <<ctxProfile, handler, launchVars, osKnown, guestVars, answered>>

\* Mutant: the launch is forgotten although the stop failed.
StopOSErrorForgets ==
  /\ AtStep({"vm_stop"})
  /\ launch # NoVM
  /\ qemu[launch] # "none"
  /\ Record("error")
  /\ launch' = NoVM
  /\ UNCHANGED <<ctxProfile, handler, launchOk, launchProfile, starting, osKnown,
                 guestVars, answered>>

\* The signal cannot be sent: the step is an error and the launch is kept.
StopOSError ==
  /\ AtStep({"vm_stop"})
  /\ launch # NoVM
  /\ qemu[launch] # "none"
  /\ Record("error")
  /\ UNCHANGED <<ctxProfile, handler, launchVars, osKnown, guestVars, answered>>

StopReaped ==
  /\ pc \in {"term", "kill"}
  /\ qemu[launch] = "none"
  /\ launch' = NoVM
  /\ Record(Checked({"exit_code:0", Stopped}))
  /\ UNCHANGED <<ctxProfile, handler, launchOk, launchProfile, starting, osKnown,
                 guestVars, answered>>

StopKills ==
  /\ pc = "term"
  /\ qemu[launch] # "none"
  /\ Goto("kill")
  /\ UNCHANGED <<ctxProfile, handler, launchVars, osKnown, guestVars, answered>>

\* The process outlives SIGKILL's window: TimeoutExpired is not an OSError.
StopRaises ==
  /\ pc = "kill"
  /\ qemu[launch] # "none"
  /\ Raise
  /\ UNCHANGED <<ctxProfile, handler, launchVars, osKnown, guestVars, answered>>

----------------------------------------------------------------------------
(* The finally block, and the end of execute_test *)

\* An exception ends sev-verify; what execute_test knew is gone.
Leave(crashed) ==
  /\ pc' = IF crashed THEN "crashed" ELSE "returned"
  /\ exc' = FALSE
  /\ crashes' = IF crashed THEN crashes + 1 ELSE crashes
  /\ launch' = NoVM
  /\ launchOk' = FALSE
  /\ UNCHANGED <<loopVars, ctxProfile, handler, launchProfile, starting, osKnown,
                 guestVars, answered, testVars>>

FinallyNoGuest ==
  /\ pc = "finally"
  /\ launch = NoVM
  /\ Leave(exc)

FinallyTerminates ==
  /\ pc = "finally"
  /\ launch # NoVM
  /\ Goto("fterm")
  /\ UNCHANGED <<ctxProfile, handler, launchVars, osKnown, guestVars, answered>>

FinallyReaped ==
  /\ pc \in {"fterm", "fkill"}
  /\ qemu[launch] = "none"
  /\ Leave(exc)

FinallyKills ==
  /\ pc = "fterm"
  /\ qemu[launch] # "none"
  /\ Goto("fkill")
  /\ UNCHANGED <<ctxProfile, handler, launchVars, osKnown, guestVars, answered>>

\* stop_vm raises in the finally block, at the signal or after the kill window.
FinallyRaises ==
  /\ pc \in {"finally", "fkill"}
  /\ launch # NoVM
  /\ qemu[launch] # "none"
  /\ Leave(TRUE)

----------------------------------------------------------------------------
(* The QEMU processes *)

HarnessUnchanged ==
  UNCHANGED <<pc, loopVars, exc, ctxProfile, handler, launchVars, osKnown,
              answered, testVars, crashes>>

\* The vsock device is realised: one process holds the CID at a time, and a
\* process that finds it taken can only exit.
TakesCid(p) ==
  /\ qemu[p] = "starting"
  /\ cid = NoVM
  /\ cid' = p
  /\ qemu' = [qemu EXCEPT ![p] = "booting"]
  /\ HarnessUnchanged

AgentStarts(p) ==
  /\ qemu[p] = "booting"
  /\ qemu' = [qemu EXCEPT ![p] = "ready"]
  /\ UNCHANGED cid
  /\ HarnessUnchanged

\* The agent crashes or the guest reboots.
AgentStops(p) ==
  /\ qemu[p] = "ready"
  /\ qemu' = [qemu EXCEPT ![p] = "booting"]
  /\ UNCHANGED cid
  /\ HarnessUnchanged

\* QEMU exits: the launch is refused, the guest halts, a signal takes effect.
QemuExits(p) ==
  /\ qemu[p] # "none"
  /\ qemu' = [qemu EXCEPT ![p] = "none"]
  /\ cid' = IF cid = p THEN NoVM ELSE cid
  /\ HarnessUnchanged

----------------------------------------------------------------------------
Init ==
  /\ pc = "idle"
  /\ test \in Tests
  /\ i = 1
  /\ results = <<>>
  /\ overall = "pass"
  /\ exc = FALSE
  /\ profile = NoProfile
  /\ ctxProfile = NoProfile
  /\ handler = "idle"
  /\ launch = NoVM
  /\ launchOk = FALSE
  /\ launchProfile = NoProfile
  /\ starting = NoVM
  /\ osKnown = FALSE
  /\ qemu = [p \in VMs |-> "none"]
  /\ cid = NoVM
  /\ answered = <<NoVM, NoVM>>
  /\ tests = 0
  /\ crashes = 0

Begin == \E t \in Tests : StartTest(t) \/ LoadFails(t) \/ SetupRaises(t)

Launching ==
  \/ LaunchWithoutProfile \/ DuplicateLaunch \/ ProfileRejected \/ SpawnRaises
  \/ \E p \in VMs : Spawn(p)
  \/ ExitedImmediately \/ Settled
  \/ BootAnswered \/ OsInfoRaises \/ BootFails \/ BootRaises

Guest ==
  GuestWithoutProfile \/ GuestNotBooted \/ GuestAnswers \/ GuestVsockFails \/ GuestRaises

Host == HostRuns \/ HostFails \/ HostRaises

Callable ==
  HandlerMissing \/ HandlerSubmitted \/ HandlerDone \/ HandlerTimesOut \/ HandlerDrained

Stop ==
  \/ StopWithoutGuest \/ JournalRaises \/ StopTerminates \/ StopOSError
  \/ StopReaped \/ StopKills \/ StopRaises

Finally ==
  FinallyNoGuest \/ FinallyTerminates \/ FinallyReaped \/ FinallyKills \/ FinallyRaises

Harness == Launching \/ Guest \/ Host \/ Callable \/ Stop \/ Finally

HandlerThread == HandlerEnds \/ \E f \in Profiles : HandlerSetsProfile(f)

Processes == \E p \in VMs : TakesCid(p) \/ AgentStarts(p) \/ AgentStops(p) \/ QemuExits(p)

Next == Begin \/ Harness \/ HandlerThread \/ Processes

Spec == Init /\ [][Next]_vars

\* The interpreter keeps running the harness: every wait in it has a deadline
\* of its own, except the one for a handler's thread.
HarnessFairness == WF_vars(Harness)

\* In addition every handler comes to an end.
FairSpec == Spec /\ HarnessFairness /\ WF_vars(HandlerEnds)

\* Handlers may hang.
HarnessFairSpec == Spec /\ HarnessFairness

----------------------------------------------------------------------------
(* Properties *)

Alive == {p \in VMs : qemu[p] # "none"}

\* The QEMU processes that no execute_test has a handle on any more.
Orphans == Alive \ {launch, starting}

\* One more while the exception that lost it is on its way out.
JustLost == IF exc /\ launch = NoVM THEN 1 ELSE 0

\* The harness never loses more than one guest, and only by an exception: as
\* long as no test has crashed, every running QEMU process is the one the
\* current test tracks, so a second launch never overlaps a first and a test
\* that returns leaves none behind (launch, vm_stop and finally in
\* execute_test).
OrphansBounded == Cardinality(Orphans) <= crashes + JustLost

\* Ping and guest commands are addressed to a CID, not to a process.  As long
\* as no test has crashed, what answers is the guest the test launched.
AnsweredByOwnGuest == crashes = 0 => answered[1] = answered[2]

\* A handler's thread runs only while the harness waits for its step, also
\* when the step timed out: no late handler changes the context of a later
\* step (run_callable_step leaves the with block by shutdown(wait=True)).
HandlerConfined == handler = "running" => pc \in {"handler", "drain"}

\* A profile set by a handler is neither lost nor overwritten before the next
\* launch: QEMU is started with ctx.profile, and only a handler or a new test
\* changes that.
ProfileFlow ==
  [][/\ starting' # starting /\ starting' # NoVM => launchProfile' = ctxProfile
     /\ ctxProfile' # ctxProfile => handler = "running" \/ tests' # tests]_vars

\* The report of a test that returns: the loop's incremental bookkeeping
\* implements TestReport.
Phase ==
  IF pc \in {"idle", "returned"} THEN pc
  ELSE IF pc = "crashed" THEN "aborted" ELSE "running"

Report == INSTANCE TestReport WITH
  phase   <- Phase,
  plan    <- [k \in DOMAIN test.steps |-> test.steps[k].type],
  report  <- results,
  verdict <- IF pc = "returned" THEN overall ELSE "none"

\* execute_test reports one result per step, skips exactly what follows a
\* failed setup step, and its verdict is the one its results and severities
\* determine.
ReportsFaithfully == Report!Spec

\* Every test that is begun returns or crashes: whatever QEMU and its agent
\* do, no wait of the harness is without a deadline if handlers end.
TestEnds == []<>(pc \in Ended)

\* docs/sev-verify.md: "If the test still has a guest running at the end, the
\* harness stops it in a finally block".  Stated for the first test on a clean
\* host: a finally block that has nothing to stop leaves nothing running.
FinallySeesGuest ==
  pc = "finally" /\ launch = NoVM /\ tests = 1 => Alive = {}

\* docs/sev-verify.md on a step's timeout: "Maximum time allowed in seconds
\* for the step.  The step fails if this is exceeded."
TimedOutStepFails == (pc = "drain") ~> (pc # "drain")

=============================================================================
