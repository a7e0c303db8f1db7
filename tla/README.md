# A verification project for sev-certify

sev-certify certifies that an operating system supports AMD SEV-SNP. A Python
harness (`sev_verify`) runs the tests of a certification manifest on a host: it
boots SEV-SNP guests with QEMU, talks to an agent in the guest over vsock,
checks attestation reports and firmware behaviour, and writes a report with the
certified level. mkosi images run the harness from a chain of systemd units and
publish its report as an issue; a GitHub workflow turns the issues into a
compatibility matrix. This directory holds TLA+ models of its parts, the TLC
runs that check them and proofs, of all their safety properties, that TLAPS checks.

Paths below are relative to the repository; `c3_0_0_1/` is
`sev_verify/cert_tests/c3_0/c3_0_0_1/`.

## 1. Inventory

| Part | State it keeps | Operations | What makes it hard | What makes it correct |
|---|---|---|---|---|
| **Test executor**: `execute_test` (`cli.py`), step handlers (`runner.py`), `vm_launch`/`stop_vm` (`vm_profile.py`) | current step, results, verdict, the launch it tracks, `ctx.profile` | load a test; run host, guest, guest_pull, callable, vm_launch, vm_stop steps; stop the guest in `finally` | QEMU outlives the harness; a thread per callable step; timeouts in every wait; exceptions that no handler catches; several launches in one test | a guest is never lost without an exception; the answering guest is the launched one; a late handler touches nothing; the report is what the steps determine; every test ends |
| **Guest vsock transport** (`guest_vsock.py`) | one connection per request | boot wait with pings, command, pull, journal | timeouts racing answers, an agent that restarts, errors of four kinds | commands take effect in order, at most once; no call waits for ever; every failure is a `GuestVsockError` |
| **Guest agent** (`vsock_exec.py`, restarted by systemd) | listening socket with a queue, one request at a time | accept, read, run, respond | a command without a timeout, a client that is gone | an answer is the last word on what came before it; nothing blocks the queue for good |
| **TCB config/commit test** (`c3_0_0_1/snphost_config_commit.py`) | firmware TCB values, artifacts that survive a run | lower, report, reset, report, gate, commit | state that outlives the run in three places; any step may fail; provisional firmware | the override is gone when the run ends; a pass rests on this run's reports; the gate protects the anti-rollback floor |
| **Certification** (`cli.py: main`, `execute_certification`; `output.py`) | results by test, reports on disk | prerequisites, filters, fold, certified level, write | results held in memory until the end, level filters, exceptions | a level is certified only over a contiguous chain; a worse result is never masked |
| **ID block test** (`cvm_props.py`, `id_block_test.py`) | measurement file, key files, `ctx.profile` | measure, generate, corrupt, launch, compare | negative launches whose preparation may fail; stale measurement | a refused launch was refused for the reason under test |
| **Key derivation test** (`key_derivation_test.py`) | derived keys kept on the host, the guest's TCB | sweeps, field mixing, cross-CVM comparison | boundaries of SVN/TCB, generation layouts | a difference or a rejection is attributed to the field that caused it |
| **Attestation report** (`attestation_report.py`) | none | decode TCB by generation, encode | layouts differ by generation | encode and decode agree |
| **Attestation and prerequisite tests** (`attestation_test.py`, `snp_ok.py`) | report.bin | fetch, verify, compare | stale artifacts | - |
| **Step log, OS info, environment** | a cache of the guest's OS | format, query once | an exception in the middle of a launch | - |
| **Host and guest pipelines** (`modules/`) | systemd targets, results directory | boot, system, test, stop; publish; reboot | service timeout kills the harness; partial results | what is published is what was run |
| **Matrix workflow** (`.github/workflows/update-certification-matrix.yml`) | a branch, a pull request, issues | parse issue, update table, retry, close duplicates | concurrent jobs | no row is lost |
| **Image builds and releases** | - | - | - | - |

How they interact: `main` calls `execute_test` for each prerequisite and each
test; `execute_test` calls the step handlers one by one; guest steps go through
the transport to whatever guest holds the profile's CID; callable steps run test
code in a thread that shares `ctx` with the loop; test code keeps files in the
artifact directory and values in the firmware; the pipeline starts `main` and
publishes the files it writes; the workflow reads what was published.

The hazards of this code, each at its line and with the properties that cover it
or the reason why none does yet, are listed in `PROJECT.json`.

## 2. Plan

In the order of importance; all seven are in place.

1. `SevTest` (executor, QEMU, agent, handler threads) with the abstract
   `TestReport`, and `SevTestProofs`.
2. `TcbCommit`: the test with the most state outside of the harness.
3. `GuestVsock`: the exchange below SevTest's guest steps.
4. `Certification`: prerequisites, filters, the fold, the certified level against
   an abstract definition, reports on disk, and the boot of the host around it.
5. `IdBlock`: handlers that change the profile, launches that must be refused.
6. `AttestationReport` and `KeyDerivation`: generations and encodings, sweeps and
   comparisons over a firmware with a fault.
7. `MatrixWorkflow`: jobs on one branch, duplicate closing.

Each of them has a module of proofs, `<Module>Proofs`; `AttestationReport` shares that of
`KeyDerivation`, and `SubsequencesProofs` has the lemmas about lists that two of them use.

What composes what: `SevTest` is the inside of the step `RunTest` of
`Certification`, whose outcomes (a result, an exception, no end) are those it
shows; `TcbCommit`, `IdBlock` and `KeyDerivation` are three plans of it, with the
loop reduced to what they depend on and the state they leave behind kept;
`GuestVsock` is the inside of its guest steps; `KeyDerivation` extends
`AttestationReport`; the issues of `Certification` are what `MatrixWorkflow`
starts from.

What is left to do: prove more of how the models go together, as `SevTest` and
`TestReport` do already: the abstraction by which SevTest uses GuestVsock, and the one by
which Certification uses SevTest, are argued in section 3, not stated as refinements.

## 3. Modules

### SevTest, MCSevTest, TestReport

One behaviour is a sequence of tests on one host, in one invocation of sev-verify
or, after an exception, in several. `pc` says where `execute_test` is: `step` is
the head of its loop, `settle` and `boot` are inside `vm_launch`, `guest` is a guest step
that has just launched its guest, `handler` and `drain` are the two waits of
`run_callable_step` (the one with a timeout, and the pool's shutdown), `term` and
`kill` the two waits of `stop_vm`, `finally`, `fterm`, `fkill` the same in the finally
block. The remaining variables carry the names of the code: `launch`, `profile`
(the local copy), `ctxProfile`, `overall`, `results`.

Each step kind is a group of actions, one per way it can end. `Record` is the code
after a step (append, verdict, skip the rest after a failed setup step, re-read the
profile); `Raise` is any exception nothing catches. Exceptions are where the code lets
them through: `vm_launch` catches nothing around the boot wait, `run_step` only a
timeout and `OSError`, `run_vm_stop_step` only `OSError`.

QEMU processes take a CID, boot, may restart their agent and may exit at any time. They are
a fixed set of identities; a process that exited may be used for a later launch. Only one
process holds the CID, and the agent behind it answers: the harness addresses nothing else.

Data is abstract: a profile is a model value; the output of a command is the set of
expectations it meets; an expectation is an exit code or a text.

`TestReport` is what `execute_test` promises: a verdict determined by the results and the
severities, and a report without gaps. SevTest implements it
(`ReportsFaithfully`): while the loop runs the report only grows, and the verdict
computed by increments is the one the complete report determines.

### TcbCommit, MCTcbCommit

The seventeen steps of the test, in the groups `Lowering`, `Restoring`, `CleaningUp`
and `Committing`; the firmware's `current`, `committed` and `override` (ReportedTcb is
derived); the two report files in the guest and in the artifact directory. A TCB is
a function from fields to numbers, so the priority order of the lowered field and the FMC
field of Turin are those of the code. Every command may fail, and a command that is killed
by its timeout may have taken effect. Between runs the operator loads another firmware
or reboots; a run may be killed at any step. The loop is that of SevTest reduced to verdict
and halt.

The firmware is not part of the repository: it is modelled from
`docs/features/tcb-config-commit.md` and from what the test compares. The document names
CurrentTcb as the value of ReportedTcb after a reset, and CommittedTcb as its upper bound. On
provisional firmware both cannot hold; the model has both kinds of host (`follows`).

`setIn` and `failedResets` are history variables: they say which run set the override and how
many of its resets had no effect, and no action reads them.

### GuestVsock

One client and one agent. A connection enters the queue of the listening socket as soon as the
guest's kernel completes it, whether or not the agent is busy; the client sends, waits and
gives up; the agent serves the queue in order. `Dies` ends the agent with all its
connections. `ResponseRaises` is the case of the code: sendall to a client that has gone,
outside the try block.

SevTest rests on this module for two things: a guest call that is answered has run and nothing
asked before it is still to happen (`AnsweredMeansRun`, `NoLateEffect`), and a call may
end in an exception that is no GuestVsockError (`GuestRaises`, `BootRaises`, `JournalRaises`).

### Certification, MCCertification

One boot. `stage` is the unit of the systemd chain (`verify`, `publish`, `prompt`, and
the end, `login` or `off`), `pc` where `main` or `beacon-report.sh` is in it. `Start` is
`main` up to the prerequisites with `MatchesLevel` and the grouping of the filters by
manifest; `Gate` the end of the prerequisites; `LoadManifest` the head of the loop over
`manifest_entries`; `RunTest` a test and the fold of its result (`WorseResult`); `WriteJson` and
`WriteMarkdown` the two files, in the order of the code; `Return` the exit code. `TestRaises` is an
exception that leaves `main`, `Cut` the end of the process from outside: the service's
timeout, or an operator. Either may come while a file is open, and leaves it `Empty` or
`Partial`. `beacon-report.sh` walks over the JSON files in order (`Publish`, `Skip`, `JqFails`: `set -e`).

The certified level is computed as in `_highest_certified_level`, by a walk over the
levels in their order that stops at the first one which has failed or was not tested. The
properties compare it with `Earned`, which says what a level means without any order of
computation, from the history of tests that ran. Comprehensions over lists are
`Kept` of `Subsequences`: the elements at the positions that a condition selects.

### IdBlock, MCIdBlock

The plan of the test with its four cases, `valid`, `measurement`, `smt` and `abi`. An image is
its launch digest; an ID block remembers the digest and the identity in it and, as a
history field, the case that built it. A launch is accepted or refused by a firmware
that checks what the ABI says. The measurement file, the report in the guest and the
artifact outlive a run; the image, the `ID_BLOCK_*` variables and SMT may change
between runs, SMT also between the making of the plan and the launch (`smtAtLoad`). A set
step that fails leaves the profile of the case before.

### AttestationReport, KeyDerivation, MCKeyDerivation

`AttestationReport` has no state: `FromBytes` and `ToU64` are the two layouts of a
TCB_VERSION as functions on its eight bytes, `ResolveGeneration` the table of
generations, `Parse` the choice between the host's CPUID and that of the report.

`KeyDerivation` judges the test by what it can find out. A platform has at most one
`Fault`: a bound that is not enforced, an input that is not mixed in, a field select bit that is
ignored, keys that are not reproducible. `DeriveKey` is one request to such a
firmware; a key is the record of what went into it. The handlers are functions from the
trouble of their guest (device lost, fetch failed, in each of their phases) to
`pass` or `fail`, the actions the steps that call them. The sweep takes the values of the
code, thinned out above 16 as there, and bytes wrap at 256.

### MatrixWorkflow, MCMatrixWorkflow

One action per request to GitHub, for the job that updates the tables (`UpdateMatrix`) and the
job that closes duplicates. The branch holds the two files; `within` abstracts the
ancestry that decides whether it can be fast-forwarded and whether a pull request would be
empty. What a job has read is in `job`: `PutDocs` and `PutReadme` succeed only if the file
is still the one that was read, as the hash of the contents API ensures. 404, 409 and 422
start the job over. A row is the sequence of its cells, and `UpdatedRow` is `updateTable`
with its filter of empty cells; the place of a new row in the table is left out. A
maintainer merges or squashes at any moment and may delete the branch.

`dropped`, `gapped` and `overlaps` are history variables. They record the three cases in which the code
loses what it should keep (see Findings), and the properties say that there are no others.
A column of a table stands for a version, and so for all milestones of it: what
a job has published may be replaced by another certification of the same cell (`SameCell`), which
`DoneMeansPublished` allows, although they are no twins and their issues both stay open.

## 4. Runs

| Run | Module, specification | Bounds | Shows |
|---|---|---|---|
| `sevtest_plans` | MCSevTest, `Spec` | one test, every plan of at most two steps of every kind and severity (launches with three expectations), 2 processes, 2 profiles, 3 texts, processes symmetric | types; the test implements `TestReport` |
| `sevtest_long` | MCSevTest, `FairSpec` | two tests out of three long plans (attestation, ID block, implicit launch), 2 processes, 2 profiles | guests are lost only by exceptions, the own guest answers, handlers are confined, profiles flow, tests end |
| `sevtest_leak` | MCSevTest, `Spec` | the same | violation: a finally block with nothing to stop while QEMU runs |
| `sevtest_hang` | MCSevTest, `HarnessFairSpec` | one test | violation: a callable step does not fail at its timeout |
| `tcb_runs` | MCTcbCommit, `Spec` | two runs, three installed TCBs (field to lower first is non-zero; is zero; nothing to lower but FMC), three provisional images | clean-up, fresh evidence for a pass, soundness of the gate within a run |
| `tcb_stale` | MCTcbCommit, `Spec` | the same | violation: the gate passes on an earlier run's report and the commit blesses provisional firmware |
| `vsock_exchanges` | GuestVsock, `FairSpec` | four requests, queue of two, agent may die at any time | order, at most once, no late effect, no call waits for ever, the queue drains |
| `vsock_reset` | GuestVsock, `Spec` | two requests, queue of eight, the agent dies by itself only | violation: an exchange ends in an exception that is no GuestVsockError |
| `cert_boot` | MCCertification, `Spec` | four installations (the repository's manifest with one test less; levels out of order with a cap and an unlabelled test; two manifests; one malformed), six filter requests, one prerequisite, the harness run twice where there are few tests | levels are earned, filters select, exit code and reports agree, what is published is of one run, the boot ends |
| `idblock_runs` | MCIdBlock, `Spec` | two runs, two images, four metadata (one unusable, one equal to a guest without a block), two replacements of the measurement | a pass has exercised every case, refusals have the reason under test, the signed measurement is fresh |
| `keyder_platforms` | MCKeyDerivation, `Spec` | two runs; every fault on both layouts with components at 0, 1, 15, 16, 254 and 255; nothing to sweep; hidden, old and unknown CPUs; an update between runs | a pass excludes the faults in reach, conformant firmware never fails, artifacts and guests are of this run |
| `matrix_issues` | MCMatrixWorkflow, `Spec` | three issues on one row (two of them twins), two on rows of different tables, two milestones of one column, one without a column; two issues at a time; two attempts | finished jobs are not undone, certifications keep their headers, the newest issue stays open |

Why the bounds are enough. Two processes are a tracked guest and a lost one, the pair
that every property of SevTest is about; two tests are the one that loses a guest and the one
that suffers. Plans of two steps contain every pair of a step and its successor, which is all
that the loop relates; the long plans add the sequences the real tests use. Two runs
of the TCB test are the one that leaves an artifact or an override and the one that finds
it. Four requests with a queue of two are one being served, two waiting, one refused.
Two invocations of the harness are the one that leaves reports and the one that
overwrites some of them; three levels with a cap in the middle have a gap, a prefix and a
rest. Two images and two runs make a stale measurement, and two changes of it replace and
remove it. Components at both sides of 16 and of 255 are the boundaries of the sweep and of
a byte. Two concurrent jobs are the pair that every race in the workflow is between, a third issue
comes when one of them has ended, and two attempts are one retry and one failure.

`CHECK_DEADLOCK FALSE` is set where the bound on tests, runs or requests ends a behaviour, where
the host comes to rest, and where all jobs of a workflow have ended.

### Fairness

`HarnessFairness` is weak fairness of the harness: every wait of it has a
deadline (boot, command, stop), so some step of it is always enabled and the interpreter takes
it, with one exception: the wait for a handler's thread. `FairSpec` adds that handlers end,
which the handlers of the repository do because their own calls have timeouts;
`HarnessFairSpec` does not, because the harness is documented to bound them. No
fairness is assumed of QEMU, of the guest or of the agent: `TestEnds` holds although a guest
may neither boot nor die. In GuestVsock the client's exchange, the agent's own code and systemd's
restart are fair; a command in the guest is not, so it may hang.

In Certification, the code that computes and writes is fair, and so is systemd: units
start when the one before has ended, and the service's timeout expires. A test is not
fair: it may hang, and `PipelineEnds` holds because the timeout cuts it. A reboot or a login
comes because the prompt has a timeout of its own. IdBlock, KeyDerivation and
MatrixWorkflow state safety only; what ends their steps is what SevTest shows.

### Findings

The four violation runs are disagreements between the code and what its
documentation or comments say; `PROJECT.json` quotes the lines. They are connected: the
agent's death on a late answer (`vsock_reset`) makes the next call raise; if that is a ping, the guest
that is being booted is lost (`sevtest_leak`) and keeps the CID.

Other disagreements met while modelling, which no run has as its subject:

- `update-certification-matrix.yml:64` drops the empty cells of a row that exists. A row that was
  begun in its second column loses the gap when it is updated, and its certification
  stands under the first header, or is overwritten; `docs/certifications.md:1` says that
  headers describe the hardware of the test. `CellsUnderHeader` holds for rows filled from
  the left, and excepts the others (`gapped`).
- The step at `update-certification-matrix.yml:213`, "Close older certification issues", closes
  all others, older or not: two that overlap close each other. `NewestStaysOpen`
  excepts them (`overlaps`).
- A branch without an open pull request is deleted at `update-certification-matrix.yml:134`, also when
  another job has just written to it and is about to open one; that job then fails, or
  ends well without its row if it had seen a pull request that has been squashed since.
  `DoneMeansPublished` excepts what was lost so (`dropped`).
- `README.md:38` says that each run creates an issue. A run that is cut before its first
  report, or whose JSON file is torn, creates none (`JqFails`), and one that is cut later is published in part.
- `beacon-report.sh` asks only whether the files exist: a run cut between its two reports is
  published with the milestone of one run and the body of another, or with an empty
  body. `BodyOfTheSameRun` and `MilestoneEarned` say what is left of the promise.
- `sev_verify/models.py:299-303` says that changes of the host are gated by `--allow-host-changes`
  and are gone after a reboot. The flag is read by the commit gate only; `config set`
  runs without it, and a commit outlasts the reboot.
- `attestation_report.py:49` and its `parse` docstring say that an unknown processor raises when it is
  the only source; lines 450-462 leave the TCB undecoded instead.
- A sweep of the key derivation test tolerates rejections below the bound as long as two
  values are accepted, so a firmware that is too strict passes (the fault `strict`).
- A device that is lost between a control and the request it controls makes the rejection look
  enforced (`misled`, excepted from `PassMeansSound`).

## 5. Proofs

Every safety property that a passing run checks, invariant or action property, and the
implementation of `TestReport`, is a theorem, for every value of the constants that the
assumptions allow. Each module proves one inductive invariant, `IInv`, with the lemmas
that it holds initially and that every step keeps it, and derives its properties from it.
TLC finds each of them to hold with the constants of its module's run; where the
types cannot be enumerated, it checks their parts.

**SevTest.** `Control` ties the program counter to the launch: a process is
`starting` exactly while `vm_launch` runs, it is then the only one tracked, `launch` is
set wherever the code uses it without asking, and the CID is held by a process that
is alive. `OrphansBounded` is the argument: a process can leave the hands of the harness only
with an exception on its way out (`JustLost`) or in a crash, and each exception loses at most
one. `AnsweredByOwnGuest` follows: without a crash there is no orphan, so the
holder of the CID, being alive, is the tracked process. `ImplementsReport` shows that initial
states map to initial states of `TestReport` and steps to steps or stutters; it
needs `Bookkeeping`, that the verdict computed by increments is the one of the results so far.
`ProfilesFlow` classifies the steps by what they do to the profile.

**GuestVsock.** The invariant is an order: what has been executed or responded to
comes before what is being served, this before all that is queued, and the queue is
ascending (`Order`, `Responses`). The properties are about the history of
executions alone and not inductive: a late connection could overtake if the
queue were not in the order of the requests.

**TcbCommit.** `Cleaning` counts the two resets along the plan against the override of this
run; `ReportsDated` says that a report of this run is one of the firmware as it is until the
commit, wherever it is kept; `Exercised` says for each step of the plan what a run
without a failure has shown so far. `GateGuardsFloor` is an action property: it
follows from what the gate has read and from the date of that report.

**IdBlock.** `BlockInUse` says whose block the profile holds in which step, since a set step
that fails leaves another case's there; `Built`, that a block differs from the valid one in what
its case is about; `Measured`, that measurement and signature are of this run unless the
file was replaced. `RejectedForItsReason` needs all three: the firmware refuses for the
one defect that the block has.

**KeyDerivation.** `RoundTrip` (encoding and decoding a TCB_VERSION agree, on
each layout, for all its bytes) and `OneGeneration` (no CPUID matches two entries of the table)
come first. `RuledOut` is the invariant of `PassMeansSound`: the faults that each step of
the plan has excluded. For each handler there is a lemma that it finds its
faults (`Finds...`) and, for a firmware without one, that it passes. The lemmas about sweeps
hold for every component value, so they cover the thinning above 16 and the end at 255
without enumerating bytes.

**Certification.** `Walk` relates the queue of manifests to the whole list of this invocation,
`Ledger` the history of tests to what the manifests so far ask for, `OnDisk` each file to
the run that wrote it, `StaysFinished` a finished certification to its files, and `Verdict`
the variables of the loop to all results. The hard part is about pure functions:
that the walk over the levels finds the highest earned one (`HighestFacts`, `ReportSound`)
for levels in any order, and that grouping the filters by manifest neither loses nor adds a test
(`DiscoverCovers`), for every sequence of filters.

**MatrixWorkflow.** A request is classified by what it does to the branch (`StepOf`):
nothing, delete, reset to a base, or write one row. `Placement` says that every file is in
order, also those which a job has read and may still put back; `Behind`, that what a forward
move of the branch discards is on the default branch; `Lasting`, that the cell of a job that has written is
taken from then on, or lost with a deleted branch. `Closing` says that nobody is about to close the newest
issue: the jobs of its older twins have ended, and its own has listed all others that are open.

**Assumptions.** All are about constants, named, and evaluated in the runs:
`ConstantsAssumption` (SevTest), `VsockAssumption`, `TcbAssumption`,
`IdBlockAssumption` (metadata that are not invalid have the policy of the code),
`KeyDerivationAssumption` and `AttestationReportAssumption` (a platform is of a layout, and its
CPU, when known, is of the same one), `CertificationAssumption` (test names are unique within a
manifest and a level is of its manifest's version, as in the repository's manifests, which
the code does not check; the version order lists each version once), `MatrixAssumption` (an issue has a row,
and columns are numbers). The rest of them says that a sentinel such as `NoFile` differs from every
value of its type, which holds of model values.

**Induction.** Lists are filtered by a recursive function (`Kept`). `SubsequencesProofs` proves
by induction what it leaves: the elements at the positions in question, along an increasing
function (`KeptPlaces`), and everything if nothing is dropped (`KeptAll`). The induction
theorems of the library take operators, so the module first derives induction over sets of
numbers (`LeastNat`, `Induction`) from the well-foundedness of strict inclusion.

**Only model-checked.** Liveness under fairness, which is out of the prover's reach: `TestEnds`,
`QueueDrains`, `ExchangeEnds` and `PipelineEnds`. The four violations are counterexamples of TLC.

## 6. Not modelled

- The attestation test and the prerequisite `snp_ok.py`: their handlers compare values of
  one report or read one file, with no state that outlives the step. Their plans and outcomes
  are in SevTest and Certification.
- The guest's own pipeline of shell scripts, and the image builds and releases.
- The contents of QEMU command lines and certificates; the fields of an attestation report that no
  test compares; the step log, which observes and formats.
- The child processes that a timed-out host command leaves behind; concurrent invocations of
  sev-verify on one host, which the harness does not provide for.
- In the workflow: the parsing of labels and titles, the place of a new row, and the search
  for the table, of which only the outcome is kept; errors of GitHub that are not 404, 409
  or 422, which end a job at once.
