--------------------------- MODULE SevTestProofs ---------------------------
(***************************************************************************)
(* Proofs about SevTest, for every set of tests, processes and profiles.   *)
(* The steps of execute_test fall into a few classes, by what they do to   *)
(* the guest; the inductive invariant is proved class by class.            *)
(***************************************************************************)
EXTENDS SevTest, FiniteSetTheorems, TLAPS

\* The step loop is inside step i.
InLoop == pc \in Pcs \ (Ended \cup {"finally", "fterm", "fkill"})

\* How the place in the code, the guest and the exception go together.
Control ==
  /\ InLoop => i <= Len(test.steps)
  /\ pc \in {"settle", "boot"} <=> starting # NoVM
  /\ starting # NoVM => launch = NoVM
  /\ pc \in {"guest", "term", "kill", "fterm", "fkill"} => launch # NoVM
  /\ pc \in Ended => launch = NoVM
  /\ exc => pc \in {"finally", "fterm", "fkill"}
  /\ cid # NoVM => qemu[cid] # "none"

IInv ==
  /\ TypeOK
  /\ Control
  /\ HandlerConfined
  /\ OrphansBounded
  /\ AnsweredByOwnGuest

\* What a step leaves alone when it touches no guest.
Aside == UNCHANGED <<ctxProfile, launchVars, osKnown, guestVars, answered>>

----------------------------------------------------------------------------
(* Lemmas about the operators of the model *)

\* Outside the finally block, recording a result keeps the bookkeeping typed.
LEMMA RecordTyped ==
  ASSUME TypeOK, Control, InLoop, NEW r \in StepResults, Record(r)
  PROVE  /\ pc' \in {"step", "finally"}
         /\ pc' = "step" => i' <= Len(test'.steps)
         /\ i' \in Nat \ {0}
         /\ results' \in Seq(StepResults)
         /\ overall' \in {"pass", "fail", "error"}
         /\ profile' \in Profiles \cup {NoProfile}
         /\ UNCHANGED <<exc, test, tests, crashes>>
<1> DEFINE n == Len(test.steps) - i
           skips == [j \in 1 .. n |-> "skip"]
<1>1. test.steps \in Seq(Steps)
  BY ConstantsAssumption DEF TypeOK
<1>2. n \in Nat
  BY <1>1 DEF TypeOK, Control
<1>3. skips \in Seq(StepResults)
  BY <1>2 DEF StepResults
<1>4. Append(results, r) \in Seq(StepResults)
  BY DEF TypeOK
<1>5. Append(results, r) \o skips \in Seq(StepResults)
  BY <1>3, <1>4
<1>6. results' \in Seq(StepResults)
  BY <1>4, <1>5 DEF Record
<1>7. (pc' = "step" => i' <= Len(test'.steps)) /\ i' \in Nat \ {0}
  BY <1>1 DEF Record, TypeOK, Control, testVars
<1> QED
  BY <1>6, <1>7 DEF Record, TypeOK, testVars

\* The verdict on an outcome is a result.
LEMMA CheckedTyped == \A met : Checked(met) \in {"pass", "fail"}
BY DEF Checked

\* Orphans is a finite set.
LEMMA OrphansFinite == IsFiniteSet(Orphans) /\ Cardinality(Orphans) \in Nat
<1>1. Orphans \subseteq VMs
  BY DEF Orphans, Alive
<1> QED
  BY <1>1, ConstantsAssumption, FS_Subset, FS_CardinalityType

\* As long as nothing has crashed there are no orphans.
LEMMA NoOrphans ==
  ASSUME OrphansBounded, crashes = 0, ~exc
  PROVE  Orphans = {}
BY OrphansFinite, FS_EmptySet DEF OrphansBounded, JustLost

----------------------------------------------------------------------------
(* The number of orphans over a step *)

\* Naturals add up to a natural.
LEMMA SumNat == \A n, m \in Nat : n + m \in Nat
OBVIOUS

\* A step that adds no orphan, and forgets no exception, keeps the bound.
LEMMA OrphansKept ==
  ASSUME TypeOK, OrphansBounded, Orphans' \subseteq Orphans, crashes' \in Nat,
         crashes + JustLost <= crashes' + JustLost'
  PROVE  OrphansBounded'
<1>1. IsFiniteSet(Orphans) /\ Cardinality(Orphans) \in Nat
  BY OrphansFinite
<1>2. IsFiniteSet(Orphans') /\ Cardinality(Orphans') <= Cardinality(Orphans)
  BY <1>1, FS_Subset
<1>3. Cardinality(Orphans') \in Nat
  BY <1>2, FS_CardinalityType
<1>4. crashes \in Nat /\ JustLost \in 0 .. 1 /\ JustLost' \in 0 .. 1
  BY DEF TypeOK, JustLost
<1>5. Cardinality(Orphans) <= crashes + JustLost
  BY DEF OrphansBounded
<1>6. JustLost \in Nat /\ JustLost' \in Nat
  BY <1>4
<1>7. Cardinality(Orphans') <= crashes' + JustLost'
  <2> DEFINE old  == Cardinality(Orphans)
             new  == Cardinality(Orphans')
             have == crashes + JustLost
             then == crashes' + JustLost'
  <2>1. have \in Nat /\ then \in Nat
    BY <1>4, <1>6, SumNat, Zenon
  <2>2. old \in Nat /\ new \in Nat
    BY <1>1, <1>3
  <2>3. new <= old /\ old <= have /\ have <= then
    BY <1>2, <1>5
  <2> HIDE DEF old, new, have, then
  <2>4. new <= then
    BY <2>1, <2>2, <2>3
  <2> QED
    BY <2>4 DEF new, then
<1> QED
  BY <1>7 DEF OrphansBounded

\* A step that adds one orphan must have lost it to an exception.
LEMMA OrphanAdded ==
  ASSUME TypeOK, OrphansBounded, NEW p \in VMs, Orphans' \subseteq Orphans \cup {p},
         crashes' \in Nat, crashes + JustLost + 1 <= crashes' + JustLost'
  PROVE  OrphansBounded'
<1>1. IsFiniteSet(Orphans) /\ Cardinality(Orphans) \in Nat
  BY OrphansFinite
<1>2. /\ IsFiniteSet(Orphans \cup {p})
      /\ Cardinality(Orphans \cup {p}) \in Nat
      /\ Cardinality(Orphans \cup {p}) <= Cardinality(Orphans) + 1
  <2>1. /\ IsFiniteSet(Orphans \cup {p})
        /\ \/ Cardinality(Orphans \cup {p}) = Cardinality(Orphans)
           \/ Cardinality(Orphans \cup {p}) = Cardinality(Orphans) + 1
    BY <1>1, FS_AddElement, Zenon
  <2> QED
    BY <1>1, <2>1
<1>3. /\ IsFiniteSet(Orphans')
      /\ Cardinality(Orphans') <= Cardinality(Orphans \cup {p})
  BY <1>2, FS_Subset
<1>4. Cardinality(Orphans') \in Nat
  BY <1>3, FS_CardinalityType
<1>5. Cardinality(Orphans') <= Cardinality(Orphans) + 1
  BY <1>1, <1>2, <1>3, <1>4
<1>6. crashes \in Nat /\ JustLost \in Nat /\ JustLost' \in Nat
  BY DEF TypeOK, JustLost
<1>7. Cardinality(Orphans) <= crashes + JustLost
  BY DEF OrphansBounded
<1>8. Cardinality(Orphans') <= crashes' + JustLost'
  <2> DEFINE old  == Cardinality(Orphans)
             new  == Cardinality(Orphans')
             have == crashes + JustLost
             then == crashes' + JustLost'
  <2>1. have \in Nat /\ then \in Nat
    BY <1>6, SumNat, Zenon
  <2>2. old \in Nat /\ new \in Nat
    BY <1>1, <1>4
  <2>3. new <= old + 1 /\ old <= have /\ have + 1 <= then
    BY <1>5, <1>7
  <2> HIDE DEF old, new, have, then
  <2>4. new <= then
    BY <2>1, <2>2, <2>3
  <2> QED
    BY <2>4 DEF new, then
<1> QED
  BY <1>8 DEF OrphansBounded

----------------------------------------------------------------------------
(* Classes of steps *)

\* A step result is recorded and no guest is touched.
LEMMA RecordAside ==
  ASSUME IInv, pc \in {"step", "guest", "handler", "drain"},
         NEW r \in StepResults, Record(r),
         Aside, handler' = handler, handler = "idle"
  PROVE  IInv'
<1> USE DEF IInv
<1>1. InLoop
  BY DEF InLoop, Pcs, Ended
<1>2. /\ pc' \in {"step", "finally"}
      /\ pc' = "step" => i' <= Len(test'.steps)
      /\ i' \in Nat \ {0}
      /\ results' \in Seq(StepResults)
      /\ overall' \in {"pass", "fail", "error"}
      /\ profile' \in Profiles \cup {NoProfile}
      /\ UNCHANGED <<exc, test, tests, crashes>>
  BY <1>1, RecordTyped
<1>3. TypeOK'
  BY <1>2 DEF TypeOK, Pcs, Ended, Aside, launchVars, guestVars
<1>4. Control'
  BY <1>2 DEF Control, InLoop, Pcs, Ended, Aside, launchVars, guestVars
<1>5. HandlerConfined'
  BY DEF HandlerConfined
<1>6. OrphansBounded'
  BY <1>2 DEF OrphansBounded, JustLost, Orphans, Alive, Aside, launchVars, guestVars
<1>7. AnsweredByOwnGuest'
  BY <1>2 DEF AnsweredByOwnGuest, Aside
<1> QED
  BY <1>3, <1>4, <1>5, <1>6, <1>7

\* An exception is raised and no guest is touched.
LEMMA RaiseAside ==
  ASSUME IInv, pc \in {"step", "guest", "kill"}, Raise, Aside, handler' = handler
  PROVE  IInv'
<1> USE DEF IInv, Raise, Aside, loopVars, testVars, launchVars, guestVars
<1>1. TypeOK'
  BY DEF TypeOK, Pcs, Ended
<1>2. Control'
  BY DEF Control, InLoop, Pcs, Ended
<1>3. HandlerConfined'
  BY DEF HandlerConfined
<1>4. OrphansBounded'
  <2>1. Orphans' = Orphans
    BY DEF Orphans, Alive
  <2>2. ~exc
    BY DEF Control
  <2> QED
    BY <2>1, <2>2, OrphansKept DEF TypeOK, JustLost
<1>5. AnsweredByOwnGuest'
  BY DEF AnsweredByOwnGuest
<1> QED
  BY <1>1, <1>2, <1>3, <1>4, <1>5

\* The code moves on to where it waits for something and no guest is touched.
LEMMA GotoAside ==
  ASSUME IInv, NEW label, Goto(label), Aside, handler' \in {"idle", "running"},
         handler' = "running" => label \in {"handler", "drain"},
         \/ pc \in {"step", "handler"} /\ label \in {"handler", "drain"}
         \/ pc = "settle" /\ label = "boot"
         \/ pc \in {"step", "term"} /\ label \in {"term", "kill"} /\ launch # NoVM
         \/ pc \in {"finally", "fterm"} /\ label \in {"fterm", "fkill"} /\ launch # NoVM
  PROVE  IInv'
<1> USE DEF IInv, Goto, Aside, loopVars, testVars, launchVars, guestVars
<1>1. TypeOK'
  BY DEF TypeOK, Pcs, Ended
<1>2. Control'
  BY DEF Control, InLoop, Pcs, Ended
<1>3. HandlerConfined'
  BY DEF HandlerConfined
<1>4. OrphansBounded'
  BY DEF OrphansBounded, JustLost, Orphans, Alive
<1>5. AnsweredByOwnGuest'
  BY DEF AnsweredByOwnGuest
<1> QED
  BY <1>1, <1>2, <1>3, <1>4, <1>5

----------------------------------------------------------------------------
(* The steps, one family at a time *)

\* The invariant holds on a host where nothing has run yet.
LEMMA InitIInv == Init => IInv
<1> SUFFICES ASSUME Init PROVE IInv
  OBVIOUS
<1> USE DEF Init
<1>1. TypeOK
  <2>1. results \in Seq(StepResults) /\ i \in Nat \ {0} /\ tests \in Nat /\ crashes \in Nat
    OBVIOUS
  <2>2. qemu \in [VMs -> {"none", "starting", "booting", "ready"}]
    OBVIOUS
  <2>3. answered \in (VMs \cup {NoVM}) \X (VMs \cup {NoVM})
    OBVIOUS
  <2> QED
    BY <2>1, <2>2, <2>3 DEF TypeOK, Pcs, Ended
<1>2. Control
  BY DEF Control, InLoop, Pcs, Ended
<1>3. HandlerConfined /\ AnsweredByOwnGuest
  BY DEF HandlerConfined, AnsweredByOwnGuest
<1>4. Orphans = {}
  BY DEF Orphans, Alive
<1>5. OrphansBounded
  <2>1. Cardinality(Orphans) = 0
    BY <1>4, FS_EmptySet
  <2> QED
    BY <2>1 DEF OrphansBounded, JustLost
<1> QED
  BY <1>1, <1>2, <1>3, <1>5 DEF IInv

\* Beginning a test keeps the invariant: whatever ran before, no guest is
\* tracked and no handler runs.
LEMMA BeginStep == ASSUME IInv, Begin PROVE IInv'
<1> USE DEF IInv
<1>1. pc \in Ended /\ launch = NoVM /\ starting = NoVM /\ handler = "idle" /\ ~exc
  BY DEF Begin, StartTest, LoadFails, SetupRaises, Enter, Control, HandlerConfined,
         TypeOK, Ended
<1>2. PICK t \in Tests : StartTest(t) \/ LoadFails(t) \/ SetupRaises(t)
  BY DEF Begin
<1>3. t.steps \in Seq(Steps) /\ t.profile \in Profiles \cup {NoProfile}
  BY ConstantsAssumption
<1> DEFINE Frame ==
        /\ test' = t /\ i' = 1 /\ results' = <<>> /\ tests' = tests + 1
        /\ overall' \in {"pass", "error"} /\ osKnown' \in BOOLEAN
        /\ profile' \in Profiles \cup {NoProfile} /\ ctxProfile' \in Profiles \cup {NoProfile}
        /\ launch' = NoVM /\ starting' = NoVM /\ launchOk' \in BOOLEAN
        /\ launchProfile' \in Profiles \cup {NoProfile}
        /\ UNCHANGED <<handler, qemu, cid, answered, crashes>>
<1>4. Frame
  BY <1>1, <1>2, <1>3
     DEF TypeOK, StartTest, LoadFails, SetupRaises, Enter, launchVars, guestVars
<1>5. \/ pc' = "step" /\ t.steps # <<>> /\ exc' = FALSE
      \/ pc' = "finally" /\ exc' \in BOOLEAN
      \/ pc' = "returned" /\ exc' = FALSE
  BY <1>2 DEF StartTest, LoadFails, SetupRaises
<1>6. TypeOK'
  <2>1. results' \in Seq(StepResults) /\ i' \in Nat \ {0} /\ tests' \in Nat
    BY <1>4 DEF TypeOK
  <2> QED
    BY <2>1, <1>4, <1>5 DEF TypeOK, Pcs, Ended
<1>7. Control'
  <2>1. pc' = "step" => i' <= Len(test'.steps)
    BY <1>3, <1>4, <1>5
  <2> QED
    BY <2>1, <1>4, <1>5 DEF Control, InLoop, Pcs, Ended
<1>8. HandlerConfined'
  BY <1>1, <1>2 DEF HandlerConfined, StartTest, LoadFails, SetupRaises, Enter
<1>9. AnsweredByOwnGuest'
  BY <1>2 DEF AnsweredByOwnGuest, StartTest, LoadFails, SetupRaises, Enter
<1>10. OrphansBounded'
  <2>1. UNCHANGED <<launch, starting, qemu, crashes>>
    BY <1>1, <1>2 DEF StartTest, LoadFails, SetupRaises, Enter, launchVars, guestVars
  <2>2. Orphans' = Orphans
    BY <2>1 DEF Orphans, Alive
  <2> QED
    BY <1>1, <2>1, <2>2, OrphansKept DEF TypeOK, JustLost
<1> QED
  BY <1>6, <1>7, <1>8, <1>9, <1>10

\* Where the code is between two waits, no launch is under way and no
\* exception is on its way out.
LEMMA Calm ==
  ASSUME IInv, pc \in {"step", "guest", "handler", "drain", "term", "kill"}
  PROVE  starting = NoVM /\ ~exc
BY DEF IInv, Control

\* Steps that only record a result.
LEMMA RecordingStep ==
  ASSUME IInv,
         \/ LaunchWithoutProfile \/ DuplicateLaunch
         \/ GuestWithoutProfile \/ GuestNotBooted \/ GuestVsockFails
         \/ HostRuns \/ HostFails \/ HandlerMissing \/ HandlerDone \/ HandlerDrained
         \/ StopWithoutGuest \/ StopOSError
  PROVE  IInv'
<1>1. PICK r \in StepResults :
        /\ pc \in {"step", "guest", "handler", "drain"}
        /\ Record(r)
        /\ Aside
        /\ handler' = handler
        /\ pc \in {"handler", "drain"} => handler = "idle"
  BY CheckedTyped
     DEF LaunchWithoutProfile, DuplicateLaunch, GuestWithoutProfile, GuestNotBooted,
         GuestVsockFails, HostRuns, HostFails, HandlerMissing, HandlerDone, HandlerDrained,
         StopWithoutGuest, StopOSError, AtStep, AtGuest, Aside, StepResults
<1>2. handler = "idle"
  BY <1>1 DEF IInv, HandlerConfined, TypeOK
<1> QED
  BY <1>1, <1>2, RecordAside

\* Steps that only raise.
LEMMA RaisingStep ==
  ASSUME IInv, SpawnRaises \/ GuestRaises \/ HostRaises \/ JournalRaises \/ StopRaises
  PROVE  IInv'
BY RaiseAside DEF SpawnRaises, GuestRaises, HostRaises, JournalRaises, StopRaises, AtStep,
                  AtGuest, CanLaunch, Aside

\* Steps that only move on to a wait.
LEMMA WaitingStep ==
  ASSUME IInv,
         \/ Settled \/ HandlerSubmitted \/ HandlerTimesOut
         \/ StopTerminates \/ StopKills \/ FinallyTerminates \/ FinallyKills
  PROVE  IInv'
<1>1. CASE Settled
  BY <1>1, GotoAside DEF Settled, Aside, IInv, TypeOK, HandlerConfined
<1>2. CASE HandlerSubmitted
  BY <1>2, GotoAside DEF HandlerSubmitted, AtStep, Aside
<1>3. CASE HandlerTimesOut
  BY <1>3, GotoAside DEF HandlerTimesOut, Aside
<1>4. CASE StopTerminates
  BY <1>4, GotoAside DEF StopTerminates, AtStep, Aside, IInv, TypeOK, HandlerConfined
<1>5. CASE StopKills
  BY <1>5, GotoAside DEF StopKills, Aside, IInv, TypeOK, HandlerConfined, Control
<1>6. CASE FinallyTerminates
  BY <1>6, GotoAside DEF FinallyTerminates, Aside, IInv, TypeOK, HandlerConfined
<1>7. CASE FinallyKills
  BY <1>7, GotoAside DEF FinallyKills, Aside, IInv, TypeOK, HandlerConfined, Control
<1> QED
  BY <1>1, <1>2, <1>3, <1>4, <1>5, <1>6, <1>7

\* vm_launch that ends without a launch: before Popen, or because QEMU is gone.
LEMMA RefusedStep == ASSUME IInv, ProfileRejected \/ ExitedImmediately PROVE IInv'
<1> USE DEF IInv
<1>1. PICK r \in StepResults :
        /\ pc \in {"step", "settle"}
        /\ Record(r)
        /\ starting' = NoVM
        /\ UNCHANGED <<ctxProfile, handler, launch, launchOk, launchProfile, osKnown,
                       guestVars, answered>>
        /\ starting # NoVM => qemu[starting] = "none"
  BY DEF ProfileRejected, ExitedImmediately, LaunchRefused, AtStep, CanLaunch, Control,
         StepResults
<1>2. InLoop /\ ~exc
  BY <1>1 DEF InLoop, Pcs, Ended, Control
<1>3. /\ pc' \in {"step", "finally"}
      /\ pc' = "step" => i' <= Len(test'.steps)
      /\ i' \in Nat \ {0}
      /\ results' \in Seq(StepResults)
      /\ overall' \in {"pass", "fail", "error"}
      /\ profile' \in Profiles \cup {NoProfile}
      /\ UNCHANGED <<exc, test, tests, crashes>>
  BY <1>1, <1>2, RecordTyped
<1>4. TypeOK'
  BY <1>1, <1>3 DEF TypeOK, Pcs, Ended, guestVars
<1>5. Control'
  BY <1>1, <1>3 DEF Control, InLoop, Pcs, Ended, guestVars
<1>6. HandlerConfined'
  BY <1>1 DEF HandlerConfined
<1>7. AnsweredByOwnGuest'
  BY <1>1, <1>3 DEF AnsweredByOwnGuest
<1>8. OrphansBounded'
  <2>1. Orphans' \subseteq Orphans
    BY <1>1 DEF Orphans, Alive, guestVars, TypeOK
  <2> QED
    BY <1>1, <1>2, <1>3, <2>1, OrphansKept DEF TypeOK, JustLost
<1> QED
  BY <1>4, <1>5, <1>6, <1>7, <1>8

\* Popen: the new process is tracked at once, and it was not running before.
LEMMA SpawnStep == ASSUME IInv, NEW p \in VMs, Spawn(p) PROVE IInv'
<1> USE DEF IInv, Spawn, Goto, loopVars, testVars
<1>1. pc = "step" /\ launch = NoVM /\ p # NoVM /\ ~exc
  BY ConstantsAssumption DEF CanLaunch, AtStep, Control
<1>2. TypeOK'
  BY <1>1 DEF TypeOK, Pcs, Ended
<1>3. Control'
  BY <1>1 DEF TypeOK, Control, InLoop, Pcs, Ended
<1>4. HandlerConfined' /\ AnsweredByOwnGuest'
  BY <1>1 DEF HandlerConfined, AnsweredByOwnGuest
<1>5. Orphans' \subseteq Orphans
  BY <1>1 DEF Orphans, Alive, TypeOK, Control
<1>6. OrphansBounded'
  BY <1>1, <1>5, OrphansKept DEF TypeOK, JustLost
<1> QED
  BY <1>2, <1>3, <1>4, <1>6

\* The boot wait ends with a launch: the process stays tracked.
LEMMA BootedStep ==
  ASSUME IInv, BootAnswered \/ OsInfoRaises \/ BootFails
  PROVE  IInv'
<1> USE DEF IInv
<1>1. /\ pc = "boot"
      /\ launch' = starting /\ starting' = NoVM /\ launchOk' \in BOOLEAN
      /\ UNCHANGED <<ctxProfile, handler, launchProfile, qemu, cid>>
      /\ osKnown' \in BOOLEAN
      /\ answered' = answered \/ (cid # NoVM /\ answered' = <<starting, cid>>)
  BY DEF BootAnswered, OsInfoRaises, BootFails, Launched, AgentUp, guestVars, TypeOK
<1>2. InLoop /\ ~exc /\ starting # NoVM /\ launch = NoVM /\ handler = "idle"
  BY <1>1 DEF InLoop, Pcs, Ended, Control, TypeOK, HandlerConfined
<1> DEFINE Framed ==
        /\ pc' \in {"step", "guest", "finally"}
        /\ pc' \in {"step", "guest"} => i' <= Len(test'.steps) /\ exc' = FALSE
        /\ exc' \in BOOLEAN
        /\ i' \in Nat \ {0}
        /\ results' \in Seq(StepResults)
        /\ overall' \in {"pass", "fail", "error"}
        /\ profile' \in Profiles \cup {NoProfile}
        /\ UNCHANGED <<test, tests, crashes>>
<1>3. Framed
  <2>1. CASE Raise
    BY <2>1 DEF Raise, loopVars, testVars, TypeOK
  <2>2. CASE Goto("guest")
    BY <1>2, <2>2 DEF Goto, loopVars, testVars, TypeOK, Control
  <2>3. ASSUME NEW r \in StepResults, Record(r)
        PROVE  Framed
    <3>1. exc' = FALSE
      BY <1>2, <2>3 DEF Record, TypeOK
    <3> QED
      BY <1>2, <2>3, <3>1, RecordTyped
  <2>4. Raise \/ Goto("guest") \/ \E r \in StepResults : Record(r)
    BY CheckedTyped DEF BootAnswered, OsInfoRaises, BootFails, StepResults
  <2> QED
    BY <2>1, <2>2, <2>3, <2>4
<1>4. TypeOK'
  BY <1>1, <1>3 DEF TypeOK, Pcs, Ended
<1>5. Control'
  BY <1>1, <1>2, <1>3 DEF Control, InLoop, Pcs, Ended
<1>6. HandlerConfined'
  BY <1>1, <1>2 DEF HandlerConfined
<1>7. AnsweredByOwnGuest'
  <2>1. ASSUME crashes = 0, cid # NoVM
        PROVE  starting = cid
    <3>1. Orphans = {}
      BY <1>2, <2>1, NoOrphans
    <3> QED
      BY <1>2, <2>1, <3>1 DEF Orphans, Alive, Control, TypeOK
  <2> QED
    BY <1>1, <1>3, <2>1 DEF AnsweredByOwnGuest
<1>8. OrphansBounded'
  <2>1. Orphans' = Orphans
    BY <1>1, <1>2 DEF Orphans, Alive
  <2> QED
    BY <1>2, <1>3, <2>1, OrphansKept DEF TypeOK, JustLost
<1> QED
  BY <1>4, <1>5, <1>6, <1>7, <1>8

\* An exception out of the boot wait loses the process just started.
LEMMA BootRaisesStep == ASSUME IInv, BootRaises PROVE IInv'
<1> USE DEF IInv, BootRaises, Raise, loopVars, testVars, guestVars
<1>1. ~exc /\ launch = NoVM /\ starting \in VMs
  BY DEF Control, TypeOK
<1>2. TypeOK'
  BY DEF TypeOK, Pcs, Ended
<1>3. Control'
  BY <1>1 DEF Control, InLoop, Pcs, Ended
<1>4. HandlerConfined' /\ AnsweredByOwnGuest'
  BY DEF HandlerConfined, AnsweredByOwnGuest
<1>5. Orphans' \subseteq Orphans \cup {starting}
  BY DEF Orphans, Alive
<1>6. OrphansBounded'
  <2>1. JustLost = 0 /\ JustLost' = 1 /\ crashes \in Nat /\ crashes' = crashes
    BY <1>1 DEF JustLost, TypeOK
  <2> QED
    BY <1>1, <1>5, <2>1, OrphanAdded
<1> QED
  BY <1>2, <1>3, <1>4, <1>6

\* A guest command is answered by the guest the harness tracks.
LEMMA GuestAnswersStep == ASSUME IInv, GuestAnswers PROVE IInv'
<1> USE DEF IInv
<1>1. PICK r \in StepResults : Record(r)
  BY CheckedTyped DEF GuestAnswers, StepResults
<1>2. /\ pc \in {"step", "guest"}
      /\ launch # NoVM /\ cid # NoVM
      /\ answered' = <<launch, cid>>
      /\ UNCHANGED <<ctxProfile, handler, launchVars, osKnown, guestVars>>
  BY DEF GuestAnswers, AtGuest, AtStep, AgentUp, Control
<1>3. starting = NoVM /\ ~exc /\ InLoop /\ handler = "idle"
  BY <1>2, Calm DEF InLoop, Pcs, Ended, HandlerConfined, TypeOK
<1>4. /\ pc' \in {"step", "finally"}
      /\ pc' = "step" => i' <= Len(test'.steps)
      /\ i' \in Nat \ {0}
      /\ results' \in Seq(StepResults)
      /\ overall' \in {"pass", "fail", "error"}
      /\ profile' \in Profiles \cup {NoProfile}
      /\ UNCHANGED <<exc, test, tests, crashes>>
  BY <1>1, <1>3, RecordTyped
<1>5. TypeOK'
  BY <1>2, <1>4 DEF TypeOK, Pcs, Ended, launchVars, guestVars
<1>6. Control'
  BY <1>2, <1>3, <1>4 DEF Control, InLoop, Pcs, Ended, launchVars, guestVars
<1>7. HandlerConfined'
  BY <1>2, <1>3 DEF HandlerConfined
<1>8. OrphansBounded'
  BY <1>2, <1>4 DEF OrphansBounded, JustLost, Orphans, Alive, launchVars, guestVars
<1>9. AnsweredByOwnGuest'
  <2>1. ASSUME crashes = 0
        PROVE  launch = cid
    <3>1. Orphans = {}
      BY <1>3, <2>1, NoOrphans
    <3> QED
      BY <1>2, <1>3, <3>1 DEF Orphans, Alive, Control, TypeOK
  <2> QED
    BY <1>2, <1>4, <2>1 DEF AnsweredByOwnGuest
<1> QED
  BY <1>5, <1>6, <1>7, <1>8, <1>9

\* The handler's own steps touch only the context and itself.
LEMMA HandlerThreadStep == ASSUME IInv, HandlerThread PROVE IInv'
<1> USE DEF IInv
<1>1. /\ ctxProfile' \in Profiles \cup {NoProfile}
      /\ handler = "running" /\ handler' \in {"idle", "running"}
      /\ UNCHANGED <<pc, loopVars, exc, launchVars, osKnown, guestVars, answered,
                     testVars, crashes>>
  BY DEF HandlerThread, HandlerEnds, HandlerSetsProfile, TypeOK
<1> USE DEF loopVars, launchVars, guestVars, testVars
<1>2. TypeOK'
  BY <1>1 DEF TypeOK
<1>3. Control'
  BY <1>1 DEF Control, InLoop
<1>4. HandlerConfined' /\ AnsweredByOwnGuest'
  BY <1>1 DEF HandlerConfined, AnsweredByOwnGuest
<1>5. OrphansBounded'
  BY <1>1 DEF OrphansBounded, JustLost, Orphans, Alive
<1> QED
  BY <1>2, <1>3, <1>4, <1>5

\* A stop that succeeds forgets a process that is gone.
LEMMA StopReapedStep == ASSUME IInv, StopReaped PROVE IInv'
<1> USE DEF IInv
<1>1. PICK r \in StepResults : Record(r)
  BY CheckedTyped DEF StopReaped, StepResults
<1>2. /\ pc \in {"term", "kill"}
      /\ qemu[launch] = "none" /\ launch' = NoVM
      /\ UNCHANGED <<ctxProfile, handler, launchOk, launchProfile, starting, osKnown,
                     guestVars, answered>>
  BY DEF StopReaped
<1>3. starting = NoVM /\ ~exc /\ InLoop /\ handler = "idle" /\ launch \in VMs
  BY <1>2, Calm DEF InLoop, Pcs, Ended, HandlerConfined, TypeOK, Control
<1>4. /\ pc' \in {"step", "finally"}
      /\ pc' = "step" => i' <= Len(test'.steps)
      /\ i' \in Nat \ {0}
      /\ results' \in Seq(StepResults)
      /\ overall' \in {"pass", "fail", "error"}
      /\ profile' \in Profiles \cup {NoProfile}
      /\ UNCHANGED <<exc, test, tests, crashes>>
  BY <1>1, <1>3, RecordTyped
<1>5. TypeOK'
  BY <1>2, <1>4 DEF TypeOK, Pcs, Ended, guestVars
<1>6. Control'
  BY <1>2, <1>3, <1>4 DEF Control, InLoop, Pcs, Ended, guestVars
<1>7. HandlerConfined' /\ AnsweredByOwnGuest'
  BY <1>2, <1>3, <1>4 DEF HandlerConfined, AnsweredByOwnGuest
<1>8. OrphansBounded'
  <2>1. Orphans' \subseteq Orphans
    BY <1>2, <1>3 DEF Orphans, Alive, guestVars
  <2> QED
    BY <1>3, <1>4, <2>1, OrphansKept DEF TypeOK, JustLost
<1> QED
  BY <1>5, <1>6, <1>7, <1>8

\* execute_test ends: with nothing to stop, with its guest stopped, or with an
\* exception of the finally block, which is what loses a guest here.
LEMMA LeavingStep ==
  ASSUME IInv, FinallyNoGuest \/ FinallyReaped \/ FinallyRaises
  PROVE  IInv'
<1> USE DEF IInv
<1>1. /\ pc \in {"finally", "fterm", "fkill"}
      /\ starting = NoVM /\ handler = "idle"
      /\ Leave(TRUE) \/ Leave(FALSE)
  BY DEF FinallyNoGuest, FinallyReaped, FinallyRaises, Control, HandlerConfined, TypeOK
<1> USE DEF Leave, loopVars, testVars, guestVars
<1>2. TypeOK'
  <2>1. /\ pc' \in {"returned", "crashed"}
        /\ exc' = FALSE /\ launch' = NoVM /\ launchOk' = FALSE
        /\ crashes' = crashes \/ crashes' = crashes + 1
    BY <1>1
  <2>2. UNCHANGED <<test, i, results, overall, profile, ctxProfile, handler, launchProfile,
                    starting, osKnown, qemu, cid, answered, tests>>
    BY <1>1
  <2>3. crashes' \in Nat
    BY <2>1 DEF TypeOK
  <2>4. pc' \in Pcs /\ exc' \in BOOLEAN /\ launch' \in VMs \cup {NoVM} /\ launchOk' \in BOOLEAN
    BY <2>1 DEF Pcs, Ended
  <2> QED
    BY <2>2, <2>3, <2>4 DEF TypeOK
<1>3. Control'
  BY <1>1 DEF Control, InLoop, Pcs, Ended
<1>4. HandlerConfined' /\ AnsweredByOwnGuest'
  <2>1. crashes' = 0 => crashes = 0
    BY <1>1 DEF TypeOK
  <2> QED
    BY <1>1, <2>1 DEF HandlerConfined, AnsweredByOwnGuest
<1>5. OrphansBounded'
  <2>1. JustLost' = 0 /\ crashes \in Nat /\ crashes' \in Nat
    BY <1>1 DEF JustLost, TypeOK
  <2>2. CASE FinallyNoGuest \/ FinallyReaped
    <3>1. Orphans' \subseteq Orphans
      BY <1>1, <2>2 DEF FinallyNoGuest, FinallyReaped, Orphans, Alive
    <3>2. crashes + JustLost <= crashes'
      BY <2>1, <2>2 DEF FinallyNoGuest, FinallyReaped, JustLost, TypeOK, Control
    <3> QED
      BY <2>1, <3>1, <3>2, OrphansKept
  <2>3. CASE FinallyRaises
    <3>1. Orphans' \subseteq Orphans \cup {launch} /\ launch \in VMs
      BY <1>1, <2>3 DEF FinallyRaises, Orphans, Alive, TypeOK
    <3>2. JustLost = 0 /\ crashes' = crashes + 1
      BY <2>3 DEF FinallyRaises, JustLost
    <3> QED
      BY <2>1, <3>1, <3>2, OrphanAdded
  <2> QED
    BY <2>2, <2>3
<1> QED
  BY <1>2, <1>3, <1>4, <1>5

\* A QEMU process takes the CID, boots, loses its agent or exits: no process
\* appears.
LEMMA ProcessesStep == ASSUME IInv, Processes PROVE IInv'
<1> USE DEF IInv
<1>1. PICK p \in VMs : TakesCid(p) \/ AgentStarts(p) \/ AgentStops(p) \/ QemuExits(p)
  BY DEF Processes
<1> USE DEF HarnessUnchanged, loopVars, launchVars, testVars
<1>2. TypeOK'
  BY <1>1 DEF TypeOK, TakesCid, AgentStarts, AgentStops, QemuExits
<1>3. Control'
  BY <1>1, ConstantsAssumption
     DEF TypeOK, Control, InLoop, TakesCid, AgentStarts, AgentStops, QemuExits
<1>4. HandlerConfined' /\ AnsweredByOwnGuest'
  BY <1>1 DEF HandlerConfined, AnsweredByOwnGuest, TakesCid, AgentStarts, AgentStops,
              QemuExits
<1>5. UNCHANGED <<exc, launch, crashes>> /\ crashes \in Nat
  BY <1>1 DEF TypeOK, TakesCid, AgentStarts, AgentStops, QemuExits
<1>6. Orphans' \subseteq Orphans
  BY <1>1 DEF Orphans, Alive, TypeOK, TakesCid, AgentStarts, AgentStops, QemuExits
<1>7. OrphansBounded'
  <2>1. JustLost' = JustLost /\ JustLost \in Nat
    BY <1>5 DEF JustLost
  <2> QED
    BY <1>5, <1>6, <2>1, OrphansKept
<1> QED
  BY <1>2, <1>3, <1>4, <1>7

----------------------------------------------------------------------------
(* The theorems *)

\* Every step of the specification keeps the inductive invariant.
LEMMA NextIInv == IInv /\ [Next]_vars => IInv'
<1> SUFFICES ASSUME IInv, [Next]_vars PROVE IInv'
  OBVIOUS
<1>1. CASE Begin
  BY <1>1, BeginStep
<1>2. CASE Launching
  BY <1>2, RecordingStep, RaisingStep, WaitingStep, RefusedStep, SpawnStep, BootedStep,
     BootRaisesStep DEF Launching
<1>3. CASE Guest
  BY <1>3, RecordingStep, RaisingStep, GuestAnswersStep DEF Guest
<1>4. CASE Host
  BY <1>4, RecordingStep, RaisingStep DEF Host
<1>5. CASE Callable
  BY <1>5, RecordingStep, WaitingStep DEF Callable
<1>6. CASE Stop
  BY <1>6, RecordingStep, RaisingStep, WaitingStep, StopReapedStep DEF Stop
<1>7. CASE Finally
  BY <1>7, WaitingStep, LeavingStep DEF Finally
<1>8. CASE HandlerThread
  BY <1>8, HandlerThreadStep
<1>9. CASE Processes
  BY <1>9, ProcessesStep
<1>10. CASE UNCHANGED vars
  BY <1>10 DEF vars, loopVars, launchVars, guestVars, testVars, IInv, TypeOK, Control, InLoop,
               HandlerConfined, AnsweredByOwnGuest, OrphansBounded, JustLost, Orphans, Alive
<1> QED
  BY <1>1, <1>2, <1>3, <1>4, <1>5, <1>6, <1>7, <1>8, <1>9, <1>10 DEF Next, Harness

\* The inductive invariant holds in every reachable state.
THEOREM Invariance == Spec => []IInv
BY InitIInv, NextIInv, PTL DEF Spec

\* Every variable of execute_test keeps its type, whatever the tests are.
THEOREM TypeCorrect == Spec => []TypeOK
<1>1. IInv => TypeOK
  BY DEF IInv
<1> QED
  BY <1>1, Invariance, PTL

\* The harness loses at most one guest per crash, and none otherwise.
THEOREM NoOrphanWithoutCrash == Spec => []OrphansBounded
<1>1. IInv => OrphansBounded
  BY DEF IInv
<1> QED
  BY <1>1, Invariance, PTL

\* Until a test crashes, whatever answers a ping or a guest command is the
\* guest the current test launched.
THEOREM OwnGuestAnswers == Spec => []AnsweredByOwnGuest
<1>1. IInv => AnsweredByOwnGuest
  BY DEF IInv
<1> QED
  BY <1>1, Invariance, PTL

\* A handler's thread never outlives the step that submitted it.
THEOREM HandlersConfined == Spec => []HandlerConfined
<1>1. IInv => HandlerConfined
  BY DEF IInv
<1> QED
  BY <1>1, Invariance, PTL


----------------------------------------------------------------------------
(* The report of a test and the profile of its guest *)

Types(t) == [k \in DOMAIN t.steps |-> t.steps[k].type]

\* The bookkeeping of a test that no exception has ended: a result for each step
\* behind the loop, the verdict of those results, and the context's profile.
Bookkeeping ==
  /\ pc = "step" => profile = ctxProfile
  /\ InLoop => Len(results) = i - 1
  /\ pc \notin Ended /\ ~exc => overall = Report!Verdict(Types(test), results)
  /\ pc \in {"finally", "fterm", "fkill"} /\ ~exc => Len(results) = Len(test.steps)

\* What a step of execute_test can do to its test.
Recording == InLoop /\ \E r \in {"pass", "fail", "error"} : Record(r)
Raising   == InLoop /\ Raise
Waiting   == /\ \/ /\ InLoop
                   /\ pc' \in {"settle", "boot", "guest", "handler", "drain", "term", "kill"}
                \/ pc \in {"finally", "fterm"} /\ pc' \in {"fterm", "fkill"}
             /\ UNCHANGED <<loopVars, exc, testVars>>
Leaving   == /\ pc \in {"finally", "fterm", "fkill"}
             /\ pc' \in {"returned", "crashed"}
             /\ exc => pc' = "crashed"
             /\ exc' = FALSE
             /\ UNCHANGED <<loopVars, testVars>>

\* A step of execute_test does one of these, and never changes the context.
LEMMA HarnessClasses ==
  ASSUME Harness
  PROVE  /\ Recording \/ Raising \/ Waiting \/ Leaving
         /\ UNCHANGED ctxProfile
<1> USE DEF InLoop, Ended, Pcs
<1>1. CASE LaunchWithoutProfile \/ DuplicateLaunch \/ GuestWithoutProfile \/ GuestNotBooted
            \/ HostFails \/ HandlerMissing \/ StopWithoutGuest \/ StopOSError
  BY <1>1 DEF LaunchWithoutProfile, DuplicateLaunch, GuestWithoutProfile, GuestNotBooted,
              HostFails, HandlerMissing, StopWithoutGuest, StopOSError, AtStep, Recording
<1>2. CASE ProfileRejected \/ ExitedImmediately
  BY <1>2 DEF ProfileRejected, ExitedImmediately, LaunchRefused, CanLaunch, AtStep, Recording
<1>3. CASE SpawnRaises \/ OsInfoRaises \/ BootRaises \/ GuestRaises \/ HostRaises
            \/ JournalRaises \/ StopRaises
  BY <1>3 DEF SpawnRaises, OsInfoRaises, BootRaises, GuestRaises, HostRaises, JournalRaises,
              StopRaises, CanLaunch, AtGuest, AtStep, Launched, Raising
<1>4. CASE \E p \in VMs : Spawn(p)
  BY <1>4 DEF Spawn, CanLaunch, AtStep, Goto, Waiting
<1>5. CASE Settled \/ HandlerSubmitted \/ HandlerTimesOut \/ StopTerminates \/ StopKills
            \/ FinallyTerminates \/ FinallyKills
  BY <1>5 DEF Settled, HandlerSubmitted, HandlerTimesOut, StopTerminates, StopKills,
              FinallyTerminates, FinallyKills, AtStep, Goto, Waiting
<1>6. CASE BootAnswered \/ BootFails
  BY <1>6, CheckedTyped DEF BootAnswered, BootFails, Launched, Goto, Recording, Waiting
<1>7. CASE GuestAnswers \/ GuestVsockFails \/ HostRuns \/ HandlerDone \/ HandlerDrained
            \/ StopReaped
  BY <1>7, CheckedTyped DEF GuestAnswers, GuestVsockFails, HostRuns, HandlerDone,
                            HandlerDrained, StopReaped, AtGuest, AtStep, Recording
<1>8. CASE FinallyNoGuest \/ FinallyReaped
  BY <1>8 DEF FinallyNoGuest, FinallyReaped, Leave, Leaving
<1>9. CASE FinallyRaises
  BY <1>9 DEF FinallyRaises, Leave, Leaving
<1> QED
  BY <1>1, <1>2, <1>3, <1>4, <1>5, <1>6, <1>7, <1>8, <1>9
     DEF Harness, Launching, Guest, Host, Callable, Stop, Finally

\* The severities of a test's steps.
LEMMA TypesOf ==
  ASSUME NEW t \in Tests
  PROVE  /\ Types(t) \in Seq(Report!Severities)
         /\ Len(Types(t)) = Len(t.steps) /\ DOMAIN Types(t) = 1 .. Len(t.steps)
         /\ \A k \in 1 .. Len(t.steps) : Types(t)[k] = t.steps[k].type
<1>1. t.steps \in Seq(Steps)
  BY ConstantsAssumption
<1>2. Types(t) = [k \in 1 .. Len(t.steps) |-> t.steps[k].type]
  BY <1>1 DEF Types
<1>3. \A k \in 1 .. Len(t.steps) : t.steps[k].type \in Report!Severities
  <2>1. Report!Severities = {"setup", "required", "info"}
    BY DEF Report!Severities
  <2>2. \A s \in Steps : s.type \in {"setup", "required", "info"}
    BY DEF Steps, StepTypes
  <2>3. \A k \in 1 .. Len(t.steps) : t.steps[k] \in Steps
    BY <1>1
  <2> QED
    BY <2>1, <2>2, <2>3
<1> QED
  BY <1>1, <1>2, <1>3

\* Recording a result is the abstract step, and the verdict keeps up with it.
LEMMA RecordReports ==
  ASSUME TypeOK, Control, InLoop, Bookkeeping, NEW r \in {"pass", "fail", "error"}, Record(r)
  PROVE  /\ Report!StepEnds(r)
         /\ ~exc' /\ UNCHANGED test
         /\ overall' = Report!Verdict(Types(test), results')
         /\ pc' = "step" => profile' = ctxProfile /\ Len(results') = i' - 1
         /\ pc' = "finally" => Len(results') = Len(test.steps)
         /\ pc' \in {"step", "finally"}
<1> DEFINE plan == Types(test)
           n == Len(test.steps)
           skips == [j \in 1 .. n - i |-> "skip"]
           halt == r \in {"fail", "error"} /\ plan[i] = "setup"
<1>1. /\ n \in Nat /\ i \in 1 .. n /\ Len(results) = i - 1 /\ ~exc
      /\ results \in Seq(StepResults) /\ pc \notin Ended
  BY ConstantsAssumption DEF TypeOK, Control, InLoop, Ended, Bookkeeping
<1>2. Len(plan) = n /\ DOMAIN plan = 1 .. n /\ plan[i] = test.steps[i].type
  BY <1>1, TypesOf DEF TypeOK
<1> HIDE DEF plan, n
<1>3. /\ results' = IF halt THEN Append(results, r) \o skips ELSE Append(results, r)
      /\ overall' = IF r \in {"fail", "error"} /\ plan[i] # "info" THEN "fail" ELSE overall
      /\ IF halt \/ i = n THEN pc' = "finally" ELSE pc' = "step" /\ i' = i + 1 /\ profile' = ctxProfile
      /\ UNCHANGED <<exc, test>>
  BY <1>2 DEF Record, Step, testVars, n
<1>4. /\ Append(results, r) \in Seq(StepResults \cup {r}) /\ Len(Append(results, r)) = i
      /\ \A j \in 1 .. i : Append(results, r)[j] = IF j < i THEN results[j] ELSE r
  BY <1>1
<1>5. skips \in Seq({"skip"}) /\ Len(skips) = n - i /\ \A j \in 1 .. n - i : skips[j] = "skip"
  BY <1>1
<1>6. results' = IF halt
                 THEN [j \in 1 .. n |-> IF j < i THEN results[j] ELSE IF j = i THEN r ELSE "skip"]
                 ELSE Append(results, r)
  <2> DEFINE all == Append(results, r) \o skips
  <2>1. SUFFICES all = [j \in 1 .. n |->
                          IF j < i THEN results[j] ELSE IF j = i THEN r ELSE "skip"]
    BY <1>3
  <2>2. all \in Seq(StepResults \cup {r} \cup {"skip"}) /\ Len(all) = n
    BY <1>1, <1>4, <1>5
  <2>3. \A j \in 1 .. n : all[j] = IF j < i THEN results[j] ELSE IF j = i THEN r ELSE "skip"
    BY <1>1, <1>4, <1>5
  <2> HIDE DEF all
  <2>4. all = [j \in 1 .. n |-> all[j]]
    BY <2>2
  <2> QED
    BY <2>3, <2>4
<1>7. /\ DOMAIN results' = IF halt THEN 1 .. n ELSE 1 .. i
      /\ Len(results') = IF halt THEN n ELSE i
      /\ \A j \in DOMAIN results' : results'[j] = IF j < i THEN results[j]
                                                  ELSE IF j = i THEN r ELSE "skip"
  BY <1>1, <1>4, <1>6
<1>8. overall' = Report!Verdict(plan, results')
  <2>1. overall = Report!Verdict(plan, results)
    BY <1>1 DEF Bookkeeping, plan
  <2>2. (\E k \in DOMAIN results' : results'[k] \in {"fail", "error"} /\ plan[k] # "info")
          <=> \/ \E k \in DOMAIN results : results[k] \in {"fail", "error"} /\ plan[k] # "info"
              \/ r \in {"fail", "error"} /\ plan[i] # "info"
    BY <1>1, <1>7
  <2> QED
    BY <1>3, <2>1, <2>2 DEF Report!Verdict, Report!Bad
<1>9. Report!StepEnds(r)
  <2>1. Phase = "running" /\ Phase' = "running" /\ pc # "returned" /\ pc' # "returned"
    BY <1>1, <1>3 DEF Phase, Ended
  <2>2. [k \in DOMAIN test.steps |-> test.steps[k].type] = plan
    BY DEF plan, Types
  <2>3. [k \in DOMAIN test.steps |-> test.steps[k].type]' = plan
    BY <1>3, <2>2
  <2> DEFINE k == Len(results) + 1
  <2>4. k = i
    BY <1>1
  <2> HIDE DEF k
  <2>5. /\ k <= Len(plan)
        /\ results' = IF r \in {"fail", "error"} /\ plan[k] = "setup"
                      THEN [j \in 1 .. Len(plan) |->
                              IF j < k THEN results[j] ELSE IF j = k THEN r ELSE "skip"]
                      ELSE Append(results, r)
    <3>1. k <= n
      BY <1>1, <2>4
    <3> QED
      BY <1>2, <1>6, <2>4, <3>1, Zenon
  <2> QED
    BY <2>1, <2>2, <2>3, <2>5, Zenon DEF Report!StepEnds, Report!Bad, k
<1> QED
  BY <1>1, <1>3, <1>7, <1>8, <1>9 DEF plan, n

\* The bookkeeping of a test over a step.
LEMMA BookkeepingKept ==
  ASSUME IInv, Bookkeeping, [Next]_vars
  PROVE  Bookkeeping'
<1>1. CASE Begin
  <2>1. PICK t \in Tests : StartTest(t) \/ LoadFails(t) \/ SetupRaises(t)
    BY <1>1 DEF Begin
  <2>2. CASE StartTest(t)
    <3>1. /\ pc' = IF t.steps = <<>> THEN "finally" ELSE "step"
          /\ test' = t /\ i' = 1 /\ results' = <<>> /\ overall' = "pass"
          /\ profile' = ctxProfile'
      BY <2>2 DEF StartTest, Enter
    <3>2. Report!Verdict(Types(t), <<>>) = "pass"
      BY DEF Report!Verdict
    <3> QED
      BY <3>1, <3>2 DEF Bookkeeping, InLoop
  <2>3. CASE LoadFails(t)
    BY <2>3 DEF LoadFails, Bookkeeping, InLoop, Ended
  <2>4. CASE SetupRaises(t)
    BY <2>4 DEF SetupRaises, Bookkeeping, InLoop
  <2> QED
    BY <2>1, <2>2, <2>3, <2>4
<1>2. CASE Harness
  <2>1. UNCHANGED ctxProfile
    BY <1>2, HarnessClasses
  <2>2. CASE Recording
    <3>1. PICK r \in {"pass", "fail", "error"} : Record(r)
      BY <2>2 DEF Recording
    <3>2. /\ ~exc' /\ UNCHANGED test
          /\ overall' = Report!Verdict(Types(test), results')
          /\ pc' = "step" => profile' = ctxProfile /\ Len(results') = i' - 1
          /\ pc' = "finally" => Len(results') = Len(test.steps)
          /\ pc' \in {"step", "finally"}
      BY <2>2, <3>1, RecordReports DEF IInv, Recording
    <3> QED
      BY <2>1, <3>2 DEF Bookkeeping, InLoop
  <2>3. CASE Raising
    BY <2>3 DEF Raising, Raise, Bookkeeping, InLoop
  <2>4. CASE Waiting
    <3>1. UNCHANGED <<i, results, overall, exc, test>>
      BY <2>4 DEF Waiting, loopVars, testVars
    <3>2. Types(test)' = Types(test)
      BY <3>1 DEF Types
    <3> QED
      BY <2>4, <3>1, <3>2 DEF Waiting, Bookkeeping, InLoop, Ended, Pcs
  <2>5. CASE Leaving
    BY <2>5 DEF Leaving, Bookkeeping, InLoop, Ended
  <2> QED
    BY <1>2, <2>2, <2>3, <2>4, <2>5, HarnessClasses
<1>3. CASE HandlerThread
  <2>1. pc # "step" /\ UNCHANGED <<pc, i, results, overall, profile, exc, test>>
    BY <1>3 DEF HandlerThread, HandlerEnds, HandlerSetsProfile, IInv, HandlerConfined, loopVars,
                testVars
  <2> QED
    BY <2>1 DEF Bookkeeping, InLoop, Types
<1>4. CASE Processes \/ UNCHANGED vars
  <2>1. UNCHANGED <<pc, i, results, overall, profile, ctxProfile, exc, test>>
    BY <1>4 DEF Processes, TakesCid, AgentStarts, AgentStops, QemuExits, HarnessUnchanged, vars,
                loopVars, testVars
  <2> QED
    BY <2>1 DEF Bookkeeping, InLoop, Types
<1> QED
  BY <1>1, <1>2, <1>3, <1>4 DEF Next

\* A step of the executor is a step of the report, or leaves the report alone.
LEMMA StepReports ==
  ASSUME IInv, Bookkeeping, [Next]_vars
  PROVE  [Report!Next]_(Report!vars)
<1> DEFINE plan == [k \in DOMAIN test.steps |-> test.steps[k].type]
           verdict == IF pc = "returned" THEN overall ELSE "none"
<1>1. ASSUME UNCHANGED <<Phase, plan, results, verdict>>
      PROVE  [Report!Next]_(Report!vars)
  BY <1>1 DEF Report!vars
<1>2. CASE Begin
  <2>1. PICK t \in Tests : StartTest(t) \/ LoadFails(t) \/ SetupRaises(t)
    BY <1>2 DEF Begin
  <2>2. /\ pc \in Ended /\ test' = t /\ results' = <<>> /\ Phase # "running"
        /\ pc' \in {"step", "finally"} \/ (pc' = "returned" /\ overall' = "error")
    BY <2>1 DEF StartTest, LoadFails, SetupRaises, Enter, Phase, Ended
  <2>3. plan' \in Seq(Report!Severities)
    BY <2>2, TypesOf DEF Types
  <2>4. CASE pc' \in {"step", "finally"}
    <3>1. Phase' = "running" /\ verdict' = "none"
      BY <2>4 DEF Phase
    <3>2. Report!Begin
      BY <2>2, <2>3, <3>1 DEF Report!Begin
    <3> QED
      BY <3>2 DEF Report!Next
  <2>5. CASE pc' = "returned" /\ overall' = "error"
    <3>1. Phase' = "returned" /\ verdict' = "error"
      BY <2>5 DEF Phase
    <3>2. Report!NotLoaded
      BY <2>2, <2>3, <3>1 DEF Report!NotLoaded
    <3> QED
      BY <3>2 DEF Report!Next
  <2> QED
    BY <2>2, <2>4, <2>5
<1>3. CASE Recording
  <2>1. PICK r \in {"pass", "fail", "error"} : Record(r)
    BY <1>3 DEF Recording
  <2>2. Report!StepEnds(r)
    BY <1>3, <2>1, RecordReports DEF IInv, Recording
  <2> QED
    BY <2>2 DEF Report!Next, Report!Bad
<1>4. CASE Raising \/ Waiting
  <2>1. /\ UNCHANGED <<results, test>> /\ pc \notin Ended /\ pc' \notin Ended
    BY <1>4 DEF Raising, Raise, Waiting, loopVars, testVars, InLoop, Ended
  <2> QED
    BY <1>1, <2>1 DEF Phase, Ended
<1>5. CASE Leaving
  <2>1. /\ UNCHANGED <<results, overall, test>> /\ pc \notin Ended
        /\ Phase = "running" /\ verdict = "none"
    BY <1>5 DEF Leaving, loopVars, testVars, Ended, Phase
  <2>2. CASE pc' = "crashed"
    <3>1. Phase' = "aborted" /\ verdict' = "none" /\ plan' = plan
      BY <2>1, <2>2 DEF Phase
    <3>2. Report!Abort
      BY <2>1, <3>1 DEF Report!Abort
    <3> QED
      BY <3>2 DEF Report!Next
  <2>3. CASE pc' = "returned"
    <3>1. Phase' = "returned" /\ verdict' = overall /\ plan' = plan
      BY <2>1, <2>3 DEF Phase
    <3>2. overall = Report!Verdict(plan, results) /\ Len(results) = Len(plan)
      <4>1. ~exc
        BY <1>5, <2>3 DEF Leaving
      <4>2. overall = Report!Verdict(Types(test), results) /\ Len(results) = Len(test.steps)
        BY <1>5, <2>1, <4>1 DEF Leaving, Bookkeeping
      <4>3. Len(Types(test)) = Len(test.steps)
        BY TypesOf DEF IInv, TypeOK
      <4> QED
        BY <4>2, <4>3 DEF Types
    <3>3. Report!Return
      BY <2>1, <3>1, <3>2 DEF Report!Return
    <3> QED
      BY <3>3 DEF Report!Next
  <2> QED
    BY <1>5, <2>2, <2>3 DEF Leaving
<1>6. CASE HandlerThread \/ Processes \/ UNCHANGED vars
  <2>1. UNCHANGED <<pc, results, overall, test>>
    BY <1>6 DEF HandlerThread, HandlerEnds, HandlerSetsProfile, Processes, TakesCid, AgentStarts,
                AgentStops, QemuExits, HarnessUnchanged, vars, loopVars, testVars
  <2> QED
    BY <1>1, <2>1 DEF Phase
<1> QED
  BY <1>2, <1>3, <1>4, <1>5, <1>6, HarnessClasses DEF Next

\* A host where nothing has run yet has nothing to report.
LEMMA InitReports == Init => Bookkeeping /\ Report!Init
<1> SUFFICES ASSUME Init PROVE Bookkeeping /\ Report!Init
  OBVIOUS
<1>1. Bookkeeping
  BY DEF Init, Bookkeeping, InLoop, Ended
<1>2. [k \in DOMAIN test.steps |-> test.steps[k].type] \in Seq(Report!Severities)
  BY TypesOf DEF Init, Types
<1> QED
  BY <1>1, <1>2 DEF Init, Report!Init, Phase

\* The bookkeeping of the step loop holds of every behaviour.
LEMMA BookkeepingInvariance == Spec => []Bookkeeping
<1>1. Init => Bookkeeping
  BY InitReports
<1>2. IInv /\ Bookkeeping /\ [Next]_vars => Bookkeeping'
  BY BookkeepingKept
<1> QED
  BY <1>1, <1>2, Invariance, PTL DEF Spec

\* The executor implements TestReport: one result per step, in order, exactly
\* what follows a failed setup step skipped, and a verdict that its results and
\* severities determine, for every test and whatever happens to its guest.
THEOREM ImplementsReport == Spec => ReportsFaithfully
<1>1. Init => Report!Init
  BY InitReports
<1>2. IInv /\ Bookkeeping /\ [Next]_vars => [Report!Next]_(Report!vars)
  BY StepReports
<1> QED
  BY <1>1, <1>2, Invariance, BookkeepingInvariance, PTL DEF Spec, ReportsFaithfully, Report!Spec

\* What a step does to the profile of the guest and of the context.
Flow ==
  /\ starting' # starting /\ starting' # NoVM => launchProfile' = ctxProfile
  /\ ctxProfile' # ctxProfile => handler = "running" \/ tests' # tests

\* Only the handlers of the plan and a new test change the context.
LEMMA StepFlows ==
  ASSUME IInv, Bookkeeping, [Next]_vars
  PROVE  Flow
<1>1. CASE Begin
  <2>1. PICK t \in Tests : StartTest(t) \/ LoadFails(t) \/ SetupRaises(t)
    BY <1>1 DEF Begin
  <2>2. CASE LoadFails(t)
    BY <2>2 DEF LoadFails, launchVars, Flow
  <2>3. CASE StartTest(t) \/ SetupRaises(t)
    <3>1. starting' = NoVM /\ tests' = tests + 1 /\ tests \in Nat
      BY <2>3 DEF StartTest, SetupRaises, Enter, IInv, TypeOK
    <3> QED
      BY <3>1 DEF Flow
  <2> QED
    BY <2>1, <2>2, <2>3
<1>2. CASE Harness
  <2>1. UNCHANGED ctxProfile
    BY <1>2, HarnessClasses
  <2>2. CASE \E p \in VMs : Spawn(p)
    <3>1. launchProfile' = profile /\ pc = "step"
      BY <2>2 DEF Spawn, CanLaunch, AtStep
    <3> QED
      BY <2>1, <3>1 DEF Flow, Bookkeeping
  <2>3. CASE ~\E p \in VMs : Spawn(p)
    <3>1. CASE Launching
      <4>1. starting' = NoVM \/ starting' = starting
        BY <2>3, <3>1 DEF Launching, LaunchWithoutProfile, DuplicateLaunch, ProfileRejected,
             LaunchRefused, SpawnRaises, ExitedImmediately, Settled, BootAnswered, Launched,
             OsInfoRaises, BootFails, BootRaises, launchVars
      <4> QED
        BY <2>1, <4>1 DEF Flow
    <3>2. CASE Guest \/ Host \/ Callable
      <4>1. starting' = starting
        BY <3>2 DEF Guest, GuestWithoutProfile, GuestNotBooted, GuestAnswers, GuestVsockFails,
             GuestRaises, Host, HostRuns, HostFails, HostRaises, Callable, HandlerMissing,
             HandlerSubmitted, HandlerDone, HandlerTimesOut, HandlerDrained, launchVars
      <4> QED
        BY <2>1, <4>1 DEF Flow
    <3>3. CASE Stop \/ Finally
      <4>1. starting' = starting
        BY <3>3 DEF Stop, StopWithoutGuest, JournalRaises, StopTerminates, StopOSError,
             StopReaped, StopKills, StopRaises, Finally, FinallyNoGuest, FinallyTerminates,
             FinallyReaped, FinallyKills, FinallyRaises, Leave, launchVars
      <4> QED
        BY <2>1, <4>1 DEF Flow
    <3> QED
      BY <1>2, <3>1, <3>2, <3>3 DEF Harness
  <2> QED
    BY <2>2, <2>3
<1>3. CASE HandlerThread
  <2>1. handler = "running" /\ UNCHANGED starting
    BY <1>3 DEF HandlerThread, HandlerEnds, HandlerSetsProfile, launchVars
  <2> QED
    BY <2>1 DEF Flow
<1>4. CASE Processes \/ UNCHANGED vars
  <2>1. UNCHANGED <<starting, ctxProfile>>
    BY <1>4 DEF Processes, TakesCid, AgentStarts, AgentStops, QemuExits, HarnessUnchanged, vars,
                launchVars
  <2> QED
    BY <2>1 DEF Flow
<1> QED
  BY <1>1, <1>2, <1>3, <1>4 DEF Next

\* QEMU is started with the profile that the context holds: what a handler has
\* set is neither lost nor overwritten before the next launch.
THEOREM ProfilesFlow == Spec => ProfileFlow
<1>1. IInv /\ Bookkeeping /\ [Next]_vars => [Flow]_vars
  BY StepFlows
<1> QED
  BY <1>1, Invariance, BookkeepingInvariance, PTL DEF Spec, ProfileFlow, Flow
=============================================================================
