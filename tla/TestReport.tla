----------------------------- MODULE TestReport -----------------------------
(***************************************************************************)
(* What execute_test promises about the report of a test, with no word of  *)
(* guests, threads or processes: the results appear one step at a time, a  *)
(* failed setup step skips everything after it, and the verdict of a test  *)
(* that returns is a function of its severities and results.               *)
(***************************************************************************)
EXTENDS Integers, Sequences

VARIABLES
  phase,    \* idle, running, returned with a report, or aborted without one
  plan,     \* the severity of each step
  report,   \* the results so far
  verdict   \* the result of a test that has returned

vars == <<phase, plan, report, verdict>>

Severities == {"setup", "required", "info"}
Bad == {"fail", "error"}

\* A failed info step leaves the verdict alone.
Verdict(severities, rs) ==
  IF \E k \in DOMAIN rs : rs[k] \in Bad /\ severities[k] # "info" THEN "fail" ELSE "pass"

Init ==
  /\ phase = "idle"
  /\ plan \in Seq(Severities)
  /\ report = <<>>
  /\ verdict = "none"

Begin ==
  /\ phase # "running"
  /\ phase' = "running"
  /\ plan' \in Seq(Severities)
  /\ report' = <<>>
  /\ verdict' = "none"

\* A test whose module cannot be loaded returns at once.
NotLoaded ==
  /\ phase # "running"
  /\ phase' = "returned"
  /\ plan' \in Seq(Severities)
  /\ report' = <<>>
  /\ verdict' = "error"

\* The next step ends with r; if it halts the test, the rest is skipped.
StepEnds(r) ==
  LET k == Len(report) + 1 IN
  /\ phase = "running"
  /\ k <= Len(plan)
  /\ report' = IF r \in Bad /\ plan[k] = "setup"
                 THEN [j \in 1 .. Len(plan) |->
                         IF j < k THEN report[j] ELSE IF j = k THEN r ELSE "skip"]
                 ELSE Append(report, r)
  /\ UNCHANGED <<phase, plan, verdict>>

Return ==
  /\ phase = "running"
  /\ Len(report) = Len(plan)
  /\ phase' = "returned"
  /\ verdict' = Verdict(plan, report)
  /\ UNCHANGED <<plan, report>>

\* An exception: whatever was reported is not returned.
Abort ==
  /\ phase = "running"
  /\ phase' = "aborted"
  /\ UNCHANGED <<plan, report, verdict>>

Next ==
  \/ Begin \/ NotLoaded \/ Return \/ Abort
  \/ \E r \in Bad \cup {"pass"} : StepEnds(r)

Spec == Init /\ [][Next]_vars

=============================================================================
