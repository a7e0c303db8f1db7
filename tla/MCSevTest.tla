----------------------------- MODULE MCSevTest -----------------------------
(***************************************************************************)
(* Instances of SevTest for TLC.                                           *)
(***************************************************************************)
EXTENDS SevTest, TLC

CONSTANTS v1, v2, f1, f2

MCVMs == {v1, v2}
MCProfiles == {f1, f2}

\* The text a negative test expects QEMU to give.
BadMeasurement == "Bad measurement"
MCTexts == {Booted, Stopped, BadMeasurement}

S(kind, type)            == [kind |-> kind, type |-> type, expect |-> "exit_code:0"]
Expects(kind, type, met) == [kind |-> kind, type |-> type, expect |-> met]
T(steps, f)              == [steps |-> steps, profile |-> f]

\* Every plan of at most two steps, of any kind and severity, a launch with
\* any of its three expectations, with and without a profile.
AnyStep ==
  {S(k, t) : k \in StepKinds, t \in StepTypes}
    \cup {Expects("vm_launch", "required", e) : e \in {"exit_code:1", BadMeasurement}}
ShortPlans == {<<>>} \cup {<<s>> : s \in AnyStep} \cup {<<s, t>> : s, t \in AnyStep}
ShortTests == {T(plan, f) : plan \in ShortPlans, f \in {f1, NoProfile}}

\* The plan of attestation_test: boot, fetch, verify, stop.
AttestationPlan ==
  << S("vm_launch", "setup"), S("guest", "required"), S("guest_pull", "required"),
     S("host", "setup"), S("callable", "required"), S("vm_stop", "info") >>

\* The plan of id_block_test: a launch with an ID block, then one with a
\* defect that must be refused for the right reason.
IdBlockPlan ==
  << S("callable", "setup"), S("vm_launch", "setup"), S("guest", "required"),
     S("vm_stop", "required"), S("callable", "required"),
     Expects("vm_launch", "required", BadMeasurement), S("vm_stop", "info") >>

\* Guest steps that boot the guest themselves, and a forgotten stop.
ImplicitPlan == << S("guest", "info"), S("vm_launch", "info"), S("guest_pull", "required") >>

LongTests == {T(AttestationPlan, f1), T(IdBlockPlan, f1), T(ImplicitPlan, f1)}

Symmetry == Permutations(MCVMs)

=============================================================================
