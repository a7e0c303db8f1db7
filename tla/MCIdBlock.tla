----------------------------- MODULE MCIdBlock -----------------------------
(***************************************************************************)
(* Instances of IdBlock for TLC.                                           *)
(***************************************************************************)
EXTENDS IdBlock

OwnPolicy(smt) == [smt |-> smt, abi |-> "low", rest |-> "own"]

\* The defaults; a policy without SMT; an identity of zeros with the policy
\* that QEMU would have chosen, which a guest without an ID block has as well.
MCMetas == {[ids |-> "set", policy |-> OwnPolicy(TRUE)],
            [ids |-> "set", policy |-> OwnPolicy(FALSE)],
            [ids |-> "zero", policy |-> QemuPolicy],
            InvalidMeta}
=============================================================================
