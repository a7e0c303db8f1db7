---------------------------- MODULE MCTcbCommit ----------------------------
(***************************************************************************)
(* Instances of TcbCommit for TLC: a host with an FMC field.               *)
(***************************************************************************)
EXTENDS TcbCommit

MCCoreFields == {"bl", "snp", "tee", "ucode"}
MCFields     == MCCoreFields \cup {"fmc"}
MCLowerOrder == <<"bl", "snp", "tee", "ucode">>

Tcb(bl, snp, tee, ucode, fmc) ==
  [f \in MCFields |->
     CASE f = "bl" -> bl [] f = "snp" -> snp [] f = "tee" -> tee
       [] f = "ucode" -> ucode [] f = "fmc" -> fmc]

\* A host whose first field is lowered, one whose boot loader is at 0, and one
\* with nothing to lower but FMC.
MCInstalled == {Tcb(1, 1, 0, 1, 1), Tcb(0, 1, 0, 1, 1), Tcb(0, 0, 0, 0, 1)}

\* Images that raise the field the test lowers, another one, and only FMC.
MCProvisional == {Tcb(2, 1, 0, 1, 1), Tcb(1, 1, 0, 2, 1), Tcb(0, 1, 0, 1, 2)}

=============================================================================
