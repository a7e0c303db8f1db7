-------------------------- MODULE MCKeyDerivation --------------------------
(***************************************************************************)
(* Instances of KeyDerivation for TLC.                                     *)
(***************************************************************************)
EXTENDS KeyDerivation

Cpu(family, model) == [family |-> family, model |-> model]

Genoa   == Cpu(25, 17)
Turin   == Cpu(26, 2)
Venice  == Cpu(26, 80)   \* not in SUPPORTED_GENERATIONS

Legacy(bl, tee, snp, ucode) ==
  [c \in CoreComponents |->
     CASE c = "bootloader" -> bl [] c = "tee" -> tee [] c = "snp" -> snp [] c = "microcode" -> ucode]

WithFmc(bl, tee, snp, ucode, fmc) ==
  [c \in Components("turin") |->
     IF c = "fmc" THEN fmc ELSE Legacy(bl, tee, snp, ucode)[c]]

None == [kind |-> "none", what |-> "-"]

Platform(cpu, cpuid, layout, version, tcb, svn, vmpl, fault) ==
  [cpu |-> cpu, cpuid |-> cpuid, layout |-> layout, version |-> version,
   tcb |-> tcb, svn |-> svn, vmpl |-> vmpl, fault |-> fault]

\* One host for each fault of either layout, with a component at 0, one at 255
\* or close to it, and one on each side of where the sweep is thinned out.
Faulty ==
  {{Platform(Turin, Turin, "turin", 5, WithFmc(16, 0, 254, 255, 1), 2, 0, f)} : f \in Faults("turin")}
    \cup {{Platform(Genoa, Genoa, "legacy", 3, Legacy(15, 1, 255, 0), svn, 3, f)}
            : f \in Faults("legacy"), svn \in {0, 48}}

\* A TCB of zeros and an SVN of 0: there is nothing to sweep.
Bare == {{Platform(Genoa, Genoa, "legacy", 3, Legacy(0, 0, 0, 0), 0, 1, f)}
           : f \in {None, [kind |-> "unbounded", what |-> "guestSvn"],
                    [kind |-> "unbounded", what |-> "snp"]}}

\* A guest that hides its CPU, a report without LAUNCH_TCB, an unknown CPU.
Odd == {{Platform(Turin, Venice, "turin", 4, WithFmc(1, 1, 1, 1, 1), 1, 0, None)},
        {Platform(Genoa, Genoa, "legacy", 2, Legacy(1, 1, 1, 1), 1, 0, None)},
        {Platform(Venice, Venice, "turin", 5, WithFmc(1, 1, 1, 1, 1), 1, 0, None)}}

\* One that is updated between two runs, and whose guest moves to another VMPL.
Updated == {{Platform(Genoa, Genoa, "legacy", 3, Legacy(2, 0, 8, 3), 1, 2, None),
             Platform(Genoa, Genoa, "legacy", 3, Legacy(3, 0, 9, 4), 2, 0, None)}}

MCHosts == Faulty \cup Bare \cup Odd \cup Updated
=============================================================================
