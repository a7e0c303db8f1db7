------------------------- MODULE AttestationReport -------------------------
(***************************************************************************)
(* What attestation_report.py computes: the generation a CPUID belongs to, *)
(* the byte layout of a TCB_VERSION on that generation, and how parse      *)
(* chooses between the host's CPUID and the report's own.                  *)
(*                                                                         *)
(* A TCB_VERSION is the function from the places of its eight bytes, the   *)
(* lowest first, to their values; as a u64 it would exceed TLC's integers. *)
(***************************************************************************)
EXTENDS Integers, FiniteSets

CONSTANTS
  NoGeneration,  \* no generation has been supplied, or none resolves
  NoTcb,         \* a TCB_VERSION that is left undecoded
  ReportError    \* parse raises

Byte == 0 .. 255

Layouts == {"legacy", "turin"}

CoreComponents == {"bootloader", "tee", "snp", "microcode"}

Components(layout) ==
  IF layout = "turin" THEN CoreComponents \cup {"fmc"} ELSE CoreComponents

TcbVersions(layout) == [Components(layout) -> Byte]

RawTcbs == [0 .. 7 -> Byte]

----------------------------------------------------------------------------
(* TcbVersion *)

FromBytes(raw, layout) ==
  IF layout = "turin"
  THEN [c \in Components("turin") |->
          CASE c = "fmc" -> raw[0] [] c = "bootloader" -> raw[1] [] c = "tee" -> raw[2]
            [] c = "snp" -> raw[3] [] c = "microcode" -> raw[7]]
  ELSE [c \in Components("legacy") |->
          CASE c = "bootloader" -> raw[0] [] c = "tee" -> raw[1]
            [] c = "snp" -> raw[6] [] c = "microcode" -> raw[7]]

\* A component beyond a byte is cut off.
Low(value) == value % 256

ToU64(tcb, layout) ==
  IF layout = "turin"
  THEN [i \in 0 .. 7 |->
          CASE i = 0 -> IF "fmc" \in DOMAIN tcb THEN Low(tcb["fmc"]) ELSE 0
            [] i = 1 -> Low(tcb["bootloader"]) [] i = 2 -> Low(tcb["tee"])
            [] i = 3 -> Low(tcb["snp"])        [] i = 7 -> Low(tcb["microcode"])
            [] i \in 4 .. 6 -> 0]
  ELSE [i \in 0 .. 7 |->
          CASE i = 0 -> Low(tcb["bootloader"]) [] i = 1 -> Low(tcb["tee"])
            [] i = 6 -> Low(tcb["snp"])        [] i = 7 -> Low(tcb["microcode"])
            [] i \in 2 .. 5 -> 0]

----------------------------------------------------------------------------
(* Generations *)

Generation(family, models, name, layout) ==
  [family |-> family, models |-> models, name |-> name, layout |-> layout]

SupportedGenerations ==
  { Generation(25, 0 .. 15, "Milan", "legacy"),
    Generation(25, 16 .. 31, "Genoa", "legacy"),
    Generation(25, 160 .. 175, "Bergamo/Siena", "legacy"),
    Generation(26, 0 .. 17, "Turin", "turin") }

Matching(cpu) ==
  {g \in SupportedGenerations : g.family = cpu.family /\ cpu.model \in g.models}

Resolves(cpu) == Matching(cpu) # {}

\* The name and the layout of the generation, as resolve_generation returns it.
ResolveGeneration(cpu) ==
  LET g == CHOOSE g \in Matching(cpu) : TRUE
  IN [name |-> g.name, layout |-> g.layout]

----------------------------------------------------------------------------
(* parse *)

Oldest == 2
HasCpuid(data) == data.version >= 3

\* Both CPUIDs resolve, and disagree: the report comes from another machine.
Foreign(data, generation) ==
  /\ generation # NoGeneration /\ HasCpuid(data)
  /\ Resolves(data.cpuid)
  /\ ResolveGeneration(data.cpuid) # generation

\* The generation that decides the layout: the host's when it is supplied.
Deciding(data, generation) ==
  IF generation # NoGeneration THEN generation
  ELSE IF HasCpuid(data) /\ Resolves(data.cpuid) THEN ResolveGeneration(data.cpuid)
  ELSE NoGeneration

\* A report [version, cpuid, svn, launchTcb], as far as a test reads it.
Parse(data, generation) ==
  IF data.version < Oldest \/ Foreign(data, generation) THEN ReportError
  ELSE LET g == Deciding(data, generation)
       IN [svn |-> data.svn,
           launchTcb |-> IF g # NoGeneration /\ HasCpuid(data)
                         THEN FromBytes(data.launchTcb, g.layout) ELSE NoTcb]

\* What stands for no generation, for no TCB_VERSION and for an error is neither.
ASSUME AttestationReportAssumption ==
  /\ NoGeneration \notin {[name |-> g.name, layout |-> g.layout] : g \in SupportedGenerations}
  /\ \A layout \in Layouts : NoTcb \notin TcbVersions(layout)
  /\ ReportError \notin
       [svn : Nat, launchTcb : {NoTcb} \cup UNION {TcbVersions(layout) : layout \in Layouts}]
=============================================================================
