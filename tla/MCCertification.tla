-------------------------- MODULE MCCertification --------------------------
(***************************************************************************)
(* Instances of Certification for TLC: the installation of the repository  *)
(* with one test less, one with two manifests, and a malformed one.        *)
(***************************************************************************)
EXTENDS Certification

Version(major, minor)    == [parts |-> <<major, minor>>, build |-> NoBuild]
Level(major, minor, n)   == [parts |-> <<major, minor, 0>>, build |-> n]
Levels(major, minor)     == [parts |-> <<major, minor, 0>>, build |-> NoBuild]
Test(name, level)        == [name |-> name, level |-> level]

V30 == Version(3, 0)
V31 == Version(3, 1)

\* The manifest of 3.0: its cap is its highest level.
Shipped ==
  [tests |-> <<Test("attestation", Level(3, 0, 0)), Test("tcb", Level(3, 0, 1)),
               Test("id-block", Level(3, 0, 1))>>,
   cap   |-> Level(3, 0, 1)]

\* A second certification: three levels that are declared out of their order,
\* a test without a level, and a cap below the highest level.
Interleaved ==
  [tests |-> <<Test("b1", Level(3, 1, 0)), Test("b2", Level(3, 1, 2)), Test("b3", NoLevel),
               Test("b4", Level(3, 1, 1)), Test("b5", Level(3, 1, 0))>>,
   cap   |-> Level(3, 1, 2)]

Small   == [tests |-> <<Test("a", Level(3, 0, 0))>>, cap |-> NoLevel]
Broken  == [tests |-> <<Test("b", Level(3, 1, 0))>>, cap |-> Level(3, 1, 1)]

Small31 == [tests |-> <<Test("b", Level(3, 1, 0))>>, cap |-> Level(3, 1, 0)]

One(v, m) == [u \in {v} |-> m]
Two(m, n) == [u \in {V30, V31} |-> IF u = V30 THEN m ELSE n]

MCInstallations ==
  {One(V30, Shipped), One(V31, Interleaved), Two(Small, Small31), Two(Small, Broken)}

\* The harness is run again where there are few tests.
MCMaxRuns == [m \in MCInstallations |-> IF m = Two(Small, Small31) THEN 2 ELSE 1]

MCVersionOrder == <<V30, V31>>

\* Everything; a version beside a level of it; a level that is not the first; a
\* level of an unknown version; levels of two versions, in turn; all of 3.0.0.
MCRequests ==
  { <<>>, <<V30, Level(3, 0, 0)>>, <<Level(3, 0, 1)>>, <<Level(9, 9, 0)>>, <<Levels(3, 0)>>,
    <<Level(3, 1, 1), Level(3, 0, 0), Level(3, 1, 0)>> }

=============================================================================
