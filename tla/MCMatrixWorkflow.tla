-------------------------- MODULE MCMatrixWorkflow --------------------------
(* Certifications that meet in one row of a table, in two rows of one file, *)
(* and in no table at all.                                                  *)
EXTENDS MatrixWorkflow

CONSTANTS o1, o2

MCProcessors == {"p1", "p2"}

Cert(o, p, m, docs, readme) ==
  [os |-> o, proc |-> p, milestone |-> m, docsColumn |-> docs, readmeColumn |-> readme]

\* The native level of p1 is its first column; README.md has p1 before p2.
ThreeOnce == <<Cert(o1, "p1", "c3", 1, 1), Cert(o1, "p1", "c4", 2, 0), Cert(o1, "p1", "c3", 1, 1)>>
TwoRows   == <<Cert(o1, "p1", "c3", 1, 1), Cert(o1, "p2", "c4", 1, 2)>>
NoColumn  == <<Cert(o1, "p1", "c5", 0, 0), Cert(o2, "p1", "c3", 1, 1)>>
\* Two levels of one version have the same column.
TwoLevels == <<Cert(o1, "p1", "c3", 1, 1), Cert(o1, "p1", "c3-1", 1, 1)>>

MCPayloads == {ThreeOnce, TwoRows, TwoLevels, NoColumn}
=============================================================================
