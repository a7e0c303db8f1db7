--------------------------- MODULE MatrixWorkflow ---------------------------
(***************************************************************************)
(* The workflow update-certification-matrix.yml.  Every certificate issue  *)
(* that is opened starts two jobs.  One adds the certification to the      *)
(* tables of docs/certifications.md and README.md, on a branch of its own  *)
(* that all such jobs share and that a pull request offers for merging;    *)
(* the other closes the issues that the new one replaces.                  *)
(*                                                                         *)
(* Jobs of several issues run at the same time.  They meet in the branch,  *)
(* the pull request and the open issues, which every request to GitHub     *)
(* changes at once; between two requests of a job anything may happen.     *)
(* A maintainer merges the pull request at any moment.                     *)
(***************************************************************************)
EXTENDS Integers, Sequences, FiniteSets, Functions, Subsequences

CONSTANTS
  OSes,        \* operating systems, the first cells of the rows
  Processors,  \* processor series: the tables of certifications.md
  Payloads,    \* what may be opened: sequences, in order, of issues [os, proc,
               \* milestone, docsColumn, readmeColumn]; column 0: there is none
  Empty,       \* a cell without text
  NoBranch,    \* the branch does not exist
  Ahead,       \* the branch has commits that the default branch has not
  maxRetries,  \* attempts of a job
  maxRunning   \* bound: issues whose jobs run at the same time

\* Any certification in any row, and what a branch may hold.
AnyRow   == Seq([issue : Nat, column : Nat] \cup {Empty})
AnyFiles == [docs : [Processors -> [OSes -> AnyRow]], readme : [OSes -> AnyRow]]

ASSUME MatrixAssumption ==
  /\ \A q \in Payloads : q \in Seq(Range(q)) /\ \A i \in DOMAIN q :
       /\ q[i].os \in OSes /\ q[i].proc \in Processors
       /\ q[i].docsColumn \in Nat /\ q[i].readmeColumn \in Nat
  /\ maxRetries \in Nat \ {0} /\ maxRunning \in Nat \ {0}
  /\ NoBranch \notin AnyFiles /\ Ahead \notin Nat
  /\ Empty \notin [issue : Nat, column : Nat]

VARIABLES
  payload,  \* the issues of this behaviour
  main,     \* the two files on the default branch, and a count of merges
  branch,   \* the two files on update-certification-matrix
  within,   \* the merge from which on the default branch contains the branch
  pr,       \* there is an open pull request for the branch
  job,      \* the update-matrix job of each issue
  closer,   \* the close-duplicates job of each issue
  opened,   \* issues opened so far
  open,     \* issues that are open
  dropped,  \* history: issues whose certification was lost with the branch
  gapped,   \* history: rows in which a column was filled before one to its left
  overlaps  \* history: issues opened before an older twin's jobs had ended

repo    == <<main, branch, within, pr>>
issues  == <<opened, open>>
history == <<dropped, gapped, overlaps>>
vars    == <<payload, repo, job, closer, issues, history>>

Issues == DOMAIN payload

\* A certification in a cell: its issue, and the column it was meant for.
Certs == [issue : Issues, column : Nat]

\* A row is the sequence of its cells after OS and status; <<>>: there is none.
Files == [docs : [Processors -> [OSes -> Seq(Certs \cup {Empty})]],
          readme : [OSes -> Seq(Certs \cup {Empty})]]

Blank == [docs |-> [p \in Processors |-> [o \in OSes |-> <<>>]],
          readme |-> [o \in OSes |-> <<>>]]

\* The default branch before any merge.
NoMerge == [docs |-> Blank.docs, readme |-> Blank.readme, merges |-> 0]

Content(f) == [docs |-> f.docs, readme |-> f.readme]

Ends  == {"done", "skipped", "failed"}
Steps == Ends \cup {"idle", "getRef", "listPRs", "deleteRef", "createRef", "updateRef", "getDocs", "putDocs",
          "getReadme", "putReadme", "comment", "createPR"}

TypeOK ==
  /\ Content(main) \in Files /\ main.merges \in Nat
  /\ branch # NoBranch => branch \in Files
  /\ within \in Nat \cup {Ahead}
  /\ pr \in BOOLEAN
  /\ pr => branch # NoBranch
  /\ \A i \in Issues : job[i].pc \in Steps /\ job[i].attempt \in 1 .. maxRetries
  /\ opened \in 0 .. Len(payload)
  /\ open \subseteq 1 .. opened
  /\ overlaps \subseteq Issues

----------------------------------------------------------------------------
(* updateTable *)

Pad(cells, n) == cells \o [k \in 1 .. n - Len(cells) |-> Empty]

\* Mutant: the cell before the first bar is forgotten when counting.
UpdatedRowShort(cells, column, cert) ==
  LET filtered == Kept(cells, {k \in DOMAIN cells : cells[k] # Empty})
  IN IF cells = <<>> THEN Append(Pad(<<>>, column - 1), cert)
     ELSE IF column = 1 THEN filtered
     ELSE [Pad(filtered, column) EXCEPT ![column - 1] = cert]

\* An existing row is split at the bars and loses its empty cells; a new one
\* has empty cells up to its column.
UpdatedRow(cells, column, cert) ==
  LET filtered == Kept(cells, {k \in DOMAIN cells : cells[k] # Empty})
  IN IF cells = <<>> THEN Append(Pad(<<>>, column - 1), cert)
     ELSE [Pad(filtered, column) EXCEPT ![column] = cert]

\* The columns up to this one are filled, but for the last.
Gapless(cells, column) ==
  /\ column <= Len(cells) + 1
  /\ \A k \in 1 .. Len(cells) : cells[k] # Empty

----------------------------------------------------------------------------
(* The update-matrix job *)

\* What a job has read is gone when it starts over or ends.
Idle == [pc |-> "idle", attempt |-> 1, seenPR |-> FALSE, base |-> NoMerge,
         docs |-> Blank.docs, readme |-> Blank.readme]

Goto(i, step) ==
  job' = [job EXCEPT ![i] = IF step \in Ends THEN [Idle EXCEPT !.pc = step]
                            ELSE [@ EXCEPT !.pc = step]]

\* Mutant: the last attempt is followed by one more.
RetryOnceMore(i) ==
  IF job[i].attempt <= maxRetries
  THEN job' = [job EXCEPT ![i] = [Idle EXCEPT !.pc = "getRef", !.attempt = job[i].attempt + 1]]
  ELSE Goto(i, "failed")

\* 404, 409 and 422 are worth another attempt.
Retry(i) ==
  IF job[i].attempt < maxRetries
  THEN job' = [job EXCEPT ![i] = [Idle EXCEPT !.pc = "getRef", !.attempt = job[i].attempt + 1]]
  ELSE Goto(i, "failed")

GetRef(i) ==
  /\ job[i].pc = "getRef"
  /\ job' = [job EXCEPT ![i].pc = "listPRs", ![i].base = main]
  /\ UNCHANGED <<payload, repo, closer, issues, history>>

ListPRs(i) ==
  /\ job[i].pc = "listPRs"
  /\ job' = [job EXCEPT ![i].pc = IF pr THEN "updateRef" ELSE "deleteRef", ![i].seenPR = pr]
  /\ UNCHANGED <<payload, repo, closer, issues, history>>

\* The issues whose certifications the tables of certifications.md hold.
CertifiedIn(f) ==
  {i \in Issues : \E c \in Range(f.docs[payload[i].proc][payload[i].os]) \ {Empty} : c.issue = i}

\* Deleting the branch closes its pull request.
DeleteRef(i) ==
  /\ job[i].pc = "deleteRef"
  /\ dropped' = IF branch = NoBranch THEN dropped ELSE dropped \cup (CertifiedIn(branch) \ CertifiedIn(main))
  /\ branch' = NoBranch
  /\ pr' = FALSE
  /\ Goto(i, "createRef")
  /\ UNCHANGED <<payload, main, within, closer, issues, gapped, overlaps>>

CreateRef(i) ==
  /\ job[i].pc = "createRef"
  /\ IF branch = NoBranch
     THEN /\ branch' = Content(job[i].base)
          /\ within' = job[i].base.merges
          /\ Goto(i, "getDocs")
     ELSE Retry(i) /\ UNCHANGED <<branch, within>>
  /\ UNCHANGED <<payload, main, pr, closer, issues, history>>

\* The branch is moved forward when it has nothing of its own; otherwise the
\* error is ignored.
UpdateRef(i) ==
  /\ job[i].pc = "updateRef"
  /\ Goto(i, "getDocs")
  /\ IF branch # NoBranch /\ within # Ahead /\ within <= job[i].base.merges
     THEN branch' = Content(job[i].base) /\ within' = job[i].base.merges
     ELSE UNCHANGED <<branch, within>>
  /\ UNCHANGED <<payload, main, pr, closer, issues, history>>

\* getFile returns the content and its hash, which is kept with it.
GetDocs(i) ==
  /\ job[i].pc = "getDocs"
  /\ IF branch = NoBranch THEN Retry(i)
     ELSE IF payload[i].docsColumn = 0 THEN Goto(i, "skipped")
     ELSE job' = [job EXCEPT ![i].docs = branch.docs, ![i].pc = "putDocs"]
  /\ UNCHANGED <<payload, repo, closer, issues, history>>

\* Mutant: the file is written whatever it has become.
PutDocsBlindly(i) ==
  /\ job[i].pc = "putDocs"
  /\ LET p == payload[i]
         row == job[i].docs[p.proc][p.os]
     IN IF branch = NoBranch THEN Retry(i) /\ UNCHANGED <<branch, within, gapped>>
        ELSE /\ branch' = [branch EXCEPT !.docs =
                             [job[i].docs EXCEPT ![p.proc][p.os] =
                               UpdatedRow(@, p.docsColumn, [issue |-> i, column |-> p.docsColumn])]]
             /\ within' = Ahead
             /\ gapped' = IF Gapless(row, p.docsColumn) THEN gapped
                          ELSE gapped \cup {<<p.proc, p.os>>}
             /\ Goto(i, IF p.readmeColumn # 0 THEN "getReadme"
                        ELSE IF job[i].seenPR THEN "comment" ELSE "createPR")
  /\ UNCHANGED <<payload, main, pr, closer, issues, dropped, overlaps>>

\* createOrUpdateFileContents refuses a file whose hash is another one by now.
PutDocs(i) ==
  /\ job[i].pc = "putDocs"
  /\ LET p == payload[i]
         row == job[i].docs[p.proc][p.os]
     IN IF branch = NoBranch THEN Retry(i) /\ UNCHANGED <<branch, within, gapped>>
        ELSE IF branch.docs # job[i].docs THEN Retry(i) /\ UNCHANGED <<branch, within, gapped>>
        ELSE /\ branch' = [branch EXCEPT !.docs[p.proc][p.os] =
                             UpdatedRow(@, p.docsColumn, [issue |-> i, column |-> p.docsColumn])]
             /\ within' = Ahead
             /\ gapped' = IF Gapless(row, p.docsColumn) THEN gapped
                          ELSE gapped \cup {<<p.proc, p.os>>}
             /\ Goto(i, IF p.readmeColumn # 0 THEN "getReadme"
                        ELSE IF job[i].seenPR THEN "comment" ELSE "createPR")
  /\ UNCHANGED <<payload, main, pr, closer, issues, dropped, overlaps>>

\* README.md has a column for each processor's native level.
GetReadme(i) ==
  /\ job[i].pc = "getReadme"
  /\ IF branch = NoBranch THEN Retry(i)
     ELSE job' = [job EXCEPT ![i].readme = branch.readme, ![i].pc = "putReadme"]
  /\ UNCHANGED <<payload, repo, closer, issues, history>>

PutReadme(i) ==
  /\ job[i].pc = "putReadme"
  /\ LET p == payload[i]
     IN IF branch = NoBranch THEN Retry(i) /\ UNCHANGED <<branch, within, gapped>>
        ELSE IF branch.readme # job[i].readme THEN Retry(i) /\ UNCHANGED <<branch, within, gapped>>
        ELSE /\ branch' = [branch EXCEPT !.readme[p.os] =
                             UpdatedRow(@, p.readmeColumn, [issue |-> i, column |-> p.readmeColumn])]
             /\ within' = Ahead
             /\ gapped' = IF Gapless(job[i].readme[p.os], p.readmeColumn) THEN gapped
                          ELSE gapped \cup {<<"README", p.os>>}
             /\ Goto(i, IF job[i].seenPR THEN "comment" ELSE "createPR")
  /\ UNCHANGED <<payload, main, pr, closer, issues, dropped, overlaps>>

\* A comment is taken by a pull request that is closed as well.
Comment(i) ==
  /\ job[i].pc = "comment"
  /\ Goto(i, "done")
  /\ UNCHANGED <<payload, repo, closer, issues, history>>

\* There can be one open pull request for a branch, and none for a branch with
\* nothing of its own.
CreatePR(i) ==
  /\ job[i].pc = "createPR"
  /\ IF branch # NoBranch /\ within = Ahead /\ ~pr
     THEN pr' = TRUE /\ Goto(i, "done")
     ELSE Retry(i) /\ UNCHANGED pr
  /\ UNCHANGED <<payload, main, branch, within, closer, issues, history>>

UpdateMatrix(i) ==
  \/ GetRef(i) \/ ListPRs(i) \/ DeleteRef(i) \/ CreateRef(i) \/ UpdateRef(i)
  \/ GetDocs(i) \/ PutDocs(i) \/ GetReadme(i) \/ PutReadme(i) \/ Comment(i) \/ CreatePR(i)

----------------------------------------------------------------------------
(* The close-duplicates job *)

\* Same milestone, OS label and processor label.
Twins(i) ==
  {k \in Issues : /\ payload[k].os = payload[i].os /\ payload[k].proc = payload[i].proc
                  /\ payload[k].milestone = payload[i].milestone}

\* The job ends with the last issue it has listed.
StillToClose(others) == [pc |-> IF others = {} THEN "done" ELSE "close", others |-> others]

\* Mutant: the issue itself is among those it replaces.
ListDuplicatesAll(i) ==
  /\ closer[i].pc = "list"
  /\ closer' = [closer EXCEPT ![i] = StillToClose(open \cap Twins(i))]
  /\ UNCHANGED <<payload, repo, job, issues, history>>

\* All others that are open, whether older or not.
ListDuplicates(i) ==
  /\ closer[i].pc = "list"
  /\ closer' = [closer EXCEPT ![i] = StillToClose((open \cap Twins(i)) \ {i})]
  /\ UNCHANGED <<payload, repo, job, issues, history>>

CloseDuplicate(i) ==
  /\ closer[i].pc = "close"
  /\ \E k \in closer[i].others :
       open' = open \ {k} /\ closer' = [closer EXCEPT ![i] = StillToClose(@.others \ {k})]
  /\ UNCHANGED <<payload, repo, job, opened, history>>

----------------------------------------------------------------------------
(* What starts the jobs, and what ends the pull request *)

Running == {i \in 1 .. opened : job[i].pc \notin Ends \/ closer[i].pc # "done"}

OpenIssue ==
  /\ opened < Len(payload)
  /\ Cardinality(Running) < maxRunning
  /\ opened' = opened + 1
  /\ open' = open \cup {opened'}
  /\ job' = [job EXCEPT ![opened'].pc = "getRef"]
  /\ closer' = [closer EXCEPT ![opened'].pc = "list"]
  /\ overlaps' = IF \E k \in 1 .. opened : k \in Twins(opened') /\ closer[k].pc # "done"
                 THEN overlaps \cup Twins(opened') ELSE overlaps
  /\ UNCHANGED <<payload, repo, dropped, gapped>>

\* Rows that both branches changed are brought together by the maintainer.
MergedRow(ours, theirs) ==
  LET longest == IF Len(ours) > Len(theirs) THEN ours ELSE theirs
      At(row, k) == IF k \in DOMAIN row THEN row[k] ELSE Empty
  IN [k \in DOMAIN longest |-> IF At(theirs, k) # Empty THEN theirs[k] ELSE At(ours, k)]

\* A merge, or a squash, after which the branch has commits of its own still.
\* Its branch may be deleted with it.
MergePR ==
  /\ pr
  /\ pr' = FALSE
  /\ main' = [docs |-> [p \in Processors |-> [o \in OSes |->
                         MergedRow(main.docs[p][o], branch.docs[p][o])]],
              readme |-> [o \in OSes |-> MergedRow(main.readme[o], branch.readme[o])],
              merges |-> main.merges + 1]
  /\ within' \in {main'.merges, Ahead}
  /\ branch' \in {branch, NoBranch}
  /\ UNCHANGED <<payload, job, closer, issues, history>>

Init ==
  /\ payload \in Payloads
  /\ main = NoMerge
  /\ branch = NoBranch
  /\ within = 0
  /\ pr = FALSE
  /\ job = [i \in Issues |-> Idle]
  /\ closer = [i \in Issues |-> [pc |-> "idle", others |-> {}]]
  /\ opened = 0
  /\ open = {}
  /\ dropped = {}
  /\ gapped = {}
  /\ overlaps = {}

Next ==
  \/ OpenIssue \/ MergePR
  \/ \E i \in Issues : UpdateMatrix(i) \/ ListDuplicates(i) \/ CloseDuplicate(i)

Spec == Init /\ [][Next]_vars
----------------------------------------------------------------------------
(* Properties *)

Versions == {main} \cup {f \in {branch} : f # NoBranch}

\* The issues that are certified in the same cell: a column stands for all
\* milestones of a version.
SameCell(i) ==
  {k \in Issues : /\ payload[k].os = payload[i].os /\ payload[k].proc = payload[i].proc
                  /\ payload[k].docsColumn = payload[i].docsColumn}

\* A job that ends well leaves its certification, or another one of the same
\* cell, in a table of the shared branch or of the default branch: what other
\* jobs write at the same time does not undo it.  Lost it can only be with a
\* branch that was recreated, or from a row that was not filled from the left.
DoneMeansPublished ==
  \A i \in Issues :
    job[i].pc = "done" /\ <<payload[i].proc, payload[i].os>> \notin gapped =>
      \E k \in SameCell(i) : k \in dropped \/ \E f \in Versions : k \in CertifiedIn(f)

InPlace(row) == \A k \in DOMAIN row : row[k] # Empty => row[k].column = k

\* docs/certifications.md: "Table headers describe the hardware on which the
\* certification test was run".  In a row that is filled from the left every
\* certification stays under its own header, however often the row is updated,
\* merged or taken up again by a retry.
CellsUnderHeader ==
  \A f \in Versions :
    /\ \A p \in Processors, o \in OSes : <<p, o>> \notin gapped => InPlace(f.docs[p][o])
    /\ \A o \in OSes : <<"README", o>> \notin gapped => InPlace(f.readme[o])

\* Issues that replace one another and whose jobs do not overlap: the newest is
\* open at all times, and alone once its job has closed the others.
NewestStaysOpen ==
  \A i \in 1 .. opened :
    LET sofar == Twins(i) \cap 1 .. opened
    IN i \notin overlaps /\ (\A k \in sofar : k <= i) =>
         /\ i \in open
         /\ closer[i].pc = "done" => open \cap Twins(i) = {i}
=============================================================================
