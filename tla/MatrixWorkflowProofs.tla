------------------------ MODULE MatrixWorkflowProofs ------------------------
(***************************************************************************)
(* Proofs about MatrixWorkflow, for every sequence of issues, any number   *)
(* of jobs at the same time and of attempts, and a maintainer who merges   *)
(* and deletes at any moment: certifications stay under their headers, what *)
(* a finished job has published is not undone, the newest issue stays open. *)
(***************************************************************************)
EXTENDS MatrixWorkflow, SubsequencesProofs

Row     == Seq(Certs \cup {Empty})
Docs    == [Processors -> [OSes -> Row]]
Readmes == [OSes -> Row]
Bases   == [docs : Docs, readme : Readmes, merges : Nat]

JobStates ==
  [pc : Steps, attempt : 1 .. maxRetries, seenPR : BOOLEAN, base : Bases, docs : Docs,
   readme : Readmes]

CloserStates == [pc : {"idle", "list", "close", "done"}, others : SUBSET Issues]

Exists == branch # NoBranch

Typed ==
  /\ payload \in Payloads
  /\ main \in Bases
  /\ Exists => branch \in Files
  /\ within \in Nat \cup {Ahead}
  /\ pr \in BOOLEAN /\ (pr => Exists)
  /\ job \in [Issues -> JobStates]
  /\ closer \in [Issues -> CloserStates]
  /\ opened \in 0 .. Len(payload) /\ open \subseteq 1 .. opened /\ overlaps \subseteq Issues

\* A job that has written its certification, and has not started over since.
Written == {"getReadme", "putReadme", "comment", "createPR", "done"}

\* A job writes only where there is a column for it.
HasColumn ==
  \A i \in Issues :
    /\ job[i].pc \in Written \cup {"putDocs"} => payload[i].docsColumn # 0
    /\ job[i].pc \in {"getReadme", "putReadme"} => payload[i].readmeColumn # 0

\* A certification of a row in certifications.md is of an issue of this row and
\* in the column of that issue.
Own(row, p, o, pl) ==
  \A k \in DOMAIN row : row[k] # Empty =>
    /\ row[k].column = k /\ pl[row[k].issue].docsColumn = k
    /\ pl[row[k].issue].proc = p /\ pl[row[k].issue].os = o

\* The rows that are filled from the left are in order.
Ordered(f, pl, gaps) ==
  /\ \A p \in Processors, o \in OSes : <<p, o>> \notin gaps => Own(f.docs[p][o], p, o, pl)
  /\ \A o \in OSes : <<"README", o>> \notin gaps => InPlace(f.readme[o])

\* Every file that is, or that a job may still put back, is in order.
Placement ==
  /\ Ordered(main, payload, gapped)
  /\ Exists => Ordered(branch, payload, gapped)
  /\ \A i \in Issues : Ordered(job[i].base, payload, gapped)

Filled(row, k) == k \in DOMAIN row /\ row[k] # Empty

\* The other file has a certification wherever this one has one.
IsIn(f, other, gaps) ==
  \A p \in Processors, o \in OSes : <<p, o>> \notin gaps =>
    \A k \in DOMAIN f.docs[p][o] : Filled(f.docs[p][o], k) => Filled(other.docs[p][o], k)

\* What may be discarded without a loss.
Behind ==
  /\ Exists /\ within # Ahead => IsIn(branch, main, gapped)
  /\ \A i \in Issues : IsIn(job[i].base, main, gapped)

CellIn(f, issue) == Filled(f.docs[issue.proc][issue.os], issue.docsColumn)

\* The cell of a job that has written is taken, or was lost with the branch.
Lasts(i) ==
  \/ SameCell(i) \cap dropped # {}
  \/ CellIn(main, payload[i])
  \/ Exists /\ CellIn(branch, payload[i])

Lasting ==
  \A i \in Issues :
    job[i].pc \in Written /\ <<payload[i].proc, payload[i].os>> \notin gapped => Lasts(i)

Newest(i) == \A k \in Twins(i) \cap 1 .. opened : k <= i

\* Nobody is about to close the newest issue, and its own job closes the rest.
Settled(i) ==
  /\ i \in open /\ closer[i].pc # "idle"
  /\ \A k \in (Twins(i) \cap 1 .. opened) \ {i} : closer[k].pc = "done"
  /\ closer[i].pc = "close" => open \cap Twins(i) \subseteq closer[i].others \cup {i}
  /\ closer[i].pc = "done" => open \cap Twins(i) = {i}

Closing ==
  /\ \A i \in Issues : closer[i].others \subseteq (Twins(i) \cap 1 .. opened) \ {i}
  /\ \A i \in Issues \ (1 .. opened) : closer[i].pc = "idle"
  /\ \A i \in 1 .. opened : Newest(i) /\ i \notin overlaps => Settled(i)

IInv == Typed /\ HasColumn /\ Placement /\ Behind /\ Lasting /\ Closing

----------------------------------------------------------------------------
(* Rows and files *)

\* The issues of a behaviour are numbered, and have their place in the tables.
LEMMA IssueFacts ==
  ASSUME payload \in Payloads
  PROVE  /\ Len(payload) \in Nat /\ Issues = 1 .. Len(payload)
         /\ \A i \in Issues :
              /\ payload[i].os \in OSes /\ payload[i].proc \in Processors
              /\ payload[i].docsColumn \in Nat /\ payload[i].readmeColumn \in Nat
<1>1. payload \in Seq(Range(payload))
      /\ \A i \in DOMAIN payload :
              /\ payload[i].os \in OSes /\ payload[i].proc \in Processors
              /\ payload[i].docsColumn \in Nat /\ payload[i].readmeColumn \in Nat
  BY MatrixAssumption
<1> QED
  BY <1>1 DEF Issues

\* A padded row is at least that long, and keeps its cells where they were.
LEMMA PadFacts ==
  ASSUME NEW S, Empty \in S, NEW cells \in Seq(S), NEW n \in Int
  PROVE  /\ Pad(cells, n) \in Seq(S)
         /\ Len(Pad(cells, n)) = IF n > Len(cells) THEN n ELSE Len(cells)
         /\ \A k \in 1 .. Len(cells) : Pad(cells, n)[k] = cells[k]
<1> DEFINE rest == [k \in 1 .. n - Len(cells) |-> Empty]
<1>1. Len(cells) \in Nat
  OBVIOUS
<1>2. CASE n > Len(cells)
  <2>1. n - Len(cells) \in Nat
    BY <1>1, <1>2
  <2>2. rest \in Seq(S) /\ Len(rest) = n - Len(cells)
    BY <2>1
  <2> QED
    BY <1>1, <1>2, <2>1, <2>2 DEF Pad
<1>3. CASE n <= Len(cells)
  <2>1. 1 .. n - Len(cells) = 1 .. 0
    BY <1>1, <1>3
  <2>2. rest = <<>>
    BY <2>1
  <2>3. cells \o <<>> = cells
    OBVIOUS
  <2>4. Pad(cells, n) = cells
    BY <2>2, <2>3 DEF Pad
  <2> QED
    BY <1>1, <1>3, <2>4
<1> QED
  BY <1>1, <1>2, <1>3

\* Writing a cell leaves a row, and in one that is filled from the left it moves
\* no other.
Updates(r, cells, column, cert) ==
  /\ DOMAIN r = 1 .. (IF column > Len(cells) THEN column ELSE Len(cells))
  /\ r[column] = cert
  /\ \A k \in 1 .. Len(cells) : k # column => r[k] = cells[k]

\* A written row is a row; if it is filled from the left, nothing else moves.
LEMMA UpdatedRowFacts ==
  ASSUME NEW cells \in Row, NEW column \in Nat \ {0}, NEW cert \in Certs
  PROVE  /\ UpdatedRow(cells, column, cert) \in Row
         /\ Gapless(cells, column) =>
              Updates(UpdatedRow(cells, column, cert), cells, column, cert)
<1> DEFINE S == Certs \cup {Empty}
           full == {k \in DOMAIN cells : cells[k] # Empty}
           filtered == Kept(cells, full)
           r == UpdatedRow(cells, column, cert)
<1>1. cells \in Seq(S) /\ Empty \in S /\ cert \in S
  BY DEF Row
<1> HIDE DEF S
<1>2. CASE cells = <<>>
  <2>1. Pad(<<>>, column - 1) \in Seq(S) /\ Len(Pad(<<>>, column - 1)) = column - 1
    <3>1. <<>> \in Seq(S) /\ Len(<<>>) = 0 /\ column - 1 \in Int /\ column - 1 >= 0
      OBVIOUS
    <3>2. /\ Pad(<<>>, column - 1) \in Seq(S)
          /\ Len(Pad(<<>>, column - 1)) = IF column - 1 > Len(<<>>) THEN column - 1 ELSE Len(<<>>)
      BY <1>1, <3>1, PadFacts
    <3> QED
      BY <3>1, <3>2
  <2>2. r = Append(Pad(<<>>, column - 1), cert)
    BY <1>2 DEF UpdatedRow
  <2>3. r \in Seq(S) /\ Len(r) = column /\ r[column] = cert
    BY <1>1, <2>1, <2>2
  <2>4. DOMAIN r = 1 .. column
    BY <2>3
  <2> QED
    BY <1>2, <2>3, <2>4 DEF Updates, Row, S
<1>3. CASE cells # <<>>
  <2>1. filtered \in Seq(S)
    <3>1. full \in SUBSET Nat
      BY <1>1
    <3> QED
      BY <1>1, <3>1, KeptPlaces
  <2>2. r = [Pad(filtered, column) EXCEPT ![column] = cert]
    BY <1>3 DEF UpdatedRow
  <2>3. /\ Pad(filtered, column) \in Seq(S)
        /\ Len(Pad(filtered, column)) = IF column > Len(filtered) THEN column ELSE Len(filtered)
        /\ \A k \in 1 .. Len(filtered) : Pad(filtered, column)[k] = filtered[k]
    <3>1. column \in Int
      OBVIOUS
    <3> HIDE DEF filtered
    <3> QED
      BY <1>1, <2>1, <3>1, PadFacts
  <2> HIDE DEF filtered, r
  <2>4. r \in Seq(S) /\ DOMAIN r = 1 .. Len(Pad(filtered, column)) /\ r[column] = cert
        /\ \A k \in 1 .. Len(filtered) : k # column => r[k] = filtered[k]
    BY <1>1, <2>1, <2>2, <2>3
  <2>5. ASSUME Gapless(cells, column) PROVE filtered = cells
    <3>1. 1 .. Len(cells) \subseteq full /\ full \in SUBSET Nat
      BY <1>1, <2>5 DEF Gapless
    <3> QED
      BY <1>1, <3>1, KeptAll DEF filtered
  <2> QED
    BY <2>3, <2>4, <2>5 DEF Updates, Row, S, r
<1> QED
  BY <1>2, <1>3

\* A merged row has the cells of both, theirs where both have one.
LEMMA MergedRowFacts ==
  ASSUME NEW ours \in Row, NEW theirs \in Row
  PROVE  /\ MergedRow(ours, theirs) \in Row
         /\ \A k : Filled(ours, k) \/ Filled(theirs, k) => Filled(MergedRow(ours, theirs), k)
         /\ \A k : Filled(MergedRow(ours, theirs), k) =>
              \/ Filled(theirs, k) /\ MergedRow(ours, theirs)[k] = theirs[k]
              \/ Filled(ours, k) /\ MergedRow(ours, theirs)[k] = ours[k]
<1> DEFINE S == Certs \cup {Empty}
           r == MergedRow(ours, theirs)
           longest == IF Len(ours) > Len(theirs) THEN ours ELSE theirs
           At(row, k) == IF k \in DOMAIN row THEN row[k] ELSE Empty
<1>1. /\ ours \in Seq(S) /\ theirs \in Seq(S) /\ Empty \in S
      /\ Len(ours) \in Nat /\ DOMAIN ours = 1 .. Len(ours)
      /\ Len(theirs) \in Nat /\ DOMAIN theirs = 1 .. Len(theirs)
  BY DEF Row
<1>2. r = [k \in DOMAIN longest |-> IF At(theirs, k) # Empty THEN theirs[k] ELSE At(ours, k)]
  BY DEF MergedRow
<1>3. /\ DOMAIN longest = 1 .. Len(longest) /\ Len(longest) \in Nat
      /\ DOMAIN ours \subseteq DOMAIN longest /\ DOMAIN theirs \subseteq DOMAIN longest
  BY <1>1
<1> HIDE DEF longest, r, S
<1>4. \A k \in DOMAIN longest : r[k] \in S
  BY <1>1, <1>2, <1>3
<1>5. r \in Seq(S)
  BY <1>2, <1>3, <1>4
<1>6. DOMAIN r = DOMAIN longest
  BY <1>2
<1> QED
  BY <1>1, <1>2, <1>3, <1>5, <1>6 DEF Filled, Row, S, r

\* A branch and a base have the same files; empty ones are among them.
LEMMA FilesAre ==
  /\ Files = [docs : Docs, readme : Readmes]
  /\ \A f \in Bases : Content(f) \in Files /\ Content(f).docs = f.docs /\ Content(f).readme = f.readme
  /\ NoMerge \in Bases
<1>1. Files = [docs : Docs, readme : Readmes]
  BY DEF Files, Docs, Readmes, Row
<1>2. <<>> \in Row
  BY DEF Row
<1> QED
  BY <1>1, <1>2 DEF Bases, Content, NoMerge, Blank, Docs, Readmes

\* The sentinel for a branch that does not exist is no file.
LEMMA FilesExist ==
  ASSUME payload \in Payloads, NEW f \in Files
  PROVE  f # NoBranch
<1>1. Issues \subseteq Nat
  BY IssueFacts
<1>2. Certs \subseteq [issue : Nat, column : Nat]
  BY <1>1 DEF Certs
<1>3. Row \subseteq AnyRow
  BY <1>2 DEF Row, AnyRow
<1>4. Docs \subseteq [Processors -> [OSes -> AnyRow]] /\ Readmes \subseteq [OSes -> AnyRow]
  BY <1>3 DEF Docs, Readmes
<1>5. f \in AnyFiles
  BY <1>4, FilesAre DEF AnyFiles
<1> QED
  BY <1>5, MatrixAssumption

----------------------------------------------------------------------------
(* The steps *)

\* One job goes on; what it may put back later was on the default branch.
Advances(i) ==
  /\ job' \in [Issues -> JobStates]
  /\ \A k \in Issues \ {i} : job'[k] = job[k]
  /\ job'[i].base \in {job[i].base, NoMerge, main}

\* The kinds of steps of a job, by what they do to the branch.
Quiet(i) ==
  /\ UNCHANGED <<branch, within, dropped, gapped>>
  /\ job'[i].pc \in Written => job[i].pc \in Written
  /\ pr' = pr \/ (pr' = TRUE /\ Exists)

Deletes(i) ==
  /\ branch' = NoBranch /\ pr' = FALSE /\ UNCHANGED <<within, gapped>>
  /\ dropped' = IF Exists THEN dropped \cup (CertifiedIn(branch) \ CertifiedIn(main)) ELSE dropped
  /\ job'[i].pc \notin Written

Resets(i) ==
  /\ branch' = Content(job[i].base) /\ within' = job[i].base.merges
  /\ ~Exists \/ within # Ahead
  /\ UNCHANGED <<pr, dropped, gapped>>
  /\ job'[i].pc \notin Written

DocsRow(f, i)  == f.docs[payload[i].proc][payload[i].os]
DocsCert(i)    == [issue |-> i, column |-> payload[i].docsColumn]
ReadmeCert(i)  == [issue |-> i, column |-> payload[i].readmeColumn]

WritesDocs(i) ==
  LET p == payload[i]
  IN /\ Exists /\ p.docsColumn # 0
     /\ branch' = [branch EXCEPT !.docs[p.proc][p.os] = UpdatedRow(@, p.docsColumn, DocsCert(i))]
     /\ within' = Ahead
     /\ gapped' = IF Gapless(DocsRow(branch, i), p.docsColumn) THEN gapped
                  ELSE gapped \cup {<<p.proc, p.os>>}
     /\ UNCHANGED <<pr, dropped>>

WritesReadme(i) ==
  LET p == payload[i]
  IN /\ Exists /\ p.readmeColumn # 0 /\ job[i].pc \in Written
     /\ branch' = [branch EXCEPT !.readme[p.os] = UpdatedRow(@, p.readmeColumn, ReadmeCert(i))]
     /\ within' = Ahead
     /\ gapped' = IF Gapless(branch.readme[p.os], p.readmeColumn) THEN gapped
                  ELSE gapped \cup {<<"README", p.os>>}
     /\ UNCHANGED <<pr, dropped>>

Touches(i) == Quiet(i) \/ Deletes(i) \/ Resets(i) \/ WritesDocs(i) \/ WritesReadme(i)

\* A job with its step, when it has a column for it.
Suits(i, step) ==
  /\ step \in Written \cup {"putDocs"} => payload[i].docsColumn # 0
  /\ step \in {"getReadme", "putReadme"} => payload[i].readmeColumn # 0

\* A step that replaces the state of one job by a state of a job.
LEMMA JobMoves ==
  ASSUME job \in [Issues -> JobStates], NEW i \in Issues, NEW s \in JobStates,
         job' = [job EXCEPT ![i] = s], s.base \in {job[i].base, NoMerge, main}
  PROVE  Advances(i) /\ job'[i] = s
  BY DEF Advances

\* What a job starts over with: nothing that it has read is left.
LEMMA IdleTyped ==
  ASSUME NEW step \in Steps, NEW n \in 1 .. maxRetries
  PROVE  /\ [Idle EXCEPT !.pc = step] \in JobStates
         /\ [Idle EXCEPT !.pc = step, !.attempt = n] \in JobStates
         /\ [Idle EXCEPT !.pc = step, !.attempt = n].pc = step
         /\ [Idle EXCEPT !.pc = step].pc = step
         /\ [Idle EXCEPT !.pc = step].base = NoMerge
         /\ [Idle EXCEPT !.pc = step, !.attempt = n].base = NoMerge
<1>1. 1 \in 1 .. maxRetries
  BY MatrixAssumption
<1>2. NoMerge \in Bases /\ Blank.docs \in Docs /\ Blank.readme \in Readmes
  <2>1. <<>> \in Row
    BY DEF Row
  <2> QED
    BY <2>1, FilesAre DEF Blank, Docs, Readmes
<1> QED
  BY <1>1, <1>2 DEF Idle, JobStates

\* Going on to a step, or ending with it.
LEMMA GotoFacts ==
  ASSUME job \in [Issues -> JobStates], NEW i \in Issues, NEW step \in Steps, Goto(i, step)
  PROVE  Advances(i) /\ job'[i].pc = step
<1>1. CASE step \in Ends
  <2>1. 1 \in 1 .. maxRetries
    BY MatrixAssumption
  <2>2. job' = [job EXCEPT ![i] = [Idle EXCEPT !.pc = step]]
    BY <1>1 DEF Goto
  <2> QED
    BY <2>1, <2>2, IdleTyped, JobMoves
<1>2. CASE step \notin Ends
  <2>1. job' = [job EXCEPT ![i] = [job[i] EXCEPT !.pc = step]]
    BY <1>2 DEF Goto
  <2>2. [job[i] EXCEPT !.pc = step] \in JobStates /\ [job[i] EXCEPT !.pc = step].base = job[i].base
        /\ [job[i] EXCEPT !.pc = step].pc = step
    BY DEF JobStates
  <2> QED
    BY <2>1, <2>2, JobMoves
<1> QED
  BY <1>1, <1>2

\* An attempt more, or failure when there have been enough.
LEMMA RetryFacts ==
  ASSUME job \in [Issues -> JobStates], NEW i \in Issues, Retry(i)
  PROVE  Advances(i) /\ job'[i].pc \in {"getRef", "failed"}
<1>1. "getRef" \in Steps /\ "failed" \in Steps
  BY DEF Steps, Ends
<1>2. CASE job[i].attempt < maxRetries
  <2>1. job[i].attempt + 1 \in 1 .. maxRetries
    BY <1>2, MatrixAssumption DEF JobStates
  <2>2. job' = [job EXCEPT ![i] = [Idle EXCEPT !.pc = "getRef", !.attempt = job[i].attempt + 1]]
    BY <1>2 DEF Retry
  <2> DEFINE s == [Idle EXCEPT !.pc = "getRef", !.attempt = job[i].attempt + 1]
  <2>3. s \in JobStates /\ s.pc = "getRef" /\ s.base = NoMerge
    BY <1>1, <2>1, IdleTyped
  <2>4. job' = [job EXCEPT ![i] = s]
    BY <2>2
  <2> HIDE DEF s
  <2> QED
    BY <2>3, <2>4, JobMoves
<1>3. CASE ~(job[i].attempt < maxRetries)
  BY <1>1, <1>3, GotoFacts DEF Retry
<1> QED
  BY <1>2, <1>3

\* The attempt of a job, in the names of the kinds of steps above.
StepOf(i) ==
  /\ Advances(i)
  /\ Suits(i, job'[i].pc)
  /\ UNCHANGED <<payload, main, closer, opened, open, overlaps>>
  /\ Touches(i)

\* The steps by name, for the provers.
LEMMA PcsAre ==
  /\ Steps = {"done", "skipped", "failed", "idle", "getRef", "listPRs", "deleteRef", "createRef",
              "updateRef", "getDocs", "putDocs", "getReadme", "putReadme", "comment", "createPR"}
  /\ Ends = {"done", "skipped", "failed"}
  BY DEF Steps, Ends

\* A request that changes nothing but the job.
LEMMA Waits ==
  ASSUME NEW i \in Issues, Advances(i), Suits(i, job'[i].pc), job'[i].pc \in Written => job[i].pc \in Written,
         UNCHANGED <<payload, repo, closer, issues, history>>
  PROVE  StepOf(i)
  BY DEF StepOf, Touches, Quiet, repo, issues, history

\* The first requests of an attempt.
LEMMA Begins ==
  ASSUME Typed, NEW i \in Issues, GetRef(i) \/ ListPRs(i) \/ GetDocs(i)
  PROVE  StepOf(i)
<1>0. job \in [Issues -> JobStates] /\ main \in Bases /\ job[i] \in JobStates
  BY DEF Typed
<1>1. CASE GetRef(i)
  <2> DEFINE s == [[job[i] EXCEPT !.pc = "listPRs"] EXCEPT !.base = main]
  <2>1. s \in JobStates /\ s.pc = "listPRs" /\ s.base = main
    BY <1>0, PcsAre DEF JobStates
  <2>2. job' = [job EXCEPT ![i] = s]
    BY <1>0, <1>1 DEF GetRef, JobStates
  <2> HIDE DEF s
  <2>3. Advances(i) /\ job'[i].pc = "listPRs"
    BY <1>0, <2>1, <2>2, JobMoves
  <2>4. Suits(i, "listPRs") /\ "listPRs" \notin Written
    BY DEF Suits, Written
  <2>5. UNCHANGED <<payload, repo, closer, issues, history>>
    BY <1>1 DEF GetRef
  <2> QED
    BY <2>3, <2>4, <2>5, Waits
<1>2. CASE ListPRs(i)
  <2> DEFINE next == IF pr THEN "updateRef" ELSE "deleteRef"
             s == [[job[i] EXCEPT !.pc = next] EXCEPT !.seenPR = pr]
  <2>1. next \in Steps /\ pr \in BOOLEAN
    BY PcsAre DEF Typed
  <2>2. s \in JobStates /\ s.pc = next /\ s.base = job[i].base
    BY <1>0, <2>1 DEF JobStates
  <2>3. job' = [job EXCEPT ![i] = s]
    BY <1>0, <1>2 DEF ListPRs, JobStates
  <2> HIDE DEF s
  <2>4. Advances(i) /\ job'[i].pc = next
    BY <1>0, <2>2, <2>3, JobMoves
  <2>5. Suits(i, next) /\ next \notin Written
    BY DEF Suits, Written
  <2>6. UNCHANGED <<payload, repo, closer, issues, history>>
    BY <1>2 DEF ListPRs
  <2> QED
    BY <2>4, <2>5, <2>6, Waits
<1>3. CASE GetDocs(i)
  <2>1. UNCHANGED <<payload, repo, closer, issues, history>>
    BY <1>3 DEF GetDocs
  <2>2. CASE branch = NoBranch
    <3>1. Advances(i) /\ job'[i].pc \in {"getRef", "failed"}
      BY <1>0, <1>3, <2>2, RetryFacts DEF GetDocs
    <3> QED
      BY <2>1, <3>1, Waits DEF Suits, Written
  <2>3. CASE branch # NoBranch /\ payload[i].docsColumn = 0
    <3>1. Advances(i) /\ job'[i].pc = "skipped"
      BY <1>0, <1>3, <2>3, GotoFacts, PcsAre DEF GetDocs
    <3> QED
      BY <2>1, <3>1, Waits DEF Suits, Written
  <2>4. CASE branch # NoBranch /\ payload[i].docsColumn # 0
    <3> DEFINE s == [[job[i] EXCEPT !.docs = branch.docs] EXCEPT !.pc = "putDocs"]
    <3>1. branch.docs \in Docs
      BY <2>4, FilesAre DEF Typed, Exists
    <3>2. s \in JobStates /\ s.pc = "putDocs" /\ s.base = job[i].base
      BY <1>0, <3>1, PcsAre DEF JobStates
    <3>3. job' = [job EXCEPT ![i] = s]
      BY <1>0, <1>3, <2>4 DEF GetDocs, JobStates
    <3> HIDE DEF s
    <3>4. Advances(i) /\ job'[i].pc = "putDocs"
      BY <1>0, <3>2, <3>3, JobMoves
    <3> QED
      BY <2>1, <2>4, <3>4, Waits DEF Suits, Written
  <2> QED
    BY <2>2, <2>3, <2>4
<1> QED
  BY <1>1, <1>2, <1>3

\* The requests about the branch.
LEMMA Branches ==
  ASSUME Typed, NEW i \in Issues, DeleteRef(i) \/ CreateRef(i) \/ UpdateRef(i)
  PROVE  StepOf(i)
<1>0. job \in [Issues -> JobStates]
  BY DEF Typed
<1>1. CASE DeleteRef(i)
  <2>1. Advances(i) /\ job'[i].pc = "createRef"
    BY <1>0, <1>1, GotoFacts, PcsAre DEF DeleteRef
  <2>2. Deletes(i)
    BY <1>1, <2>1 DEF DeleteRef, Deletes, Exists, Written
  <2> QED
    BY <1>1, <2>1, <2>2 DEF StepOf, Touches, DeleteRef, Suits, issues, Written
<1>2. CASE CreateRef(i)
  <2>1. CASE Exists
    <3>1. Advances(i) /\ job'[i].pc \in {"getRef", "failed"}
      BY <1>0, <1>2, <2>1, RetryFacts DEF CreateRef, Exists
    <3>2. UNCHANGED <<payload, repo, closer, issues, history>>
      BY <1>2, <2>1 DEF CreateRef, Exists, repo, issues, history
    <3> QED
      BY <3>1, <3>2, Waits DEF Suits, Written
  <2>2. CASE ~Exists
    <3>1. Advances(i) /\ job'[i].pc = "getDocs"
      BY <1>0, <1>2, <2>2, GotoFacts, PcsAre DEF CreateRef, Exists
    <3>2. Resets(i)
      BY <1>2, <2>2, <3>1 DEF CreateRef, Resets, Exists, Written, history
    <3> QED
      BY <1>2, <3>1, <3>2 DEF StepOf, Touches, CreateRef, Suits, issues, history, Written
  <2> QED
    BY <2>1, <2>2
<1>3. CASE UpdateRef(i)
  <2>1. Advances(i) /\ job'[i].pc = "getDocs"
    BY <1>0, <1>3, GotoFacts, PcsAre DEF UpdateRef
  <2>2. Suits(i, "getDocs") /\ "getDocs" \notin Written
    BY DEF Suits, Written
  <2>3. CASE branch # NoBranch /\ within # Ahead /\ within <= job[i].base.merges
    <3>1. Resets(i)
      BY <1>3, <2>1, <2>2, <2>3 DEF UpdateRef, Resets, history
    <3> QED
      BY <1>3, <2>1, <2>2, <3>1 DEF StepOf, Touches, UpdateRef, issues, history
  <2>4. CASE ~(branch # NoBranch /\ within # Ahead /\ within <= job[i].base.merges)
    <3>1. UNCHANGED <<payload, repo, closer, issues, history>>
      BY <1>3, <2>4 DEF UpdateRef, repo
    <3> QED
      BY <2>1, <2>2, <3>1, Waits
  <2> QED
    BY <2>3, <2>4
<1> QED
  BY <1>1, <1>2, <1>3

\* The requests that write a file, and those that come after.
LEMMA Puts ==
  ASSUME Typed, HasColumn, NEW i \in Issues, PutDocs(i)
  PROVE  StepOf(i)
<1>0. job \in [Issues -> JobStates]
  BY DEF Typed
<1>1. CASE branch = NoBranch \/ branch.docs # job[i].docs
  <2>1. Retry(i) /\ UNCHANGED <<branch, within, gapped>>
    BY <1>1 DEF PutDocs
  <2>2. Advances(i) /\ job'[i].pc \in {"getRef", "failed"}
    BY <1>0, <2>1, RetryFacts
  <2>3. UNCHANGED <<payload, repo, closer, issues, history>>
    BY <2>1 DEF PutDocs, repo, issues, history
  <2> QED
    BY <2>2, <2>3, Waits DEF Suits, Written
<1>2. CASE branch # NoBranch /\ branch.docs = job[i].docs
  <2> DEFINE next == IF payload[i].readmeColumn # 0 THEN "getReadme"
                     ELSE IF job[i].seenPR THEN "comment" ELSE "createPR"
  <2>1. /\ branch' = [branch EXCEPT !.docs[payload[i].proc][payload[i].os] =
                        UpdatedRow(@, payload[i].docsColumn, DocsCert(i))]
        /\ within' = Ahead
        /\ gapped' = IF Gapless(job[i].docs[payload[i].proc][payload[i].os], payload[i].docsColumn)
                     THEN gapped ELSE gapped \cup {<<payload[i].proc, payload[i].os>>}
        /\ Goto(i, next)
    BY <1>2 DEF PutDocs, DocsCert
  <2>2. Advances(i) /\ job'[i].pc = next
    BY <1>0, <2>1, GotoFacts, PcsAre
  <2>3. payload[i].docsColumn # 0
    BY DEF HasColumn, PutDocs
  <2>4. Suits(i, next)
    BY <2>3 DEF Suits, Written
  <2>5. UNCHANGED <<payload, main, pr, closer, opened, open, dropped, overlaps>>
    BY DEF PutDocs, issues
  <2>6. gapped' = IF Gapless(DocsRow(branch, i), payload[i].docsColumn) THEN gapped
                  ELSE gapped \cup {<<payload[i].proc, payload[i].os>>}
    BY <1>2, <2>1 DEF DocsRow
  <2>7. WritesDocs(i)
    BY <1>2, <2>1, <2>3, <2>5, <2>6 DEF WritesDocs, Exists
  <2> QED
    BY <2>2, <2>4, <2>5, <2>7 DEF StepOf, Touches
<1> QED
  BY <1>1, <1>2

\* The requests about README.md, which a job gets to after its certification.
LEMMA ReadmeSteps ==
  ASSUME Typed, HasColumn, NEW i \in Issues, GetReadme(i) \/ PutReadme(i)
  PROVE  StepOf(i)
<1>0. job \in [Issues -> JobStates] /\ job[i] \in JobStates
  BY DEF Typed
<1>1. payload[i].docsColumn # 0 /\ payload[i].readmeColumn # 0 /\ job[i].pc \in Written
  BY DEF HasColumn, GetReadme, PutReadme, Written
<1>2. CASE GetReadme(i)
  <2>1. UNCHANGED <<payload, repo, closer, issues, history>>
    BY <1>2 DEF GetReadme
  <2>2. CASE branch = NoBranch
    <3>1. Advances(i) /\ job'[i].pc \in {"getRef", "failed"}
      BY <1>0, <1>2, <2>2, RetryFacts DEF GetReadme
    <3> QED
      BY <2>1, <3>1, Waits DEF Suits, Written
  <2>3. CASE branch # NoBranch
    <3> DEFINE s == [[job[i] EXCEPT !.readme = branch.readme] EXCEPT !.pc = "putReadme"]
    <3>1. branch.readme \in Readmes
      BY <2>3, FilesAre DEF Typed, Exists
    <3>2. s \in JobStates /\ s.pc = "putReadme" /\ s.base = job[i].base
      BY <1>0, <3>1, PcsAre DEF JobStates
    <3>3. job' = [job EXCEPT ![i] = s]
      BY <1>0, <1>2, <2>3 DEF GetReadme, JobStates
    <3> HIDE DEF s
    <3>4. Advances(i) /\ job'[i].pc = "putReadme"
      BY <1>0, <3>2, <3>3, JobMoves
    <3> QED
      BY <1>1, <2>1, <3>4, Waits DEF Suits, Written
  <2> QED
    BY <2>2, <2>3
<1>3. CASE PutReadme(i)
  <2>1. CASE branch = NoBranch \/ branch.readme # job[i].readme
    <3>1. Retry(i) /\ UNCHANGED <<branch, within, gapped>>
      BY <1>3, <2>1 DEF PutReadme
    <3>2. Advances(i) /\ job'[i].pc \in {"getRef", "failed"}
      BY <1>0, <3>1, RetryFacts
    <3>3. UNCHANGED <<payload, repo, closer, issues, history>>
      BY <1>3, <3>1 DEF PutReadme, repo, issues, history
    <3> QED
      BY <3>2, <3>3, Waits DEF Suits, Written
  <2>2. CASE branch # NoBranch /\ branch.readme = job[i].readme
    <3> DEFINE next == IF job[i].seenPR THEN "comment" ELSE "createPR"
    <3>1. /\ branch' = [branch EXCEPT !.readme[payload[i].os] =
                          UpdatedRow(@, payload[i].readmeColumn, ReadmeCert(i))]
          /\ within' = Ahead
          /\ gapped' = IF Gapless(job[i].readme[payload[i].os], payload[i].readmeColumn) THEN gapped
                       ELSE gapped \cup {<<"README", payload[i].os>>}
          /\ Goto(i, next)
      BY <1>3, <2>2 DEF PutReadme, ReadmeCert
    <3>2. Advances(i) /\ job'[i].pc = next
      BY <1>0, <3>1, GotoFacts, PcsAre
    <3>3. Suits(i, next)
      BY <1>1 DEF Suits, Written
    <3>4. UNCHANGED <<payload, main, pr, closer, opened, open, dropped, overlaps>>
      BY <1>3 DEF PutReadme, issues
    <3>5. WritesReadme(i)
      BY <1>1, <2>2, <3>1, <3>4 DEF WritesReadme, Exists
    <3> QED
      BY <3>2, <3>3, <3>4, <3>5 DEF StepOf, Touches
  <2> QED
    BY <2>1, <2>2
<1> QED
  BY <1>2, <1>3

\* The requests that end a job: a comment, or a pull request of its own.
LEMMA Offers ==
  ASSUME Typed, HasColumn, NEW i \in Issues, Comment(i) \/ CreatePR(i)
  PROVE  StepOf(i)
<1>0. job \in [Issues -> JobStates]
  BY DEF Typed
<1>1. payload[i].docsColumn # 0 /\ job[i].pc \in Written
  BY DEF HasColumn, Comment, CreatePR, Written
<1>2. CASE Comment(i)
  <2>1. Advances(i) /\ job'[i].pc = "done"
    BY <1>0, <1>2, GotoFacts, PcsAre DEF Comment
  <2>2. UNCHANGED <<payload, repo, closer, issues, history>>
    BY <1>2 DEF Comment
  <2> QED
    BY <1>1, <2>1, <2>2, Waits DEF Suits, Written
<1>3. CASE CreatePR(i)
  <2>1. CASE branch # NoBranch /\ within = Ahead /\ ~pr
    <3>1. pr' = TRUE /\ Goto(i, "done")
      BY <1>3, <2>1 DEF CreatePR
    <3>2. Advances(i) /\ job'[i].pc = "done"
      BY <1>0, <3>1, GotoFacts, PcsAre
    <3>3. UNCHANGED <<payload, main, branch, within, closer, opened, open, dropped, gapped, overlaps>>
      BY <1>3 DEF CreatePR, issues, history
    <3>4. Quiet(i)
      BY <1>1, <2>1, <3>1, <3>3 DEF Quiet, Exists
    <3> QED
      BY <1>1, <3>2, <3>3, <3>4 DEF StepOf, Touches, Suits
  <2>2. CASE ~(branch # NoBranch /\ within = Ahead /\ ~pr)
    <3>1. Retry(i) /\ UNCHANGED pr
      BY <1>3, <2>2 DEF CreatePR
    <3>2. Advances(i) /\ job'[i].pc \in {"getRef", "failed"}
      BY <1>0, <3>1, RetryFacts
    <3>3. UNCHANGED <<payload, repo, closer, issues, history>>
      BY <1>3, <3>1 DEF CreatePR, repo
    <3> QED
      BY <3>2, <3>3, Waits DEF Suits, Written
  <2> QED
    BY <2>1, <2>2
<1> QED
  BY <1>2, <1>3

\* Every request of a job is one of these.
LEMMA JobSteps ==
  ASSUME Typed, HasColumn, NEW i \in Issues, UpdateMatrix(i)
  PROVE  StepOf(i)
  BY Begins, Branches, Puts, ReadmeSteps, Offers DEF UpdateMatrix

\* What may happen in the whole workflow.
LEMMA NextSteps ==
  ASSUME Typed, HasColumn, [Next]_vars
  PROVE  \/ \E i \in Issues : StepOf(i)
         \/ OpenIssue
         \/ MergePR
         \/ \E i \in Issues : ListDuplicates(i) \/ CloseDuplicate(i)
         \/ UNCHANGED <<payload, repo, job, closer, issues, history>>
  BY JobSteps DEF Next, vars

\* The issues of a behaviour never change, and what is defined by them.
LEMMA SamePayload ==
  ASSUME payload' = payload
  PROVE  /\ Issues' = Issues /\ Files' = Files /\ Bases' = Bases /\ Docs' = Docs
         /\ JobStates' = JobStates /\ CloserStates' = CloserStates
         /\ \A i : Twins(i)' = Twins(i) /\ SameCell(i)' = SameCell(i)
<1>1. Issues' = Issues
  BY DEF Issues
<1>2. Row' = Row
  BY <1>1 DEF Row, Certs
<1>3. Docs' = Docs /\ Readmes' = Readmes
  BY <1>2 DEF Docs, Readmes
<1>4. Bases' = Bases /\ Files' = Files
  BY <1>1, <1>3 DEF Bases, Files, Certs
<1>5. JobStates' = JobStates /\ CloserStates' = CloserStates
  BY <1>1, <1>3, <1>4 DEF JobStates, CloserStates
<1>6. \A i : Twins(i)' = Twins(i) /\ SameCell(i)' = SameCell(i)
  BY <1>1 DEF Twins, SameCell
<1> QED
  BY <1>1, <1>3, <1>4, <1>5, <1>6

\* What a write of a file leaves as it was.
LEMMA DocsWritten ==
  ASSUME Typed, NEW i \in Issues, WritesDocs(i)
  PROVE  /\ branch' \in Files /\ branch'.readme = branch.readme
         /\ DocsRow(branch, i) \in Row /\ payload[i].docsColumn \in Nat \ {0} /\ DocsCert(i) \in Certs
         /\ DocsRow(branch', i) = UpdatedRow(DocsRow(branch, i), payload[i].docsColumn, DocsCert(i))
         /\ \A p \in Processors, o \in OSes :
              <<p, o>> # <<payload[i].proc, payload[i].os>> => branch'.docs[p][o] = branch.docs[p][o]
<1> DEFINE p == payload[i].proc
           o == payload[i].os
           row == UpdatedRow(DocsRow(branch, i), payload[i].docsColumn, DocsCert(i))
<1>1. p \in Processors /\ o \in OSes /\ payload[i].docsColumn \in Nat \ {0}
  BY IssueFacts DEF Typed, WritesDocs
<1>2. branch \in [docs : Docs, readme : Readmes]
  BY FilesAre DEF Typed, WritesDocs
<1>3. DocsRow(branch, i) \in Row
  BY <1>1, <1>2 DEF DocsRow, Docs
<1>4. DocsCert(i) \in Certs
  BY <1>1 DEF DocsCert, Certs
<1>5. row \in Row
  BY <1>1, <1>3, <1>4, UpdatedRowFacts
<1>6. branch' = [branch EXCEPT !.docs[p][o] = row]
  BY DEF WritesDocs, DocsRow
<1> HIDE DEF row, p, o
<1>7. branch'.docs = [branch.docs EXCEPT ![p][o] = row] /\ branch'.readme = branch.readme
  BY <1>2, <1>6
<1>8. branch.docs \in [Processors -> [OSes -> Row]]
  BY <1>2 DEF Docs
<1>9. branch' \in [docs : Docs, readme : Readmes]
  BY <1>1, <1>2, <1>5, <1>6 DEF Docs
<1>10. branch'.docs[p][o] = row
       /\ \A q \in Processors, u \in OSes : <<q, u>> # <<p, o>> => branch'.docs[q][u] = branch.docs[q][u]
  BY <1>1, <1>7, <1>8
<1> QED
  BY <1>1, <1>3, <1>4, <1>7, <1>9, <1>10, FilesAre DEF DocsRow, row, p, o

\* What a write of README.md leaves as it was.
LEMMA ReadmeWritten ==
  ASSUME Typed, NEW i \in Issues, WritesReadme(i)
  PROVE  LET row == branch.readme[payload[i].os] IN
         /\ branch' \in Files /\ branch'.docs = branch.docs
         /\ row \in Row /\ payload[i].readmeColumn \in Nat \ {0} /\ ReadmeCert(i) \in Certs
         /\ branch'.readme[payload[i].os] = UpdatedRow(row, payload[i].readmeColumn, ReadmeCert(i))
         /\ \A o \in OSes : o # payload[i].os => branch'.readme[o] = branch.readme[o]
<1> DEFINE o == payload[i].os
           row == UpdatedRow(branch.readme[o], payload[i].readmeColumn, ReadmeCert(i))
<1>1. o \in OSes /\ payload[i].readmeColumn \in Nat \ {0}
  BY IssueFacts DEF Typed, WritesReadme
<1>2. branch \in [docs : Docs, readme : Readmes]
  BY FilesAre DEF Typed, WritesReadme
<1>3. branch.readme[o] \in Row
  BY <1>1, <1>2 DEF Readmes
<1>4. ReadmeCert(i) \in Certs
  BY <1>1 DEF ReadmeCert, Certs
<1>5. row \in Row
  BY <1>1, <1>3, <1>4, UpdatedRowFacts
<1>6. branch' = [branch EXCEPT !.readme[o] = row]
  BY DEF WritesReadme
<1> HIDE DEF row, o
<1>7. branch'.docs = branch.docs /\ branch'.readme = [branch.readme EXCEPT ![o] = row]
  BY <1>2, <1>6
<1>8. branch' \in [docs : Docs, readme : Readmes]
  BY <1>1, <1>2, <1>5, <1>6 DEF Readmes
<1> QED
  BY <1>1, <1>2, <1>3, <1>4, <1>7, <1>8, FilesAre DEF row, o, Readmes

----------------------------------------------------------------------------
(* Types *)

\* The types that the proofs use are finer than those that the runs check.
LEMMA TypedIsTypeOK ==
  ASSUME Typed
  PROVE  TypeOK
<1>1. Content(main) \in Files /\ main.merges \in Nat
  BY FilesAre DEF Typed, Bases
<1>2. \A i \in Issues : job[i].pc \in Steps /\ job[i].attempt \in 1 .. maxRetries
  BY DEF Typed, JobStates
<1> QED
  BY <1>1, <1>2 DEF Typed, TypeOK, Exists

\* Every step keeps the types of files, jobs and issues.
LEMMA TypedKept ==
  ASSUME Typed, HasColumn, [Next]_vars
  PROVE  Typed'
<1>0. /\ Len(payload) \in Nat /\ Issues = 1 .. Len(payload) /\ opened \in Nat
      /\ main \in Bases /\ pr \in BOOLEAN
  BY IssueFacts DEF Typed
<1>1. ASSUME NEW i \in Issues, StepOf(i) PROVE Typed'
  <2>1. /\ UNCHANGED <<payload, main, closer, opened, open, overlaps>>
        /\ job' \in [Issues -> JobStates]
    BY <1>1 DEF StepOf, Advances
  <2>2. job[i].base \in Bases
    BY DEF Typed, JobStates
  <2>3. SUFFICES /\ (branch' # NoBranch => branch' \in Files)
                 /\ within' \in Nat \cup {Ahead} /\ pr' \in BOOLEAN
                 /\ (pr' => branch' # NoBranch)
    BY <2>1, SamePayload DEF Typed, Exists
  <2>4. CASE Quiet(i)
    <3>1. branch' = branch /\ within' = within
      BY <2>4 DEF Quiet
    <3>2. /\ branch # NoBranch => branch \in Files
          /\ within \in Nat \cup {Ahead} /\ pr \in BOOLEAN
          /\ pr => branch # NoBranch
      BY DEF Typed, Exists
    <3>3. CASE pr' = pr
      BY <3>1, <3>2, <3>3, Zenon
    <3>4. CASE pr' = TRUE /\ branch # NoBranch
      BY <3>1, <3>2, <3>4, Zenon
    <3>5. pr' = pr \/ (pr' = TRUE /\ branch # NoBranch)
      BY <2>4, Zenon DEF Quiet, Exists
    <3> QED
      BY <3>3, <3>4, <3>5, Zenon
  <2>5. CASE Deletes(i)
    BY <2>5 DEF Deletes, Typed
  <2>6. CASE Resets(i)
    <3>1. branch' \in Files /\ within' \in Nat /\ pr' = pr
      BY <2>2, <2>6, FilesAre DEF Resets, Bases
    <3>2. branch' # NoBranch
      BY <3>1, FilesExist DEF Typed
    <3> QED
      BY <1>0, <3>1, <3>2
  <2>7. CASE WritesDocs(i) \/ WritesReadme(i)
    <3>1. branch' \in Files /\ within' = Ahead /\ pr' = pr
      BY <2>7, DocsWritten, ReadmeWritten DEF WritesDocs, WritesReadme
    <3>2. branch' # NoBranch
      BY <3>1, FilesExist DEF Typed
    <3> QED
      BY <1>0, <3>1, <3>2
  <2> QED
    BY <1>1, <2>4, <2>5, <2>6, <2>7 DEF StepOf, Touches
<1>2. CASE OpenIssue
  <2>1. /\ opened' = opened + 1 /\ opened < Len(payload) /\ open' = open \cup {opened'}
        /\ job' = [job EXCEPT ![opened'].pc = "getRef"]
        /\ closer' = [closer EXCEPT ![opened'].pc = "list"]
        /\ UNCHANGED <<payload, main, branch, within, pr>>
    BY <1>2 DEF OpenIssue, repo
  <2>2. opened' \in Issues
    BY <1>0, <2>1
  <2>3. job' \in [Issues -> JobStates]
    <3>1. [job[opened'] EXCEPT !.pc = "getRef"] \in JobStates
      BY <2>2, PcsAre DEF Typed, JobStates
    <3>2. job' = [job EXCEPT ![opened'] = [job[opened'] EXCEPT !.pc = "getRef"]]
      BY <2>1, <2>2 DEF Typed
    <3> QED
      BY <2>2, <3>1, <3>2 DEF Typed
  <2>4. closer' \in [Issues -> CloserStates]
    <3>1. [closer[opened'] EXCEPT !.pc = "list"] \in CloserStates
      BY <2>2 DEF Typed, CloserStates
    <3>2. closer' = [closer EXCEPT ![opened'] = [closer[opened'] EXCEPT !.pc = "list"]]
      BY <2>1, <2>2 DEF Typed
    <3> QED
      BY <2>2, <3>1, <3>2 DEF Typed
  <2>5. overlaps' \subseteq Issues
    <3>1. overlaps' \in {overlaps, overlaps \cup Twins(opened')}
      BY <1>2 DEF OpenIssue
    <3> QED
      BY <3>1 DEF Typed, Twins
  <2>6. opened' \in 0 .. Len(payload) /\ open' \subseteq 1 .. opened'
    BY <1>0, <2>1 DEF Typed
  <2> QED
    BY <2>1, <2>3, <2>4, <2>5, <2>6, SamePayload DEF Typed, Exists
<1>3. CASE MergePR
  <2>1. /\ main'.docs = [p \in Processors |-> [o \in OSes |->
                           MergedRow(main.docs[p][o], branch.docs[p][o])]]
        /\ main'.readme = [o \in OSes |-> MergedRow(main.readme[o], branch.readme[o])]
        /\ main'.merges = main.merges + 1
        /\ main' = [docs |-> main'.docs, readme |-> main'.readme, merges |-> main'.merges]
        /\ pr' = FALSE /\ branch' \in {branch, NoBranch} /\ within' \in {main'.merges, Ahead}
        /\ UNCHANGED <<payload, job, closer, opened, open, overlaps>>
    BY <1>3 DEF MergePR, issues, history
  <2>2. Exists /\ branch \in Files
    BY <1>3 DEF MergePR, Typed
  <2>3. \A p \in Processors, o \in OSes : main.docs[p][o] \in Row /\ branch.docs[p][o] \in Row
    BY <1>0, <2>2, FilesAre DEF Bases, Docs
  <2>4. \A o \in OSes : main.readme[o] \in Row /\ branch.readme[o] \in Row
    BY <1>0, <2>2, FilesAre DEF Bases, Readmes
  <2>5. main'.docs \in Docs
    BY <2>1, <2>3, MergedRowFacts DEF Docs
  <2>6. main'.readme \in Readmes
    BY <2>1, <2>4, MergedRowFacts DEF Readmes
  <2>7. main'.merges \in Nat
    BY <1>0, <2>1 DEF Bases
  <2>8. main' \in Bases
    BY <2>1, <2>5, <2>6, <2>7 DEF Bases
  <2> QED
    BY <2>1, <2>2, <2>7, <2>8, SamePayload DEF Typed, Exists
<1>4. ASSUME NEW i \in Issues, ListDuplicates(i) \/ CloseDuplicate(i) PROVE Typed'
  <2>1. UNCHANGED <<payload, main, branch, within, pr, job, opened, overlaps>>
    BY <1>4 DEF ListDuplicates, CloseDuplicate, repo, issues, history
  <2>2. open' \subseteq open
    BY <1>4 DEF ListDuplicates, CloseDuplicate, issues
  <2>3. closer' \in [Issues -> CloserStates]
    <3>1. \A T \in SUBSET Issues : StillToClose(T) \in CloserStates
      BY DEF StillToClose, CloserStates
    <3>2. CASE ListDuplicates(i)
      <4>1. (open \cap Twins(i)) \ {i} \in SUBSET Issues
        BY DEF Twins
      <4> QED
        BY <3>1, <3>2, <4>1 DEF ListDuplicates, Typed
    <3>3. CASE CloseDuplicate(i)
      <4>1. PICK k \in closer[i].others :
              closer' = [closer EXCEPT ![i] = StillToClose(@.others \ {k})]
        BY <3>3 DEF CloseDuplicate
      <4>2. closer[i].others \ {k} \in SUBSET Issues
        BY DEF Typed, CloserStates
      <4> QED
        BY <3>1, <4>1, <4>2 DEF Typed
    <3> QED
      BY <1>4, <3>2, <3>3
  <2> QED
    BY <2>1, <2>2, <2>3, SamePayload DEF Typed, Exists
<1>5. CASE UNCHANGED <<payload, repo, job, closer, issues, history>>
  BY <1>5, SamePayload DEF Typed, Exists, repo, issues, history
<1> QED
  BY <1>1, <1>2, <1>3, <1>4, <1>5, NextSteps

\* No step brings a job to a write for which it has no column.
LEMMA HasColumnKept ==
  ASSUME Typed, HasColumn, [Next]_vars
  PROVE  HasColumn'
<1>1. ASSUME NEW i \in Issues, StepOf(i) PROVE HasColumn'
  <2>1. payload' = payload /\ Suits(i, job'[i].pc) /\ \A k \in Issues \ {i} : job'[k] = job[k]
    BY <1>1 DEF StepOf, Advances
  <2> QED
    BY <2>1, SamePayload DEF HasColumn, Suits
<1>2. CASE OpenIssue
  <2>1. /\ payload' = payload /\ opened' \in Issues
        /\ job' = [job EXCEPT ![opened'].pc = "getRef"]
    <3>1. opened \in Nat /\ Len(payload) \in Nat /\ Issues = 1 .. Len(payload)
      BY IssueFacts DEF Typed
    <3>2. opened' = opened + 1 /\ opened < Len(payload)
      BY <1>2 DEF OpenIssue
    <3>3. opened' \in Issues
      BY <3>1, <3>2
    <3> QED
      BY <1>2, <3>3 DEF OpenIssue
  <2>2. \A k \in Issues : job'[k].pc \in {job[k].pc, "getRef"}
    BY <2>1 DEF Typed, JobStates
  <2> QED
    BY <2>1, <2>2, SamePayload DEF HasColumn, Written
<1>3. CASE MergePR \/ (\E i \in Issues : ListDuplicates(i) \/ CloseDuplicate(i))
           \/ UNCHANGED <<payload, repo, job, closer, issues, history>>
  <2>1. UNCHANGED <<payload, job>>
    BY <1>3 DEF MergePR, ListDuplicates, CloseDuplicate
  <2> QED
    BY <2>1, SamePayload DEF HasColumn
<1> QED
  BY <1>1, <1>2, <1>3, NextSteps

----------------------------------------------------------------------------
(* Certifications under their headers *)

\* The history of gaps only grows.
LEMMA GapsGrow ==
  ASSUME Typed, HasColumn, [Next]_vars
  PROVE  payload' = payload /\ gapped \subseteq gapped'
<1>1. ASSUME NEW i \in Issues, StepOf(i) PROVE payload' = payload /\ gapped \subseteq gapped'
  BY <1>1 DEF StepOf, Touches, Quiet, Deletes, Resets, WritesDocs, WritesReadme
<1>2. ASSUME NEW i \in Issues, ListDuplicates(i) \/ CloseDuplicate(i)
      PROVE  payload' = payload /\ gapped' = gapped
  BY <1>2 DEF ListDuplicates, CloseDuplicate, history
<1> QED
  BY <1>1, <1>2, NextSteps DEF OpenIssue, MergePR, history

\* With more gaps less is asked of a file.
LEMMA OrderedStays ==
  ASSUME gapped \subseteq gapped'
  PROVE  \A f : Ordered(f, payload, gapped) => Ordered(f, payload, gapped')
  BY DEF Ordered

\* Nothing is out of order in files without rows.
LEMMA OrderedBlank ==
  Ordered(NoMerge, payload, gapped)
  BY DEF Ordered, NoMerge, Blank, Own, InPlace

\* A row that is updated where it has no gap stays in order.
LEMMA DocsOrdered ==
  ASSUME Typed, Ordered(branch, payload, gapped), NEW i \in Issues, WritesDocs(i)
  PROVE  Ordered(branch', payload, gapped')
<1> DEFINE p == payload[i].proc
           o == payload[i].os
           column == payload[i].docsColumn
           cells == DocsRow(branch, i)
<1>1. /\ branch'.readme = branch.readme /\ cells \in Row /\ column \in Nat \ {0} /\ DocsCert(i) \in Certs
      /\ DocsRow(branch', i) = UpdatedRow(cells, column, DocsCert(i))
      /\ \A q \in Processors, u \in OSes : <<q, u>> # <<p, o>> => branch'.docs[q][u] = branch.docs[q][u]
  BY DocsWritten
<1>2. gapped \subseteq gapped' /\ (<<p, o>> \notin gapped' => Gapless(cells, column))
  BY DEF WritesDocs
<1>3. p \in Processors /\ o \in OSes
  BY IssueFacts DEF Typed
<1>4. ASSUME <<p, o>> \notin gapped' PROVE Own(branch'.docs[p][o], p, o, payload)
  <2> DEFINE r == branch'.docs[p][o]
  <2>1. Updates(r, cells, column, DocsCert(i)) /\ column <= Len(cells) + 1
    BY <1>1, <1>2, <1>4, UpdatedRowFacts DEF DocsRow, Gapless
  <2>2. Own(cells, p, o, payload)
    BY <1>2, <1>3, <1>4 DEF Ordered, DocsRow
  <2>3. Len(cells) \in Nat /\ DOMAIN cells = 1 .. Len(cells)
    BY <1>1 DEF Row
  <2>4. DocsCert(i).issue = i /\ DocsCert(i).column = column
    BY DEF DocsCert
  <2> HIDE DEF r, cells, column
  <2>5. \A k \in DOMAIN r : k = column \/ (k \in DOMAIN cells /\ r[k] = cells[k])
    BY <1>1, <2>1, <2>3 DEF Updates
  <2>6. ASSUME NEW k \in DOMAIN r, r[k] # Empty
        PROVE  /\ r[k].column = k /\ payload[r[k].issue].docsColumn = k
               /\ payload[r[k].issue].proc = p /\ payload[r[k].issue].os = o
    <3>1. CASE k = column
      BY <2>1, <2>4, <3>1 DEF Updates, column
    <3>2. CASE k \in DOMAIN cells /\ r[k] = cells[k]
      BY <2>2, <2>6, <3>2 DEF Own
    <3> QED
      BY <2>5, <2>6, <3>1, <3>2
  <2>7. Own(r, p, o, payload)
    BY <2>6 DEF Own
  <2> QED
    BY <2>7 DEF r
<1>5. ASSUME NEW q \in Processors, NEW u \in OSes, <<q, u>> \notin gapped'
      PROVE  Own(branch'.docs[q][u], q, u, payload)
  <2>1. CASE q = p /\ u = o
    BY <1>4, <1>5, <2>1
  <2>2. CASE ~(q = p /\ u = o)
    BY <1>1, <1>2, <1>5, <2>2 DEF Ordered
  <2> QED
    BY <2>1, <2>2
<1>6. ASSUME NEW u \in OSes, <<"README", u>> \notin gapped' PROVE InPlace(branch'.readme[u])
  BY <1>1, <1>2, <1>6 DEF Ordered
<1> QED
  BY <1>5, <1>6 DEF Ordered

\* The same of a row of README.md.
LEMMA ReadmeOrdered ==
  ASSUME Typed, Ordered(branch, payload, gapped), NEW i \in Issues, WritesReadme(i)
  PROVE  Ordered(branch', payload, gapped')
<1> DEFINE o == payload[i].os
           column == payload[i].readmeColumn
           cells == branch.readme[o]
           r == branch'.readme[o]
<1>1. /\ branch'.docs = branch.docs /\ cells \in Row /\ column \in Nat \ {0} /\ ReadmeCert(i) \in Certs
      /\ r = UpdatedRow(cells, column, ReadmeCert(i))
      /\ \A u \in OSes : u # o => branch'.readme[u] = branch.readme[u]
  BY ReadmeWritten
<1>2. gapped \subseteq gapped' /\ (<<"README", o>> \notin gapped' => Gapless(cells, column))
  BY DEF WritesReadme
<1>3. o \in OSes
  BY IssueFacts DEF Typed
<1>4. ASSUME <<"README", o>> \notin gapped' PROVE InPlace(r)
  <2>1. Updates(r, cells, column, ReadmeCert(i)) /\ column <= Len(cells) + 1
    BY <1>1, <1>2, <1>4, UpdatedRowFacts DEF Gapless
  <2>2. InPlace(cells)
    BY <1>2, <1>3, <1>4 DEF Ordered
  <2>3. Len(cells) \in Nat /\ DOMAIN cells = 1 .. Len(cells)
    BY <1>1 DEF Row
  <2>4. ReadmeCert(i).column = column
    BY DEF ReadmeCert
  <2> HIDE DEF r, cells, column
  <2>5. \A k \in DOMAIN r : k = column \/ (k \in DOMAIN cells /\ r[k] = cells[k])
    BY <1>1, <2>1, <2>3 DEF Updates
  <2> QED
    BY <2>1, <2>2, <2>4, <2>5 DEF Updates, InPlace
<1>5. ASSUME NEW u \in OSes, <<"README", u>> \notin gapped' PROVE InPlace(branch'.readme[u])
  <2>1. CASE u = o
    BY <1>4, <1>5, <2>1
  <2>2. CASE u # o
    BY <1>1, <1>2, <1>5, <2>2 DEF Ordered
  <2> QED
    BY <2>1, <2>2
<1>6. \A p \in Processors, u \in OSes : <<p, u>> \notin gapped' => Own(branch'.docs[p][u], p, u, payload)
  BY <1>1, <1>2 DEF Ordered
<1> QED
  BY <1>5, <1>6 DEF Ordered

\* A merge brings together, row by row, what stands on both branches.
LEMMA Merges ==
  ASSUME Typed, MergePR
  PROVE  /\ Exists /\ gapped' = gapped /\ dropped' = dropped /\ payload' = payload /\ job' = job
         /\ branch' \in {branch, NoBranch} /\ within' \in {main'.merges, Ahead}
         /\ \A p \in Processors, o \in OSes :
              /\ main.docs[p][o] \in Row /\ branch.docs[p][o] \in Row
              /\ main'.docs[p][o] = MergedRow(main.docs[p][o], branch.docs[p][o])
         /\ \A o \in OSes :
              /\ main.readme[o] \in Row /\ branch.readme[o] \in Row
              /\ main'.readme[o] = MergedRow(main.readme[o], branch.readme[o])
<1>1. Exists /\ branch \in Files /\ main \in Bases
  BY DEF MergePR, Typed
<1>2. \A p \in Processors, o \in OSes : main.docs[p][o] \in Row /\ branch.docs[p][o] \in Row
  BY <1>1, FilesAre DEF Bases, Docs
<1>3. \A o \in OSes : main.readme[o] \in Row /\ branch.readme[o] \in Row
  BY <1>1, FilesAre DEF Bases, Readmes
<1>4. /\ main'.docs = [p \in Processors |-> [o \in OSes |->
                         MergedRow(main.docs[p][o], branch.docs[p][o])]]
      /\ main'.readme = [o \in OSes |-> MergedRow(main.readme[o], branch.readme[o])]
  BY DEF MergePR
<1>5. /\ gapped' = gapped /\ dropped' = dropped /\ payload' = payload /\ job' = job
      /\ branch' \in {branch, NoBranch} /\ within' \in {main'.merges, Ahead}
  BY DEF MergePR, history
<1> QED
  BY <1>1, <1>2, <1>3, <1>4, <1>5

\* Rows in order stay so when they are brought together.
LEMMA MergeOrdered ==
  ASSUME Typed, MergePR, Ordered(main, payload, gapped), Ordered(branch, payload, gapped)
  PROVE  Ordered(main', payload, gapped)
<1>1. ASSUME NEW p \in Processors, NEW o \in OSes, <<p, o>> \notin gapped
      PROVE  Own(main'.docs[p][o], p, o, payload)
  <2> DEFINE ours == main.docs[p][o]
             theirs == branch.docs[p][o]
             r == main'.docs[p][o]
  <2>1. ours \in Row /\ theirs \in Row /\ r = MergedRow(ours, theirs)
    BY Merges
  <2>2. Own(ours, p, o, payload) /\ Own(theirs, p, o, payload)
    BY <1>1 DEF Ordered
  <2> HIDE DEF ours, theirs, r
  <2>3. \A k : Filled(r, k) => \/ Filled(theirs, k) /\ r[k] = theirs[k]
                               \/ Filled(ours, k) /\ r[k] = ours[k]
    BY <2>1, MergedRowFacts
  <2>4. Own(r, p, o, payload)
    BY <2>2, <2>3 DEF Own, Filled
  <2> QED
    BY <2>4 DEF r
<1>2. ASSUME NEW o \in OSes, <<"README", o>> \notin gapped
      PROVE  InPlace(main'.readme[o])
  <2> DEFINE ours == main.readme[o]
             theirs == branch.readme[o]
             r == main'.readme[o]
  <2>1. ours \in Row /\ theirs \in Row /\ r = MergedRow(ours, theirs)
    BY Merges
  <2>2. InPlace(ours) /\ InPlace(theirs)
    BY <1>2 DEF Ordered
  <2> HIDE DEF ours, theirs, r
  <2>3. \A k : Filled(r, k) => \/ Filled(theirs, k) /\ r[k] = theirs[k]
                               \/ Filled(ours, k) /\ r[k] = ours[k]
    BY <2>1, MergedRowFacts
  <2>4. InPlace(r)
    BY <2>2, <2>3 DEF InPlace, Filled
  <2> QED
    BY <2>4 DEF r
<1> QED
  BY <1>1, <1>2 DEF Ordered

\* A job has nothing to put back but what has been on the default branch.
LEMMA BasesAre ==
  ASSUME Typed, HasColumn, [Next]_vars, NEW k \in Issues
  PROVE  job'[k].base \in {job[k].base, NoMerge, main}
<1>1. ASSUME NEW i \in Issues, StepOf(i) PROVE job'[k].base \in {job[k].base, NoMerge, main}
  BY <1>1 DEF StepOf, Advances
<1>2. CASE OpenIssue
  <2>1. job' = [job EXCEPT ![opened'].pc = "getRef"]
    BY <1>2 DEF OpenIssue
  <2>2. job'[k].base = job[k].base
    BY <2>1 DEF Typed, JobStates
  <2> QED
    BY <2>2
<1>3. CASE MergePR \/ (\E i \in Issues : ListDuplicates(i) \/ CloseDuplicate(i))
           \/ UNCHANGED <<payload, repo, job, closer, issues, history>>
  BY <1>3 DEF MergePR, ListDuplicates, CloseDuplicate
<1> QED
  BY <1>1, <1>2, <1>3, NextSteps

\* What neither touches the files nor the history of gaps.
LEMMA OtherSteps ==
  ASSUME OpenIssue \/ (\E i \in Issues : ListDuplicates(i) \/ CloseDuplicate(i))
           \/ UNCHANGED <<payload, repo, job, closer, issues, history>>
  PROVE  UNCHANGED <<payload, main, branch, within, gapped, dropped>>
  BY DEF OpenIssue, ListDuplicates, CloseDuplicate, repo, history

\* Every step keeps all files in order, those too that a job still holds.
LEMMA PlacementKept ==
  ASSUME Typed, HasColumn, Placement, [Next]_vars
  PROVE  Placement'
<1>0. payload' = payload /\ gapped \subseteq gapped' /\ Issues' = Issues
  BY GapsGrow, SamePayload
<1>1. \A f : Ordered(f, payload, gapped) => Ordered(f, payload, gapped')
  BY <1>0, OrderedStays
<1>2. /\ Ordered(main, payload, gapped')
      /\ Exists => Ordered(branch, payload, gapped')
      /\ \A k \in Issues : Ordered(job[k].base, payload, gapped')
      /\ \A k \in Issues : Ordered(job'[k].base, payload, gapped')
  <2>1. Ordered(main, payload, gapped') /\ Ordered(NoMerge, payload, gapped')
    BY <1>1, OrderedBlank DEF Placement
  <2>2. Exists => Ordered(branch, payload, gapped')
    BY <1>1 DEF Placement
  <2>3. \A k \in Issues : Ordered(job[k].base, payload, gapped')
    BY <1>1 DEF Placement
  <2>4. \A k \in Issues : Ordered(job'[k].base, payload, gapped')
    BY <2>1, <2>3, BasesAre
  <2> QED
    BY <2>1, <2>2, <2>3, <2>4
<1>3. SUFFICES /\ Ordered(main', payload, gapped')
               /\ branch' # NoBranch => Ordered(branch', payload, gapped')
  BY <1>0, <1>2 DEF Placement, Exists
<1>4. ASSUME NEW i \in Issues, StepOf(i)
      PROVE  /\ main' = main
             /\ branch' # NoBranch => Ordered(branch', payload, gapped')
  <2>1. main' = main
    BY <1>4 DEF StepOf
  <2>2. CASE Quiet(i)
    BY <1>2, <2>1, <2>2 DEF Quiet, Exists
  <2>3. CASE Deletes(i)
    BY <2>1, <2>3 DEF Deletes
  <2>4. CASE Resets(i)
    <3>1. Content(job[i].base).docs = job[i].base.docs /\ Content(job[i].base).readme = job[i].base.readme
      BY DEF Content
    <3>2. Ordered(Content(job[i].base), payload, gapped')
      BY <1>2, <3>1 DEF Ordered
    <3> QED
      BY <2>1, <2>4, <3>2 DEF Resets
  <2>5. CASE WritesDocs(i)
    <3>1. Ordered(branch, payload, gapped)
      BY <2>5 DEF Placement, WritesDocs
    <3> QED
      BY <2>1, <2>5, <3>1, DocsOrdered
  <2>6. CASE WritesReadme(i)
    <3>1. Ordered(branch, payload, gapped)
      BY <2>6 DEF Placement, WritesReadme
    <3> QED
      BY <2>1, <2>6, <3>1, ReadmeOrdered
  <2> QED
    BY <1>4, <2>1, <2>2, <2>3, <2>4, <2>5, <2>6 DEF StepOf, Touches
<1>5. CASE MergePR
  <2>1. Exists /\ gapped' = gapped /\ branch' \in {branch, NoBranch}
    BY <1>5, Merges
  <2>2. Ordered(main', payload, gapped)
    BY <1>5, <2>1, MergeOrdered DEF Placement
  <2> QED
    BY <1>2, <2>1, <2>2
<1>6. CASE OpenIssue \/ (\E i \in Issues : ListDuplicates(i) \/ CloseDuplicate(i))
           \/ UNCHANGED <<payload, repo, job, closer, issues, history>>
  <2>1. UNCHANGED <<main, branch>>
    BY <1>6, OtherSteps
  <2> QED
    BY <1>2, <2>1 DEF Exists
<1> QED
  BY <1>2, <1>4, <1>5, <1>6, NextSteps

----------------------------------------------------------------------------
(* Certifications that stay *)

\* Where one file is in another and this in a third, the first is in the third.
LEMMA IsInStays ==
  ASSUME NEW f, NEW m, NEW n, NEW g, NEW h, IsIn(f, m, g), IsIn(m, n, h), g \subseteq h
  PROVE  IsIn(f, n, h)
  BY DEF IsIn, Filled

\* An empty file is in any other, and every file in itself.
LEMMA IsInBlank ==
  ASSUME NEW m, NEW g
  PROVE  IsIn(NoMerge, m, g) /\ IsIn(m, m, g)
  BY DEF IsIn, NoMerge, Blank, Filled

\* A merge takes nothing from the default branch, and leaves nothing behind.
LEMMA MergeKeeps ==
  ASSUME Typed, MergePR
  PROVE  IsIn(main, main', gapped) /\ IsIn(branch, main', gapped)
<1>1. ASSUME NEW p \in Processors, NEW o \in OSes, NEW k,
             Filled(main.docs[p][o], k) \/ Filled(branch.docs[p][o], k)
      PROVE  Filled(main'.docs[p][o], k)
  <2> DEFINE ours == main.docs[p][o]
             theirs == branch.docs[p][o]
             r == main'.docs[p][o]
  <2>1. ours \in Row /\ theirs \in Row /\ r = MergedRow(ours, theirs)
    BY Merges
  <2>2. Filled(ours, k) \/ Filled(theirs, k)
    BY <1>1
  <2> HIDE DEF ours, theirs, r
  <2>3. Filled(r, k)
    BY <2>1, <2>2, MergedRowFacts
  <2> QED
    BY <2>3 DEF r
<1> QED
  BY <1>1 DEF IsIn

\* The default branch only gains.
LEMMA MainGrows ==
  ASSUME Typed, HasColumn, [Next]_vars
  PROVE  IsIn(main, main', gapped')
<1>1. CASE MergePR
  BY <1>1, Merges, MergeKeeps
<1>2. CASE ~MergePR
  <2>1. main' = main
    BY <1>2, NextSteps, OtherSteps DEF StepOf
  <2> QED
    BY <2>1, IsInBlank
<1> QED
  BY <1>1, <1>2

\* Every step keeps what may be discarded on the default branch.
LEMMA BehindKept ==
  ASSUME Typed, HasColumn, Behind, [Next]_vars
  PROVE  Behind'
<1>0. payload' = payload /\ gapped \subseteq gapped' /\ Issues' = Issues
  BY GapsGrow, SamePayload
<1>1. IsIn(main, main', gapped')
  BY MainGrows
<1>2. \A k \in Issues : IsIn(job[k].base, main', gapped')
  <2> TAKE k \in Issues
  <2>1. IsIn(job[k].base, main, gapped)
    BY DEF Behind
  <2> QED
    BY <1>0, <1>1, <2>1, IsInStays
<1>3. \A k \in Issues : IsIn(job'[k].base, main', gapped')
  <2> TAKE k \in Issues
  <2>1. IsIn(NoMerge, main', gapped')
    BY IsInBlank
  <2> QED
    BY <1>1, <1>2, <2>1, BasesAre
<1>4. SUFFICES branch' # NoBranch /\ within' # Ahead => IsIn(branch', main', gapped')
  BY <1>0, <1>3 DEF Behind, Exists
<1>5. Exists /\ within # Ahead => IsIn(branch, main', gapped')
  <2>1. Exists /\ within # Ahead => IsIn(branch, main, gapped)
    BY DEF Behind
  <2> QED
    BY <1>0, <1>1, <2>1, IsInStays
<1>6. ASSUME NEW i \in Issues, StepOf(i), branch' # NoBranch, within' # Ahead
      PROVE  IsIn(branch', main', gapped')
  <2>1. CASE Quiet(i)
    BY <1>5, <1>6, <2>1 DEF Quiet, Exists
  <2>2. CASE Deletes(i)
    BY <1>6, <2>2 DEF Deletes
  <2>3. CASE Resets(i)
    <3>1. IsIn(job[i].base, main', gapped')
      BY <1>2
    <3>2. IsIn(Content(job[i].base), main', gapped')
      BY <3>1 DEF IsIn, Content
    <3> QED
      BY <2>3, <3>2 DEF Resets
  <2>4. CASE WritesDocs(i) \/ WritesReadme(i)
    BY <1>6, <2>4 DEF WritesDocs, WritesReadme
  <2> QED
    BY <1>6, <2>1, <2>2, <2>3, <2>4 DEF StepOf, Touches
<1>7. ASSUME MergePR, branch' # NoBranch PROVE IsIn(branch', main', gapped')
  <2>1. gapped' = gapped /\ branch' = branch
    BY <1>7, Merges
  <2> QED
    BY <1>7, <2>1, MergeKeeps
<1>8. CASE OpenIssue \/ (\E i \in Issues : ListDuplicates(i) \/ CloseDuplicate(i))
           \/ UNCHANGED <<payload, repo, job, closer, issues, history>>
  <2>1. UNCHANGED <<branch, within>>
    BY <1>8, OtherSteps
  <2> QED
    BY <1>5, <2>1 DEF Exists
<1> QED
  BY <1>6, <1>7, <1>8, NextSteps

\* A file with rows of certifications, in order where they have no gap.
Sound(f) == f.docs \in Docs /\ Ordered(f, payload, gapped)

\* In a row without a gap, a filled cell is a certification of an issue of it.
LEMMA CellMeans ==
  ASSUME Typed, NEW i \in Issues, <<payload[i].proc, payload[i].os>> \notin gapped
  PROVE  \A f : Sound(f) => (CellIn(f, payload[i]) <=> SameCell(i) \cap CertifiedIn(f) # {})
<1> DEFINE p == payload[i].proc
           o == payload[i].os
           column == payload[i].docsColumn
<1>1. p \in Processors /\ o \in OSes /\ column \in Nat
  BY IssueFacts DEF Typed
<1> SUFFICES ASSUME NEW f, Sound(f)
             PROVE  CellIn(f, payload[i]) <=> SameCell(i) \cap CertifiedIn(f) # {}
  OBVIOUS
<1> DEFINE row == f.docs[p][o]
<1>2. row \in Row
  BY <1>1 DEF Sound, Docs
<1>3. Own(row, p, o, payload)
  BY <1>1 DEF Sound, Ordered
<1>4. ASSUME CellIn(f, payload[i]) PROVE SameCell(i) \cap CertifiedIn(f) # {}
  <2> DEFINE c == row[column]
  <2>1. column \in DOMAIN row /\ c # Empty
    BY <1>4 DEF CellIn, Filled
  <2>2. c \in Certs
    BY <1>2, <2>1 DEF Row
  <2>3. c.issue \in Issues
    BY <2>2 DEF Certs
  <2>4. /\ payload[c.issue].docsColumn = column
        /\ payload[c.issue].proc = p /\ payload[c.issue].os = o
    BY <1>3, <2>1 DEF Own
  <2>5. c \in Range(row) \ {Empty}
    BY <2>1 DEF Range
  <2>6. c.issue \in CertifiedIn(f)
    BY <2>3, <2>4, <2>5 DEF CertifiedIn
  <2>7. c.issue \in SameCell(i)
    BY <2>3, <2>4 DEF SameCell
  <2> QED
    BY <2>6, <2>7
<1>5. ASSUME NEW x \in SameCell(i) \cap CertifiedIn(f) PROVE CellIn(f, payload[i])
  <2>1. payload[x].proc = p /\ payload[x].os = o /\ payload[x].docsColumn = column
    BY DEF SameCell
  <2>2. PICK c \in Range(row) \ {Empty} : c.issue = x
    BY <2>1 DEF CertifiedIn
  <2>3. PICK k \in DOMAIN row : row[k] = c
    BY <2>2 DEF Range
  <2>4. payload[row[k].issue].docsColumn = k
    BY <1>3, <2>2, <2>3 DEF Own
  <2>5. k = column
    BY <2>1, <2>2, <2>3, <2>4
  <2> QED
    BY <2>2, <2>3, <2>5 DEF CellIn, Filled
<1> QED
  BY <1>4, <1>5

\* Writing a cell of a row without a gap fills it, and empties no other.
LEMMA WriteFills ==
  ASSUME Typed, NEW i \in Issues, WritesDocs(i), NEW k \in Issues,
         <<payload[k].proc, payload[k].os>> \notin gapped',
         CellIn(branch, payload[k]) \/ k = i
  PROVE  CellIn(branch', payload[k])
<1> DEFINE column == payload[i].docsColumn
           cells == DocsRow(branch, i)
           r == DocsRow(branch', i)
<1>1. /\ cells \in Row /\ column \in Nat \ {0} /\ DocsCert(i) \in Certs
      /\ r = UpdatedRow(cells, column, DocsCert(i))
      /\ \A q \in Processors, u \in OSes :
           <<q, u>> # <<payload[i].proc, payload[i].os>> => branch'.docs[q][u] = branch.docs[q][u]
  BY DocsWritten
<1>2. payload[k].proc \in Processors /\ payload[k].os \in OSes /\ payload[k].docsColumn \in Nat
  BY IssueFacts DEF Typed
<1>3. DocsCert(i) # Empty
  <2>1. Certs \subseteq [issue : Nat, column : Nat]
    BY IssueFacts DEF Typed, Certs
  <2> QED
    BY <1>1, <2>1, MatrixAssumption
<1>4. CASE payload[k].proc = payload[i].proc /\ payload[k].os = payload[i].os
  <2>1. Gapless(cells, column)
    BY <1>4 DEF WritesDocs
  <2>2. Updates(r, cells, column, DocsCert(i))
    BY <1>1, <2>1, UpdatedRowFacts
  <2>3. Len(cells) \in Nat /\ DOMAIN cells = 1 .. Len(cells)
    BY <1>1 DEF Row
  <2>4. DocsRow(branch, k) = cells /\ DocsRow(branch', k) = r
    BY <1>4 DEF DocsRow
  <2> HIDE DEF cells, r, column
  <2>5. Filled(cells, payload[k].docsColumn) \/ payload[k].docsColumn = column
    BY <2>4 DEF CellIn, DocsRow, column
  <2>6. Filled(r, payload[k].docsColumn)
    BY <1>1, <1>2, <1>3, <2>2, <2>3, <2>5 DEF Updates, Filled
  <2> QED
    BY <2>4, <2>6 DEF CellIn, DocsRow
<1>5. CASE ~(payload[k].proc = payload[i].proc /\ payload[k].os = payload[i].os)
  <2>1. branch'.docs[payload[k].proc][payload[k].os] = branch.docs[payload[k].proc][payload[k].os]
    BY <1>1, <1>2, <1>5
  <2> QED
    BY <1>5, <2>1 DEF CellIn
<1> QED
  BY <1>4, <1>5

\* What is published, or was lost with the branch, stays so.
LEMMA LastsOn ==
  ASSUME Typed, HasColumn, Placement, Behind, [Next]_vars, NEW k \in Issues,
         <<payload[k].proc, payload[k].os>> \notin gapped', Lasts(k)
  PROVE  Lasts(k)'
<1>0. payload' = payload /\ SameCell(k)' = SameCell(k)
      /\ <<payload[k].proc, payload[k].os>> \notin gapped
      /\ payload[k].proc \in Processors /\ payload[k].os \in OSes
  BY GapsGrow, SamePayload, IssueFacts DEF Typed
<1>1. SUFFICES \/ SameCell(k) \cap dropped' # {}
               \/ CellIn(main', payload[k])
               \/ branch' # NoBranch /\ CellIn(branch', payload[k])
  BY <1>0 DEF Lasts, Exists
<1>2. ASSUME NEW i \in Issues, StepOf(i)
      PROVE  \/ SameCell(k) \cap dropped' # {}
             \/ CellIn(main', payload[k])
             \/ branch' # NoBranch /\ CellIn(branch', payload[k])
  <2>1. main' = main /\ dropped \subseteq dropped'
    BY <1>2 DEF StepOf, Touches, Quiet, Deletes, Resets, WritesDocs, WritesReadme
  <2>2. CASE SameCell(k) \cap dropped # {} \/ CellIn(main, payload[k])
    BY <2>1, <2>2
  <2>3. CASE Exists /\ CellIn(branch, payload[k])
    <3>1. CASE Quiet(i)
      BY <2>3, <3>1 DEF Quiet, Exists
    <3>2. CASE Deletes(i)
      <4>1. Sound(branch) /\ Sound(main)
        BY <2>3, FilesAre DEF Typed, Placement, Sound, Bases
      <4>2. PICK x \in SameCell(k) : x \in CertifiedIn(branch)
        BY <1>0, <2>3, <4>1, CellMeans
      <4>3. CASE x \in CertifiedIn(main)
        <5>1. CellIn(main, payload[k])
          BY <1>0, <4>1, <4>3, CellMeans
        <5> QED
          BY <2>1, <5>1
      <4>4. CASE x \notin CertifiedIn(main)
        BY <2>3, <3>2, <4>2, <4>4 DEF Deletes
      <4> QED
        BY <4>3, <4>4
    <3>3. CASE Resets(i)
      <4>1. IsIn(branch, main, gapped)
        BY <2>3, <3>3 DEF Resets, Behind
      <4>2. CellIn(main, payload[k])
        BY <1>0, <2>3, <4>1 DEF IsIn, CellIn, Filled
      <4> QED
        BY <2>1, <4>2
    <3>4. CASE WritesDocs(i)
      <4>1. CellIn(branch', payload[k])
        BY <2>3, <3>4, WriteFills
      <4>2. branch' \in Files
        BY <3>4, DocsWritten
      <4>3. branch' # NoBranch
        BY <4>2, FilesExist DEF Typed
      <4> QED
        BY <4>1, <4>3
    <3>5. CASE WritesReadme(i)
      <4>1. branch' \in Files /\ branch'.docs = branch.docs
        BY <3>5, ReadmeWritten
      <4>2. branch' # NoBranch
        BY <4>1, FilesExist DEF Typed
      <4> QED
        BY <2>3, <4>1, <4>2 DEF CellIn
    <3> QED
      BY <1>2, <3>1, <3>2, <3>3, <3>4, <3>5 DEF StepOf, Touches
  <2> QED
    BY <2>2, <2>3 DEF Lasts
<1>3. CASE MergePR
  <2>1. IsIn(main, main', gapped) /\ IsIn(branch, main', gapped) /\ dropped' = dropped
    BY <1>3, Merges, MergeKeeps
  <2>2. CASE CellIn(main, payload[k]) \/ CellIn(branch, payload[k])
    BY <1>0, <2>1, <2>2 DEF IsIn, CellIn, Filled
  <2> QED
    BY <2>1, <2>2 DEF Lasts
<1>4. CASE OpenIssue \/ (\E i \in Issues : ListDuplicates(i) \/ CloseDuplicate(i))
           \/ UNCHANGED <<payload, repo, job, closer, issues, history>>
  <2>1. UNCHANGED <<main, branch, dropped>>
    BY <1>4, OtherSteps
  <2> QED
    BY <2>1 DEF Lasts, Exists
<1> QED
  BY <1>2, <1>3, <1>4, NextSteps

\* A cell is taken when its job has written it, and from then on.
LEMMA LastingKept ==
  ASSUME Typed, HasColumn, Placement, Behind, Lasting, [Next]_vars
  PROVE  Lasting'
<1>0. payload' = payload /\ gapped \subseteq gapped' /\ Issues' = Issues
  BY GapsGrow, SamePayload
<1>1. SUFFICES ASSUME NEW k \in Issues, job'[k].pc \in Written,
                      <<payload[k].proc, payload[k].os>> \notin gapped'
               PROVE  Lasts(k)'
  BY <1>0 DEF Lasting
<1>2. CASE job[k].pc \in Written
  <2>1. Lasts(k)
    BY <1>0, <1>1, <1>2 DEF Lasting
  <2> QED
    BY <1>1, <2>1, LastsOn
<1>3. CASE job[k].pc \notin Written
  <2>1. ASSUME NEW i \in Issues, StepOf(i) PROVE i = k /\ WritesDocs(k)
    <3>1. i = k
      BY <1>1, <1>3, <2>1 DEF StepOf, Advances
    <3> QED
      BY <1>1, <1>3, <2>1, <3>1 DEF StepOf, Touches, Quiet, Deletes, Resets, WritesReadme
  <2>2. \E i \in Issues : StepOf(i)
    <3>1. CASE OpenIssue
      <4>1. job'[k].pc \in {job[k].pc, "getRef"}
        BY <3>1 DEF OpenIssue, Typed, JobStates
      <4> QED
        BY <1>1, <1>3, <4>1 DEF Written
    <3>2. CASE MergePR \/ (\E i \in Issues : ListDuplicates(i) \/ CloseDuplicate(i))
               \/ UNCHANGED <<payload, repo, job, closer, issues, history>>
      BY <1>1, <1>3, <3>2 DEF MergePR, ListDuplicates, CloseDuplicate
    <3> QED
      BY <3>1, <3>2, NextSteps
  <2>3. WritesDocs(k)
    BY <2>1, <2>2
  <2>4. CellIn(branch', payload[k])
    BY <1>1, <2>3, WriteFills
  <2>5. branch' \in Files
    BY <2>3, DocsWritten
  <2>6. branch' # NoBranch
    BY <2>5, FilesExist DEF Typed
  <2> QED
    BY <1>0, <2>4, <2>6 DEF Lasts, Exists
<1> QED
  BY <1>2, <1>3

----------------------------------------------------------------------------
(* Issues that are closed *)

\* To be twins is an equivalence.
LEMMA TwinFacts ==
  /\ \A i \in Issues : i \in Twins(i) /\ Twins(i) \subseteq Issues
  /\ \A i, j \in Issues : j \in Twins(i) => i \in Twins(j)
  /\ \A i, j, k \in Issues : j \in Twins(i) /\ k \in Twins(j) => k \in Twins(i)
  BY DEF Twins

\* A job goes on with the issues that it has still to close.
LEMMA CloserGoesOn ==
  ASSUME Typed, NEW i \in Issues, NEW T \in SUBSET Issues,
         closer' = [closer EXCEPT ![i] = StillToClose(T)]
  PROVE  /\ closer'[i].others = T /\ closer'[i].pc = IF T = {} THEN "done" ELSE "close"
         /\ \A k \in Issues \ {i} : closer'[k] = closer[k]
  BY DEF Typed, StillToClose

\* A new issue is newest among its twins, the others stay what they were.
LEMMA OpenSettles ==
  ASSUME Typed, Closing, OpenIssue
  PROVE  Closing'
<1> DEFINE n == opened + 1
<1>0. /\ Len(payload) \in Nat /\ Issues = 1 .. Len(payload) /\ opened \in Nat
      /\ open \subseteq 1 .. opened /\ payload' = payload
  <2>1. Len(payload) \in Nat /\ Issues = 1 .. Len(payload)
    BY IssueFacts DEF Typed
  <2>2. opened \in Nat /\ open \subseteq 1 .. opened
    BY <2>1 DEF Typed
  <2> QED
    BY <2>1, <2>2 DEF OpenIssue
<1>1. opened' = n /\ n \in Issues /\ n \notin 1 .. opened /\ 1 .. n = (1 .. opened) \cup {n}
      /\ 1 .. opened \subseteq Issues
  BY <1>0 DEF OpenIssue
<1>2. open' = open \cup {n}
  BY <1>1 DEF OpenIssue
<1>3. /\ closer'[n].pc = "list" /\ closer'[n].others = closer[n].others
      /\ \A k \in Issues \ {n} : closer'[k] = closer[k]
  <2>1. closer' = [closer EXCEPT ![n].pc = "list"]
    BY <1>1 DEF OpenIssue
  <2> QED
    BY <1>1, <2>1 DEF Typed, CloserStates
<1>4. \A k : Twins(k)' = Twins(k)
  BY <1>0, SamePayload
<1>5. ASSUME NEW i \in Issues PROVE closer'[i].others \subseteq (Twins(i) \cap 1 .. n) \ {i}
  <2>1. closer'[i].others = closer[i].others
    BY <1>3
  <2> QED
    BY <1>1, <2>1 DEF Closing
<1>6. ASSUME NEW i \in Issues \ (1 .. n) PROVE closer'[i].pc = "idle"
  BY <1>1, <1>3 DEF Closing
<1>7. overlaps \subseteq overlaps'
      /\ ((\E k \in 1 .. opened : k \in Twins(n) /\ closer[k].pc # "done") => Twins(n) \subseteq overlaps')
  BY <1>1, <1>4 DEF OpenIssue
<1>8. ASSUME NEW i \in 1 .. n, \A k \in Twins(i) \cap 1 .. n : k <= i, i \notin overlaps'
      PROVE  /\ i \in open' /\ closer'[i].pc # "idle"
             /\ \A k \in (Twins(i) \cap 1 .. n) \ {i} : closer'[k].pc = "done"
             /\ closer'[i].pc = "close" => open' \cap Twins(i) \subseteq closer'[i].others \cup {i}
             /\ closer'[i].pc = "done" => open' \cap Twins(i) = {i}
  <2>1. CASE i = n
    <3>1. \A k \in 1 .. opened : k \in Twins(n) => closer[k].pc = "done"
      BY <1>1, <1>7, <1>8, <2>1, TwinFacts
    <3> QED
      BY <1>1, <1>2, <1>3, <2>1, <3>1
  <2>2. CASE i # n
    <3>1. i \in 1 .. opened /\ n \notin Twins(i)
      BY <1>0, <1>1, <1>8, <2>2
    <3>2. Newest(i) /\ i \notin overlaps
      BY <1>1, <1>7, <1>8, <3>1 DEF Newest
    <3>3. Settled(i)
      BY <3>1, <3>2 DEF Closing
    <3>4. closer'[i] = closer[i] /\ open' \cap Twins(i) = open \cap Twins(i) /\ i \in open'
      BY <1>1, <1>2, <1>3, <2>2, <3>1, <3>3 DEF Settled
    <3>5. ASSUME NEW k \in (Twins(i) \cap 1 .. n) \ {i} PROVE closer'[k].pc = "done"
      <4>1. k \in (Twins(i) \cap 1 .. opened) \ {i} /\ k \in Issues \ {n}
        BY <1>1, <3>1
      <4> QED
        BY <1>3, <3>3, <4>1 DEF Settled
    <3> QED
      BY <3>3, <3>4, <3>5 DEF Settled
  <2> QED
    BY <2>1, <2>2
<1>9. ASSUME NEW i \in 1 .. n, Newest(i)', i \notin overlaps' PROVE Settled(i)'
  <2>1. \A k \in Twins(i) \cap 1 .. n : k <= i
    BY <1>1, <1>4, <1>9 DEF Newest
  <2> QED
    BY <1>1, <1>4, <1>8, <1>9, <2>1 DEF Settled
<1> QED
  BY <1>0, <1>1, <1>4, <1>5, <1>6, <1>9, SamePayload DEF Closing

\* What both kinds of steps of a job do: j goes on with the issues in T, and
\* none but others of its twins are closed.
CloserStep(j, T) ==
  /\ closer' = [closer EXCEPT ![j] = StillToClose(T)] /\ closer[j].pc \in {"list", "close"}
  /\ T \subseteq (Twins(j) \cap 1 .. opened) \ {j}
  /\ open' \subseteq open /\ open \ open' \subseteq Twins(j) \ {j}
  /\ Newest(j) /\ j \notin overlaps => open' \cap Twins(j) \subseteq T \cup {j}
  /\ UNCHANGED <<payload, opened, overlaps>>

\* While the newest issue's job closes the others, none of theirs is at work.
LEMMA CloserSettles ==
  ASSUME Typed, Closing, NEW j \in Issues, NEW T \in SUBSET Issues, CloserStep(j, T)
  PROVE  Closing'
<1>0. /\ opened' = opened /\ overlaps' = overlaps /\ Issues' = Issues
      /\ \A k : Twins(k)' = Twins(k)
  BY SamePayload DEF CloserStep
<1>1. /\ closer'[j].others = T /\ closer'[j].pc = IF T = {} THEN "done" ELSE "close"
      /\ \A k \in Issues \ {j} : closer'[k] = closer[k]
  BY CloserGoesOn DEF CloserStep
<1>2. j \in 1 .. opened /\ 1 .. opened \subseteq Issues
  <2>1. Len(payload) \in Nat /\ Issues = 1 .. Len(payload)
    BY IssueFacts DEF Typed
  <2>2. 1 .. opened \subseteq Issues
    BY <2>1 DEF Typed
  <2>3. j \in 1 .. opened
    BY DEF Closing, CloserStep
  <2> QED
    BY <2>2, <2>3
<1>3. ASSUME NEW i \in Issues PROVE closer'[i].others \subseteq (Twins(i) \cap 1 .. opened) \ {i}
  BY <1>1 DEF Closing, CloserStep
<1>4. ASSUME NEW i \in Issues \ (1 .. opened) PROVE closer'[i].pc = "idle"
  BY <1>1, <1>2 DEF Closing
<1>5. ASSUME NEW i \in 1 .. opened, Newest(i), i \notin overlaps
      PROVE  /\ i \in open' /\ closer'[i].pc # "idle"
             /\ \A k \in (Twins(i) \cap 1 .. opened) \ {i} : closer'[k].pc = "done"
             /\ closer'[i].pc = "close" => open' \cap Twins(i) \subseteq closer'[i].others \cup {i}
             /\ closer'[i].pc = "done" => open' \cap Twins(i) = {i}
  <2>1. Settled(i) /\ i \in Issues
    BY <1>2, <1>5 DEF Closing
  <2>2. CASE i = j
    <3>1. i \in open' /\ i \in Twins(i)
      BY <2>1, <2>2, TwinFacts DEF CloserStep, Settled
    <3>2. open' \cap Twins(i) \subseteq T \cup {i}
      BY <1>5, <2>2 DEF CloserStep
    <3>3. ASSUME NEW k \in (Twins(i) \cap 1 .. opened) \ {i} PROVE closer'[k].pc = "done"
      <4>1. k \in Issues \ {j} /\ closer[k].pc = "done"
        BY <1>2, <2>1, <2>2 DEF Settled
      <4> QED
        BY <1>1, <4>1
    <3> QED
      BY <1>1, <2>2, <3>1, <3>2, <3>3
  <2>3. CASE i # j
    <3>1. j \notin Twins(i)
      BY <1>2, <2>1, <2>3 DEF CloserStep, Settled
    <3>2. Twins(i) \cap Twins(j) = {}
      BY <2>1, <3>1, TwinFacts
    <3>3. i \in Twins(i)
      BY <2>1, TwinFacts
    <3>4. open' \cap Twins(i) = open \cap Twins(i) /\ i \in open'
      BY <2>1, <3>2, <3>3 DEF CloserStep, Settled
    <3>5. closer'[i] = closer[i]
      BY <1>1, <2>1, <2>3
    <3>6. ASSUME NEW k \in (Twins(i) \cap 1 .. opened) \ {i} PROVE closer'[k].pc = "done"
      <4>1. k \in Issues \ {j} /\ closer[k].pc = "done"
        BY <1>2, <2>1, <3>1 DEF Settled
      <4> QED
        BY <1>1, <4>1
    <3> QED
      BY <2>1, <3>4, <3>5, <3>6 DEF Settled
  <2> QED
    BY <2>2, <2>3
<1>6. ASSUME NEW i \in 1 .. opened, Newest(i)', i \notin overlaps PROVE Settled(i)'
  <2>1. Newest(i)
    BY <1>0, <1>6 DEF Newest
  <2> QED
    BY <1>0, <1>5, <1>6, <2>1 DEF Settled
<1> QED
  BY <1>0, <1>3, <1>4, <1>6 DEF Closing

\* Every step keeps the newest issue from being closed.
LEMMA ClosingKept ==
  ASSUME Typed, HasColumn, Closing, [Next]_vars
  PROVE  Closing'
<1>1. CASE OpenIssue
  BY <1>1, OpenSettles
<1>2. ASSUME NEW j \in Issues, ListDuplicates(j) PROVE Closing'
  <2> DEFINE T == (open \cap Twins(j)) \ {j}
  <2>1. T \in SUBSET Issues /\ T \subseteq (Twins(j) \cap 1 .. opened) \ {j}
    BY DEF Twins, Typed
  <2>2. CloserStep(j, T)
    BY <1>2, <2>1 DEF CloserStep, ListDuplicates, issues, history
  <2> QED
    BY <2>1, <2>2, CloserSettles
<1>3. ASSUME NEW j \in Issues, CloseDuplicate(j) PROVE Closing'
  <2>1. PICK k \in closer[j].others :
          open' = open \ {k} /\ closer' = [closer EXCEPT ![j] = StillToClose(@.others \ {k})]
    BY <1>3 DEF CloseDuplicate
  <2> DEFINE T == closer[j].others \ {k}
  <2>2. closer[j].others \subseteq (Twins(j) \cap 1 .. opened) \ {j}
    BY DEF Closing
  <2>3. T \in SUBSET Issues
    BY <2>2 DEF Twins
  <2>4. closer' = [closer EXCEPT ![j] = StillToClose(T)]
    BY <2>1
  <2>5. closer[j].pc = "close" /\ UNCHANGED <<payload, opened, overlaps>>
    BY <1>3 DEF CloseDuplicate, history
  <2>6. ASSUME Newest(j), j \notin overlaps PROVE open' \cap Twins(j) \subseteq T \cup {j}
    <3>1. j \in 1 .. opened
      BY <2>5 DEF Closing
    <3>2. open \cap Twins(j) \subseteq closer[j].others \cup {j}
      BY <2>5, <2>6, <3>1 DEF Closing, Settled
    <3> QED
      BY <2>1, <3>2
  <2>7. open' \subseteq open /\ open \ open' \subseteq Twins(j) \ {j}
    BY <2>1, <2>2
  <2>8. T \subseteq (Twins(j) \cap 1 .. opened) \ {j}
    BY <2>2
  <2>9. CloserStep(j, T)
    BY <2>4, <2>5, <2>6, <2>7, <2>8 DEF CloserStep
  <2> QED
    BY <2>3, <2>9, CloserSettles
<1>4. CASE UNCHANGED <<payload, closer, opened, open, overlaps>>
  BY <1>4, SamePayload DEF Closing, Settled, Newest
<1> QED
  BY <1>1, <1>2, <1>3, <1>4, NextSteps DEF StepOf, MergePR, issues, history

----------------------------------------------------------------------------
(* The inductive invariant *)

\* The workflow begins with empty tables and without issues.
LEMMA InitIInv ==
  ASSUME Init
  PROVE  IInv
<1>1. /\ Len(payload) \in Nat /\ Issues = 1 .. Len(payload) /\ payload \in Payloads
  BY IssueFacts DEF Init
<1>2. NoMerge \in Bases /\ \A i \in Issues : job[i] = Idle
  BY FilesAre DEF Init
<1>3. Typed
  <2>1. Idle \in JobStates
    <3>1. 1 \in 1 .. maxRetries /\ "idle" \in Steps
      BY MatrixAssumption, PcsAre
    <3>2. Blank.docs \in Docs /\ Blank.readme \in Readmes
      BY FilesAre DEF Bases, NoMerge
    <3> QED
      BY <1>2, <3>1, <3>2 DEF Idle, JobStates
  <2>2. job \in [Issues -> JobStates]
    BY <2>1 DEF Init
  <2>3. closer \in [Issues -> CloserStates]
    BY DEF Init, CloserStates
  <2>4. branch = NoBranch /\ within \in Nat /\ pr = FALSE
    BY DEF Init
  <2>5. main \in Bases /\ opened \in 0 .. Len(payload) /\ open = {} /\ overlaps = {}
    BY <1>1, <1>2 DEF Init
  <2> QED
    BY <1>1, <2>2, <2>3, <2>4, <2>5 DEF Typed, Exists
<1>4. HasColumn
  BY <1>2 DEF HasColumn, Idle, Written
<1>5. main = NoMerge /\ ~Exists /\ \A i \in Issues : job[i].base = NoMerge
  BY <1>2 DEF Init, Idle, Exists
<1>6. Placement
  BY <1>5, OrderedBlank DEF Placement
<1>7. Behind
  BY <1>5, IsInBlank DEF Behind
<1>8. Lasting
  BY <1>2 DEF Lasting, Idle, Written
<1>9. Closing
  BY <1>1 DEF Init, Closing
<1> QED
  BY <1>3, <1>4, <1>6, <1>7, <1>8, <1>9 DEF IInv

\* Every step keeps the inductive invariant.
LEMMA NextIInv ==
  ASSUME IInv, [Next]_vars
  PROVE  IInv'
  BY TypedKept, HasColumnKept, PlacementKept, BehindKept, LastingKept, ClosingKept DEF IInv

\* Every behaviour of the workflow keeps the inductive invariant.
THEOREM Invariance == Spec => []IInv
  BY InitIInv, NextIInv, PTL DEF Spec

\* The types of the files, the jobs and the issues hold throughout.
THEOREM TypeCorrect == Spec => []TypeOK
<1>1. IInv => TypeOK
  BY TypedIsTypeOK DEF IInv
<1> QED
  BY <1>1, Invariance, PTL

\* A certification stands under its own header for good in a row that is filled
\* from the left, whatever the jobs and the maintainer write, retry and merge.
THEOREM HeadersHold == Spec => []CellsUnderHeader
<1>1. ASSUME IInv PROVE CellsUnderHeader
  <2>1. \A f \in Versions : Ordered(f, payload, gapped)
    BY <1>1 DEF IInv, Placement, Versions, Exists
  <2>2. \A row, p, o : Own(row, p, o, payload) => InPlace(row)
    BY DEF Own, InPlace
  <2> QED
    BY <2>1, <2>2 DEF Ordered, CellsUnderHeader
<1> QED
  BY <1>1, Invariance, PTL

\* What a job that is done has certified can be read on one of the branches,
\* unless the branch was recreated or the row had a gap.
THEOREM DoneIsPublished == Spec => []DoneMeansPublished
<1>1. ASSUME IInv, NEW i \in Issues, job[i].pc = "done",
             <<payload[i].proc, payload[i].os>> \notin gapped
      PROVE  \E k \in SameCell(i) : k \in dropped \/ \E f \in Versions : k \in CertifiedIn(f)
  <2>0. Typed /\ Placement
    BY <1>1 DEF IInv
  <2>1. Lasts(i)
    BY <1>1 DEF IInv, Lasting, Written
  <2>2. \A f \in Versions : Sound(f)
    BY <2>0, FilesAre DEF Typed, Placement, Versions, Exists, Sound, Bases
  <2>3. CASE SameCell(i) \cap dropped # {}
    BY <2>3
  <2>4. ASSUME NEW f \in Versions, CellIn(f, payload[i])
        PROVE  \E k \in SameCell(i) : k \in CertifiedIn(f)
    BY <1>1, <2>0, <2>2, <2>4, CellMeans
  <2> QED
    BY <2>1, <2>3, <2>4 DEF Lasts, Versions, Exists
<1>2. IInv => DoneMeansPublished
  BY <1>1 DEF DoneMeansPublished
<1> QED
  BY <1>2, Invariance, PTL

\* Among issues that replace one another the newest stays open, and in the end
\* it is the only one, unless their jobs overlapped.
THEOREM NewestOpen == Spec => []NewestStaysOpen
<1>1. ASSUME IInv PROVE NewestStaysOpen
  BY <1>1 DEF IInv, Closing, Settled, Newest, NewestStaysOpen
<1> QED
  BY <1>1, Invariance, PTL
=============================================================================
