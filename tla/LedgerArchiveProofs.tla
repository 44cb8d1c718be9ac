------------------------- MODULE LedgerArchiveProofs -------------------------
(***************************************************************************)
(* Proofs about LedgerArchive for any number of cells, ZIP requests,       *)
(* workers, generations, changes and faults: a cell that is not marked     *)
(* shows its sources, and no object is lost.                               *)
(***************************************************************************)
EXTENDS LedgerArchive, WellFoundedInduction, TLAPS

-----------------------------------------------------------------------------
(* Types *)

CellRow ==
    [rev : Nat, req : Nat, pubRev : Nat, pub : Nat, fp : Fingerprints \cup {None},
     obj : PdfObjects \cup {None}, err : BOOLEAN]

ItemRow ==
    [status : {"none", "queued", "running", "failed", "succeeded", "empty", "superseded"},
     rev : Nat, owner : {None, "cli", "scan"}]

ZipRow ==
    [status : {"none", "queued", "running", "failed", "succeeded"}, pdf : PdfObjects \cup {None},
     key : ZipObjects \cup {None}, past : BOOLEAN]

RunRow ==
    [status : {"none", "queued", "running", "retry_scheduled", "failed", "succeeded"},
     attempt : Nat, live : BOOLEAN]

ScanRow(C, F, O) ==
    [status : {"none", "queued", "running", "failed", "succeeded", "partial_failed"},
     cursor : C, failed : F, own : O]

SnapRow == [rev : Nat, fp : Fingerprints, rows : BOOLEAN, supplier : Nat]

PdfSteps  == {"read", "register", "put", "publish", "retry", "fail"}
ZipSteps  == {"select", "zput", "complete", "zfail"}
ScanSteps == {"list", "observe", "reserve", "checkpoint"}
Rendering == {"register", "put", "publish"}
Writing   == {"read", "register", "put", "publish", "select", "zput", "complete"}

\* The locals of an execution; what it has seen and has to do depends on its job.
ExecRow(S, T, N, B) ==
    [job : Jobs \cup {None}, att : Nat, pc : {"idle"} \cup PdfSteps \cup ZipSteps \cup ScanSteps,
     seen : S, todo : T, next : N, tries : Nat, bad : B]
IsExec(x) == \E S, T, N, B : x \in ExecRow(S, T, N, B)

SourceTypes ==
    /\ facts \in [Keys -> [src : Nat, rows : BOOLEAN]]
    /\ catalog \in [newest : Nat, archived : SUBSET Nat]
    /\ mode \in {"legacy", "enabled"}

RowTypes ==
    /\ cell \in [Keys -> CellRow]
    /\ item \in [Keys -> [Gens -> ItemRow]]
    /\ zip \in [Zips -> ZipRow]
    /\ run \in [Jobs -> RunRow]

ExecTypes ==
    /\ exec = [w \in Executions |-> exec[w]]
    /\ \A w \in Executions : IsExec(exec[w])

-----------------------------------------------------------------------------
(* The inductive invariant *)

JobOf(o) == IF "zip" \in DOMAIN o THEN Pack(o.zip) ELSE Pdf(o.cell, o.gen)

\* What a run is for has been requested: its run is not made a second time.
Known(j) ==
    /\ j.kind = "pdf" => item[j.of][j.gen].status # "none"
    /\ j.kind = "zip" => zip[j.of].status # "none"

\* Items are made in the order of their generations.
ItemsOK ==
    \A c \in Keys, g \in Gens : item[c][g].status # "none" => g <= cell[c].req

\* An execution is at a step of its job, by an attempt the run has counted.
StepsOK ==
    \A w \in Executions : exec[w].pc # "idle" =>
        /\ exec[w].job \in Jobs
        /\ exec[w].job.kind = "pdf" <=> exec[w].pc \in PdfSteps
        /\ exec[w].job.kind = "zip" <=> exec[w].pc \in ZipSteps
        /\ \A j \in Jobs : exec[w].job = j => Known(j) /\ exec[w].att <= run[j].attempt

\* An attempt is one execution's.
UniqueOK ==
    \A v, w \in Executions :
        exec[v].pc # "idle" /\ exec[w].pc # "idle" /\ exec[v].job = exec[w].job /\ exec[v].att = exec[w].att
          => v = w

\* The attempt that wrote o writes nothing more.
Spent(o) ==
    /\ Known(JobOf(o))
    /\ o.att <= run[JobOf(o)].attempt
    /\ \A w \in Executions : exec[w].job = JobOf(o) /\ exec[w].att = o.att => exec[w].pc \notin Writing

\* What a cell or a ZIP request names, and what may land late, is written by nobody.
Named(o) == (\E c \in Keys : cell[c].obj = o) \/ o \in late \/ \E z \in Zips : zip[z].key = o
SpentOK == \A o \in PdfObjects \cup ZipObjects : Named(o) => Spent(o)

NamesOK ==
    /\ \A c \in Keys : cell[c].obj # None => cell[c].obj.cell = c
    /\ late \subseteq ZipObjects
    /\ \A z \in Zips : zip[z].key # None => zip[z].key.zip = z /\ zip[z].key \notin late

\* A candidate's row stays until its object is published, also over deletions.
Candidate(o) == [obj |-> o, row |-> "candidate"] \in garbage

Writes(w, o) == \/ exec[w].pc = "put" /\ PdfKey(w) = o
                \/ exec[w].pc = "zput" /\ ZipKey(w) = o
CandidatesOK ==
    \A o \in PdfObjects \cup ZipObjects :
        o \in late \/ (\E w \in Executions : Writes(w, o)) => Candidate(o)

\* What a renderer has read is of an earlier revision, or of the sources of now.
SeenOK ==
    \A w \in Executions : exec[w].pc \in Rendering =>
        /\ exec[w].seen \in SnapRow
        /\ exec[w].seen.rev <= cell[exec[w].job.of].rev
        /\ exec[w].seen.rev = cell[exec[w].job.of].rev =>
             /\ exec[w].seen.fp.src = facts[exec[w].job.of].src
             /\ exec[w].seen.rows = facts[exec[w].job.of].rows
        /\ exec[w].pc # "publish" => exec[w].seen.rows

\* A cell published at its revision shows its sources.
Shows(c) ==
    /\ cell[c].fp.src = facts[c].src
    /\ (cell[c].obj # None) = facts[c].rows
    /\ cell[c].obj # None => SourcesAreCurrent(cell[c].obj)

CurrentOK ==
    \A c \in Keys : cell[c].pubRev <= cell[c].rev /\ (cell[c].pubRev = cell[c].rev => Shows(c))

Jobbing == SourceTypes /\ RowTypes /\ ExecTypes /\ ItemsOK /\ StepsOK /\ UniqueOK
StoredOK == stored \subseteq PdfObjects \cup ZipObjects
Objects == NamesOK /\ SpentOK /\ CandidatesOK /\ StoredOK /\ ObjectsAccounted
Current == SeenOK /\ CurrentOK
Inv == Jobbing /\ Objects /\ Current


-----------------------------------------------------------------------------
(* Jobs, keys and records *)

LEMMA JobKinds ==
    /\ \A j \in Jobs : \/ j.kind = "pdf" /\ j.of \in Keys /\ j.gen \in Gens /\ j = Pdf(j.of, j.gen)
                       \/ j.kind = "zip" /\ j.of \in Zips /\ j = Pack(j.of)
                       \/ j.kind = "scan" /\ j = Scan
    /\ Scan \in Jobs /\ Scan.kind = "scan"
    /\ \A z \in Zips : Pack(z) \in Jobs /\ Pack(z).kind = "zip" /\ Pack(z).of = z
    /\ \A c \in Keys, g \in Gens :
         Pdf(c, g) \in Jobs /\ Pdf(c, g).kind = "pdf" /\ Pdf(c, g).of = c /\ Pdf(c, g).gen = g
<1>1. \A c, g : Pdf(c, g).kind = "pdf" /\ Pdf(c, g).of = c /\ Pdf(c, g).gen = g
  BY DEF Pdf
<1>2. \A z : Pack(z).kind = "zip" /\ Pack(z).of = z
  BY DEF Pack
<1>3. Scan.kind = "scan"
  BY DEF Scan
<1>4. \A j : j \in Jobs <=> \/ \E c \in Keys, g \in Gens : j = Pdf(c, g)
                            \/ \E z \in Zips : j = Pack(z)
                            \/ j = Scan
  BY DEF Jobs
<1>. QED  BY <1>1, <1>2, <1>3, <1>4

\* Objects are named by the job and the attempt that write them.
LEMMA ObjectJobs ==
    /\ \A o \in PdfObjects : o # None /\ JobOf(o) = Pdf(o.cell, o.gen) /\ JobOf(o) \in Jobs /\ JobOf(o).kind = "pdf"
    /\ \A o \in ZipObjects : o # None /\ JobOf(o) = Pack(o.zip) /\ JobOf(o) \in Jobs /\ JobOf(o).kind = "zip"
<1>1. None \notin PdfObjects /\ None \notin ZipObjects
  BY ConstantsAssumption
<1>2. \A o \in PdfObjects : "zip" \notin DOMAIN o /\ o.cell \in Keys /\ o.gen \in Gens
  BY DEF PdfObjects
<1>3. \A o \in ZipObjects : "zip" \in DOMAIN o /\ o.zip \in Zips
  BY DEF ZipObjects
<1>. QED  BY <1>1, <1>2, <1>3, JobKinds DEF JobOf

\* The key an execution writes.
LEMMA KeysOfExecutions ==
    ASSUME ExecTypes, StepsOK, SeenOK, NEW w \in Executions
    PROVE  /\ exec[w].pc \in Rendering =>
                /\ PdfKey(w) \in PdfObjects /\ PdfKey(w).att = exec[w].att
                /\ PdfKey(w).cell = exec[w].job.of /\ JobOf(PdfKey(w)) = exec[w].job
                /\ PdfKey(w).supplier = exec[w].seen.supplier
           /\ exec[w].pc \in {"select", "zput", "complete"} =>
                /\ ZipKey(w) \in ZipObjects /\ ZipKey(w).att = exec[w].att
                /\ ZipKey(w).zip = exec[w].job.of /\ JobOf(ZipKey(w)) = exec[w].job
<1>1. exec[w].att \in Nat /\ exec[w].tries \in Nat
  BY DEF ExecTypes, IsExec, ExecRow
<1>2. CASE exec[w].pc \in Rendering
  <2>1. /\ exec[w].job \in Jobs /\ exec[w].job.kind = "pdf" /\ exec[w].seen \in SnapRow
        /\ exec[w].pc \notin {"select", "zput", "complete"}
    BY <1>2 DEF StepsOK, SeenOK, Rendering, PdfSteps
  <2>2. exec[w].job.of \in Keys /\ exec[w].job.gen \in Gens /\ exec[w].job = Pdf(exec[w].job.of, exec[w].job.gen)
    BY <2>1, JobKinds
  <2>3. /\ exec[w].seen.rev \in Nat /\ exec[w].seen.fp \in Fingerprints /\ exec[w].seen.supplier \in Nat
    BY <2>1 DEF SnapRow
  <2>4. /\ PdfKey(w) \in PdfObjects /\ PdfKey(w).att = exec[w].att /\ PdfKey(w).cell = exec[w].job.of
        /\ PdfKey(w).gen = exec[w].job.gen /\ PdfKey(w).supplier = exec[w].seen.supplier
    BY <1>1, <2>2, <2>3 DEF PdfKey, PdfObjects
  <2>. QED  BY <1>2, <2>1, <2>2, <2>4, ObjectJobs
<1>3. CASE exec[w].pc \in {"select", "zput", "complete"}
  <2>1. exec[w].job \in Jobs /\ exec[w].job.kind = "zip" /\ exec[w].pc \notin Rendering
    BY <1>3 DEF StepsOK, ZipSteps, Rendering
  <2>2. exec[w].job.of \in Zips /\ exec[w].job = Pack(exec[w].job.of)
    BY <2>1, JobKinds
  <2>3. ZipKey(w) \in ZipObjects /\ ZipKey(w).att = exec[w].att /\ ZipKey(w).zip = exec[w].job.of
    BY <1>1, <2>2 DEF ZipKey, ZipObjects
  <2>. QED  BY <1>3, <2>1, <2>2, <2>3, ObjectJobs
<1>. QED  BY <1>2, <1>3

LEMMA IdleTyped == IsExec(Idle) /\ Idle.pc = "idle"
<1>1. Idle \in ExecRow({None}, {<<>>}, {0}, {0}) /\ Idle.pc = "idle"
  BY DEF Idle, ExecRow
<1>. QED  BY <1>1 DEF IsExec

\* What moving an execution to another step does to its locals.
LEMMA ExecGoes ==
    ASSUME NEW x, IsExec(x), NEW s \in PdfSteps \cup ZipSteps \cup ScanSteps
    PROVE  /\ IsExec([x EXCEPT !.pc = s]) /\ [x EXCEPT !.pc = s].pc = s
           /\ [x EXCEPT !.pc = s].job = x.job /\ [x EXCEPT !.pc = s].att = x.att
           /\ [x EXCEPT !.pc = s].seen = x.seen /\ [x EXCEPT !.pc = s].tries = x.tries
<1>1. PICK S, T, N, B : x \in ExecRow(S, T, N, B)
  BY DEF IsExec
<1>2. /\ [x EXCEPT !.pc = s] \in ExecRow(S, T, N, B) /\ [x EXCEPT !.pc = s].pc = s
      /\ [x EXCEPT !.pc = s].job = x.job /\ [x EXCEPT !.pc = s].att = x.att
      /\ [x EXCEPT !.pc = s].seen = x.seen /\ [x EXCEPT !.pc = s].tries = x.tries
  BY <1>1 DEF ExecRow
<1>. QED  BY <1>2 DEF IsExec

\* Goto of one execution leaves the others where they are.
LEMMA Goes ==
    ASSUME ExecTypes, NEW w \in Executions, NEW s \in {"idle"} \cup PdfSteps \cup ZipSteps \cup ScanSteps, Goto(w, s)
    PROVE  /\ ExecTypes'
           /\ \A v \in Executions \ {w} : exec'[v] = exec[v]
           /\ exec'[w].pc = s
           /\ s # "idle" => /\ exec'[w].job = exec[w].job /\ exec'[w].att = exec[w].att
                            /\ exec'[w].seen = exec[w].seen /\ exec'[w].tries = exec[w].tries
<1>. DEFINE y == IF s = "idle" THEN Idle ELSE [exec[w] EXCEPT !.pc = s]
<1>1. exec' = [exec EXCEPT ![w] = y]
  BY DEF Goto
<1>2. /\ IsExec(y) /\ y.pc = s
      /\ s # "idle" => /\ y.job = exec[w].job /\ y.att = exec[w].att
                       /\ y.seen = exec[w].seen /\ y.tries = exec[w].tries
  BY IdleTyped, ExecGoes DEF ExecTypes
<1>. HIDE DEF y
<1>3. exec'[w] = y /\ \A v \in Executions \ {w} : exec'[v] = exec[v]
  BY <1>1 DEF ExecTypes
<1>4. ExecTypes'
  BY <1>1, <1>2 DEF ExecTypes
<1>. QED  BY <1>2, <1>3, <1>4


-----------------------------------------------------------------------------
(* Steps that keep what they do not touch *)

\* An execution gives up, or goes on within its job and attempt.
Move(x, y) ==
    \/ y.pc = "idle"
    \/ /\ x.pc # "idle" /\ y.job = x.job /\ y.att = x.att
       /\ x.pc \in PdfSteps <=> y.pc \in PdfSteps
       /\ x.pc \in ZipSteps <=> y.pc \in ZipSteps
       /\ y.pc \in Writing => x.pc \in Writing

ExecsMove == \A w \in Executions : Move(exec[w], exec'[w])

\* Attempts are counted up; only the scan begins anew, when nobody works on it.
RunsGrow ==
    \A j \in Jobs : Known(j) =>
        /\ Known(j)'
        /\ \/ run[j].attempt <= run'[j].attempt
           \/ j = Scan /\ \A w \in Executions : exec'[w].pc # "idle" => exec'[w].job # Scan

LEMMA JobsMove ==
    ASSUME Jobbing, ExecsMove, RunsGrow, RowTypes', ExecTypes'
    PROVE  /\ StepsOK' /\ UniqueOK'
           /\ \A o \in PdfObjects \cup ZipObjects : Spent(o) => Spent(o)'
<1>. USE DEF Jobbing
<1>1. \A w \in Executions : exec'[w].pc # "idle" =>
        /\ exec[w].pc # "idle" /\ exec'[w].job = exec[w].job /\ exec'[w].att = exec[w].att
        /\ exec[w].pc \in PdfSteps <=> exec'[w].pc \in PdfSteps
        /\ exec[w].pc \in ZipSteps <=> exec'[w].pc \in ZipSteps
        /\ exec'[w].pc \in Writing => exec[w].pc \in Writing
  BY DEF ExecsMove, Move
<1>2. \A w \in Executions : exec[w].att \in Nat
  BY DEF ExecTypes, IsExec, ExecRow
<1>3. \A j \in Jobs : run[j].attempt \in Nat /\ run'[j].attempt \in Nat
  BY DEF RowTypes, RunRow
<1>4. StepsOK'
  <2>. SUFFICES ASSUME NEW w \in Executions, exec'[w].pc # "idle"
                PROVE  /\ exec'[w].job \in Jobs
                       /\ exec'[w].job.kind = "pdf" <=> exec'[w].pc \in PdfSteps
                       /\ exec'[w].job.kind = "zip" <=> exec'[w].pc \in ZipSteps
                       /\ \A j \in Jobs : exec'[w].job = j => Known(j)' /\ exec'[w].att <= run'[j].attempt
    BY DEF StepsOK
  <2>1. /\ exec[w].job \in Jobs
        /\ exec[w].job.kind = "pdf" <=> exec[w].pc \in PdfSteps
        /\ exec[w].job.kind = "zip" <=> exec[w].pc \in ZipSteps
        /\ \A j \in Jobs : exec[w].job = j => Known(j) /\ exec[w].att <= run[j].attempt
    BY <1>1 DEF StepsOK
  <2>2. ASSUME NEW j \in Jobs, exec'[w].job = j
        PROVE  Known(j)' /\ exec'[w].att <= run'[j].attempt
    BY <1>1, <1>2, <1>3, <2>1, <2>2 DEF RunsGrow
  <2>. QED  BY <1>1, <2>1, <2>2
<1>5. UniqueOK'
  BY <1>1 DEF UniqueOK
<1>6. ASSUME NEW o \in PdfObjects \cup ZipObjects, Spent(o)
      PROVE  Spent(o)'
  <2>1. JobOf(o) \in Jobs /\ JobOf(o) # Scan /\ JobOf(o)' = JobOf(o) /\ o.att \in Nat
    <3>1. o.att \in Nat
      BY DEF PdfObjects, ZipObjects
    <3>. QED  BY <3>1, ObjectJobs, JobKinds DEF JobOf
  <2>2. Known(JobOf(o))' /\ run[JobOf(o)].attempt <= run'[JobOf(o)].attempt
    BY <1>6, <2>1 DEF RunsGrow, Spent, Known
  <2>3. o.att <= run'[JobOf(o)].attempt
    BY <1>3, <1>6, <2>1, <2>2 DEF Spent
  <2>4. \A w \in Executions : exec'[w].job = JobOf(o) /\ exec'[w].att = o.att => exec'[w].pc \notin Writing
    BY <1>1, <1>6 DEF Spent, Writing
  <2>. QED  BY <2>1, <2>2, <2>3, <2>4 DEF Spent
<1>. QED  BY <1>4, <1>5, <1>6

\* What is named and what may land late.
LEMMA NamesMove ==
    ASSUME NamesOK, SpentOK,
           \A o \in PdfObjects \cup ZipObjects : Spent(o) => Spent(o)',
           \A c \in Keys : cell'[c].obj = cell[c].obj,
           late' \subseteq late,
           \A z \in Zips : zip'[z].key \in {zip[z].key, None}
    PROVE  NamesOK' /\ SpentOK'
<1>1. NamesOK'
  BY DEF NamesOK
<1>2. \A o \in PdfObjects \cup ZipObjects : Named(o)' => Named(o)
  BY ObjectJobs DEF Named
<1>3. SpentOK'
  BY <1>2 DEF SpentOK
<1>. QED  BY <1>1, <1>3

\* Candidates stay queued, and nobody begins to write.
LEMMA CandidatesMove ==
    ASSUME CandidatesOK, late' \subseteq late,
           \A o \in PdfObjects \cup ZipObjects : Candidate(o) => Candidate(o)',
           \A w \in Executions : exec'[w].pc \in {"put", "zput"} => exec'[w] = exec[w]
    PROVE  CandidatesOK'
<1>1. \A o \in PdfObjects \cup ZipObjects, w \in Executions : Writes(w, o)' => Writes(w, o)
  BY DEF Writes, PdfKey, ZipKey
<1>. QED  BY <1>1 DEF CandidatesOK

\* Nobody begins to render, no source and no cell moves.
LEMMA SeenMove ==
    ASSUME ExecTypes, StepsOK, SeenOK, UNCHANGED facts,
           \A c \in Keys : cell'[c].rev = cell[c].rev,
           \A w \in Executions : exec'[w].pc \in Rendering =>
             /\ exec[w].pc \in Rendering /\ exec'[w].job = exec[w].job /\ exec'[w].seen = exec[w].seen
             /\ exec[w].pc = "publish" => exec'[w].pc = "publish"
    PROVE  SeenOK'
<1>. SUFFICES ASSUME NEW w \in Executions, exec'[w].pc \in Rendering
              PROVE  /\ exec[w].seen \in SnapRow
                     /\ exec[w].seen.rev <= cell[exec[w].job.of].rev
                     /\ exec[w].seen.rev = cell[exec[w].job.of].rev =>
                          /\ exec[w].seen.fp.src = facts[exec[w].job.of].src
                          /\ exec[w].seen.rows = facts[exec[w].job.of].rows
                     /\ exec'[w].pc # "publish" => exec[w].seen.rows
                     /\ exec[w].job.of \in Keys
  BY DEF SeenOK
<1>1. exec[w].job \in Jobs /\ exec[w].job.kind = "pdf"
  BY DEF StepsOK, Rendering, PdfSteps
<1>. QED  BY <1>1, JobKinds DEF SeenOK

LEMMA CurrentMove ==
    ASSUME CurrentOK, UNCHANGED <<facts, catalog>>,
           \A c \in Keys : /\ cell'[c].rev = cell[c].rev /\ cell'[c].pubRev = cell[c].pubRev
                           /\ cell'[c].fp = cell[c].fp /\ cell'[c].obj = cell[c].obj
    PROVE  CurrentOK'
BY DEF CurrentOK, Shows, SourcesAreCurrent

\* A step of jobs and executions that writes, names and reads nothing.
LEMMA Ordinary ==
    ASSUME Inv, SourceTypes', RowTypes', ExecTypes', ItemsOK', ExecsMove, RunsGrow,
           UNCHANGED <<facts, catalog, stored, late, garbage>>,
           \A c \in Keys : /\ cell'[c].rev = cell[c].rev /\ cell'[c].pubRev = cell[c].pubRev
                           /\ cell'[c].fp = cell[c].fp /\ cell'[c].obj = cell[c].obj,
           \A z \in Zips : zip'[z].key \in {zip[z].key, None},
           \A w \in Executions : exec'[w].pc \in {"put", "zput"} => exec'[w] = exec[w],
           \A w \in Executions : exec'[w].pc \in Rendering =>
             /\ exec[w].pc \in Rendering /\ exec'[w].job = exec[w].job /\ exec'[w].seen = exec[w].seen
             /\ exec[w].pc = "publish" => exec'[w].pc = "publish"
    PROVE  Inv'
<1>1. StepsOK' /\ UniqueOK' /\ \A o \in PdfObjects \cup ZipObjects : Spent(o) => Spent(o)'
  BY JobsMove DEF Inv
<1>2. NamesOK' /\ SpentOK'
  BY <1>1, NamesMove DEF Inv, Objects
<1>3. CandidatesOK'
  BY CandidatesMove DEF Inv, Objects, Candidate
<1>4. StoredOK' /\ ObjectsAccounted'
  BY DEF Inv, Objects, StoredOK, ObjectsAccounted, GarbageRow
<1>5. SeenOK'
  BY SeenMove DEF Inv, Jobbing, Current
<1>6. CurrentOK'
  BY CurrentMove DEF Inv, Current
<1>. QED  BY <1>1, <1>2, <1>3, <1>4, <1>5, <1>6 DEF Inv, Jobbing, Objects, Current

\* One execution moves and nothing else does.
LEMMA Quiet ==
    ASSUME Inv, NEW w \in Executions, ExecTypes', \A v \in Executions \ {w} : exec'[v] = exec[v],
           Move(exec[w], exec'[w]), exec'[w].pc \notin {"put", "zput"},
           exec'[w].pc \in Rendering =>
             /\ exec[w].pc \in Rendering /\ exec'[w].job = exec[w].job /\ exec'[w].seen = exec[w].seen
             /\ exec[w].pc = "publish" => exec'[w].pc = "publish",
           UNCHANGED <<facts, catalog, mode, cell, item, zip, run, stored, late, garbage>>
    PROVE  Inv'
<1>1. SourceTypes' /\ RowTypes' /\ ItemsOK'
  BY DEF Inv, Jobbing, SourceTypes, RowTypes, ItemsOK
<1>2. ExecsMove
  BY DEF ExecsMove, Move
<1>3. RunsGrow
  BY DEF RunsGrow, Known, Inv, Jobbing, RowTypes, RunRow
<1>. QED  BY <1>1, <1>2, <1>3, Ordinary


-----------------------------------------------------------------------------
(* Steps of one execution *)

LEMMA StepsTo ==
    ASSUME ExecTypes, NEW w \in Executions, NEW y, IsExec(y), exec' = [exec EXCEPT ![w] = y]
    PROVE  ExecTypes' /\ exec'[w] = y /\ \A v \in Executions \ {w} : exec'[v] = exec[v]
<1>1. exec'[w] = y /\ \A v \in Executions \ {w} : exec'[v] = exec[v]
  BY DEF ExecTypes
<1>2. ExecTypes'
  BY <1>1 DEF ExecTypes
<1>. QED  BY <1>1, <1>2

\* What going to the next key does to the locals.
LEMMA NextKeyGoes ==
    ASSUME NEW x, IsExec(x), NEW n
    PROVE  /\ IsExec(NextKey(x, n)) /\ NextKey(x, n).pc \in {"checkpoint", "observe"}
           /\ NextKey(x, n).job = x.job /\ NextKey(x, n).att = x.att
<1>. DEFINE b == x.bad + n
            a == Tail(x.todo)
            s == IF Len(x.todo) = 1 THEN "checkpoint" ELSE "observe"
            y == [x EXCEPT !.bad = b, !.tries = 0, !.todo = a, !.seen = None, !.pc = s]
<1>1. PICK S, T, N, B : x \in ExecRow(S, T, N, B)
  BY DEF IsExec
<1>2. NextKey(x, n) = y
  BY DEF NextKey
<1>3. s \in {"checkpoint", "observe"}
  OBVIOUS
<1>. HIDE DEF b, a, s
<1>4. y \in ExecRow(S \cup {None}, T \cup {a}, N, B \cup {b}) /\ y.job = x.job /\ y.att = x.att /\ y.pc = s
  BY <1>1, <1>3 DEF ExecRow, ScanSteps
<1>. HIDE DEF y
<1>. QED  BY <1>2, <1>3, <1>4 DEF IsExec

LEMMA GivingUp ==
    ASSUME Inv, NEW w \in Executions, Goto(w, "idle"),
           UNCHANGED <<facts, catalog, mode, cell, item, zip, run, stored, late, garbage>>
    PROVE  Inv'
<1>1. ExecTypes' /\ exec'[w].pc = "idle" /\ \A v \in Executions \ {w} : exec'[v] = exec[v]
  BY Goes DEF Inv, Jobbing
<1>. QED  BY <1>1, Quiet DEF Move, Rendering

\* Going on to a step of the same job at which nothing is read or written.
LEMMA GoingOn ==
    ASSUME Inv, NEW w \in Executions, NEW s \in {"retry", "fail", "zfail"}, Goto(w, s),
           exec[w].pc \in IF s = "zfail" THEN {"select", "zput", "complete"} ELSE Rendering,
           UNCHANGED <<facts, catalog, mode, cell, item, zip, run, stored, late, garbage>>
    PROVE  Inv'
<1>1. s \in {"idle"} \cup PdfSteps \cup ZipSteps \cup ScanSteps /\ s # "idle"
  BY DEF PdfSteps, ZipSteps
<1>2. ExecTypes' /\ exec'[w].pc = s /\ (\A v \in Executions \ {w} : exec'[v] = exec[v])
      /\ exec'[w].job = exec[w].job /\ exec'[w].att = exec[w].att
  BY <1>1, Goes DEF Inv, Jobbing
<1>3. Move(exec[w], exec'[w]) /\ exec'[w].pc \notin {"put", "zput"} /\ exec'[w].pc \notin Rendering
  BY <1>2 DEF Move, PdfSteps, ZipSteps, Writing, Rendering
<1>. QED  BY <1>2, <1>3, Quiet

\* A step of the scan that looks only.
LEMMA Looking ==
    ASSUME Inv, NEW w \in Executions, exec[w].pc \in ScanSteps, NEW y,
           IsExec(y), y.job = exec[w].job, y.att = exec[w].att, y.pc \in ScanSteps,
           exec' = [exec EXCEPT ![w] = y],
           UNCHANGED <<facts, catalog, mode, cell, item, zip, run, stored, late, garbage>>
    PROVE  Inv'
<1>1. ExecTypes' /\ exec'[w] = y /\ (\A v \in Executions \ {w} : exec'[v] = exec[v])
  BY StepsTo DEF Inv, Jobbing
<1>2. Move(exec[w], exec'[w]) /\ exec'[w].pc \notin {"put", "zput"} /\ exec'[w].pc \notin Rendering
  BY <1>1 DEF Move, PdfSteps, ZipSteps, ScanSteps, Writing, Rendering
<1>. QED  BY <1>1, <1>2, Quiet

LEMMA QuietSteps ==
    ASSUME Inv, NEW w \in Executions,
           \/ LeaseLost(w) \/ FailLost(w) \/ RenderFails(w) \/ PublishRefused(w)
           \/ ListPage(w) \/ Observe(w) \/ ReserveStale(w) \/ CompleteStale(w)
    PROVE  Inv'
<1>1. PICK S, T, N, B : exec[w] \in ExecRow(S, T, N, B)
  BY DEF Inv, Jobbing, ExecTypes, IsExec
<1>2. CASE LeaseLost(w) \/ FailLost(w)
  BY <1>2, GivingUp DEF LeaseLost, FailLost, sourceVars, jobVars, storeVars
<1>3. CASE RenderFails(w) \/ PublishRefused(w)
  <2>1. PICK s \in {"retry", "fail"} : Goto(w, s)
    BY <1>3 DEF RenderFails, PublishRefused
  <2>2. exec[w].pc \in Rendering
    BY <1>3 DEF RenderFails, PublishRefused, At, Rendering
  <2>. QED  BY <1>3, <2>1, <2>2, GoingOn DEF RenderFails, PublishRefused, sourceVars, jobVars, storeVars
<1>4. CASE ListPage(w)
  <2>. DEFINE found == SelectSeq([i \in 1..Len(Cells) |-> i], LAMBDA i : i > scan.cursor /\ Marked(Cells[i]))
              a == Page(found, 1)
              m == IF Len(found) > PageSize THEN Last(a) ELSE 0
              s == IF a = <<>> THEN "checkpoint" ELSE "observe"
              y == [exec[w] EXCEPT !.todo = a, !.tries = 0, !.next = m, !.pc = s]
  <2>1. exec' = [exec EXCEPT ![w] = y] /\ exec[w].pc \in ScanSteps
    BY <1>4 DEF ListPage, At, ScanSteps
  <2>2. s \in ScanSteps
    BY DEF ScanSteps
  <2>. HIDE DEF a, m, s
  <2>3. y \in ExecRow(S, T \cup {a}, N \cup {m}, B) /\ y.job = exec[w].job /\ y.att = exec[w].att /\ y.pc = s
    BY <1>1, <2>2 DEF ExecRow
  <2>4. IsExec(y)
    BY <2>3 DEF IsExec
  <2>. HIDE DEF y
  <2>. QED  BY <1>4, <2>1, <2>2, <2>3, <2>4, Looking DEF ListPage, sourceVars, jobVars, storeVars
<1>5. CASE Observe(w)
  <2>. DEFINE c == Cells[Head(exec[w].todo)]
              n == [row |-> cell[c], fp |-> Fingerprint(c), rows |-> facts[c].rows, there |-> cell[c].obj \in stored]
              y == [exec[w] EXCEPT !.pc = "reserve", !.seen = n]
  <2>1. exec[w].pc \in ScanSteps
    BY <1>5 DEF Observe, At, ScanSteps
  <2>2. exec' = [exec EXCEPT ![w] = y] \/ exec' = [exec EXCEPT ![w] = NextKey(exec[w], 1)]
    BY <1>5 DEF Observe
  <2>. HIDE DEF n
  <2>3. y \in ExecRow(S \cup {n}, T, N, B) /\ y.job = exec[w].job /\ y.att = exec[w].att /\ y.pc = "reserve"
    BY <1>1 DEF ExecRow, ScanSteps
  <2>4. IsExec(y)
    BY <2>3 DEF IsExec
  <2>. HIDE DEF y
  <2>5. UNCHANGED <<facts, catalog, mode, cell, item, zip, run, stored, late, garbage>>
    BY <1>5 DEF Observe, sourceVars, jobVars, storeVars
  <2>6. "reserve" \in ScanSteps /\ NextKey(exec[w], 1).pc \in ScanSteps
    BY NextKeyGoes DEF ScanSteps, Inv, Jobbing, ExecTypes
  <2>. QED  BY <2>1, <2>2, <2>3, <2>4, <2>5, <2>6, Looking, NextKeyGoes DEF Inv, Jobbing, ExecTypes
<1>6. CASE ReserveStale(w)
  <2>. DEFINE y == [exec[w] EXCEPT !.tries = 1, !.seen = None, !.pc = "observe"]
  <2>1. exec[w].pc \in ScanSteps
    BY <1>6 DEF ReserveStale, At, ScanSteps
  <2>2. exec' = [exec EXCEPT ![w] = y] \/ exec' = [exec EXCEPT ![w] = NextKey(exec[w], 1)]
    BY <1>6 DEF ReserveStale
  <2>3. y \in ExecRow(S \cup {None}, T, N, B) /\ y.job = exec[w].job /\ y.att = exec[w].att /\ y.pc = "observe"
    BY <1>1 DEF ExecRow, ScanSteps
  <2>4. IsExec(y)
    BY <2>3 DEF IsExec
  <2>. HIDE DEF y
  <2>5. UNCHANGED <<facts, catalog, mode, cell, item, zip, run, stored, late, garbage>>
    BY <1>6 DEF ReserveStale, sourceVars, jobVars, storeVars
  <2>6. "observe" \in ScanSteps /\ NextKey(exec[w], 1).pc \in ScanSteps
    BY NextKeyGoes DEF ScanSteps, Inv, Jobbing, ExecTypes
  <2>. QED  BY <2>1, <2>2, <2>3, <2>4, <2>5, <2>6, Looking, NextKeyGoes DEF Inv, Jobbing, ExecTypes
<1>7. CASE CompleteStale(w)
  <2>1. CASE Goto(w, "zfail")
    BY <1>7, <2>1, GoingOn DEF CompleteStale, At, sourceVars, jobVars, storeVars
  <2>2. CASE exec[w].tries < 2
    <3>1. exec[w].tries \in Nat
      BY <1>1 DEF ExecRow
    <3>7. PICK n \in Nat : n = exec[w].tries + 1
      BY <3>1
    <3>. DEFINE y == [exec[w] EXCEPT !.tries = n, !.pc = "select"]
    <3>2. y \in ExecRow(S, T, N, B) /\ y.job = exec[w].job /\ y.att = exec[w].att /\ y.pc = "select"
      BY <1>1, <3>1 DEF ExecRow, ZipSteps
    <3>6. IsExec(y)
      BY <3>2 DEF IsExec
    <3>3. exec' = [exec EXCEPT ![w] = y] /\ exec[w].pc = "complete"
      <4>1. exec[w].pc = "complete"
        BY <1>7 DEF CompleteStale, At
      <4>2. exec' = [exec EXCEPT ![w] = IF exec[w].tries < 2 THEN y ELSE [exec[w] EXCEPT !.pc = "zfail"]]
        BY <1>7, <3>7 DEF CompleteStale
      <4>. HIDE DEF y
      <4>. QED  BY <2>2, <4>1, <4>2
    <3>. HIDE DEF y
    <3>4. ExecTypes' /\ exec'[w] = y /\ \A v \in Executions \ {w} : exec'[v] = exec[v]
      BY <3>3, <3>6, StepsTo DEF Inv, Jobbing
    <3>5. Move(exec[w], exec'[w]) /\ exec'[w].pc \notin {"put", "zput"} /\ exec'[w].pc \notin Rendering
      BY <3>2, <3>3, <3>4 DEF Move, PdfSteps, ZipSteps, Writing, Rendering
    <3>. QED  BY <1>7, <3>4, <3>5, Quiet DEF CompleteStale, sourceVars, jobVars, storeVars
  <2>. QED  BY <1>7, <2>1, <2>2 DEF CompleteStale, Goto
<1>. QED  BY <1>2, <1>3, <1>4, <1>5, <1>6, <1>7


-----------------------------------------------------------------------------
(* Steps of rows *)

\* Nobody begins to read, to render or to write.
Calm ==
    /\ ExecTypes' /\ ExecsMove
    /\ \A v \in Executions : exec'[v].pc \in Rendering \cup {"zput"} => exec'[v] = exec[v]

LEMMA NobodyMoves ==
    ASSUME ExecTypes, UNCHANGED exec
    PROVE  Calm
BY DEF Calm, ExecTypes, ExecsMove, Move

LEMMA OneLeaves ==
    ASSUME ExecTypes, NEW w \in Executions, Goto(w, "idle")
    PROVE  Calm
<1>1. ExecTypes' /\ exec'[w].pc = "idle" /\ \A v \in Executions \ {w} : exec'[v] = exec[v]
  BY Goes
<1>. QED  BY <1>1 DEF Calm, ExecsMove, Move, Rendering

LEMMA OneGoesOn ==
    ASSUME ExecTypes, NEW w \in Executions, NEW y, IsExec(y), exec' = [exec EXCEPT ![w] = y],
           exec[w].pc # "idle", y.job = exec[w].job, y.att = exec[w].att, y.pc \notin Writing,
           exec[w].pc \in PdfSteps <=> y.pc \in PdfSteps,
           exec[w].pc \in ZipSteps <=> y.pc \in ZipSteps
    PROVE  Calm
<1>1. ExecTypes' /\ exec'[w] = y /\ \A v \in Executions \ {w} : exec'[v] = exec[v]
  BY StepsTo
<1>. QED  BY <1>1 DEF Calm, ExecsMove, Move, Rendering, Writing

\* What is requested stays requested and runs are counted on, unless they are new.
LEMMA Requests ==
    ASSUME \A c \in Keys, g \in Gens : item[c][g].status # "none" => item'[c][g].status # "none",
           \A z \in Zips : zip[z].status # "none" => zip'[z].status # "none",
           \A j \in Jobs : Known(j) => run[j].attempt <= run'[j].attempt
    PROVE  RunsGrow
<1>1. ASSUME NEW j \in Jobs, Known(j)
      PROVE  Known(j)'
  <2>1. CASE j.kind = "pdf"
    BY <1>1, <2>1, JobKinds DEF Known
  <2>2. CASE j.kind = "zip"
    BY <1>1, <2>2, JobKinds DEF Known
  <2>3. CASE j.kind = "scan"
    BY <2>3 DEF Known
  <2>. QED  BY <2>1, <2>2, <2>3, JobKinds
<1>. QED  BY <1>1 DEF RunsGrow

\* A step of rows that keeps what cells show and objects are named.
LEMMA RowStep ==
    ASSUME Inv, Calm, RowTypes', ItemsOK', UNCHANGED <<facts, catalog, mode, stored, late, garbage>>,
           \A c \in Keys : /\ cell'[c].rev = cell[c].rev /\ cell'[c].pubRev = cell[c].pubRev
                           /\ cell'[c].fp = cell[c].fp /\ cell'[c].obj = cell[c].obj,
           \A z \in Zips : zip'[z].key \in {zip[z].key, None},
           \A c \in Keys, g \in Gens : item[c][g].status # "none" => item'[c][g].status # "none",
           \A z \in Zips : zip[z].status # "none" => zip'[z].status # "none",
           \A j \in Jobs : Known(j) => run[j].attempt <= run'[j].attempt
    PROVE  Inv'
<1>1. SourceTypes'
  BY DEF Inv, Jobbing, SourceTypes
<1>2. RunsGrow
  BY Requests
<1>3. ExecTypes' /\ ExecsMove
  BY DEF Calm
<1>4. \A v \in Executions : exec'[v].pc \in {"put", "zput"} => exec'[v] = exec[v]
  BY DEF Calm, Rendering
<1>5. \A v \in Executions : exec'[v].pc \in Rendering => exec'[v] = exec[v]
  BY DEF Calm
<1>. QED  BY <1>1, <1>2, <1>3, <1>4, <1>5, Ordinary

\* A run changes its status and keeps its attempt.
LEMMA RunTurns ==
    ASSUME RowTypes, NEW j \in Jobs, NEW y \in RunRow, y.attempt = run[j].attempt, run' = [run EXCEPT ![j] = y]
    PROVE  run' \in [Jobs -> RunRow] /\ \A k \in Jobs : run[k].attempt <= run'[k].attempt
<1>1. run' \in [Jobs -> RunRow] /\ \A k \in Jobs : run'[k].attempt = run[k].attempt
  BY DEF RowTypes
<1>2. \A k \in Jobs : run[k].attempt \in Nat
  BY DEF RowTypes, RunRow
<1>. QED  BY <1>1, <1>2

LEMMA RunTurned ==
    ASSUME RowTypes, NEW j \in Jobs,
           NEW s \in {"none", "queued", "running", "retry_scheduled", "failed", "succeeded"}
    PROVE  /\ [run[j] EXCEPT !.status = s, !.live = FALSE] \in RunRow
           /\ [run[j] EXCEPT !.status = s, !.live = FALSE].attempt = run[j].attempt
           /\ [run[j] EXCEPT !.live = FALSE] \in RunRow
           /\ [run[j] EXCEPT !.live = FALSE].attempt = run[j].attempt
<1>1. run[j] \in RunRow
  BY DEF RowTypes
<1>. QED  BY <1>1 DEF RunRow

\* An item that has been made is written again.
LEMMA ItemTurns ==
    ASSUME RowTypes, NEW c \in Keys, NEW g \in Gens, NEW y \in ItemRow, y.status # "none",
           item' = [item EXCEPT ![c][g] = y]
    PROVE  /\ item' \in [Keys -> [Gens -> ItemRow]]
           /\ \A d \in Keys, h \in Gens : item[d][h].status # "none" => item'[d][h].status # "none"
           /\ \A d \in Keys, h \in Gens : <<d, h>> # <<c, g>> => item'[d][h] = item[d][h]
<1>. DEFINE z == [item[c] EXCEPT ![g] = y]
<1>1. item' = [item EXCEPT ![c] = z]
  OBVIOUS
<1>2. z \in [Gens -> ItemRow] /\ z[g] = y /\ \A h \in Gens \ {g} : z[h] = item[c][h]
  BY DEF RowTypes
<1>. HIDE DEF z
<1>3. item' \in [Keys -> [Gens -> ItemRow]] /\ item'[c] = z /\ \A d \in Keys \ {c} : item'[d] = item[d]
  BY <1>1, <1>2 DEF RowTypes
<1>. QED  BY <1>2, <1>3

\* The cell, the generation and the item of an execution at a step of a PDF.
LEMMA AtPdf ==
    ASSUME Inv, NEW w \in Executions, exec[w].pc \in PdfSteps
    PROVE  /\ exec[w].job \in Jobs /\ exec[w].job.kind = "pdf"
           /\ exec[w].job.of \in Keys /\ exec[w].job.gen \in Gens
           /\ exec[w].job = Pdf(exec[w].job.of, exec[w].job.gen)
           /\ item[exec[w].job.of][exec[w].job.gen].status # "none"
           /\ item[exec[w].job.of][exec[w].job.gen] \in ItemRow
           /\ exec[w].job.gen <= cell[exec[w].job.of].req
<1>1. /\ exec[w].job \in Jobs /\ exec[w].job.kind = "pdf" /\ Known(exec[w].job)
  BY DEF Inv, Jobbing, StepsOK, PdfSteps
<1>2. exec[w].job.of \in Keys /\ exec[w].job.gen \in Gens /\ exec[w].job = Pdf(exec[w].job.of, exec[w].job.gen)
  BY <1>1, JobKinds
<1>. QED  BY <1>1, <1>2 DEF Known, Inv, Jobbing, ItemsOK, RowTypes

\* An item of a PDF is written with its run, and its cell's mark at most.
LEMMA ItemStep ==
    ASSUME Inv, Calm, NEW c \in Keys, NEW g \in Gens, item[c][g].status # "none",
           NEW y \in ItemRow, y.status # "none", item' = [item EXCEPT ![c][g] = y],
           NEW j \in Jobs, NEW s \in {"retry_scheduled", "failed", "succeeded"},
           run' = [run EXCEPT ![j] = [@ EXCEPT !.status = s, !.live = FALSE]],
           cell' \in [Keys -> CellRow],
           \A d \in Keys : /\ cell'[d].rev = cell[d].rev /\ cell'[d].pubRev = cell[d].pubRev
                           /\ cell'[d].fp = cell[d].fp /\ cell'[d].obj = cell[d].obj
                           /\ cell'[d].req = cell[d].req,
           UNCHANGED <<facts, catalog, mode, zip, stored, late, garbage>>
    PROVE  Inv'
<1>. DEFINE r == [run[j] EXCEPT !.status = s, !.live = FALSE]
<1>1. r \in RunRow /\ r.attempt = run[j].attempt
  BY RunTurned DEF Inv, Jobbing
<1>2. run' = [run EXCEPT ![j] = r]
  OBVIOUS
<1>. HIDE DEF r
<1>3. run' \in [Jobs -> RunRow] /\ \A k \in Jobs : run[k].attempt <= run'[k].attempt
  BY <1>1, <1>2, RunTurns DEF Inv, Jobbing
<1>4. /\ item' \in [Keys -> [Gens -> ItemRow]]
      /\ \A d \in Keys, h \in Gens : item[d][h].status # "none" => item'[d][h].status # "none"
      /\ \A d \in Keys, h \in Gens : <<d, h>> # <<c, g>> => item'[d][h] = item[d][h]
  BY ItemTurns DEF Inv, Jobbing
<1>5. RowTypes'
  BY <1>3, <1>4 DEF RowTypes, Inv, Jobbing
<1>6. ItemsOK'
  <2>. SUFFICES ASSUME NEW d \in Keys, NEW h \in Gens, item'[d][h].status # "none"
                PROVE  h <= cell[d].req
    BY DEF ItemsOK
  <2>1. item[d][h].status # "none"
    BY <1>4
  <2>. QED  BY <2>1 DEF ItemsOK, Inv, Jobbing
<1>7. \A z \in Zips : zip'[z].key \in {zip[z].key, None} /\ zip'[z].status = zip[z].status
  OBVIOUS
<1>. QED  BY <1>3, <1>4, <1>5, <1>6, <1>7, RowStep

LEMMA FailRunStep ==
    ASSUME Inv, NEW w \in Executions, FailRun(w)
    PROVE  Inv'
<1>. DEFINE j == exec[w].job
            again == At(w, "retry") /\ exec[w].att < MaxAttempts
            s == IF again THEN "queued" ELSE "failed"
            t == IF again THEN "retry_scheduled" ELSE "failed"
            y == [item[j.of][j.gen] EXCEPT !.status = s]
            e == (cell[j.of].err \/ cell[j.of].req = j.gen)
            x == [cell[j.of] EXCEPT !.err = e]
<1>1. /\ j \in Jobs /\ j.kind = "pdf" /\ j.of \in Keys /\ j.gen \in Gens
      /\ item[j.of][j.gen].status # "none" /\ item[j.of][j.gen] \in ItemRow
  <2>1. exec[w].pc \in PdfSteps
    BY DEF FailRun, PdfSteps
  <2>. QED  BY <2>1, AtPdf
<1>2. /\ run' = [run EXCEPT ![j] = [@ EXCEPT !.status = t, !.live = FALSE]]
      /\ Goto(w, "idle")
      /\ UNCHANGED <<facts, catalog, mode, stored, late, garbage>>
  BY DEF FailRun, sourceVars, storeVars
<1>3. /\ item' = [item EXCEPT ![j.of][j.gen] = y]
      /\ cell' = [cell EXCEPT ![j.of] = x]
      /\ UNCHANGED zip
  BY <1>1 DEF FailRun, ItemDone
<1>4. y \in ItemRow /\ y.status # "none"
  BY <1>1 DEF ItemRow
<1>5. cell[j.of] \in CellRow /\ e \in BOOLEAN
  BY <1>1 DEF Inv, Jobbing, RowTypes
<1>. HIDE DEF e
<1>6. /\ x \in CellRow /\ x.rev = cell[j.of].rev /\ x.pubRev = cell[j.of].pubRev
      /\ x.fp = cell[j.of].fp /\ x.obj = cell[j.of].obj /\ x.req = cell[j.of].req
  BY <1>5 DEF CellRow
<1>. HIDE DEF x
<1>7. /\ cell' \in [Keys -> CellRow]
      /\ \A d \in Keys : /\ cell'[d].rev = cell[d].rev /\ cell'[d].pubRev = cell[d].pubRev
                         /\ cell'[d].fp = cell[d].fp /\ cell'[d].obj = cell[d].obj
                         /\ cell'[d].req = cell[d].req
  BY <1>1, <1>3, <1>6 DEF Inv, Jobbing, RowTypes
<1>8. Calm
  BY <1>2, OneLeaves DEF Inv, Jobbing
<1>9. t \in {"retry_scheduled", "failed", "succeeded"}
  OBVIOUS
<1>. HIDE DEF y, t, j
<1>. QED  BY <1>1, <1>2, <1>3, <1>4, <1>7, <1>8, <1>9, ItemStep

LEMMA SupersededStep ==
    ASSUME Inv, NEW w \in Executions, PublishSuperseded(w)
    PROVE  Inv'
<1>. DEFINE j == exec[w].job
            y == [item[j.of][j.gen] EXCEPT !.status = "superseded", !.rev = exec[w].seen.rev]
<1>0. exec[w].pc = "publish"
  BY DEF PublishSuperseded, At
<1>1. /\ j \in Jobs /\ j.kind = "pdf" /\ j.of \in Keys /\ j.gen \in Gens
      /\ item[j.of][j.gen].status # "none" /\ item[j.of][j.gen] \in ItemRow
  <2>1. exec[w].pc \in PdfSteps
    BY <1>0 DEF PdfSteps
  <2>. QED  BY <2>1, AtPdf
<1>2. exec[w].seen.rev \in Nat
  BY <1>0 DEF Inv, Current, SeenOK, Rendering, SnapRow
<1>3. /\ run' = [run EXCEPT ![j] = [@ EXCEPT !.status = "succeeded", !.live = FALSE]]
      /\ Goto(w, "idle")
      /\ item' = [item EXCEPT ![j.of][j.gen] = y]
      /\ UNCHANGED <<facts, catalog, mode, cell, zip, stored, late, garbage>>
  BY DEF PublishSuperseded, RunSucceeded, ItemDone, sourceVars, storeVars
<1>4. y \in ItemRow /\ y.status # "none"
  BY <1>1, <1>2 DEF ItemRow
<1>5. Calm
  BY <1>3, OneLeaves DEF Inv, Jobbing
<1>6. cell' \in [Keys -> CellRow]
  BY <1>3 DEF Inv, Jobbing, RowTypes
<1>. HIDE DEF y, j
<1>. QED  BY <1>1, <1>3, <1>4, <1>5, <1>6, ItemStep

LEMMA LapseStep ==
    ASSUME Inv, NEW j \in Jobs, LeaseLapses(j)
    PROVE  Inv'
<1>. DEFINE r == [run[j] EXCEPT !.live = FALSE]
<1>1. r \in RunRow /\ r.attempt = run[j].attempt
  BY RunTurned DEF Inv, Jobbing
<1>2. /\ run' = [run EXCEPT ![j] = r]
      /\ UNCHANGED <<facts, catalog, mode, cell, item, zip, exec, stored, late, garbage>>
  BY DEF LeaseLapses, sourceVars, storeVars
<1>. HIDE DEF r
<1>3. run' \in [Jobs -> RunRow] /\ \A k \in Jobs : run[k].attempt <= run'[k].attempt
  BY <1>1, <1>2, RunTurns DEF Inv, Jobbing
<1>4. RowTypes' /\ ItemsOK' /\ Calm
  BY <1>2, <1>3, NobodyMoves DEF RowTypes, ItemsOK, Inv, Jobbing
<1>. QED  BY <1>2, <1>3, <1>4, RowStep

\* A ZIP gets old.
LEMMA ZipElapsesStep ==
    ASSUME Inv, NEW z \in Zips, ZipElapses(z)
    PROVE  Inv'
<1>. DEFINE y == [zip[z] EXCEPT !.past = TRUE]
<1>1. /\ zip' = [zip EXCEPT ![z] = y]
      /\ UNCHANGED <<facts, catalog, mode, cell, item, run, exec, stored, late, garbage>>
  BY DEF ZipElapses, sourceVars, storeVars
<1>2. y \in ZipRow /\ y.key = zip[z].key /\ y.status = zip[z].status
  BY DEF Inv, Jobbing, RowTypes, ZipRow
<1>. HIDE DEF y
<1>3. zip' \in [Zips -> ZipRow] /\ \A x \in Zips : zip'[x].key = zip[x].key /\ zip'[x].status = zip[x].status
  BY <1>1, <1>2 DEF Inv, Jobbing, RowTypes
<1>4. RowTypes' /\ ItemsOK' /\ Calm
  BY <1>1, <1>3, NobodyMoves DEF RowTypes, ItemsOK, Inv, Jobbing
<1>5. \A k \in Jobs : run[k].attempt <= run'[k].attempt
  BY <1>1 DEF Inv, Jobbing, RowTypes, RunRow
<1>. QED  BY <1>1, <1>3, <1>4, <1>5, RowStep

\* The first call of the CLI, and the choice of an object to delete.
LEMMA AsideSteps ==
    ASSUME Inv,
           (\E k \in Clis : BeginInternalRefresh(k)) \/ (\E x \in garbage : GcPick(x))
    PROVE  Inv'
<1>1. UNCHANGED <<facts, catalog, mode, cell, item, zip, run, exec, stored, late, garbage>>
  BY DEF BeginInternalRefresh, GcPick, sourceVars, jobVars, storeVars
<1>2. RowTypes' /\ ItemsOK' /\ Calm
  BY <1>1, NobodyMoves DEF RowTypes, ItemsOK, Inv, Jobbing
<1>3. \A k \in Jobs : run[k].attempt <= run'[k].attempt
  BY <1>1 DEF Inv, Jobbing, RowTypes, RunRow
<1>. QED  BY <1>1, <1>2, <1>3, RowStep

\* Reserving generations: the items and the runs are new.
LEMMA EnqueueRows ==
    ASSUME Inv, NEW cs, NEW owner \in {"cli", "scan"}, Enqueue(cs, owner)
    PROVE  /\ cell' \in [Keys -> CellRow] /\ item' \in [Keys -> [Gens -> ItemRow]] /\ run' \in [Jobs -> RunRow]
           /\ ItemsOK'
           /\ \A c \in Keys : /\ cell'[c].rev = cell[c].rev /\ cell'[c].pubRev = cell[c].pubRev
                              /\ cell'[c].fp = cell[c].fp /\ cell'[c].obj = cell[c].obj
           /\ \A c \in Keys, g \in Gens : item[c][g].status # "none" => item'[c][g].status # "none"
           /\ \A j \in Jobs : Known(j) => run[j].attempt <= run'[j].attempt
<1>. USE DEF Inv, Jobbing
<1>1. \A c \in Keys : cell[c].req \in Nat /\ cell[c].rev \in Nat
  BY DEF RowTypes, CellRow
<1>2. ASSUME NEW c \in Keys
      PROVE  /\ cell'[c] \in CellRow
             /\ cell'[c].rev = cell[c].rev /\ cell'[c].pubRev = cell[c].pubRev
             /\ cell'[c].fp = cell[c].fp /\ cell'[c].obj = cell[c].obj
             /\ cell'[c].req = IF c \in cs THEN cell[c].req + 1 ELSE cell[c].req
  <2>1. cell[c] \in CellRow
    BY DEF RowTypes
  <2>2. PICK n \in Nat : n = cell[c].req + 1
    BY <1>1
  <2>3. cell'[c] = IF c \in cs THEN [cell[c] EXCEPT !.req = n] ELSE cell[c]
    BY <2>2 DEF Enqueue
  <2>4. cell'[c] \in CellRow
    BY <2>1, <2>3 DEF CellRow
  <2>. QED  BY <2>1, <2>2, <2>3, <2>4 DEF CellRow
<1>3. cell' \in [Keys -> CellRow]
  BY <1>2 DEF Enqueue
<1>4. ASSUME NEW c \in Keys, NEW g \in Gens
      PROVE  /\ item'[c][g] = IF c \in cs /\ g = cell[c].req + 1
                              THEN [status |-> "queued", rev |-> cell[c].rev, owner |-> owner] ELSE item[c][g]
             /\ item'[c][g] \in ItemRow
  <2>1. item'[c][g] = IF c \in cs /\ g = cell[c].req + 1
                      THEN [status |-> "queued", rev |-> cell[c].rev, owner |-> owner] ELSE item[c][g]
    BY DEF Enqueue
  <2>2. item[c][g] \in ItemRow
    BY DEF RowTypes
  <2>3. [status |-> "queued", rev |-> cell[c].rev, owner |-> owner] \in ItemRow
    BY <1>1 DEF ItemRow
  <2>. QED  BY <2>1, <2>2, <2>3
<1>5. item' \in [Keys -> [Gens -> ItemRow]]
  <2>1. item' = [c \in Keys |-> [g \in Gens |-> item'[c][g]]]
    BY DEF Enqueue
  <2>. QED  BY <1>4, <2>1
<1>6. \A c \in Keys, g \in Gens : item[c][g].status # "none" => g <= cell[c].req
  BY DEF ItemsOK
<1>7. ASSUME NEW c \in Keys, NEW g \in Gens, item[c][g].status # "none"
      PROVE  item'[c][g].status # "none"
  <2>1. g \in Nat /\ g <= cell[c].req
    BY <1>6, <1>7, ConstantsAssumption DEF Gens
  <2>2. g # cell[c].req + 1
    BY <1>1, <2>1
  <2>3. item'[c][g] = item[c][g]
    BY <1>4, <2>2
  <2>. QED  BY <1>7, <2>3
<1>8. ItemsOK'
  <2>. SUFFICES ASSUME NEW c \in Keys, NEW g \in Gens, item'[c][g].status # "none"
                PROVE  g <= cell'[c].req
    BY DEF ItemsOK
  <2>1. g \in Nat
    BY ConstantsAssumption DEF Gens
  <2>2. CASE c \in cs /\ g = cell[c].req + 1
    BY <1>2, <2>1, <2>2
  <2>3. CASE ~(c \in cs /\ g = cell[c].req + 1)
    <3>1. g <= cell[c].req
      BY <1>4, <1>6, <2>3
    <3>. QED  BY <1>1, <1>2, <2>1, <3>1
  <2>. QED  BY <2>2, <2>3
<1>9. ASSUME NEW j \in Jobs
      PROVE  run'[j] \in RunRow /\ (Known(j) => run'[j] = run[j])
  <2>1. run'[j] = IF j.kind = "pdf" /\ j.of \in cs /\ j.gen = cell[j.of].req + 1 THEN Queued ELSE run[j]
    BY DEF Enqueue
  <2>2. run[j] \in RunRow /\ Queued \in RunRow
    BY DEF RowTypes, RunRow, Queued
  <2>3. j.kind = "pdf" /\ Known(j) => j.of \in Keys /\ j.gen \in Gens /\ j.gen <= cell[j.of].req
    BY <1>6, JobKinds DEF Known
  <2>. QED  BY <1>1, <2>1, <2>2, <2>3
<1>10. run' \in [Jobs -> RunRow]
  BY <1>9 DEF Enqueue
<1>11. \A j \in Jobs : run[j].attempt \in Nat
  BY DEF RowTypes, RunRow
<1>. QED  BY <1>2, <1>3, <1>5, <1>7, <1>8, <1>9, <1>10, <1>11

LEMMA EnqueueStep ==
    ASSUME Inv, Calm, NEW cs, NEW owner \in {"cli", "scan"},
           Enqueue(cs, owner) \/ UNCHANGED <<cell, item, run>>,
           UNCHANGED <<facts, catalog, mode, zip, stored, late, garbage>>
    PROVE  Inv'
<1>0. \A z \in Zips : zip'[z].key \in {zip[z].key, None} /\ zip'[z].status = zip[z].status
  OBVIOUS
<1>1. CASE Enqueue(cs, owner)
  <2>1. RowTypes'
    BY <1>1, EnqueueRows DEF RowTypes, Inv, Jobbing
  <2>. QED  BY <1>0, <1>1, <2>1, EnqueueRows, RowStep
<1>2. CASE UNCHANGED <<cell, item, run>>
  <2>1. RowTypes' /\ ItemsOK'
    BY <1>2 DEF RowTypes, ItemsOK, Inv, Jobbing
  <2>2. \A k \in Jobs : run[k].attempt <= run'[k].attempt
    BY <1>2 DEF Inv, Jobbing, RowTypes, RunRow
  <2>. QED  BY <1>0, <1>2, <2>1, <2>2, RowStep
<1>. QED  BY <1>1, <1>2

LEMMA AppendStep ==
    ASSUME Inv, NEW k \in Clis, AppendInternalRefreshPage(k)
    PROVE  Inv'
<1>1. PICK cs : Enqueue(cs, "cli") \/ UNCHANGED <<cell, item, run>>
  BY DEF AppendInternalRefreshPage
<1>2. UNCHANGED <<facts, catalog, mode, zip, exec, stored, late, garbage>>
  BY DEF AppendInternalRefreshPage, sourceVars, storeVars
<1>3. Calm
  BY <1>2, NobodyMoves DEF Inv, Jobbing
<1>. QED  BY <1>1, <1>2, <1>3, EnqueueStep

LEMMA ReserveRepairStep ==
    ASSUME Inv, NEW w \in Executions, ReserveRepair(w)
    PROVE  Inv'
<1>. DEFINE y == NextKey(exec[w], 0)
<1>1. PICK cs : Enqueue(cs, "scan") \/ UNCHANGED <<cell, item, run>>
  BY DEF ReserveRepair
<1>2. /\ UNCHANGED <<facts, catalog, mode, zip, stored, late, garbage>>
      /\ exec' = [exec EXCEPT ![w] = y] /\ exec[w].pc = "reserve"
  BY DEF ReserveRepair, At, sourceVars, storeVars
<1>3. IsExec(y) /\ y.job = exec[w].job /\ y.att = exec[w].att /\ y.pc \in {"checkpoint", "observe"}
  BY NextKeyGoes DEF Inv, Jobbing, ExecTypes
<1>. HIDE DEF y
<1>4. Calm
  BY <1>2, <1>3, OneGoesOn DEF Inv, Jobbing, PdfSteps, ZipSteps, Writing
<1>. QED  BY <1>1, <1>2, <1>4, EnqueueStep

\* The scan's run ends, or is new.
LEMMA CheckpointStep ==
    ASSUME Inv, NEW w \in Executions, Checkpoint(w)
    PROVE  Inv'
<1>. DEFINE s == IF exec[w].next = 0 THEN "succeeded" ELSE "queued"
            r == [run[Scan] EXCEPT !.status = s, !.live = FALSE]
<1>1. r \in RunRow /\ r.attempt = run[Scan].attempt /\ Scan \in Jobs
  BY RunTurned, JobKinds DEF Inv, Jobbing
<1>2. /\ run' = [run EXCEPT ![Scan] = r] /\ Goto(w, "idle")
      /\ UNCHANGED <<facts, catalog, mode, cell, item, zip, stored, late, garbage>>
  BY DEF Checkpoint, sourceVars, storeVars
<1>. HIDE DEF r
<1>3. run' \in [Jobs -> RunRow] /\ \A k \in Jobs : run[k].attempt <= run'[k].attempt
  BY <1>1, <1>2, RunTurns DEF Inv, Jobbing
<1>4. RowTypes' /\ ItemsOK' /\ Calm
  BY <1>2, <1>3, OneLeaves DEF RowTypes, ItemsOK, Inv, Jobbing
<1>. QED  BY <1>2, <1>3, <1>4, RowStep

LEMMA DailyStep ==
    ASSUME Inv, EnsureDailyReconciliation
    PROVE  Inv'
<1>1. /\ run' = [run EXCEPT ![Scan] = Queued]
      /\ exec' = [w \in Executions |-> IF exec[w].job = Scan THEN Idle ELSE exec[w]]
      /\ UNCHANGED <<facts, catalog, mode, cell, item, zip, stored, late, garbage>>
  BY DEF EnsureDailyReconciliation, sourceVars, storeVars
<1>2. run' \in [Jobs -> RunRow] /\ \A j \in Jobs : j # Scan => run'[j] = run[j]
  BY <1>1 DEF Inv, Jobbing, RowTypes, RunRow, Queued
<1>3. \A w \in Executions : exec'[w] = Idle \/ (exec'[w] = exec[w] /\ exec[w].job # Scan)
  BY <1>1
<1>4. ExecTypes'
  BY <1>1, <1>3, IdleTyped DEF ExecTypes, Inv, Jobbing
<1>5. ExecsMove
  BY <1>3, IdleTyped DEF ExecsMove, Move
<1>6. RunsGrow
  <2>. SUFFICES ASSUME NEW j \in Jobs, Known(j)
                PROVE  /\ Known(j)'
                       /\ \/ run[j].attempt <= run'[j].attempt
                          \/ j = Scan /\ \A w \in Executions : exec'[w].pc # "idle" => exec'[w].job # Scan
    BY DEF RunsGrow
  <2>1. Known(j)'
    BY <1>1 DEF Known
  <2>2. run[j].attempt \in Nat
    BY DEF Inv, Jobbing, RowTypes, RunRow
  <2>. QED  BY <1>2, <1>3, <2>1, <2>2, IdleTyped
<1>7. SourceTypes' /\ RowTypes' /\ ItemsOK'
  BY <1>1, <1>2 DEF SourceTypes, RowTypes, ItemsOK, Inv, Jobbing
<1>8. \A w \in Executions : exec'[w].pc \in Rendering \cup {"zput"} => exec'[w] = exec[w]
  BY <1>3, IdleTyped DEF Rendering
<1>. QED  BY <1>1, <1>4, <1>5, <1>6, <1>7, <1>8, Ordinary DEF Rendering

\* A ZIP request is taken: its row and its run are new.
LEMMA ReserveBundleStep ==
    ASSUME Inv, NEW z \in Zips, NEW c \in Keys, ReserveBundle(z, c)
    PROVE  Inv'
<1>. DEFINE y == [status |-> "queued", pdf |-> cell[c].obj, key |-> None, past |-> FALSE]
<1>1. /\ zip' = [zip EXCEPT ![z] = y] /\ run' = [run EXCEPT ![Pack(z)] = Queued]
      /\ zip[z].status = "none"
      /\ UNCHANGED <<facts, catalog, mode, cell, item, exec, stored, late, garbage>>
  BY DEF ReserveBundle, sourceVars, storeVars
<1>2. y \in ZipRow
  <2>1. cell[c].obj \in PdfObjects \cup {None}
    BY DEF Inv, Jobbing, RowTypes, CellRow
  <2>. QED  BY <2>1 DEF ZipRow
<1>3. y.key = None /\ y.status = "queued"
  OBVIOUS
<1>. HIDE DEF y
<1>4. /\ zip' \in [Zips -> ZipRow]
      /\ \A x \in Zips : zip'[x].key \in {zip[x].key, None} /\ (zip[x].status # "none" => zip'[x].status # "none")
  BY <1>1, <1>2, <1>3 DEF Inv, Jobbing, RowTypes
<1>5. run' \in [Jobs -> RunRow] /\ \A j \in Jobs : j # Pack(z) => run'[j] = run[j]
  BY <1>1 DEF Inv, Jobbing, RowTypes, RunRow, Queued
<1>6. \A j \in Jobs : Known(j) => run[j].attempt <= run'[j].attempt
  <2>1. ~Known(Pack(z))
    BY <1>1, JobKinds DEF Known
  <2>2. \A j \in Jobs : run[j].attempt \in Nat
    BY DEF Inv, Jobbing, RowTypes, RunRow
  <2>. QED  BY <1>5, <2>1, <2>2
<1>7. RowTypes' /\ ItemsOK' /\ Calm
  BY <1>1, <1>4, <1>5, NobodyMoves DEF RowTypes, ItemsOK, Inv, Jobbing
<1>. QED  BY <1>1, <1>4, <1>6, <1>7, RowStep

\* The request of an execution at a step of a ZIP.
LEMMA AtZip ==
    ASSUME Inv, NEW w \in Executions, exec[w].pc \in ZipSteps
    PROVE  /\ exec[w].job \in Jobs /\ exec[w].job.of \in Zips /\ exec[w].job = Pack(exec[w].job.of)
           /\ zip[exec[w].job.of].status # "none" /\ zip[exec[w].job.of] \in ZipRow
<1>1. /\ exec[w].job \in Jobs /\ exec[w].job.kind = "zip" /\ Known(exec[w].job)
  BY DEF Inv, Jobbing, StepsOK, ZipSteps
<1>2. exec[w].job.of \in Zips /\ exec[w].job = Pack(exec[w].job.of)
  BY <1>1, JobKinds
<1>. QED  BY <1>1, <1>2 DEF Known, Inv, Jobbing, RowTypes

LEMMA FailBundleStep ==
    ASSUME Inv, NEW w \in Executions, FailBundle(w)
    PROVE  Inv'
<1>. DEFINE j == exec[w].job
            y == [zip[j.of] EXCEPT !.status = "failed"]
            r == [run[j] EXCEPT !.status = "failed", !.live = FALSE]
<1>1. j \in Jobs /\ j.of \in Zips /\ zip[j.of] \in ZipRow
  BY AtZip DEF FailBundle, At, ZipSteps
<1>2. /\ zip' = [zip EXCEPT ![j.of] = y] /\ run' = [run EXCEPT ![j] = r] /\ Goto(w, "idle")
      /\ UNCHANGED <<facts, catalog, mode, cell, item, stored, late, garbage>>
  BY DEF FailBundle, sourceVars, storeVars
<1>3. r \in RunRow /\ r.attempt = run[j].attempt
  BY <1>1, RunTurned DEF Inv, Jobbing
<1>4. y \in ZipRow /\ y.key = zip[j.of].key /\ y.status = "failed"
  BY <1>1 DEF ZipRow
<1>. HIDE DEF y, r, j
<1>5. run' \in [Jobs -> RunRow] /\ \A k \in Jobs : run[k].attempt <= run'[k].attempt
  BY <1>1, <1>2, <1>3, RunTurns DEF Inv, Jobbing
<1>6. /\ zip' \in [Zips -> ZipRow]
      /\ \A x \in Zips : zip'[x].key = zip[x].key /\ (zip[x].status # "none" => zip'[x].status # "none")
  BY <1>1, <1>2, <1>4 DEF Inv, Jobbing, RowTypes
<1>7. RowTypes' /\ ItemsOK' /\ Calm
  BY <1>2, <1>5, <1>6, OneLeaves DEF RowTypes, ItemsOK, Inv, Jobbing
<1>. QED  BY <1>2, <1>5, <1>6, <1>7, RowStep

\* An execution that gives up a ZIP or its process while it writes nothing.
LEMMA NotWritingSteps ==
    ASSUME Inv, NEW w \in Executions, exec[w].pc # "zput" \/ ~Captured(w),
           (exec[w].pc # "zput" /\ (AbortBundle(w) \/ Crash(w))) \/ (~Captured(w) /\ (SelectBundle(w) \/ PutBundle(w)))
    PROVE  Inv'
<1>1. CASE ~Captured(w) /\ (SelectBundle(w) \/ PutBundle(w))
  <2>1. Goto(w, "zfail") /\ exec[w].pc \in {"select", "zput", "complete"}
    BY <1>1 DEF SelectBundle, PutBundle, At
  <2>2. UNCHANGED <<facts, catalog, mode, cell, item, zip, run, stored, late, garbage>>
    BY <1>1 DEF SelectBundle, PutBundle, sourceVars, jobVars, storeVars
  <2>. QED  BY <2>1, <2>2, GoingOn
<1>2. CASE exec[w].pc # "zput" /\ AbortBundle(w)
  <2>1. Goto(w, "zfail") /\ exec[w].pc \in {"select", "zput", "complete"}
    BY <1>2 DEF AbortBundle, At
  <2>2. UNCHANGED <<facts, catalog, mode, cell, item, zip, run, stored, late, garbage>>
    BY <1>2 DEF AbortBundle, At, sourceVars, jobVars, storeVars
  <2>. QED  BY <2>1, <2>2, GoingOn
<1>3. CASE exec[w].pc # "zput" /\ Crash(w)
  BY <1>3, GivingUp DEF Crash, At, sourceVars, jobVars, storeVars
<1>. QED  BY <1>1, <1>2, <1>3

-----------------------------------------------------------------------------
(* Sources *)

\* A step of the sources: revisions grow, and what a renderer has read and a
\* cell shows is of a smaller revision where the sources of the cell change.
LEMMA SourceStep ==
    ASSUME Inv, SourceTypes', cell' \in [Keys -> CellRow],
           \A c \in Keys :
             /\ cell'[c].req = cell[c].req /\ cell'[c].pubRev = cell[c].pubRev
             /\ cell'[c].fp = cell[c].fp /\ cell'[c].obj = cell[c].obj
             /\ \/ cell'[c].rev = cell[c].rev + 1
                \/ /\ cell'[c].rev = cell[c].rev /\ facts'[c] = facts[c]
                   /\ cell[c].obj # None => cell[c].obj.supplier \notin catalog'.archived \ catalog.archived,
           UNCHANGED <<item, zip, run, exec, stored, late, garbage>>
    PROVE  Inv'
<1>1. RowTypes' /\ ItemsOK' /\ Calm /\ ExecTypes'
  BY NobodyMoves DEF RowTypes, ItemsOK, Inv, Jobbing, Calm
<1>2. RunsGrow
  BY DEF RunsGrow, Known, Inv, Jobbing, RowTypes, RunRow
<1>3. StepsOK' /\ UniqueOK' /\ \A o \in PdfObjects \cup ZipObjects : Spent(o) => Spent(o)'
  BY <1>1, <1>2, JobsMove DEF Inv, Calm
<1>4. NamesOK' /\ SpentOK'
  BY <1>3, NamesMove DEF Inv, Objects
<1>5. CandidatesOK'
  BY CandidatesMove DEF Inv, Objects, Candidate
<1>6. StoredOK' /\ ObjectsAccounted'
  BY DEF Inv, Objects, StoredOK, ObjectsAccounted, GarbageRow
<1>7. \A c \in Keys : cell[c].rev \in Nat /\ cell[c].pubRev \in Nat
  BY DEF Inv, Jobbing, RowTypes, CellRow
<1>8. SeenOK'
  <2>. SUFFICES ASSUME NEW w \in Executions, exec[w].pc \in Rendering
                PROVE  LET c == exec[w].job.of IN
                       /\ exec[w].seen \in SnapRow
                       /\ exec[w].seen.rev <= cell'[c].rev
                       /\ exec[w].seen.rev = cell'[c].rev =>
                            /\ exec[w].seen.fp.src = facts'[c].src
                            /\ exec[w].seen.rows = facts'[c].rows
                       /\ exec[w].pc # "publish" => exec[w].seen.rows
    BY DEF SeenOK
  <2>. DEFINE c == exec[w].job.of
  <2>1. c \in Keys
    BY AtPdf DEF Rendering, PdfSteps
  <2>2. /\ exec[w].seen \in SnapRow
        /\ exec[w].seen.rev <= cell[c].rev
        /\ exec[w].seen.rev = cell[c].rev =>
             /\ exec[w].seen.fp.src = facts[c].src
             /\ exec[w].seen.rows = facts[c].rows
        /\ exec[w].pc # "publish" => exec[w].seen.rows
    BY DEF Inv, Current, SeenOK
  <2>3. exec[w].seen.rev \in Nat
    BY <2>2 DEF SnapRow
  <2>. HIDE DEF c
  <2>4. CASE cell'[c].rev = cell[c].rev + 1
    <3>1. exec[w].seen.rev <= cell'[c].rev /\ exec[w].seen.rev # cell'[c].rev
      BY <1>7, <2>1, <2>2, <2>3, <2>4
    <3>. QED  BY <2>2, <3>1 DEF c
  <2>5. CASE cell'[c].rev = cell[c].rev /\ facts'[c] = facts[c]
    <3>1. /\ exec[w].seen.rev <= cell'[c].rev
          /\ exec[w].seen.rev = cell'[c].rev =>
               /\ exec[w].seen.fp.src = facts'[c].src
               /\ exec[w].seen.rows = facts'[c].rows
      BY <2>2, <2>5
    <3>. QED  BY <2>2, <3>1 DEF c
  <2>. QED  BY <2>1, <2>4, <2>5
<1>9. CurrentOK'
  <2>. SUFFICES ASSUME NEW c \in Keys
                PROVE  cell'[c].pubRev <= cell'[c].rev /\ (cell'[c].pubRev = cell'[c].rev => Shows(c)')
    BY DEF CurrentOK
  <2>1. cell[c].pubRev <= cell[c].rev /\ (cell[c].pubRev = cell[c].rev => Shows(c))
    BY DEF Inv, Current, CurrentOK
  <2>2. CASE cell'[c].rev = cell[c].rev + 1
    BY <1>7, <2>1, <2>2
  <2>3. CASE /\ cell'[c].rev = cell[c].rev /\ facts'[c] = facts[c]
             /\ cell[c].obj # None => cell[c].obj.supplier \notin catalog'.archived \ catalog.archived
    BY <2>1, <2>3 DEF Shows, SourcesAreCurrent
  <2>. QED  BY <2>2, <2>3
<1>. QED  BY <1>1, <1>3, <1>4, <1>5, <1>6, <1>8, <1>9 DEF Inv, Jobbing, Objects, Current

\* What marking cells changes of their rows.
LEMMA MarkedRows ==
    ASSUME Inv, NEW cs, MarkLedgerPartitionsChanged(cs)
    PROVE  /\ cell' \in [Keys -> CellRow]
           /\ \A c \in Keys :
                /\ cell'[c].req = cell[c].req /\ cell'[c].pubRev = cell[c].pubRev
                /\ cell'[c].fp = cell[c].fp /\ cell'[c].obj = cell[c].obj
                /\ cell'[c].rev = IF c \in cs THEN cell[c].rev + 1 ELSE cell[c].rev
<1>1. ASSUME NEW c \in Keys
      PROVE  /\ cell'[c] \in CellRow
             /\ cell'[c].req = cell[c].req /\ cell'[c].pubRev = cell[c].pubRev
             /\ cell'[c].fp = cell[c].fp /\ cell'[c].obj = cell[c].obj
             /\ cell'[c].rev = IF c \in cs THEN cell[c].rev + 1 ELSE cell[c].rev
  <2>1. cell[c] \in CellRow /\ cell[c].rev \in Nat
    BY DEF Inv, Jobbing, RowTypes, CellRow
  <2>2. PICK n \in Nat : n = cell[c].rev + 1
    BY <2>1
  <2>3. cell'[c] = IF c \in cs THEN [cell[c] EXCEPT !.rev = n] ELSE cell[c]
    BY <2>2 DEF MarkLedgerPartitionsChanged
  <2>. QED  BY <2>1, <2>2, <2>3 DEF CellRow
<1>. QED  BY <1>1 DEF MarkLedgerPartitionsChanged

LEMMA SourceChangesStep ==
    ASSUME Inv, NEW c \in Keys, NEW rows \in BOOLEAN, SourceChanges(c, rows)
    PROVE  Inv'
<1>1. /\ MarkLedgerPartitionsChanged({c})
      /\ UNCHANGED <<catalog, mode, item, zip, run, exec, stored, late, garbage>>
  BY DEF SourceChanges, jobVars, storeVars
<1>2. facts[c].src \in Nat
  BY DEF Inv, Jobbing, SourceTypes
<1>3. PICK n \in Nat : n = facts[c].src + 1
  BY <1>2
<1>4. facts' = [facts EXCEPT ![c] = [src |-> n, rows |-> rows]]
  BY <1>3 DEF SourceChanges
<1>5. facts' \in [Keys -> [src : Nat, rows : BOOLEAN]] /\ \A d \in Keys \ {c} : facts'[d] = facts[d]
  BY <1>4 DEF Inv, Jobbing, SourceTypes
<1>6. SourceTypes'
  BY <1>1, <1>5 DEF SourceTypes, Inv, Jobbing
<1>. QED  BY <1>1, <1>5, <1>6, MarkedRows, SourceStep

LEMMA CatalogSteps ==
    ASSUME Inv, CatalogReplaced \/ (\E d \in 1..catalog.newest : CatalogArchived(d)) \/ ModeChanges
    PROVE  Inv'
<1>0. catalog \in [newest : Nat, archived : SUBSET Nat]
  BY DEF Inv, Jobbing, SourceTypes
<1>1. CASE CatalogReplaced
  <2>1. PICK n \in Nat : n = catalog.newest + 1
    BY <1>0
  <2>2. catalog' = [catalog EXCEPT !.newest = n]
    BY <1>1, <2>1 DEF CatalogReplaced
  <2>3. catalog' \in [newest : Nat, archived : SUBSET Nat] /\ catalog'.archived = catalog.archived
    BY <1>0, <2>2
  <2>4. UNCHANGED <<facts, mode, cell, item, zip, run, exec, stored, late, garbage>>
    BY <1>1 DEF CatalogReplaced, jobVars, storeVars
  <2>5. SourceTypes' /\ cell' \in [Keys -> CellRow]
    BY <2>3, <2>4 DEF SourceTypes, RowTypes, Inv, Jobbing
  <2>. QED  BY <2>3, <2>4, <2>5, SourceStep
<1>2. ASSUME NEW d \in 1..catalog.newest, CatalogArchived(d)
      PROVE  Inv'
  <2>. DEFINE cs == {c \in Keys : cell[c].obj # None /\ cell[c].obj.supplier = d}
  <2>1. d \in Nat
    BY <1>0
  <2>2. catalog' = [catalog EXCEPT !.archived = catalog.archived \cup {d}]
    BY <1>2 DEF CatalogArchived
  <2>3. catalog' \in [newest : Nat, archived : SUBSET Nat] /\ catalog'.archived = catalog.archived \cup {d}
    BY <1>0, <2>1, <2>2
  <2>4. MarkLedgerPartitionsChanged(cs) /\ UNCHANGED <<facts, mode, item, zip, run, exec, stored, late, garbage>>
    BY <1>2 DEF CatalogArchived, jobVars, storeVars
  <2>5. SourceTypes'
    BY <2>3, <2>4 DEF SourceTypes, Inv, Jobbing
  <2>. QED  BY <2>3, <2>4, <2>5, MarkedRows, SourceStep
<1>3. CASE ModeChanges
  <2>1. UNCHANGED <<facts, catalog, cell, item, zip, run, exec, stored, late, garbage>> /\ mode' \in {"legacy", "enabled"}
    BY <1>3 DEF ModeChanges, jobVars, storeVars
  <2>2. SourceTypes' /\ cell' \in [Keys -> CellRow]
    BY <2>1 DEF SourceTypes, RowTypes, Inv, Jobbing
  <2>. QED  BY <2>1, <2>2, SourceStep
<1>. QED  BY <1>1, <1>2, <1>3

-----------------------------------------------------------------------------
(* A claim, and reading the sources *)

\* A field of an item of a cell.
LEMMA ItemField ==
    ASSUME NEW c, NEW g, NEW s, item' = [item EXCEPT ![c][g].status = s]
    PROVE  item' = [item EXCEPT ![c][g] = [item[c][g] EXCEPT !.status = s]]
OBVIOUS

LEMMA ClaimStep ==
    ASSUME Inv, NEW w \in Executions, NEW j \in Jobs, Claim(w, j)
    PROVE  Inv'
<1>. DEFINE p == CASE j.kind = "pdf" -> "read" [] j.kind = "zip" -> "select" [] OTHER -> "list"
            n == run[j].attempt + 1
            y == [Idle EXCEPT !.job = j, !.att = n, !.pc = p]
            r == [status |-> "running", attempt |-> n, live |-> TRUE]
<1>1. /\ run' = [run EXCEPT ![j] = r] /\ exec' = [exec EXCEPT ![w] = y]
      /\ exec[w].pc = "idle" /\ OwnerStatus(j) \in Pending
      /\ UNCHANGED <<facts, catalog, mode, cell, stored, late, garbage>>
  BY DEF Claim, At, sourceVars, storeVars
<1>2. run[j].attempt \in Nat /\ n \in Nat /\ n > run[j].attempt
  BY DEF Inv, Jobbing, RowTypes, RunRow
<1>3. /\ p = "read" <=> j.kind = "pdf"
      /\ p = "select" <=> j.kind = "zip"
      /\ p = "list" <=> j.kind = "scan"
      /\ p \in {"read", "select", "list"}
  BY JobKinds
<1>. HIDE DEF n, p
<1>4. IsExec(y) /\ y.job = j /\ y.att = n /\ y.pc = p
  <2>1. y \in ExecRow({None}, {<<>>}, {0}, {0}) /\ y.job = j /\ y.att = n /\ y.pc = p
    BY <1>2, <1>3 DEF Idle, ExecRow, PdfSteps, ZipSteps, ScanSteps
  <2>. QED  BY <2>1 DEF IsExec
<1>. HIDE DEF y
<1>5. ExecTypes' /\ exec'[w] = y /\ \A v \in Executions \ {w} : exec'[v] = exec[v]
  BY <1>1, <1>4, StepsTo DEF Inv, Jobbing
<1>6. /\ run' \in [Jobs -> RunRow] /\ run'[j].attempt = n
      /\ \A k \in Jobs : k # j => run'[k] = run[k]
  <2>1. r \in RunRow /\ r.attempt = n
    BY <1>2 DEF RunRow
  <2>. HIDE DEF r
  <2>. QED  BY <1>1, <2>1 DEF Inv, Jobbing, RowTypes
<1>7. \A k \in Jobs : run[k].attempt \in Nat /\ run[k].attempt <= run'[k].attempt
  BY <1>2, <1>6 DEF Inv, Jobbing, RowTypes, RunRow
<1>8. /\ item' \in [Keys -> [Gens -> ItemRow]]
      /\ \A d \in Keys, h \in Gens : item'[d][h].status # "none" <=> item[d][h].status # "none"
      /\ zip' \in [Zips -> ZipRow]
      /\ \A z \in Zips : zip'[z].key = zip[z].key /\ (zip'[z].status # "none" <=> zip[z].status # "none")
      /\ Known(j)
  <2>1. CASE j.kind = "pdf"
    <3>. DEFINE x == [item[j.of][j.gen] EXCEPT !.status = "running"]
    <3>1. j.of \in Keys /\ j.gen \in Gens /\ item[j.of][j.gen].status \in Pending
      BY <1>1, <2>1, JobKinds DEF OwnerStatus
    <3>2. /\ item' = [item EXCEPT ![j.of][j.gen] = x]
          /\ UNCHANGED zip
      <4>1. SetOwner(j, "running") /\ j.kind = "pdf"
        BY <2>1 DEF Claim
      <4>2. /\ item' = [item EXCEPT ![j.of][j.gen].status = "running"]
            /\ UNCHANGED zip
        BY <4>1 DEF SetOwner
      <4>. QED  BY <4>2, ItemField
    <3>3. x \in ItemRow /\ x.status # "none"
      <4>1. item[j.of][j.gen] \in ItemRow
        BY <3>1 DEF Inv, Jobbing, RowTypes
      <4>. QED  BY <4>1 DEF ItemRow
    <3>. HIDE DEF x
    <3>4. item[j.of][j.gen].status # "none"
      BY <3>1 DEF Pending
    <3>5. /\ item' \in [Keys -> [Gens -> ItemRow]]
          /\ \A d \in Keys, h \in Gens : item[d][h].status # "none" => item'[d][h].status # "none"
          /\ \A d \in Keys, h \in Gens : <<d, h>> # <<j.of, j.gen>> => item'[d][h] = item[d][h]
      BY <3>1, <3>2, <3>3, ItemTurns DEF Inv, Jobbing
    <3>6. \A d \in Keys, h \in Gens : item'[d][h].status # "none" <=> item[d][h].status # "none"
      BY <3>4, <3>5
    <3>. QED  BY <2>1, <3>2, <3>4, <3>5, <3>6 DEF Known, Inv, Jobbing, RowTypes
  <2>2. CASE j.kind = "zip"
    <3>. DEFINE x == [zip[j.of] EXCEPT !.status = "running"]
    <3>1. j.of \in Zips /\ zip[j.of].status \in Pending
      BY <1>1, <2>2, JobKinds DEF OwnerStatus
    <3>2. /\ zip' = [zip EXCEPT ![j.of] = x]
          /\ UNCHANGED item
      BY <2>2 DEF Claim, SetOwner
    <3>3. x \in ZipRow /\ x.status = "running" /\ x.key = zip[j.of].key
      BY <3>1 DEF Inv, Jobbing, RowTypes, ZipRow
    <3>. HIDE DEF x
    <3>4. zip[j.of].status # "none"
      BY <3>1 DEF Pending
    <3>. QED  BY <2>2, <3>1, <3>2, <3>3, <3>4 DEF Known, Inv, Jobbing, RowTypes
  <2>3. CASE j.kind = "scan"
    BY <2>3 DEF Claim, SetOwner, Known, Inv, Jobbing, RowTypes
  <2>. QED  BY <2>1, <2>2, <2>3, JobKinds
<1>9. RowTypes' /\ SourceTypes' /\ ItemsOK'
  BY <1>1, <1>6, <1>8 DEF RowTypes, SourceTypes, ItemsOK, Inv, Jobbing
<1>10. \A k \in Jobs : Known(k) => Known(k)'
  BY <1>7, <1>8, Requests DEF RunsGrow, Known
<1>11. StepsOK'
  <2>. SUFFICES ASSUME NEW v \in Executions, exec'[v].pc # "idle"
                PROVE  /\ exec'[v].job \in Jobs
                       /\ exec'[v].job.kind = "pdf" <=> exec'[v].pc \in PdfSteps
                       /\ exec'[v].job.kind = "zip" <=> exec'[v].pc \in ZipSteps
                       /\ \A k \in Jobs : exec'[v].job = k => Known(k)' /\ exec'[v].att <= run'[k].attempt
    BY DEF StepsOK
  <2>1. CASE v = w
    BY <1>2, <1>3, <1>4, <1>5, <1>6, <1>8, <1>10, <2>1 DEF PdfSteps, ZipSteps
  <2>2. CASE v # w
    <3>1. exec'[v] = exec[v] /\ exec[v].att \in Nat
      BY <1>5, <2>2 DEF Inv, Jobbing, ExecTypes, IsExec, ExecRow
    <3>2. /\ exec[v].job \in Jobs
          /\ exec[v].job.kind = "pdf" <=> exec[v].pc \in PdfSteps
          /\ exec[v].job.kind = "zip" <=> exec[v].pc \in ZipSteps
          /\ \A k \in Jobs : exec[v].job = k => Known(k) /\ exec[v].att <= run[k].attempt
      BY <3>1 DEF Inv, Jobbing, StepsOK
    <3>3. \A k \in Jobs : run'[k].attempt \in Nat
      BY <1>6 DEF RunRow
    <3>. QED  BY <1>7, <1>10, <3>1, <3>2, <3>3
  <2>. QED  BY <2>1, <2>2
<1>12. \A v \in Executions \ {w} : exec[v].pc # "idle" /\ exec[v].job = j => exec[v].att # n
  <2>1. \A v \in Executions \ {w} : exec[v].pc # "idle" /\ exec[v].job = j =>
          exec[v].att \in Nat /\ exec[v].att <= run[j].attempt
    BY DEF Inv, Jobbing, ExecTypes, IsExec, ExecRow, StepsOK
  <2>. QED  BY <1>2, <2>1
<1>13. UniqueOK'
  BY <1>4, <1>5, <1>12 DEF UniqueOK, Inv, Jobbing
<1>14. \A o \in PdfObjects \cup ZipObjects : Spent(o) => Spent(o)'
  <2>. SUFFICES ASSUME NEW o \in PdfObjects \cup ZipObjects, Spent(o)
                PROVE  Spent(o)'
    OBVIOUS
  <2>1. JobOf(o) \in Jobs /\ JobOf(o)' = JobOf(o) /\ o.att \in Nat
    <3>1. o.att \in Nat
      BY DEF PdfObjects, ZipObjects
    <3>. QED  BY <3>1, ObjectJobs DEF JobOf
  <2>2. Known(JobOf(o)) /\ o.att <= run[JobOf(o)].attempt
    BY DEF Spent
  <2>3. \A k \in Jobs : run'[k].attempt \in Nat
    BY <1>6 DEF RunRow
  <2>4. Known(JobOf(o))' /\ o.att <= run'[JobOf(o)].attempt
    <3>1. Known(JobOf(o))'
      BY <1>10, <2>1, <2>2 DEF Known
    <3>. QED  BY <1>7, <2>1, <2>2, <2>3, <3>1
  <2>5. JobOf(o) = j => o.att # n
    BY <1>2, <2>1, <2>2
  <2>6. \A v \in Executions : exec'[v].job = JobOf(o) /\ exec'[v].att = o.att => exec'[v].pc \notin Writing
    BY <1>4, <1>5, <2>5 DEF Spent
  <2>. QED  BY <2>1, <2>4, <2>6 DEF Spent
<1>15. NamesOK' /\ SpentOK'
  BY <1>1, <1>8, <1>14, NamesMove DEF Inv, Objects
<1>16. \A v \in Executions : exec'[v].pc \in Rendering \cup {"zput"} => exec'[v] = exec[v]
  BY <1>3, <1>4, <1>5 DEF Rendering
<1>17. CandidatesOK'
  BY <1>1, <1>16, CandidatesMove DEF Inv, Objects, Candidate, Rendering
<1>18. StoredOK' /\ ObjectsAccounted'
  BY <1>1 DEF Inv, Objects, StoredOK, ObjectsAccounted, GarbageRow
<1>19. SeenOK'
  BY <1>1, <1>16, SeenMove DEF Inv, Jobbing, Current
<1>20. CurrentOK'
  BY <1>1, CurrentMove DEF Inv, Current
<1>. QED  BY <1>5, <1>9, <1>11, <1>13, <1>15, <1>17, <1>18, <1>19, <1>20 DEF Inv, Jobbing, Objects, Current


\* The newest catalogue that is not archived.
LEMMA CatalogTyped ==
    ASSUME SourceTypes
    PROVE  CurrentCatalog \in Nat
<1>. DEFINE S == {0} \cup ((1..catalog.newest) \ catalog.archived)
            T == {n \in Nat : \A x \in S : x <= n}
<1>1. catalog.newest \in Nat
  BY DEF SourceTypes
<1>2. S \subseteq Nat /\ 0 \in S /\ catalog.newest \in T
  BY <1>1
<1>3. PICK n \in T : \A m \in T : ~(<<m, n>> \in OpToRel(<, Nat))
  BY <1>2, NatLessThanWellFounded, WFMin
<1>4. n \in Nat /\ \A x \in S : x <= n
  OBVIOUS
<1>5. n \in S
  <2>. SUFFICES ASSUME n \notin S
                PROVE  FALSE
    OBVIOUS
  <2>1. n # 0 /\ n - 1 \in Nat
    BY <1>2, <1>4
  <2>2. \A x \in S : x <= n - 1
    BY <1>2, <1>4, <2>1
  <2>3. n - 1 \in T
    BY <2>1, <2>2
  <2>4. <<n - 1, n>> \in OpToRel(<, Nat)
    BY <1>4, <2>1 DEF OpToRel
  <2>. QED  BY <1>3, <2>3, <2>4
<1>6. \E x \in S : \A y \in S : x >= y
  <2>1. \A y \in S : n >= y
    BY <1>2, <1>4
  <2>. QED  BY <1>5, <2>1
<1>7. Max(S) \in S
  BY <1>6 DEF Max
<1>. QED  BY <1>2, <1>7 DEF CurrentCatalog

LEMMA ReadStep ==
    ASSUME Inv, NEW w \in Executions, ReadSnapshot(w)
    PROVE  Inv'
<1>. DEFINE c == exec[w].job.of
            s == Snapshot(c)
            p == IF s.rows THEN "register" ELSE "publish"
            y == [exec[w] EXCEPT !.seen = s, !.pc = p]
<1>0. exec[w].pc = "read" /\ exec[w].pc \in PdfSteps
  BY DEF ReadSnapshot, At, PdfSteps
<1>1. /\ exec' = [exec EXCEPT ![w] = y]
      /\ UNCHANGED <<facts, catalog, mode, cell, item, zip, run, stored, late, garbage>>
  BY DEF ReadSnapshot, sourceVars, jobVars, storeVars
<1>2. c \in Keys
  BY <1>0, AtPdf
<1>3. /\ s \in SnapRow /\ s.rev = cell[c].rev /\ s.fp.src = facts[c].src /\ s.rows = facts[c].rows
  <2>1. cell[c].rev \in Nat
    BY <1>2 DEF Inv, Jobbing, RowTypes, CellRow
  <2>2. Fingerprint(c) \in Fingerprints /\ Fingerprint(c).src = facts[c].src /\ facts[c].rows \in BOOLEAN
    BY <1>2 DEF Fingerprint, Fingerprints, Inv, Jobbing, SourceTypes
  <2>3. CurrentCatalog \in Nat
    BY CatalogTyped DEF Inv, Jobbing
  <2>. QED  BY <2>1, <2>2, <2>3 DEF Snapshot, SnapRow
<1>4. p \in {"register", "publish"} /\ (p # "publish" => s.rows)
  OBVIOUS
<1>5. PICK S, T, N, B : exec[w] \in ExecRow(S, T, N, B)
  BY DEF Inv, Jobbing, ExecTypes, IsExec
<1>. HIDE DEF s, p
<1>6. /\ y \in ExecRow(S \cup {s}, T, N, B) /\ y.job = exec[w].job /\ y.att = exec[w].att
      /\ y.pc = p /\ y.seen = s
  BY <1>4, <1>5 DEF ExecRow, PdfSteps
<1>. HIDE DEF y
<1>7. ExecTypes' /\ exec'[w] = y /\ \A v \in Executions \ {w} : exec'[v] = exec[v]
  BY <1>1, <1>6, StepsTo DEF Inv, Jobbing, IsExec
<1>8. ExecsMove
  BY <1>0, <1>4, <1>6, <1>7 DEF ExecsMove, Move, PdfSteps, ZipSteps, Writing
<1>9. RunsGrow
  BY <1>1 DEF RunsGrow, Known, Inv, Jobbing, RowTypes, RunRow
<1>10. SourceTypes' /\ RowTypes' /\ ItemsOK'
  BY <1>1 DEF SourceTypes, RowTypes, ItemsOK, Inv, Jobbing
<1>11. StepsOK' /\ UniqueOK' /\ \A o \in PdfObjects \cup ZipObjects : Spent(o) => Spent(o)'
  BY <1>7, <1>8, <1>9, <1>10, JobsMove DEF Inv
<1>12. NamesOK' /\ SpentOK'
  BY <1>1, <1>11, NamesMove DEF Inv, Objects
<1>13. CandidatesOK'
  BY <1>1, <1>4, <1>6, <1>7, CandidatesMove DEF Inv, Objects, Candidate
<1>14. StoredOK' /\ ObjectsAccounted'
  BY <1>1 DEF Inv, Objects, StoredOK, ObjectsAccounted, GarbageRow
<1>15. SeenOK'
  <2>. SUFFICES ASSUME NEW v \in Executions, exec'[v].pc \in Rendering
                PROVE  /\ exec'[v].seen \in SnapRow
                       /\ exec'[v].seen.rev <= cell[exec'[v].job.of].rev
                       /\ exec'[v].seen.rev = cell[exec'[v].job.of].rev =>
                            /\ exec'[v].seen.fp.src = facts[exec'[v].job.of].src
                            /\ exec'[v].seen.rows = facts[exec'[v].job.of].rows
                       /\ exec'[v].pc # "publish" => exec'[v].seen.rows
    BY <1>1 DEF SeenOK
  <2>1. CASE v = w
    <3>1. cell[c].rev \in Nat
      BY <1>2 DEF Inv, Jobbing, RowTypes, CellRow
    <3>. QED  BY <1>3, <1>4, <1>6, <1>7, <2>1, <3>1
  <2>2. CASE v # w
    BY <1>7, <2>2 DEF Inv, Current, SeenOK
  <2>. QED  BY <2>1, <2>2
<1>16. CurrentOK'
  BY <1>1, CurrentMove DEF Inv, Current
<1>. QED  BY <1>7, <1>10, <1>11, <1>12, <1>13, <1>14, <1>15, <1>16 DEF Inv, Jobbing, Objects, Current


-----------------------------------------------------------------------------
(* Writing and naming objects *)

\* An execution at a step of its attempt writes no object of another attempt, and
\* no object that an attempt has finished with.
LEMMA Writer ==
    ASSUME Inv, NEW w \in Executions, NEW o \in PdfObjects \cup ZipObjects, Writes(w, o)
    PROVE  JobOf(o) = exec[w].job /\ o.att = exec[w].att /\ exec[w].pc \in Writing /\ ~Spent(o) /\ ~Named(o)
<1>1. CASE exec[w].pc = "put" /\ PdfKey(w) = o
  <2>1. exec[w].pc \in Rendering
    BY <1>1 DEF Rendering
  <2>2. JobOf(o) = exec[w].job /\ o.att = exec[w].att
    BY <1>1, <2>1, KeysOfExecutions DEF Inv, Jobbing, Current
  <2>. QED  BY <1>1, <2>2 DEF Spent, Writing, Inv, Objects, SpentOK
<1>2. CASE exec[w].pc = "zput" /\ ZipKey(w) = o
  <2>1. JobOf(o) = exec[w].job /\ o.att = exec[w].att
    BY <1>2, KeysOfExecutions DEF Inv, Jobbing, Current
  <2>. QED  BY <1>2, <2>1 DEF Spent, Writing, Inv, Objects, SpentOK
<1>. QED  BY <1>1, <1>2 DEF Writes

\* The attempt of w ends: its object is written by nobody any more.
LEMMA Finishing ==
    ASSUME Inv, NEW w \in Executions, exec[w].pc \in Writing,
           NEW o \in PdfObjects \cup ZipObjects, JobOf(o) = exec[w].job, o.att = exec[w].att,
           RunsGrow, RowTypes', ExecTypes',
           exec'[w].pc \notin Writing, \A v \in Executions \ {w} : exec'[v] = exec[v]
    PROVE  ~Named(o) /\ Spent(o)' /\ \A v \in Executions \ {w} : ~Writes(v, o)
<1>1. exec[w].pc # "idle"
  BY DEF Writing
<1>2. Known(exec[w].job) /\ exec[w].att <= run[exec[w].job].attempt /\ exec[w].job \in Jobs
  BY <1>1 DEF Inv, Jobbing, StepsOK
<1>3. ~Spent(o)
  BY DEF Spent
<1>4. ~Named(o)
  BY <1>3 DEF Inv, Objects, SpentOK
<1>5. ASSUME NEW v \in Executions \ {w}, exec[v].job = exec[w].job, exec[v].att = exec[w].att
      PROVE  exec[v].pc = "idle"
  BY <1>1, <1>5 DEF Inv, Jobbing, UniqueOK
<1>6. \A v \in Executions \ {w} : ~Writes(v, o)
  <2>. SUFFICES ASSUME NEW v \in Executions \ {w}, Writes(v, o)
                PROVE  FALSE
    OBVIOUS
  <2>1. JobOf(o) = exec[v].job /\ o.att = exec[v].att /\ exec[v].pc \in Writing
    BY Writer
  <2>. QED  BY <1>5, <2>1 DEF Writing
<1>7. Spent(o)'
  <2>1. JobOf(o)' = JobOf(o) /\ o.att \in Nat /\ exec[w].job # Scan
    <3>1. o.att \in Nat
      BY DEF PdfObjects, ZipObjects
    <3>. QED  BY <3>1, ObjectJobs, JobKinds DEF JobOf
  <2>6. PICK j \in Jobs : j = exec[w].job
    BY <1>2
  <2>2. Known(j)' /\ run[j].attempt <= run'[j].attempt
    BY <1>2, <2>1, <2>6 DEF RunsGrow
  <2>3. run[j].attempt \in Nat /\ run'[j].attempt \in Nat
    BY <2>6 DEF Inv, Jobbing, RowTypes, RunRow
  <2>4. Known(JobOf(o))' /\ o.att <= run'[JobOf(o)].attempt
    <3>1. Known(JobOf(o))'
      BY <2>1, <2>2, <2>6 DEF Known
    <3>. QED  BY <1>2, <2>1, <2>2, <2>3, <2>6, <3>1
  <2>5. \A v \in Executions : exec'[v].job = JobOf(o) /\ exec'[v].att = o.att => exec'[v].pc \notin Writing
    BY <1>5 DEF Writing
  <2>. QED  BY <2>1, <2>4, <2>5 DEF Spent
<1>. QED  BY <1>4, <1>6, <1>7

\* Queueing an object as garbage removes no other object's row.
LEMMA Queueing ==
    ASSUME NEW o, o # None, NEW row, garbage' = WithGarbage(o, row)
    PROVE  /\ GarbageRow(o)' # {} /\ [obj |-> o, row |-> row] \in garbage'
           /\ \A x : GarbageRow(x) # {} => GarbageRow(x)' # {}
           /\ \A x : x # o /\ Candidate(x) => Candidate(x)'
<1>1. garbage' = {x \in garbage : x.obj # o} \cup {[obj |-> o, row |-> row]}
  BY DEF WithGarbage
<1>2. [obj |-> o, row |-> row].obj = o
  OBVIOUS
<1>3. \A x : GarbageRow(x)' = {y \in garbage' : y.obj = x}
  BY DEF GarbageRow
<1>4. [obj |-> o, row |-> row] \in GarbageRow(o)'
  BY <1>1, <1>2, <1>3
<1>5. ASSUME NEW x, GarbageRow(x) # {}, x # o
      PROVE  GarbageRow(x)' # {}
  <2>1. PICK y \in garbage : y.obj = x
    BY <1>5 DEF GarbageRow
  <2>2. y \in GarbageRow(x)'
    BY <1>1, <1>3, <1>5, <2>1
  <2>. QED  BY <2>2
<1>6. \A x : x # o /\ Candidate(x) => Candidate(x)'
  BY <1>1 DEF Candidate
<1>. QED  BY <1>1, <1>4, <1>5, <1>6

\* A key is registered before it is written.
LEMMA Registering ==
    ASSUME Inv, NEW w \in Executions, NEW o \in PdfObjects \cup ZipObjects, garbage' = WithGarbage(o, "candidate"),
           \/ exec[w].pc = "register" /\ Goto(w, "put") /\ PdfKey(w) = o
           \/ exec[w].pc = "select" /\ Goto(w, "zput") /\ ZipKey(w) = o,
           UNCHANGED <<facts, catalog, mode, cell, item, zip, run, stored, late>>
    PROVE  Inv'
<1>1. o # None
  BY ObjectJobs
<1>2. /\ ExecTypes' /\ (\A v \in Executions \ {w} : exec'[v] = exec[v])
      /\ exec'[w].job = exec[w].job /\ exec'[w].att = exec[w].att
      /\ exec'[w].seen = exec[w].seen /\ exec'[w].tries = exec[w].tries
      /\ \/ exec[w].pc = "register" /\ exec'[w].pc = "put" /\ PdfKey(w) = o
         \/ exec[w].pc = "select" /\ exec'[w].pc = "zput" /\ ZipKey(w) = o
  <2>1. "put" \in PdfSteps /\ "zput" \in ZipSteps
    BY DEF PdfSteps, ZipSteps
  <2>. QED  BY <2>1, Goes DEF Inv, Jobbing
<1>3. ExecsMove
  BY <1>2 DEF ExecsMove, Move, PdfSteps, ZipSteps, Writing
<1>4. RunsGrow
  BY DEF RunsGrow, Known, Inv, Jobbing, RowTypes, RunRow
<1>5. SourceTypes' /\ RowTypes' /\ ItemsOK'
  BY DEF SourceTypes, RowTypes, ItemsOK, Inv, Jobbing
<1>6. StepsOK' /\ UniqueOK' /\ \A x \in PdfObjects \cup ZipObjects : Spent(x) => Spent(x)'
  BY <1>2, <1>3, <1>4, <1>5, JobsMove DEF Inv
<1>7. NamesOK' /\ SpentOK'
  BY <1>6, NamesMove DEF Inv, Objects
<1>8. \A x : Candidate(x) => Candidate(x)'
  BY <1>1, Queueing DEF Candidate
<1>9. CandidatesOK'
  <2>. SUFFICES ASSUME NEW x \in PdfObjects \cup ZipObjects, x \in late \/ \E v \in Executions : Writes(v, x)'
                PROVE  Candidate(x)'
    BY DEF CandidatesOK
  <2>1. CASE x \in late
    BY <1>8, <2>1 DEF Inv, Objects, CandidatesOK
  <2>2. ASSUME NEW v \in Executions, Writes(v, x)'
        PROVE  Candidate(x)'
    <3>1. CASE v = w
      <4>1. x = o
        BY <1>2, <2>2, <3>1 DEF Writes, PdfKey, ZipKey
      <4>. QED  BY <1>1, <4>1, Queueing DEF Candidate
    <3>2. CASE v # w
      <4>1. Writes(v, x)
        BY <1>2, <2>2, <3>2 DEF Writes, PdfKey, ZipKey
      <4>. QED  BY <1>8, <4>1 DEF Inv, Objects, CandidatesOK
    <3>. QED  BY <3>1, <3>2
  <2>. QED  BY <2>1, <2>2
<1>10. StoredOK' /\ ObjectsAccounted'
  <2>1. \A x : GarbageRow(x) # {} => GarbageRow(x)' # {}
    BY <1>1, Queueing
  <2>. QED  BY <2>1 DEF Inv, Objects, StoredOK, ObjectsAccounted, GarbageRow
<1>11. SeenOK'
  BY <1>2, SeenMove DEF Inv, Jobbing, Current, Rendering
<1>12. CurrentOK'
  BY CurrentMove DEF Inv, Current
<1>. QED  BY <1>2, <1>5, <1>6, <1>7, <1>9, <1>10, <1>11, <1>12 DEF Inv, Jobbing, Objects, Current

LEMMA RegisterSteps ==
    ASSUME Inv, NEW w \in Executions, RegisterCandidate(w) \/ (SelectBundle(w) /\ Captured(w))
    PROVE  Inv'
<1>1. CASE RegisterCandidate(w)
  <2>1. exec[w].pc = "register" /\ exec[w].pc \in Rendering
    BY <1>1 DEF RegisterCandidate, At, Rendering
  <2>2. PdfKey(w) \in PdfObjects
    BY <2>1, KeysOfExecutions DEF Inv, Jobbing, Current
  <2>3. /\ garbage' = WithGarbage(PdfKey(w), "candidate") /\ Goto(w, "put")
        /\ UNCHANGED <<facts, catalog, mode, cell, item, zip, run, stored, late>>
    BY <1>1 DEF RegisterCandidate, sourceVars, jobVars
  <2>. QED  BY <2>1, <2>2, <2>3, Registering
<1>2. CASE SelectBundle(w) /\ Captured(w)
  <2>1. exec[w].pc = "select"
    BY <1>2 DEF SelectBundle, At
  <2>2. ZipKey(w) \in ZipObjects
    BY <2>1, KeysOfExecutions DEF Inv, Jobbing, Current
  <2>3. /\ garbage' = WithGarbage(ZipKey(w), "candidate") /\ Goto(w, "zput")
        /\ UNCHANGED <<facts, catalog, mode, cell, item, zip, run, stored, late>>
    BY <1>2 DEF SelectBundle, sourceVars, jobVars
  <2>. QED  BY <2>1, <2>2, <2>3, Registering
<1>. QED  BY <1>1, <1>2


\* An object that is written has been registered.
LEMMA Putting ==
    ASSUME Inv, NEW w \in Executions, NEW o \in PdfObjects \cup ZipObjects, Writes(w, o), stored' = stored \cup {o},
           \/ exec[w].pc = "put" /\ Goto(w, "publish")
           \/ exec[w].pc = "zput" /\ Goto(w, "complete"),
           UNCHANGED <<facts, catalog, mode, cell, item, zip, run, late, garbage>>
    PROVE  Inv'
<1>1. /\ ExecTypes' /\ (\A v \in Executions \ {w} : exec'[v] = exec[v])
      /\ exec'[w].job = exec[w].job /\ exec'[w].att = exec[w].att
      /\ exec'[w].seen = exec[w].seen
      /\ \/ exec[w].pc = "put" /\ exec'[w].pc = "publish"
         \/ exec[w].pc = "zput" /\ exec'[w].pc = "complete"
  <2>1. "publish" \in PdfSteps /\ "complete" \in ZipSteps
    BY DEF PdfSteps, ZipSteps
  <2>. QED  BY <2>1, Goes DEF Inv, Jobbing
<1>2. ExecsMove
  BY <1>1 DEF ExecsMove, Move, PdfSteps, ZipSteps, Writing
<1>3. RunsGrow
  BY DEF RunsGrow, Known, Inv, Jobbing, RowTypes, RunRow
<1>4. SourceTypes' /\ RowTypes' /\ ItemsOK'
  BY DEF SourceTypes, RowTypes, ItemsOK, Inv, Jobbing
<1>5. StepsOK' /\ UniqueOK' /\ \A x \in PdfObjects \cup ZipObjects : Spent(x) => Spent(x)'
  BY <1>1, <1>2, <1>3, <1>4, JobsMove DEF Inv
<1>6. NamesOK' /\ SpentOK'
  BY <1>5, NamesMove DEF Inv, Objects
<1>7. CandidatesOK'
  BY <1>1, CandidatesMove DEF Inv, Objects, Candidate
<1>8. StoredOK' /\ ObjectsAccounted'
  <2>1. [obj |-> o, row |-> "candidate"] \in garbage
    BY DEF Inv, Objects, CandidatesOK, Candidate
  <2>2. GarbageRow(o) # {}
    <3>1. [obj |-> o, row |-> "candidate"].obj = o
      OBVIOUS
    <3>. QED  BY <2>1, <3>1 DEF GarbageRow
  <2>. QED  BY <2>2 DEF Inv, Objects, StoredOK, ObjectsAccounted, GarbageRow
<1>9. SeenOK'
  BY <1>1, SeenMove DEF Inv, Jobbing, Current, Rendering
<1>10. CurrentOK'
  BY CurrentMove DEF Inv, Current
<1>. QED  BY <1>1, <1>4, <1>5, <1>6, <1>7, <1>8, <1>9, <1>10 DEF Inv, Jobbing, Objects, Current

LEMMA PutSteps ==
    ASSUME Inv, NEW w \in Executions, Put(w) \/ (PutBundle(w) /\ Captured(w))
    PROVE  Inv'
<1>1. CASE Put(w)
  <2>1. exec[w].pc = "put" /\ exec[w].pc \in Rendering
    BY <1>1 DEF Put, At, Rendering
  <2>2. PdfKey(w) \in PdfObjects
    BY <2>1, KeysOfExecutions DEF Inv, Jobbing, Current
  <2>3. UNCHANGED <<facts, catalog, mode, cell, item, zip, run, late, garbage>>
    BY <1>1 DEF Put, sourceVars, jobVars
  <2>4. CASE stored' = stored \cup {PdfKey(w)} /\ Goto(w, "publish")
    BY <2>1, <2>2, <2>3, <2>4, Putting DEF Writes
  <2>5. CASE Goto(w, "retry") /\ UNCHANGED stored
    BY <2>1, <2>3, <2>5, GoingOn
  <2>. QED  BY <1>1, <2>4, <2>5 DEF Put
<1>2. CASE PutBundle(w) /\ Captured(w)
  <2>1. exec[w].pc = "zput"
    BY <1>2 DEF PutBundle, At
  <2>2. ZipKey(w) \in ZipObjects
    BY <2>1, KeysOfExecutions DEF Inv, Jobbing, Current
  <2>3. /\ stored' = stored \cup {ZipKey(w)} /\ Goto(w, "complete")
        /\ UNCHANGED <<facts, catalog, mode, cell, item, zip, run, late, garbage>>
    BY <1>2 DEF PutBundle, sourceVars, jobVars
  <2>. QED  BY <2>1, <2>2, <2>3, Putting DEF Writes
<1>. QED  BY <1>1, <1>2

\* The upload of a ZIP is given up and may still land.
LEMMA GivingUpUpload ==
    ASSUME Inv, NEW w \in Executions, exec[w].pc = "zput", AbortBundle(w) \/ Crash(w)
    PROVE  Inv'
<1>0. PICK o : o = ZipKey(w)
  OBVIOUS
<1>1. /\ late' = late \cup {o}
      /\ UNCHANGED <<facts, catalog, mode, cell, item, zip, run, stored, garbage>>
  BY <1>0 DEF AbortBundle, Crash, At, sourceVars, jobVars
<1>2. PICK s \in {"idle", "zfail"} : Goto(w, s)
  BY DEF AbortBundle, Crash
<1>3. /\ ExecTypes' /\ (\A v \in Executions \ {w} : exec'[v] = exec[v]) /\ exec'[w].pc = s
      /\ s = "zfail" => exec'[w].job = exec[w].job /\ exec'[w].att = exec[w].att
  <2>1. s \in {"idle"} \cup PdfSteps \cup ZipSteps \cup ScanSteps
    BY DEF ZipSteps
  <2>. QED  BY <1>2, <2>1, Goes DEF Inv, Jobbing
<1>4. o \in ZipObjects /\ JobOf(o) = exec[w].job /\ o.att = exec[w].att
  BY <1>0, KeysOfExecutions DEF Inv, Jobbing, Current
<1>5. ExecsMove
  BY <1>3 DEF ExecsMove, Move, PdfSteps, ZipSteps, Writing
<1>6. RunsGrow
  BY <1>1 DEF RunsGrow, Known, Inv, Jobbing, RowTypes, RunRow
<1>7. SourceTypes' /\ RowTypes' /\ ItemsOK'
  BY <1>1 DEF SourceTypes, RowTypes, ItemsOK, Inv, Jobbing
<1>8. StepsOK' /\ UniqueOK' /\ \A x \in PdfObjects \cup ZipObjects : Spent(x) => Spent(x)'
  BY <1>3, <1>5, <1>6, <1>7, JobsMove DEF Inv
<1>9. Candidate(o)
  BY <1>0, <1>4 DEF Inv, Objects, CandidatesOK, Writes
<1>10. ~Named(o) /\ Spent(o)'
  BY <1>3, <1>4, <1>6, <1>7, Finishing DEF Writing
<1>11. NamesOK'
  BY <1>1, <1>4, <1>10, ObjectJobs DEF NamesOK, Named, Inv, Objects
<1>12. SpentOK'
  <2>1. \A x : Named(x)' => Named(x) \/ x = o
    BY <1>1 DEF Named
  <2>. QED  BY <1>8, <1>10, <2>1 DEF SpentOK, Inv, Objects
<1>13. CandidatesOK'
  <2>1. \A x \in PdfObjects \cup ZipObjects, v \in Executions : Writes(v, x)' => Writes(v, x)
    BY <1>3 DEF Writes, PdfKey, ZipKey
  <2>. QED  BY <1>1, <1>9, <2>1 DEF CandidatesOK, Candidate, Inv, Objects
<1>14. StoredOK' /\ ObjectsAccounted'
  <2>1. GarbageRow(o) # {}
    <3>1. [obj |-> o, row |-> "candidate"].obj = o
      OBVIOUS
    <3>. QED  BY <1>9, <3>1 DEF Candidate, GarbageRow
  <2>. QED  BY <1>1, <2>1 DEF Inv, Objects, StoredOK, ObjectsAccounted, GarbageRow
<1>15. SeenOK'
  BY <1>1, <1>3, SeenMove DEF Inv, Jobbing, Current, Rendering
<1>16. CurrentOK'
  BY <1>1, CurrentMove DEF Inv, Current
<1>. QED  BY <1>3, <1>7, <1>8, <1>11, <1>12, <1>13, <1>14, <1>15, <1>16 DEF Inv, Jobbing, Objects, Current

\* A step of storage and garbage, with no execution and no job in it.
LEMMA StorageStep ==
    ASSUME Inv, UNCHANGED <<facts, catalog, mode, cell, item, run, exec>>,
           zip' \in [Zips -> ZipRow],
           \A z \in Zips : zip'[z].status = zip[z].status /\ zip'[z].key \in {zip[z].key, None},
           late' \subseteq late, CandidatesOK', StoredOK', ObjectsAccounted'
    PROVE  Inv'
<1>1. SourceTypes' /\ RowTypes' /\ ItemsOK' /\ Calm /\ ExecTypes' /\ ExecsMove
  BY NobodyMoves DEF SourceTypes, RowTypes, ItemsOK, Inv, Jobbing, Calm
<1>2. RunsGrow
  <2>1. \A k \in Jobs : run[k].attempt <= run'[k].attempt
    BY DEF Inv, Jobbing, RowTypes, RunRow
  <2>. QED  BY <2>1, Requests
<1>3. StepsOK' /\ UniqueOK' /\ \A x \in PdfObjects \cup ZipObjects : Spent(x) => Spent(x)'
  BY <1>1, <1>2, JobsMove DEF Inv
<1>4. NamesOK' /\ SpentOK'
  BY <1>3, NamesMove DEF Inv, Objects
<1>5. SeenOK'
  BY SeenMove DEF Inv, Jobbing, Current
<1>6. CurrentOK'
  BY CurrentMove DEF Inv, Current
<1>. QED  BY <1>1, <1>3, <1>4, <1>5, <1>6 DEF Inv, Jobbing, Objects, Current

LEMMA LateWriteStep ==
    ASSUME Inv, NEW k \in late, LateWrite(k)
    PROVE  Inv'
<1>1. /\ stored' = stored \cup {k} /\ late' = late \ {k}
      /\ UNCHANGED <<facts, catalog, mode, cell, item, zip, run, exec, garbage>>
  BY DEF LateWrite, sourceVars, jobVars
<1>2. late \subseteq ZipObjects
  BY DEF Inv, Objects, NamesOK
<1>3. CandidatesOK'
  <2>1. \A x, v : Writes(v, x)' => Writes(v, x)
    BY <1>1 DEF Writes, PdfKey, ZipKey
  <2>. QED  BY <1>1, <2>1 DEF CandidatesOK, Candidate, Inv, Objects
<1>4. StoredOK' /\ ObjectsAccounted'
  BY <1>1, <1>2 DEF StoredOK, ObjectsAccounted, GarbageRow, Inv, Objects
<1>5. zip' \in [Zips -> ZipRow]
  BY <1>1 DEF Inv, Jobbing, RowTypes
<1>. QED  BY <1>1, <1>3, <1>4, <1>5, StorageStep

LEMMA GcDeleteStep ==
    ASSUME Inv, GcDelete
    PROVE  Inv'
<1>1. /\ stored' = stored \ {gc.obj} /\ garbage' = garbage \ {x \in GarbageRow(gc.obj) : x.row # "candidate"}
      /\ UNCHANGED <<facts, catalog, mode, cell, item, zip, run, exec, late>>
  BY DEF GcDelete, sourceVars, jobVars
<1>2. \A x : Candidate(x) => Candidate(x)'
  <2>1. \A x : [obj |-> x, row |-> "candidate"].row = "candidate"
    OBVIOUS
  <2>. QED  BY <1>1, <2>1 DEF Candidate, GarbageRow
<1>3. CandidatesOK'
  <2>1. \A x, v : Writes(v, x)' => Writes(v, x)
    BY <1>1 DEF Writes, PdfKey, ZipKey
  <2>. QED  BY <1>1, <1>2, <2>1 DEF CandidatesOK, Inv, Objects
<1>4. StoredOK'
  BY <1>1 DEF StoredOK, Inv, Objects
<1>5. ObjectsAccounted'
  <2>. SUFFICES ASSUME NEW o \in stored' \cup late, \A c \in Keys : cell[c].obj # o
                PROVE  GarbageRow(o)' # {}
    BY <1>1 DEF ObjectsAccounted
  <2>1. CASE o \in late
    <3>1. Candidate(o)'
      BY <1>2, <2>1 DEF Inv, Objects, NamesOK, CandidatesOK
    <3>2. [obj |-> o, row |-> "candidate"].obj = o
      OBVIOUS
    <3>. QED  BY <3>1, <3>2 DEF Candidate, GarbageRow
  <2>2. CASE o \in stored'
    <3>1. o \in stored /\ o # gc.obj
      BY <1>1, <2>2
    <3>2. GarbageRow(o) # {}
      BY <3>1 DEF Inv, Objects, ObjectsAccounted
    <3>3. PICK y \in garbage : y.obj = o
      BY <3>2 DEF GarbageRow
    <3>4. y \in garbage'
      BY <1>1, <3>1, <3>3 DEF GarbageRow
    <3>. QED  BY <3>3, <3>4 DEF GarbageRow
  <2>. QED  BY <2>1, <2>2
<1>6. zip' \in [Zips -> ZipRow]
  BY <1>1 DEF Inv, Jobbing, RowTypes
<1>. QED  BY <1>1, <1>3, <1>4, <1>5, <1>6, StorageStep

LEMMA EnqueueExpiredStep ==
    ASSUME Inv, NEW z \in Zips, EnqueueExpiredBundle(z)
    PROVE  Inv'
<1>. DEFINE k == zip[z].key
            y == [zip[z] EXCEPT !.key = None]
<1>1. /\ k # None /\ garbage' = WithGarbage(k, "replaced") /\ zip' = [zip EXCEPT ![z] = y]
      /\ UNCHANGED <<facts, catalog, mode, cell, item, run, exec, stored, late>>
  BY DEF EnqueueExpiredBundle, sourceVars
<1>2. zip[z] \in ZipRow
  BY DEF Inv, Jobbing, RowTypes
<1>3. y \in ZipRow /\ y.key = None /\ y.status = zip[z].status
  BY <1>2 DEF ZipRow
<1>4. k \in ZipObjects /\ k \notin late /\ Named(k)
  <2>1. k \in ZipObjects
    BY <1>1, <1>2 DEF ZipRow
  <2>. QED  BY <1>1, <2>1 DEF NamesOK, Named, Inv, Objects
<1>. HIDE DEF y, k
<1>5. /\ zip' \in [Zips -> ZipRow]
      /\ \A x \in Zips : zip'[x].status = zip[x].status /\ zip'[x].key \in {zip[x].key, None}
  BY <1>1, <1>3 DEF Inv, Jobbing, RowTypes
<1>6. CandidatesOK'
  <2>. SUFFICES ASSUME NEW x \in PdfObjects \cup ZipObjects, x \in late \/ \E v \in Executions : Writes(v, x)'
                PROVE  Candidate(x)'
    BY <1>1 DEF CandidatesOK
  <2>1. x \in late \/ \E v \in Executions : Writes(v, x)
    BY <1>1 DEF Writes, PdfKey, ZipKey
  <2>2. x # k /\ Candidate(x)
    BY <1>4, <2>1, Writer DEF CandidatesOK, Inv, Objects
  <2>. QED  BY <1>1, <2>2, Queueing
<1>7. StoredOK' /\ ObjectsAccounted'
  <2>1. \A x : GarbageRow(x) # {} => GarbageRow(x)' # {}
    BY <1>1, Queueing
  <2>. QED  BY <1>1, <2>1 DEF Inv, Objects, StoredOK, ObjectsAccounted, GarbageRow
<1>. QED  BY <1>1, <1>5, <1>6, <1>7, StorageStep


\* A ZIP that is finished is named by its request.
LEMMA CompleteStep ==
    ASSUME Inv, NEW w \in Executions, CompleteBundle(w)
    PROVE  Inv'
<1>0. PICK o, j, z, r, y :
        /\ o = ZipKey(w) /\ j = exec[w].job /\ z = exec[w].job.of
        /\ r = [run[exec[w].job] EXCEPT !.status = "succeeded", !.live = FALSE]
        /\ y = [zip[exec[w].job.of] EXCEPT !.status = "succeeded", !.key = o]
  OBVIOUS
<1>1. exec[w].pc = "complete" /\ exec[w].pc \in ZipSteps /\ exec[w].pc \in Writing
  BY DEF CompleteBundle, At, ZipSteps, Writing
<1>2. /\ j \in Jobs /\ z \in Zips /\ j = Pack(z) /\ zip[z] \in ZipRow
  BY <1>0, <1>1, AtZip
<1>3. o \in ZipObjects /\ JobOf(o) = j /\ o.att = exec[w].att /\ o.zip = z
  BY <1>0, <1>1, KeysOfExecutions DEF Inv, Jobbing, Current
<1>4. /\ zip' = [zip EXCEPT ![z] = y] /\ garbage' = WithGarbage(o, "atExpiry")
      /\ run' = [run EXCEPT ![j] = r] /\ Goto(w, "idle")
      /\ UNCHANGED <<facts, catalog, mode, cell, item, stored, late>>
  BY <1>0 DEF CompleteBundle, RunSucceeded, sourceVars
<1>5. r \in RunRow /\ r.attempt = run[j].attempt
  BY <1>0, <1>2, RunTurned DEF Inv, Jobbing
<1>6. y \in ZipRow /\ y.key = o /\ y.status = "succeeded"
  BY <1>0, <1>2, <1>3 DEF ZipRow
<1>7. run' \in [Jobs -> RunRow] /\ \A k \in Jobs : run[k].attempt <= run'[k].attempt
  BY <1>2, <1>4, <1>5, RunTurns DEF Inv, Jobbing
<1>8. /\ zip' \in [Zips -> ZipRow] /\ zip'[z] = y /\ \A x \in Zips \ {z} : zip'[x] = zip[x]
  BY <1>2, <1>4, <1>6 DEF Inv, Jobbing, RowTypes
<1>9. SourceTypes' /\ RowTypes' /\ ItemsOK' /\ Calm /\ ExecTypes' /\ ExecsMove
  BY <1>4, <1>7, <1>8, OneLeaves DEF SourceTypes, RowTypes, ItemsOK, Inv, Jobbing, Calm
<1>10. exec'[w].pc = "idle" /\ \A v \in Executions \ {w} : exec'[v] = exec[v]
  BY <1>4, Goes DEF Inv, Jobbing
<1>11. RunsGrow
  <2>1. \A x \in Zips : zip[x].status # "none" => zip'[x].status # "none"
    BY <1>6, <1>8
  <2>. QED  BY <1>4, <1>7, <2>1, Requests
<1>12. StepsOK' /\ UniqueOK' /\ \A x \in PdfObjects \cup ZipObjects : Spent(x) => Spent(x)'
  BY <1>9, <1>11, JobsMove DEF Inv
<1>13. ~Named(o) /\ Spent(o)' /\ \A v \in Executions \ {w} : ~Writes(v, o)
  BY <1>0, <1>1, <1>3, <1>9, <1>10, <1>11, Finishing DEF Writing
<1>14. NamesOK'
  BY <1>3, <1>4, <1>6, <1>8, <1>13 DEF NamesOK, Named, Inv, Objects
<1>15. SpentOK'
  <2>1. \A x : Named(x)' => Named(x) \/ x = o
    BY <1>4, <1>6, <1>8 DEF Named
  <2>. QED  BY <1>12, <1>13, <2>1 DEF SpentOK, Inv, Objects
<1>16. o # None
  BY <1>3, ObjectJobs
<1>17. CandidatesOK'
  <2>. SUFFICES ASSUME NEW x \in PdfObjects \cup ZipObjects, x \in late \/ \E v \in Executions : Writes(v, x)'
                PROVE  Candidate(x)'
    BY <1>4 DEF CandidatesOK
  <2>1. x \in late \/ \E v \in Executions \ {w} : Writes(v, x)
    BY <1>10 DEF Writes, PdfKey, ZipKey
  <2>2. x # o /\ Candidate(x)
    BY <1>13, <2>1 DEF Named, CandidatesOK, Inv, Objects
  <2>. QED  BY <1>4, <1>16, <2>2, Queueing
<1>18. StoredOK' /\ ObjectsAccounted'
  <2>1. \A x : GarbageRow(x) # {} => GarbageRow(x)' # {}
    BY <1>4, <1>16, Queueing
  <2>. QED  BY <1>4, <2>1 DEF Inv, Objects, StoredOK, ObjectsAccounted, GarbageRow
<1>19. SeenOK'
  BY <1>4, <1>10, SeenMove DEF Inv, Jobbing, Current, Rendering
<1>20. CurrentOK'
  BY <1>4, CurrentMove DEF Inv, Current
<1>. QED  BY <1>9, <1>12, <1>14, <1>15, <1>17, <1>18, <1>19, <1>20 DEF Inv, Jobbing, Objects, Current

\* What a publication writes.
LEMMA PublishRows ==
    ASSUME Inv, NEW w \in Executions, Publish(w), NEW c, c = exec[w].job.of,
           NEW o, o = IF exec[w].seen.rows THEN PdfKey(w) ELSE None
    PROVE  /\ c \in Keys /\ RowTypes' /\ ItemsOK' /\ Calm /\ RunsGrow
           /\ UNCHANGED <<facts, catalog, mode, zip, stored, late>>
           /\ exec'[w].pc \notin Writing /\ \A v \in Executions \ {w} : exec'[v] = exec[v]
           /\ \A d \in Keys \ {c} : cell'[d] = cell[d]
           /\ cell'[c].rev = cell[c].rev /\ cell'[c].pubRev = exec[w].seen.rev
           /\ cell'[c].fp = exec[w].seen.fp /\ cell'[c].obj = o
<1>16. PICK j, g : j = exec[w].job /\ g = exec[w].job.gen
  OBVIOUS
<1>17. PICK i : i = [item[c][g] EXCEPT !.status = IF exec[w].seen.rows THEN "succeeded" ELSE "empty",
                                      !.rev = exec[w].seen.rev]
  OBVIOUS
<1>18. PICK r : r = [run[j] EXCEPT !.status = "succeeded", !.live = FALSE]
  OBVIOUS
<1>19. PICK x : x = [cell[c] EXCEPT !.pub = g, !.pubRev = exec[w].seen.rev, !.fp = exec[w].seen.fp,
                                   !.obj = o, !.err = FALSE]
  OBVIOUS
<1>0. /\ j = exec[w].job /\ g = j.gen
      /\ i = [item[c][g] EXCEPT !.status = IF exec[w].seen.rows THEN "succeeded" ELSE "empty",
                                !.rev = exec[w].seen.rev]
      /\ r = [run[j] EXCEPT !.status = "succeeded", !.live = FALSE]
      /\ x = [cell[c] EXCEPT !.pub = g, !.pubRev = exec[w].seen.rev, !.fp = exec[w].seen.fp,
                             !.obj = o, !.err = FALSE]
  BY <1>16, <1>17, <1>18, <1>19
<1>1. exec[w].pc = "publish" /\ exec[w].pc \in PdfSteps /\ exec[w].pc \in Rendering
  BY DEF Publish, At, PdfSteps, Rendering
<1>2. /\ j \in Jobs /\ c \in Keys /\ g \in Gens /\ j.of = c
      /\ item[c][g].status # "none" /\ item[c][g] \in ItemRow
  BY <1>0, <1>1, AtPdf
<1>3. /\ item' = [item EXCEPT ![c][g] = i] /\ run' = [run EXCEPT ![j] = r] /\ cell' = [cell EXCEPT ![c] = x]
      /\ UNCHANGED <<facts, catalog, mode, zip, stored, late>>
      /\ Goto(w, "idle") \/ Goto(w, "retry")
  <2>1. /\ cell' = [cell EXCEPT ![c] = x]
        /\ UNCHANGED <<facts, catalog, mode, zip, stored, late>>
        /\ Goto(w, "idle") \/ Goto(w, "retry")
    BY <1>0 DEF Publish, sourceVars
  <2>2. item' = [item EXCEPT ![c][g] = i]
    BY <1>0 DEF Publish, ItemDone
  <2>3. run' = [run EXCEPT ![j] = r]
    BY <1>0 DEF Publish, RunSucceeded
  <2>. QED  BY <2>1, <2>2, <2>3
<1>4. exec[w].seen.rev \in Nat /\ exec[w].seen.fp \in Fingerprints /\ exec[w].seen.rows \in BOOLEAN
  BY <1>1 DEF Inv, Current, SeenOK, SnapRow
<1>5. i \in ItemRow /\ i.status # "none"
  BY <1>0, <1>2, <1>4 DEF ItemRow
<1>6. r \in RunRow /\ r.attempt = run[j].attempt
  BY <1>0, <1>2, RunTurned DEF Inv, Jobbing
<1>7. o \in PdfObjects \cup {None}
  BY <1>1, KeysOfExecutions DEF Inv, Jobbing, Current
<1>8. /\ x \in CellRow /\ x.rev = cell[c].rev /\ x.pubRev = exec[w].seen.rev /\ x.fp = exec[w].seen.fp
      /\ x.obj = o /\ x.req = cell[c].req
  <2>1. cell[c] \in CellRow /\ g \in Nat
    BY <1>2, ConstantsAssumption DEF Inv, Jobbing, RowTypes, Gens
  <2>. QED  BY <1>0, <1>4, <1>7, <2>1 DEF CellRow
<1>9. cell' \in [Keys -> CellRow] /\ cell'[c] = x /\ \A d \in Keys \ {c} : cell'[d] = cell[d]
  BY <1>2, <1>3, <1>8 DEF Inv, Jobbing, RowTypes
<1>10. run' \in [Jobs -> RunRow] /\ \A k \in Jobs : run[k].attempt <= run'[k].attempt
  BY <1>2, <1>3, <1>6, RunTurns DEF Inv, Jobbing
<1>11. /\ item' \in [Keys -> [Gens -> ItemRow]]
       /\ \A d \in Keys, h \in Gens : item[d][h].status # "none" => item'[d][h].status # "none"
       /\ \A d \in Keys, h \in Gens : <<d, h>> # <<c, g>> => item'[d][h] = item[d][h]
  BY <1>2, <1>3, <1>5, ItemTurns DEF Inv, Jobbing
<1>12. RowTypes'
  BY <1>3, <1>9, <1>10, <1>11 DEF RowTypes, Inv, Jobbing
<1>13. ItemsOK'
  <2>. SUFFICES ASSUME NEW d \in Keys, NEW h \in Gens, item'[d][h].status # "none"
                PROVE  h <= cell'[d].req
    BY DEF ItemsOK
  <2>1. item[d][h].status # "none" /\ cell'[d].req = cell[d].req
    BY <1>2, <1>8, <1>9, <1>11
  <2>. QED  BY <2>1 DEF ItemsOK, Inv, Jobbing
<1>14. RunsGrow
  BY <1>3, <1>10, <1>11, Requests
<1>15. /\ Calm /\ exec'[w].pc \notin Writing /\ \A v \in Executions \ {w} : exec'[v] = exec[v]
  <2>1. PICK s \in {"idle", "retry"} : Goto(w, s)
    BY <1>3
  <2>2. /\ ExecTypes' /\ (\A v \in Executions \ {w} : exec'[v] = exec[v]) /\ exec'[w].pc = s
        /\ s = "retry" => exec'[w].job = exec[w].job /\ exec'[w].att = exec[w].att
    <3>1. s \in {"idle"} \cup PdfSteps \cup ZipSteps \cup ScanSteps
      BY DEF PdfSteps
    <3>. QED  BY <2>1, <3>1, Goes DEF Inv, Jobbing
  <2>. QED  BY <1>1, <2>2 DEF Calm, ExecsMove, Move, Rendering, Writing, PdfSteps, ZipSteps
<1>. QED  BY <1>2, <1>3, <1>8, <1>9, <1>12, <1>13, <1>14, <1>15


\* The candidate that is published stops being garbage; what it replaces is queued.
LEMMA PublishStep ==
    ASSUME Inv, NEW w \in Executions, Publish(w)
    PROVE  Inv'
<1>1. PICK c : c = exec[w].job.of
  OBVIOUS
<1>2. PICK o : o = IF exec[w].seen.rows THEN PdfKey(w) ELSE None
  OBVIOUS
<1>3. PICK old : old = cell[c].obj
  OBVIOUS
<1>4. /\ c \in Keys /\ RowTypes' /\ ItemsOK' /\ Calm /\ RunsGrow
      /\ UNCHANGED <<facts, catalog, mode, zip, stored, late>>
      /\ exec'[w].pc \notin Writing /\ \A v \in Executions \ {w} : exec'[v] = exec[v]
      /\ \A d \in Keys \ {c} : cell'[d] = cell[d]
      /\ cell'[c].rev = cell[c].rev /\ cell'[c].pubRev = exec[w].seen.rev
      /\ cell'[c].fp = exec[w].seen.fp /\ cell'[c].obj = o
  BY <1>1, <1>2, PublishRows
<1>5. /\ exec[w].pc = "publish" /\ exec[w].pc \in Rendering /\ exec[w].pc \in Writing
      /\ Unchanged(c, exec[w].seen)
      /\ garbage' = WithGarbage(old, "replaced") \ GarbageRow(o)
  BY <1>1, <1>2, <1>3 DEF Publish, At, Rendering, Writing
<1>6. /\ exec[w].seen \in SnapRow
      /\ exec[w].seen.rev = cell[c].rev =>
           exec[w].seen.fp.src = facts[c].src /\ exec[w].seen.rows = facts[c].rows
  BY <1>1, <1>5 DEF Inv, Current, SeenOK
<1>7. o # None => /\ o \in PdfObjects /\ JobOf(o) = exec[w].job /\ o.att = exec[w].att
                  /\ o.cell = c /\ o.supplier = exec[w].seen.supplier
  BY <1>1, <1>2, <1>5, KeysOfExecutions DEF Inv, Jobbing, Current
<1>8. SourceTypes' /\ ExecTypes' /\ ExecsMove
  BY <1>4 DEF SourceTypes, Calm, Inv, Jobbing
<1>9. StepsOK' /\ UniqueOK' /\ \A x \in PdfObjects \cup ZipObjects : Spent(x) => Spent(x)'
  BY <1>4, <1>8, JobsMove DEF Inv
<1>10. o # None => ~Named(o) /\ Spent(o)' /\ \A v \in Executions \ {w} : ~Writes(v, o)
  BY <1>4, <1>5, <1>7, <1>8, Finishing
<1>11. old # None => old \in PdfObjects /\ Named(old) /\ old # o
  <2>1. old \in PdfObjects \cup {None}
    BY <1>3, <1>4 DEF Inv, Jobbing, RowTypes, CellRow
  <2>. QED  BY <1>3, <1>4, <1>10, <2>1 DEF Named
<1>12. \A x : x # old /\ x # o /\ GarbageRow(x) # {} => GarbageRow(x)' # {}
  <2>. SUFFICES ASSUME NEW x, x # old, x # o, NEW y \in garbage, y.obj = x
                PROVE  y \in garbage'
    BY DEF GarbageRow
  <2>. QED  BY <1>5 DEF WithGarbage, GarbageRow
<1>13. old # None => GarbageRow(old)' # {}
  <2>1. [obj |-> old, row |-> "replaced"].obj = old
    OBVIOUS
  <2>2. old # None => [obj |-> old, row |-> "replaced"] \in garbage'
    BY <1>5, <1>11, <2>1 DEF WithGarbage, GarbageRow
  <2>. QED  BY <2>1, <2>2 DEF GarbageRow
<1>14. \A x : x # old /\ x # o /\ Candidate(x) => Candidate(x)'
  <2>1. \A x : [obj |-> x, row |-> "candidate"].obj = x
    OBVIOUS
  <2>. QED  BY <1>5, <2>1 DEF WithGarbage, GarbageRow, Candidate
<1>15. NamesOK'
  BY <1>4, <1>7 DEF NamesOK, Inv, Objects
<1>16. SpentOK'
  <2>. SUFFICES ASSUME NEW x \in PdfObjects \cup ZipObjects, Named(x)'
                PROVE  Spent(x)'
    BY DEF SpentOK
  <2>1. x # None
    BY ObjectJobs
  <2>2. CASE x = o
    BY <1>10, <2>1, <2>2
  <2>3. CASE x # o
    <3>1. Named(x)
      BY <1>4, <2>3 DEF Named
    <3>. QED  BY <1>9, <3>1 DEF SpentOK, Inv, Objects
  <2>. QED  BY <2>2, <2>3
<1>17. CandidatesOK'
  <2>. SUFFICES ASSUME NEW x \in PdfObjects \cup ZipObjects, x \in late \/ \E v \in Executions : Writes(v, x)'
                PROVE  Candidate(x)'
    BY <1>4 DEF CandidatesOK
  <2>1. x \in late \/ \E v \in Executions \ {w} : Writes(v, x)
    BY <1>4 DEF Writes, PdfKey, ZipKey, Writing
  <2>2. x # None /\ Candidate(x)
    BY <2>1, ObjectJobs DEF CandidatesOK, Inv, Objects
  <2>3. x # o
    BY <1>10, <2>1, <2>2 DEF Named
  <2>4. x # old
    <3>1. CASE x \in late
      <4>1. "zip" \in DOMAIN x
        BY <3>1 DEF Inv, Objects, NamesOK, ZipObjects
      <4>2. \A p \in PdfObjects : "zip" \notin DOMAIN p
        BY DEF PdfObjects
      <4>. QED  BY <1>11, <2>2, <4>1, <4>2
    <3>2. CASE \E v \in Executions : Writes(v, x)
      BY <1>11, <2>2, <3>2, Writer
    <3>. QED  BY <2>1, <3>1, <3>2
  <2>. QED  BY <1>14, <2>2, <2>3, <2>4
<1>18. StoredOK'
  BY <1>4 DEF StoredOK, Inv, Objects
<1>19. ObjectsAccounted'
  <2>. SUFFICES ASSUME NEW x \in stored \cup late, \A d \in Keys : cell'[d].obj # x
                PROVE  GarbageRow(x)' # {}
    BY <1>4 DEF ObjectsAccounted
  <2>1. x # None /\ x # o
    BY <1>4, ObjectJobs DEF StoredOK, NamesOK, Inv, Objects
  <2>2. CASE x = old
    BY <1>13, <2>1, <2>2
  <2>3. CASE x # old
    <3>1. \A d \in Keys : cell[d].obj # x
      BY <1>3, <1>4, <2>3
    <3>2. GarbageRow(x) # {}
      BY <3>1 DEF ObjectsAccounted, Inv, Objects
    <3>. QED  BY <1>12, <2>1, <2>3, <3>2
  <2>. QED  BY <2>2, <2>3
<1>20. SeenOK'
  <2>1. \A d \in Keys : cell'[d].rev = cell[d].rev
    BY <1>4
  <2>2. exec'[w].pc \notin Rendering
    BY <1>4 DEF Rendering, Writing
  <2>. QED  BY <1>4, <2>1, <2>2, SeenMove DEF Inv, Jobbing, Current
<1>21. CurrentOK'
  <2>. SUFFICES ASSUME NEW d \in Keys
                PROVE  cell'[d].pubRev <= cell'[d].rev /\ (cell'[d].pubRev = cell'[d].rev => Shows(d)')
    BY DEF CurrentOK
  <2>1. CASE d = c
    <3>1. cell[c].rev = exec[w].seen.rev /\ exec[w].seen.supplier \notin catalog.archived
      BY <1>5 DEF Unchanged, SourcesAreCurrent
    <3>2. cell[c].rev \in Nat
      BY <1>4 DEF Inv, Jobbing, RowTypes, CellRow
    <3>3. (o # None) = facts[c].rows
      <4>1. facts[c].rows \in BOOLEAN /\ facts[c].rows = exec[w].seen.rows
        BY <1>4, <1>6, <3>1 DEF Inv, Jobbing, SourceTypes
      <4>2. exec[w].seen.rows => PdfKey(w) # None
        BY <1>5, KeysOfExecutions, ObjectJobs DEF Inv, Jobbing, Current
      <4>. QED  BY <1>2, <4>1, <4>2
    <3>4. o # None => o.supplier \notin catalog.archived
      BY <1>7, <3>1
    <3>. QED  BY <1>4, <1>6, <2>1, <3>1, <3>2, <3>3, <3>4 DEF Shows, SourcesAreCurrent
  <2>2. CASE d # c
    BY <1>4, <2>2 DEF CurrentOK, Shows, SourcesAreCurrent, Inv, Current
  <2>. QED  BY <2>1, <2>2
<1>. QED  BY <1>4, <1>8, <1>9, <1>15, <1>16, <1>17, <1>18, <1>19, <1>20, <1>21 DEF Inv, Jobbing, Objects, Current

-----------------------------------------------------------------------------
(* The invariant *)

LEMMA InvInit == Init => Inv
<1>. SUFFICES ASSUME Init
              PROVE  Inv
  OBVIOUS
<1>1. SourceTypes
  BY DEF Init, SourceTypes
<1>2. RowTypes
  <2>1. cell \in [Keys -> CellRow]
    BY DEF Init, CellRow
  <2>2. item \in [Keys -> [Gens -> ItemRow]]
    BY DEF Init, ItemRow, NoItem
  <2>3. zip \in [Zips -> ZipRow]
    BY DEF Init, ZipRow
  <2>4. run \in [Jobs -> RunRow]
    BY DEF Init, RunRow, NoRun
  <2>. QED  BY <2>1, <2>2, <2>3, <2>4 DEF RowTypes
<1>3. \A w \in Executions : exec[w] = Idle
  BY DEF Init
<1>4. ExecTypes
  BY <1>3, IdleTyped DEF Init, ExecTypes
<1>5. ItemsOK /\ StepsOK /\ UniqueOK
  BY <1>3, IdleTyped DEF Init, NoItem, ItemsOK, StepsOK, UniqueOK
<1>6. \A o \in PdfObjects \cup ZipObjects : ~Named(o)
  BY ObjectJobs DEF Init, Named
<1>7. NamesOK
  BY DEF Init, NamesOK
<1>8. \A w, o : w \in Executions => ~Writes(w, o)
  BY <1>3, IdleTyped DEF Writes
<1>9. SpentOK /\ CandidatesOK
  BY <1>6, <1>8 DEF SpentOK, CandidatesOK, Named
<1>10. StoredOK /\ ObjectsAccounted
  BY DEF Init, StoredOK, ObjectsAccounted
<1>11. SeenOK
  BY <1>3, IdleTyped DEF SeenOK, Rendering
<1>12. CurrentOK
  BY DEF Init, CurrentOK
<1>. QED  BY <1>1, <1>2, <1>4, <1>5, <1>7, <1>9, <1>10, <1>11, <1>12 DEF Inv, Jobbing, Objects, Current

LEMMA InvStutters ==
    ASSUME Inv, UNCHANGED vars
    PROVE  Inv'
<1>1. UNCHANGED <<facts, catalog, mode, cell, item, zip, run, exec, stored, late, garbage>>
  BY DEF vars, sourceVars, jobVars, storeVars
<1>2. RowTypes' /\ ItemsOK' /\ Calm
  BY <1>1, NobodyMoves DEF RowTypes, ItemsOK, Inv, Jobbing
<1>3. \A k \in Jobs : run[k].attempt <= run'[k].attempt
  BY <1>1 DEF Inv, Jobbing, RowTypes, RunRow
<1>. QED  BY <1>1, <1>2, <1>3, RowStep

\* A step of one execution.
LEMMA ExecutionStep ==
    ASSUME Inv, NEW w \in Executions, Step(w) \/ RenderFails(w) \/ AbortBundle(w) \/ Crash(w)
    PROVE  Inv'
<1>1. CASE \/ LeaseLost(w) \/ FailLost(w) \/ RenderFails(w) \/ PublishRefused(w)
           \/ ListPage(w) \/ Observe(w) \/ ReserveStale(w) \/ CompleteStale(w)
  BY <1>1, QuietSteps
<1>2. CASE FailRun(w)
  BY <1>2, FailRunStep
<1>3. CASE ReadSnapshot(w)
  BY <1>3, ReadStep
<1>4. CASE RegisterCandidate(w) \/ (SelectBundle(w) /\ Captured(w))
  BY <1>4, RegisterSteps
<1>5. CASE Put(w) \/ (PutBundle(w) /\ Captured(w))
  BY <1>5, PutSteps
<1>6. CASE Publish(w)
  BY <1>6, PublishStep
<1>7. CASE PublishSuperseded(w)
  BY <1>7, SupersededStep
<1>8. CASE ReserveRepair(w)
  BY <1>8, ReserveRepairStep
<1>9. CASE Checkpoint(w)
  BY <1>9, CheckpointStep
<1>10. CASE ~Captured(w) /\ (SelectBundle(w) \/ PutBundle(w))
  BY <1>10, NotWritingSteps
<1>11. CASE exec[w].pc # "zput" /\ (AbortBundle(w) \/ Crash(w))
  BY <1>11, NotWritingSteps
<1>12. CASE exec[w].pc = "zput" /\ (AbortBundle(w) \/ Crash(w))
  BY <1>12, GivingUpUpload
<1>13. CASE CompleteBundle(w)
  BY <1>13, CompleteStep
<1>14. CASE FailBundle(w)
  BY <1>14, FailBundleStep
<1>. QED  BY <1>1, <1>2, <1>3, <1>4, <1>5, <1>6, <1>7, <1>8, <1>9, <1>10, <1>11, <1>12, <1>13, <1>14 DEF Step

LEMMA InvNext == Inv /\ [Next]_vars => Inv'
<1>. SUFFICES ASSUME Inv, [Next]_vars
              PROVE  Inv'
  OBVIOUS
<1>1. ASSUME NEW c \in Keys, NEW rows \in BOOLEAN, SourceChanges(c, rows)
      PROVE  Inv'
  BY <1>1, SourceChangesStep
<1>2. CASE CatalogReplaced \/ (\E d \in 1..catalog.newest : CatalogArchived(d)) \/ ModeChanges
  BY <1>2, CatalogSteps
<1>3. ASSUME NEW w \in Executions, NEW j \in Jobs, Claim(w, j)
      PROVE  Inv'
  BY <1>3, ClaimStep
<1>4. ASSUME NEW w \in Executions, Step(w) \/ RenderFails(w) \/ AbortBundle(w) \/ Crash(w)
      PROVE  Inv'
  BY <1>4, ExecutionStep
<1>5. ASSUME NEW j \in Jobs, LeaseLapses(j)
      PROVE  Inv'
  BY <1>5, LapseStep
<1>6. CASE EnsureDailyReconciliation
  BY <1>6, DailyStep
<1>7. CASE (\E k \in Clis : BeginInternalRefresh(k)) \/ (\E x \in garbage : GcPick(x))
  BY <1>7, AsideSteps
<1>8. ASSUME NEW k \in Clis, AppendInternalRefreshPage(k)
      PROVE  Inv'
  BY <1>8, AppendStep
<1>9. ASSUME NEW z \in Zips, NEW c \in Keys, ReserveBundle(z, c)
      PROVE  Inv'
  BY <1>9, ReserveBundleStep
<1>10. ASSUME NEW z \in Zips, ZipElapses(z) \/ EnqueueExpiredBundle(z)
       PROVE  Inv'
  BY <1>10, ZipElapsesStep, EnqueueExpiredStep
<1>11. ASSUME NEW k \in late, LateWrite(k)
       PROVE  Inv'
  BY <1>11, LateWriteStep
<1>12. CASE GcDelete
  BY <1>12, GcDeleteStep
<1>13. CASE UNCHANGED vars
  BY <1>13, InvStutters
<1>. QED  BY <1>1, <1>2, <1>3, <1>4, <1>5, <1>6, <1>7, <1>8, <1>9, <1>10, <1>11, <1>12, <1>13 DEF Next

\* The rows, the jobs and the keys of the ledger archive keep to their types, an
\* attempt is one execution's, a candidate's row outlives its object's writing, and
\* what a renderer has read or a cell shows is as old as its revision says
\* (claimNextProcessingRun, registerCandidate, readLedgerSnapshot, publishLedgerPdf).
THEOREM ArchiveInvariant == Spec => []Inv
<1>. QED  BY InvInit, InvNext, PTL DEF Spec

\* A cell that is not marked shows its sources: publishLedgerPdf compares the
\* revision and the catalogue, so a cell that is wrong is marked for the daily scan.
THEOREM UnmarkedCurrent == Spec => []UnmarkedIsCurrent
<1>1. Inv => UnmarkedIsCurrent
  BY DEF Inv, Current, CurrentOK, Shows, UnmarkedIsCurrent, Marked
<1>. QED  BY <1>1, ArchiveInvariant, PTL

\* No PDF and no ZIP leaks, over crashes, lost leases, uploads that land late and the
\* deletions of maintenance: a cell names it, or a row of storage_garbage does.
THEOREM NoObjectLeaks == Spec => []ObjectsAccounted
<1>1. Inv => ObjectsAccounted
  BY DEF Inv, Objects
<1>. QED  BY <1>1, ArchiveInvariant, PTL
=============================================================================
