------------------------- MODULE ResponseUpload_proofs -------------------------
(***************************************************************************)
(* Theorems about ResponseUpload, for every set of verdicts and blobs,     *)
(* every batch size and every number of faults.                            *)
(***************************************************************************)
EXTENDS ResponseUpload, FiniteSetTheorems, TLAPS

Phases == {"open", "flushing", "done", "idle"}
UpRow == [phase : Phases, queue : SUBSET Verdicts, batch : SUBSET Verdicts, committed : BOOLEAN]

\* The part of the type invariant that a step changes in one piece.
Shapes ==
    /\ stage \in [Verdicts -> {"new", "written", "recorded", "handed", "gone"}]
    /\ rows \in [Verdicts -> {"absent", "pending", "uploaded"}]
    /\ disk \subseteq Blobs /\ hub \subseteq Blobs
    /\ up \in [Uploaders -> UpRow]
    /\ late \subseteq [op : {"insert"}, verdict : Verdicts] \cup [op : {"mark"}, blobs : SUBSET Blobs]
    /\ faults \in 0 .. MaxFaults

\* One commit never carries more than a batch, and only a batch in hand is
\* acknowledged.
BatchInHand ==
    \A u \in Uploaders :
        /\ Cardinality(up[u].batch) <= BatchSize
        /\ up[u].committed => up[u].batch # {}

\* What makes UploadedMeansOnHub inductive: an acknowledged batch is on the
\* hub, and so is what a marking request still on its way names.
OnHub ==
    /\ UploadedMeansOnHub
    /\ \A u \in Uploaders : up[u].committed => Files(up[u].batch) \subseteq hub
    /\ \A q \in late : q.op = "mark" => q.blobs \subseteq hub

LEMMA TypeParts == TypeOK <=> Shapes /\ BatchInHand
  BY DEF TypeOK, Shapes, BatchInHand, UpRow, Phases

\* The parts the steps are put together from.
LEMMA Faulting == ASSUME Shapes, Fault PROVE faults' \in 0 .. MaxFaults
  BY BatchAssumption DEF Shapes, Fault

LEMMA MarkedType ==
    ASSUME Shapes, NEW B
    PROVE  Marked(B) \in [Verdicts -> {"absent", "pending", "uploaded"}]
  BY DEF Shapes, Marked

LEMMA UploaderType ==
    ASSUME NEW p \in Phases
    PROVE  /\ Uploader(p) \in UpRow
           /\ Uploader(p).batch = {} /\ Uploader(p).committed = FALSE
  BY DEF Uploader, UpRow, Phases

LEMMA EmptyBatch == Cardinality({}) <= BatchSize
  BY FS_EmptySet, BatchAssumption

\* What is pushed is what some disk held, so it names blobs.
LEMMA RequestType ==
    ASSUME Shapes, NEW q \in late
    PROVE  /\ q.op = "insert" => q.verdict \in Verdicts
           /\ q.op = "mark" => q.blobs \subseteq Blobs
  BY DEF Shapes

LEMMA FilesType == ASSUME Shapes, NEW u \in Uploaders PROVE Files(up[u].batch) \subseteq Blobs
  BY BlobAssumption DEF Shapes, Files, UpRow

LEMMA InFlightType ==
    ASSUME Shapes, NEW u \in Uploaders, NEW sent \in SUBSET InFlight(u)
    PROVE  sent \subseteq [op : {"insert"}, verdict : Verdicts] \cup [op : {"mark"}, blobs : SUBSET Blobs]
  BY FilesType DEF Shapes, InFlight, InsertRequest

-----------------------------------------------------------------------------
\* Type correctness: whatever fails and whoever is killed, threads, rows,
\* uploaders and requests keep their shape, no commit is larger than a batch
\* and nothing is acknowledged that is not in hand.
THEOREM TypeCorrect == Spec => []TypeOK
<1>1. Init => TypeOK
  <2>1. ASSUME Init PROVE Shapes
    BY <2>1, UploaderType, BatchAssumption DEF Init, Shapes, Phases
  <2>2. ASSUME Init PROVE BatchInHand
    BY <2>2, UploaderType, EmptyBatch DEF Init, BatchInHand, Phases
  <2>3. QED
    BY <2>1, <2>2, TypeParts
<1>2. TypeOK /\ [Next]_vars => TypeOK'
  <2> SUFFICES ASSUME Shapes, BatchInHand, [Next]_vars PROVE Shapes' /\ BatchInHand'
    BY TypeParts DEF TypeOK, Shapes, BatchInHand, UpRow, Phases
  <2>a. ASSUME UNCHANGED up PROVE BatchInHand'
    BY <2>a DEF BatchInHand
  <2>1. ASSUME NEW v \in Verdicts, WriteBlob(v)
        PROVE  Shapes' /\ BatchInHand'
    BY <2>1, <2>a, BlobAssumption DEF WriteBlob, Shapes
  <2>2. ASSUME NEW v \in Verdicts, JudgeRaises(v)
        PROVE  Shapes' /\ BatchInHand'
    BY <2>2, <2>a, Faulting DEF JudgeRaises, Shapes
  <2>3. ASSUME NEW v \in Verdicts, Record(v)
        PROVE  Shapes' /\ BatchInHand'
    BY <2>3, <2>a DEF Record, Upsert, Shapes
  <2>4. ASSUME NEW v \in Verdicts, RecordRetried(v)
        PROVE  Shapes' /\ BatchInHand'
    BY <2>4, <2>a, Faulting DEF RecordRetried, Upsert, LostOrLate, InsertRequest, Shapes
  <2>5. ASSUME NEW v \in Verdicts, RecordRaises(v)
        PROVE  Shapes' /\ BatchInHand'
    BY <2>5, <2>a, Faulting DEF RecordRaises, Upsert, LostOrLate, InsertRequest, Shapes
  <2>6. ASSUME NEW v \in Verdicts, HandOver(v)
        PROVE  Shapes' /\ BatchInHand'
    BY <2>6, BlobAssumption DEF HandOver, Shapes, BatchInHand, UpRow, Uploaders
  <2>7. CASE Flush
    BY <2>7 DEF Flush, Shapes, BatchInHand, UpRow, Phases, Uploaders
  <2>8. CASE Sweep
    <3>1. OnePerBlob(Pending) \subseteq Verdicts
      BY DEF Pending, OnePerBlob
    <3>2. [Uploader("flushing") EXCEPT !.queue = OnePerBlob(Pending)] \in UpRow
      BY <3>1, UploaderType DEF UpRow, Phases
    <3>3. /\ [Uploader("flushing") EXCEPT !.queue = OnePerBlob(Pending)].batch = {}
          /\ [Uploader("flushing") EXCEPT !.queue = OnePerBlob(Pending)].committed = FALSE
      BY DEF Uploader
    <3>4. Shapes'
      BY <2>8, <3>2 DEF Sweep, Shapes
    <3>5. BatchInHand'
      BY <2>8, <3>3, EmptyBatch DEF Sweep, Shapes, BatchInHand
    <3>6. QED
      BY <3>4, <3>5
  <2>b. ASSUME NEW u \in Uploaders, Drop(u)
        PROVE  BatchInHand' /\ up' \in [Uploaders -> UpRow]
    <3>1. PICK x \in UpRow : x = up[u]
      BY DEF Shapes
    <3>2. PICK y : y = [x EXCEPT !.batch = {}, !.committed = FALSE]
      OBVIOUS
    <3>3. y \in UpRow
      BY <3>2 DEF UpRow
    <3>4. y.batch = {} /\ y.committed = FALSE
      BY <3>2 DEF UpRow
    <3>5. up' = [up EXCEPT ![u] = y]
      BY <2>b, <3>1, <3>2 DEF Drop, Shapes
    <3>6. QED
      BY <3>3, <3>4, <3>5, EmptyBatch DEF Shapes, BatchInHand
  <2>9. ASSUME NEW u \in Uploaders, Take(u)
        PROVE  Shapes' /\ BatchInHand'
    <3>1. PICK E \in SUBSET up[u].queue :
              /\ E # {} /\ Cardinality(E) <= BatchSize
              /\ up' = [up EXCEPT ![u].queue = @ \ E, ![u].batch = E]
      BY <2>9 DEF Take
    <3>2. PICK x \in UpRow : x = up[u]
      BY DEF Shapes
    <3>3. PICK y : y = [x EXCEPT !.queue = x.queue \ E, !.batch = E]
      OBVIOUS
    <3>4. E \subseteq Verdicts /\ x.queue \ E \subseteq Verdicts
      BY <3>1, <3>2 DEF UpRow
    <3>5. y \in UpRow
      BY <3>3, <3>4 DEF UpRow
    <3>6. y.batch = E
      BY <3>3 DEF UpRow
    <3>7. up' = [up EXCEPT ![u] = y]
      BY <3>1, <3>2, <3>3 DEF Shapes
    <3>8. Shapes'
      BY <2>9, <3>5, <3>7 DEF Take, Shapes
    <3>9. BatchInHand'
      BY <3>1, <3>6, <3>7 DEF Shapes, BatchInHand
    <3>10. QED
      BY <3>8, <3>9
  <2>10. ASSUME NEW u \in Uploaders, Commit(u)
         PROVE  Shapes' /\ BatchInHand'
    <3>1. PICK x \in UpRow : x = up[u]
      BY DEF Shapes
    <3>2. PICK y : y = [x EXCEPT !.committed = TRUE]
      OBVIOUS
    <3>3. y \in UpRow /\ y.batch = x.batch
      BY <3>2 DEF UpRow
    <3>4. up' = [up EXCEPT ![u] = y] /\ x.batch # {}
      BY <2>10, <3>1, <3>2 DEF Commit
    <3>5. hub' \subseteq Blobs
      BY <2>10, FilesType DEF Commit, Shapes
    <3>6. Shapes'
      BY <2>10, <3>3, <3>4, <3>5 DEF Commit, Shapes
    <3>7. BatchInHand'
      BY <3>1, <3>3, <3>4 DEF Shapes, BatchInHand
    <3>8. QED
      BY <3>6, <3>7
  <2>11. ASSUME NEW u \in Uploaders, CommitFails(u)
         PROVE  Shapes' /\ BatchInHand'
    <3>1. hub' \subseteq Blobs /\ faults' \in 0 .. MaxFaults
      BY <2>11, FilesType, Faulting DEF CommitFails, Shapes
    <3>2. QED
      BY <2>11, <2>b, <3>1 DEF CommitFails, Shapes
  <2>12. ASSUME NEW u \in Uploaders, Mark(u)
         PROVE  Shapes' /\ BatchInHand'
    BY <2>12, <2>b, MarkedType DEF Mark, Shapes
  <2>13. ASSUME NEW u \in Uploaders, MarkFails(u)
         PROVE  Shapes' /\ BatchInHand'
    <3>1. PICK B \in SUBSET Files(up[u].batch) :
              /\ rows' = Marked(B)
              /\ LostOrLate([op |-> "mark", blobs |-> Files(up[u].batch) \ B])
      BY <2>13 DEF MarkFails
    <3>2. late' \subseteq [op : {"insert"}, verdict : Verdicts] \cup [op : {"mark"}, blobs : SUBSET Blobs]
      BY <3>1, FilesType DEF LostOrLate, Shapes
    <3>3. QED
      BY <2>13, <2>b, <3>1, <3>2, MarkedType, Faulting DEF MarkFails, Shapes
  <2>14. ASSUME NEW u \in Uploaders, Flushed(u)
         PROVE  Shapes' /\ BatchInHand'
    BY <2>14 DEF Flushed, Shapes, BatchInHand, UpRow, Phases
  <2>15. ASSUME NEW u \in Uploaders, Kill(u)
         PROVE  Shapes' /\ BatchInHand'
    <3>1. PICK p \in Phases : up' = [up EXCEPT ![u] = Uploader(p)]
      BY <2>15 DEF Kill, Phases
    <3>2. BatchInHand' /\ up' \in [Uploaders -> UpRow]
      BY <3>1, UploaderType, EmptyBatch DEF Shapes, BatchInHand
    <3>3. late' \subseteq [op : {"insert"}, verdict : Verdicts] \cup [op : {"mark"}, blobs : SUBSET Blobs]
      BY <2>15, InFlightType DEF Kill, Shapes
    <3>4. hub' \subseteq Blobs /\ stage' \in [Verdicts -> {"new", "written", "recorded", "handed", "gone"}]
      BY <2>15, FilesType DEF Kill, Shapes
    <3>5. QED
      BY <2>15, <3>2, <3>3, <3>4, Faulting DEF Kill, Shapes
  <2>16. ASSUME NEW b \in Blobs, LoseBlob(b)
         PROVE  Shapes' /\ BatchInHand'
    BY <2>16, <2>a, Faulting DEF LoseBlob, Shapes
  <2>17. ASSUME NEW q \in late, Late(q)
         PROVE  Shapes' /\ BatchInHand'
    <3>1. rows' \in [Verdicts -> {"absent", "pending", "uploaded"}]
      BY <2>17, MarkedType DEF Late, LateInsert, LateMark, Upsert, Shapes
    <3>2. QED
      BY <2>17, <2>a, <3>1 DEF Late, Shapes
  <2>18. CASE UNCHANGED vars
    BY <2>18, <2>a DEF vars, Shapes
  <2>19. QED
    BY <2>1, <2>2, <2>3, <2>4, <2>5, <2>6, <2>7, <2>8, <2>9, <2>10, <2>11, <2>12,
       <2>13, <2>14, <2>15, <2>16, <2>17, <2>18 DEF Next, Thread, Upload
<1>3. QED
  BY <1>1, <1>2, PTL DEF Spec
-----------------------------------------------------------------------------
\* "Nothing here ever claims `uploaded` for a blob a commit did not take"
\* (_ResponseUploader): whichever uploader marks a row, whatever it shares its
\* blob with, and however late the marking lands, the hub has the bytes.
LEMMA OnHubGrows ==
    ASSUME OnHub, hub \subseteq hub', UNCHANGED <<rows, up>>,
           \A q \in late' \ late : q.op = "mark" => q.blobs \subseteq hub'
    PROVE  OnHub'
  BY DEF OnHub, UploadedMeansOnHub

\* Marking rows by blobs the hub has.
LEMMA MarkedOnHub ==
    ASSUME Shapes, UploadedMeansOnHub, NEW B, B \subseteq hub, rows' = Marked(B), hub' = hub
    PROVE  UploadedMeansOnHub'
  BY DEF Shapes, UploadedMeansOnHub, Marked

LEMMA UpsertOnHub ==
    ASSUME Shapes, OnHub, NEW v \in Verdicts, Upsert(v) \/ rows' = rows, UNCHANGED <<hub, up>>,
           \A q \in late' \ late : q.op = "insert"
    PROVE  OnHub'
  BY DEF Shapes, OnHub, UploadedMeansOnHub, Upsert

THEOREM UploadsAreReal == Spec => []UploadedMeansOnHub
<1>1. Init => OnHub
  BY DEF Init, OnHub, UploadedMeansOnHub, Uploader
<1>2. TypeOK /\ OnHub /\ [Next]_vars => OnHub'
  <2> SUFFICES ASSUME Shapes, OnHub, [Next]_vars PROVE OnHub'
    BY TypeParts
  <2>1. ASSUME NEW v \in Verdicts, WriteBlob(v) \/ JudgeRaises(v)
        PROVE  OnHub'
    BY <2>1, OnHubGrows DEF WriteBlob, JudgeRaises
  <2>2. ASSUME NEW v \in Verdicts, Record(v) \/ RecordRetried(v) \/ RecordRaises(v)
        PROVE  OnHub'
    <3>1. \A q \in late' \ late : q.op = "insert"
      BY <2>2 DEF Record, RecordRetried, RecordRaises, LostOrLate, InsertRequest
    <3>2. QED
      BY <2>2, <3>1, UpsertOnHub DEF Record, RecordRetried, RecordRaises
  <2>3. ASSUME NEW v \in Verdicts, HandOver(v)
        PROVE  OnHub'
    BY <2>3 DEF HandOver, Shapes, OnHub, UploadedMeansOnHub, UpRow, Uploaders
  <2>4. CASE Flush
    BY <2>4 DEF Flush, Shapes, OnHub, UploadedMeansOnHub, UpRow, Uploaders
  <2>5. CASE Sweep
    <3>1. [Uploader("flushing") EXCEPT !.queue = OnePerBlob(Pending)].committed = FALSE
      BY DEF Uploader
    <3>2. QED
      BY <2>5, <3>1 DEF Sweep, Shapes, OnHub, UploadedMeansOnHub
  <2>6. ASSUME NEW u \in Uploaders, Take(u)
        PROVE  OnHub'
    <3>1. \A w \in Uploaders : up'[w].committed => up[w].committed
      BY <2>6 DEF Take, Shapes, UpRow
    <3>2. ~up[u].committed
      BY <2>6 DEF Take, Shapes, UpRow
    <3>3. QED
      BY <2>6, <3>1, <3>2 DEF Take, Shapes, OnHub, UploadedMeansOnHub, UpRow
  <2>7. ASSUME NEW u \in Uploaders, Commit(u)
        PROVE  OnHub'
    BY <2>7 DEF Commit, Shapes, OnHub, UploadedMeansOnHub, UpRow
  <2>8. ASSUME NEW u \in Uploaders, CommitFails(u)
        PROVE  OnHub'
    BY <2>8 DEF CommitFails, Drop, Shapes, OnHub, UploadedMeansOnHub, UpRow
  <2>9. ASSUME NEW u \in Uploaders, Drop(u), hub' = hub, UploadedMeansOnHub',
                \A q \in late' \ late : q.op = "mark" => q.blobs \subseteq hub
         PROVE  OnHub'
    BY <2>9 DEF Drop, Shapes, OnHub, UpRow
  <2>10. ASSUME NEW u \in Uploaders, Mark(u)
         PROVE  OnHub'
    BY <2>10, <2>9, MarkedOnHub DEF Mark, OnHub
  <2>11. ASSUME NEW u \in Uploaders, MarkFails(u)
         PROVE  OnHub'
    <3>1. PICK B \in SUBSET Files(up[u].batch) :
              /\ rows' = Marked(B)
              /\ LostOrLate([op |-> "mark", blobs |-> Files(up[u].batch) \ B])
      BY <2>11 DEF MarkFails
    <3>2. Files(up[u].batch) \subseteq hub
      BY <2>11 DEF MarkFails, OnHub
    <3>3. \A q \in late' \ late : q.op = "mark" => q.blobs \subseteq hub
      BY <3>1, <3>2 DEF LostOrLate
    <3>4. QED
      BY <2>11, <2>9, <3>1, <3>2, <3>3, MarkedOnHub DEF MarkFails, OnHub
  <2>12. ASSUME NEW u \in Uploaders, Flushed(u)
         PROVE  OnHub'
    BY <2>12 DEF Flushed, Shapes, OnHub, UploadedMeansOnHub, UpRow
  <2>13. ASSUME NEW u \in Uploaders, Kill(u)
         PROVE  OnHub'
    <3>1. PICK p \in Phases : up' = [up EXCEPT ![u] = Uploader(p)]
      BY <2>13 DEF Kill, Phases
    <3>2. \A w \in Uploaders : up'[w].committed => up[w].committed /\ up'[w].batch = up[w].batch
      BY <3>1, UploaderType DEF Shapes
    <3>3. PICK sent \in SUBSET InFlight(u) : late' = late \cup sent
      BY <2>13 DEF Kill
    <3>4. \A q \in InFlight(u) : q.op = "mark" => q.blobs \subseteq hub
      BY DEF InFlight, InsertRequest, OnHub
    <3>5. hub \subseteq hub' /\ rows' = rows
      BY <2>13 DEF Kill
    <3>6. QED
      BY <3>2, <3>3, <3>4, <3>5 DEF OnHub, UploadedMeansOnHub
  <2>14. ASSUME NEW b \in Blobs, LoseBlob(b)
         PROVE  OnHub'
    BY <2>14, OnHubGrows DEF LoseBlob
  <2>15. ASSUME NEW q \in late, LateInsert(q), Late(q)
         PROVE  OnHub'
    BY <2>15, RequestType, UpsertOnHub DEF Late, LateInsert
  <2>16. ASSUME NEW q \in late, LateMark(q), Late(q)
         PROVE  OnHub'
    <3>1. UploadedMeansOnHub'
      BY <2>16, MarkedOnHub DEF Late, LateMark, OnHub
    <3>2. QED
      BY <2>16, <3>1 DEF Late, OnHub
  <2>17. CASE UNCHANGED vars
    BY <2>17, OnHubGrows DEF vars
  <2>18. QED
    BY <2>1, <2>2, <2>3, <2>4, <2>5, <2>6, <2>7, <2>8, <2>10, <2>11, <2>12, <2>13,
       <2>14, <2>15, <2>16, <2>17 DEF Next, Thread, Upload, Late
<1>3. OnHub => UploadedMeansOnHub
  BY DEF OnHub
<1>4. QED
  BY <1>1, <1>2, <1>3, TypeCorrect, PTL DEF Spec
-----------------------------------------------------------------------------
\* Until something fails, a verdict that was handed over is uploaded or still with
\* the run's uploader, whose files are on disk, and what the uploader has left is
\* what the flush was begun with.
InRun == up["run"].queue \cup up["run"].batch
Kept ==
    /\ late = {} /\ \A v \in Verdicts : stage[v] # "gone"
    /\ up["run"].phase \in {"open", "flushing", "done"}
    /\ \A v \in Verdicts : stage[v] # "new" => Blob[v] \in disk
    /\ \A v \in Verdicts : stage[v] \in {"recorded", "handed"} => rows[v] # "absent"
    /\ \A v \in InRun : stage[v] = "handed"
    /\ \A v \in Verdicts : stage[v] = "handed" => rows[v] = "uploaded" \/ v \in InRun
    /\ up["run"].phase # "open" => \A v \in Verdicts : stage[v] = "handed"
    /\ up["run"].phase = "done" => InRun = {}

\* A fault ends what is said.
LEMMA FaultEnds == ASSUME Shapes, Fault PROVE faults' # 0
  BY BatchAssumption DEF Shapes, Fault

\* Marking takes no row back.
LEMMA MarkedKeeps ==
    ASSUME Shapes, NEW B, rows' = Marked(B), NEW v \in Verdicts
    PROVE  /\ rows[v] # "absent" => rows'[v] # "absent"
           /\ rows[v] = "uploaded" => rows'[v] = "uploaded"
           /\ rows[v] # "absent" /\ Blob[v] \in B => rows'[v] = "uploaded"
  BY DEF Shapes, Marked

\* What the sweep does is nothing to the run.
LEMMA SweepKeeps ==
    ASSUME Shapes, Kept, up'["run"] = up["run"], UNCHANGED <<stage, disk, late>>,
           rows' = rows \/ \E B : rows' = Marked(B)
    PROVE  Kept'
<1>1. \A v \in Verdicts : /\ rows[v] # "absent" => rows'[v] # "absent"
                          /\ rows[v] = "uploaded" => rows'[v] = "uploaded"
  BY MarkedKeeps
<1>2. QED
  BY <1>1 DEF Kept, InRun

\* Without a fault, a run that has ended has every row it wrote uploaded: shared
\* blobs, short batches and a sweep beside it lose nothing.
THEOREM NoneForgotten == Spec => []NothingForgotten
<1>1. Init => (faults = 0 => Kept)
  BY DEF Init, Kept, InRun, Uploader, Uploaders
<1>2. TypeOK /\ (faults = 0 => Kept) /\ [Next]_vars => (faults = 0 => Kept)'
  <2> SUFFICES ASSUME Shapes, faults = 0 => Kept, [Next]_vars, faults' = 0 PROVE Kept'
    BY TypeParts
  <2>a. ~Fault
    BY FaultEnds
  <2>b. faults = 0 /\ Kept
    BY <2>a DEF Next, Thread, Upload, WriteBlob, JudgeRaises, Record, RecordRetried, RecordRaises,
       HandOver, Flush, Sweep, Take, Commit, CommitFails, Mark, Flushed, MarkFails, Kill, LoseBlob,
       Late, vars
  <2>c. "run" \in Uploaders /\ up["run"] \in UpRow
    BY DEF Shapes, Uploaders
  <2>1. ASSUME NEW v \in Verdicts, WriteBlob(v) PROVE Kept'
    BY <2>1, <2>b, <2>c DEF WriteBlob, Kept, InRun, Shapes, UpRow
  <2>2. ASSUME NEW v \in Verdicts, Record(v) PROVE Kept'
    BY <2>2, <2>b, <2>c DEF Record, Upsert, Kept, InRun, Shapes, UpRow
  <2>3. ASSUME NEW v \in Verdicts, HandOver(v) PROVE Kept'
    BY <2>3, <2>b, <2>c DEF HandOver, Kept, InRun, Shapes, UpRow
  <2>4. CASE Flush
    BY <2>4, <2>b, <2>c DEF Flush, Kept, InRun, Shapes, UpRow
  <2>5. CASE Sweep
    <3>1. up'["run"] = up["run"]
      BY <2>5 DEF Sweep, Shapes, Uploaders
    <3>2. QED
      BY <2>5, <2>b, <3>1, SweepKeeps DEF Sweep
  <2>6. ASSUME Upload("sweep") PROVE Kept'
    <3>1. up'["run"] = up["run"] /\ UNCHANGED <<stage, disk, late>>
      BY <2>6 DEF Upload, Take, Commit, CommitFails, Mark, Flushed, Drop, Shapes, Uploaders
    <3>2. rows' = rows \/ \E B : rows' = Marked(B)
      BY <2>6 DEF Upload, Take, Commit, CommitFails, Mark, Flushed
    <3>3. QED
      BY <2>b, <3>1, <3>2, SweepKeeps
  <2>7. CASE Take("run")
    <3>1. /\ up'["run"].queue \cup up'["run"].batch = InRun
          /\ up'["run"].phase = up["run"].phase
      BY <2>7, <2>c DEF Take, Shapes, InRun, UpRow
    <3>2. QED
      BY <2>7, <2>b, <3>1 DEF Take, Kept, InRun
  <2>8. CASE Commit("run")
    BY <2>8, <2>b, <2>c DEF Commit, Kept, InRun, Shapes, UpRow
  <2>9. CASE CommitFails("run")
    <3>1. Files(up["run"].batch) \subseteq disk
      BY <2>b, <2>c DEF Files, Kept, InRun, UpRow
    <3>2. QED
      BY <2>9, <2>a, <3>1 DEF CommitFails
  <2>10. CASE Mark("run")
    <3>1. rows' = Marked(Files(up["run"].batch)) /\ UNCHANGED <<stage, disk, late>>
      BY <2>10 DEF Mark
    <3>2. /\ up'["run"].queue = up["run"].queue /\ up'["run"].batch = {}
          /\ up'["run"].phase = up["run"].phase
      BY <2>10, <2>c DEF Mark, Drop, Shapes, UpRow
    <3>3. \A v \in Verdicts : /\ rows[v] # "absent" => rows'[v] # "absent"
                              /\ rows[v] = "uploaded" => rows'[v] = "uploaded"
                              /\ rows[v] # "absent" /\ v \in up["run"].batch => rows'[v] = "uploaded"
      BY <3>1, MarkedKeeps DEF Files
    <3>4. QED
      BY <2>b, <3>1, <3>2, <3>3 DEF Kept, InRun
  <2>11. CASE Flushed("run")
    BY <2>11, <2>b, <2>c DEF Flushed, Kept, InRun, Shapes, UpRow
  <2>12. ASSUME NEW q \in late PROVE FALSE
    BY <2>b, <2>12 DEF Kept
  <2>13. CASE UNCHANGED vars
    BY <2>13, <2>b DEF vars, Kept, InRun
  <2>14. QED
    BY <2>a, <2>1, <2>2, <2>3, <2>4, <2>5, <2>6, <2>7, <2>8, <2>9, <2>10, <2>11, <2>12, <2>13
    DEF Next, Thread, Upload, Uploaders, JudgeRaises, RecordRetried, RecordRaises, MarkFails, Kill,
        LoseBlob
<1>3. (faults = 0 => Kept) => NothingForgotten
  BY DEF Kept, InRun, NothingForgotten
<1>4. QED
  BY <1>1, <1>2, <1>3, TypeCorrect, PTL DEF Spec
===============================================================================
