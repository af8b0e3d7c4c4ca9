---------------------------- MODULE ResponseUpload ----------------------------
(***************************************************************************)
(* The raw responses behind the verdicts.  A worker thread writes the blob *)
(* to disk, inserts the verdict row as pending, and hands the blob to its  *)
(* run's uploader; the uploader commits blobs to Hugging Face in batches   *)
(* and then marks the rows naming them.  A later sweep (reconcile) pushes  *)
(* what stayed pending.  Disk, hub and database fail independently, a      *)
(* process can die between any two steps, and the disk is expendable.      *)
(***************************************************************************)
EXTENDS Integers, FiniteSets

CONSTANTS
    Verdicts,    \* the verdict rows one tier run writes
    Blobs,       \* response hashes
    Blob,        \* the blob each verdict names; equal answers share one
    BatchSize,   \* FLORA_HF_COMMIT_BATCH
    MaxFaults    \* bound: failures, kills and lost files in a behaviour

ASSUME BlobAssumption == Blob \in [Verdicts -> Blobs]
ASSUME BatchAssumption == BatchSize \in Nat \ {0} /\ MaxFaults \in Nat

VARIABLES
    stage,   \* how far the thread of each verdict is
    rows,    \* response_state of each verdict row
    disk,    \* blobs in cache/engine/responses
    hub,     \* blobs some commit accepted
    up,      \* the uploaders: the tier run's and the sweep's
    late,    \* requests whose caller stopped waiting, still on their way
    faults

vars == <<stage, rows, disk, hub, up, late, faults>>

Uploaders == {"run", "sweep"}

\* The queue has an entry per verdict: a blob two verdicts share is queued
\* twice.  `batch` is what the lock holder has taken off the queue; `committed`,
\* that the hub has acknowledged it.
Uploader(phase) == [phase |-> phase, queue |-> {}, batch |-> {}, committed |-> FALSE]

Init ==
    /\ stage = [v \in Verdicts |-> "new"]
    /\ rows = [v \in Verdicts |-> "absent"]
    /\ disk = {} /\ hub = {} /\ late = {} /\ faults = 0
    /\ up = [u \in Uploaders |-> Uploader(IF u = "run" THEN "open" ELSE "idle")]

Fault == faults < MaxFaults /\ faults' = faults + 1
LostOrLate(request) == late' \in {late, late \cup {request}}

Files(E) == {Blob[v] : v \in E}

-----------------------------------------------------------------------------
\* The thread of one verdict.  The disk write comes before the row.
WriteBlob(v) ==
    /\ up["run"].phase = "open" /\ stage[v] = "new"
    /\ stage' = [stage EXCEPT ![v] = "written"]
    /\ disk' = disk \cup {Blob[v]}
    /\ UNCHANGED <<rows, hub, up, late, faults>>

JudgeRaises(v) ==
    /\ up["run"].phase = "open" /\ stage[v] = "new"
    /\ Fault
    /\ stage' = [stage EXCEPT ![v] = "gone"]
    /\ UNCHANGED <<rows, disk, hub, up, late>>

\* record_verdict upserts on the id the row carries, response_state included.
Upsert(v) == rows' = [rows EXCEPT ![v] = "pending"]
InsertRequest(v) == [op |-> "insert", verdict |-> v]

Record(v) ==
    /\ stage[v] = "written"
    /\ stage' = [stage EXCEPT ![v] = "recorded"]
    /\ Upsert(v)
    /\ UNCHANGED <<disk, hub, up, late, faults>>

\* An attempt timed out, a later one got through, and the first may still come.
RecordRetried(v) ==
    /\ stage[v] = "written"
    /\ Fault
    /\ stage' = [stage EXCEPT ![v] = "recorded"]
    /\ Upsert(v)
    /\ LostOrLate(InsertRequest(v))
    /\ UNCHANGED <<disk, hub, up>>

\* The ladder is spent; the thread dies without handing its blob over.
RecordRaises(v) ==
    /\ stage[v] = "written"
    /\ Fault
    /\ stage' = [stage EXCEPT ![v] = "gone"]
    /\ Upsert(v) \/ rows' = rows
    /\ LostOrLate(InsertRequest(v))
    /\ UNCHANGED <<disk, hub, up>>

\* _ResponseUploader.add: it waits for the lock while a commit is running, and
\* a full queue is taken before the lock is let go.
HandOver(v) ==
    /\ stage[v] = "recorded"
    /\ up["run"].batch = {} /\ Cardinality(up["run"].queue) < BatchSize
    /\ stage' = [stage EXCEPT ![v] = "handed"]
    /\ up' = [up EXCEPT !["run"].queue = @ \cup {v}]
    /\ UNCHANGED <<rows, disk, hub, late, faults>>

\* _finish: every thread has returned (works queued behind a failure do
\* nothing), and what is queued is flushed.
Flush ==
    /\ up["run"].phase = "open" /\ up["run"].batch = {}
    /\ \A v \in Verdicts : stage[v] \notin {"written", "recorded"}
    /\ (\A v \in Verdicts : stage[v] # "new") \/ (\E v \in Verdicts : stage[v] = "gone")
    /\ up' = [up EXCEPT !["run"].phase = "flushing"]
    /\ UNCHANGED <<stage, rows, disk, hub, late, faults>>

-----------------------------------------------------------------------------
\* Mutant: only rows whose run got as far as queueing their blob.
PendingHanded ==
    {v \in Verdicts : rows[v] = "pending" /\ stage[v] = "handed" /\ Blob[v] \in disk}

\* reconcile_responses: pending rows whose blobs are still on this disk, each
\* blob taken once.
Pending == {v \in Verdicts : rows[v] = "pending" /\ Blob[v] \in disk}
OnePerBlob(E) == {v \in E : v = CHOOSE x \in E : Blob[x] = Blob[v]}

Sweep ==
    /\ up["sweep"].phase = "idle"
    /\ Pending # {}
    /\ up' = [up EXCEPT !["sweep"] = [Uploader("flushing") EXCEPT !.queue = OnePerBlob(Pending)]]
    /\ UNCHANGED <<stage, rows, disk, hub, late, faults>>

\* _take
Take(u) ==
    /\ up[u].batch = {} /\ up[u].queue # {}
    /\ up[u].phase = "flushing" \/ Cardinality(up[u].queue) >= BatchSize
    /\ \E E \in SUBSET up[u].queue :
           /\ E # {} /\ Cardinality(E) <= BatchSize
           /\ E = up[u].queue \/ Cardinality(E) = BatchSize
           /\ up' = [up EXCEPT ![u].queue = @ \ E, ![u].batch = E]
    /\ UNCHANGED <<stage, rows, disk, hub, late, faults>>

\* _commit, first half: one hub commit reads every file of the batch.
Commit(u) ==
    /\ up[u].batch # {} /\ ~up[u].committed
    /\ Files(up[u].batch) \subseteq disk
    /\ hub' = hub \cup Files(up[u].batch)
    /\ up' = [up EXCEPT ![u].committed = TRUE]
    /\ UNCHANGED <<stage, rows, disk, late, faults>>

\* Mutant: the next batch starts out as acknowledged.
DropBatchOnly(u) == up' = [up EXCEPT ![u].batch = {}]

\* The lock holder is done with the batch, whatever became of it.
Drop(u) == up' = [up EXCEPT ![u].batch = {}, ![u].committed = FALSE]

\* The commit raises: refused, or accepted and not acknowledged.
CommitFails(u) ==
    /\ up[u].batch # {} /\ ~up[u].committed
    /\ IF Files(up[u].batch) \subseteq disk
       THEN Fault /\ hub' \in {hub, hub \cup Files(up[u].batch)}
       ELSE UNCHANGED <<hub, faults>>
    /\ Drop(u)
    /\ UNCHANGED <<stage, rows, disk, late>>

\* mark_uploaded: every pending row naming one of these blobs, whoever wrote it.
Marked(B) == [v \in Verdicts |-> IF rows[v] = "pending" /\ Blob[v] \in B
                                 THEN "uploaded" ELSE rows[v]]

\* Mutant: the rows are marked before the commit is acknowledged.
MarkEarly(u) ==
    /\ up[u].batch # {}
    /\ rows' = Marked(Files(up[u].batch))
    /\ Drop(u)
    /\ UNCHANGED <<stage, disk, hub, late, faults>>

Mark(u) ==
    /\ up[u].committed
    /\ rows' = Marked(Files(up[u].batch))
    /\ Drop(u)
    /\ UNCHANGED <<stage, disk, hub, late, faults>>

\* The chunks are patched one by one, so a failure can leave some marked.
MarkFails(u) ==
    /\ up[u].committed
    /\ Fault
    /\ \E B \in SUBSET Files(up[u].batch) :
           /\ rows' = Marked(B)
           /\ LostOrLate([op |-> "mark", blobs |-> Files(up[u].batch) \ B])
    /\ Drop(u)
    /\ UNCHANGED <<stage, disk, hub>>

\* Mutant: a flush that leaves the last, short batch behind.
FlushedFullBatches(u) ==
    /\ up[u].phase = "flushing" /\ up[u].batch = {}
    /\ Cardinality(up[u].queue) < BatchSize
    /\ up' = [up EXCEPT ![u].phase = IF u = "run" THEN "done" ELSE "idle"]
    /\ UNCHANGED <<stage, rows, disk, hub, late, faults>>

Flushed(u) ==
    /\ up[u].phase = "flushing" /\ up[u].queue = {} /\ up[u].batch = {}
    /\ up' = [up EXCEPT ![u].phase = IF u = "run" THEN "done" ELSE "idle"]
    /\ UNCHANGED <<stage, rows, disk, hub, late, faults>>

-----------------------------------------------------------------------------
\* What a process may have sent and not heard of yet.
InFlight(u) ==
    {InsertRequest(v) : v \in {x \in Verdicts : u = "run" /\ stage[x] = "written"}}
    \cup {[op |-> "mark", blobs |-> B] : B \in {b \in {Files(up[u].batch)} : up[u].committed}}

\* A killed process loses its queue and its threads, not its rows or files;
\* what it had sent may still be executed, its commit too.
Kill(u) ==
    /\ up[u].phase \in {"open", "flushing"}
    /\ Fault
    /\ up' = [up EXCEPT ![u] = Uploader(IF u = "run" THEN "done" ELSE "idle")]
    /\ stage' = IF u = "sweep" THEN stage
                ELSE [v \in Verdicts |-> IF stage[v] = "handed" THEN "handed" ELSE "gone"]
    /\ \E sent \in SUBSET InFlight(u) : late' = late \cup sent
    /\ hub' \in {hub} \cup {hub \cup B : B \in {b \in {Files(up[u].batch)} : b \subseteq disk}}
    /\ UNCHANGED <<rows, disk>>

\* The response cache is expendable.
LoseBlob(b) ==
    /\ b \in disk
    /\ Fault
    /\ disk' = disk \ {b}
    /\ UNCHANGED <<stage, rows, hub, up, late>>

LateInsert(q) == q.op = "insert" /\ Upsert(q.verdict)
LateMark(q) == q.op = "mark" /\ rows' = Marked(q.blobs)
Late(q) ==
    /\ LateInsert(q) \/ LateMark(q)
    /\ late' = late \ {q}
    /\ UNCHANGED <<stage, disk, hub, up, faults>>

Thread(v) == WriteBlob(v) \/ Record(v) \/ HandOver(v)
Upload(u) == Take(u) \/ Commit(u) \/ CommitFails(u) \/ Mark(u) \/ Flushed(u)

Next ==
    \/ \E v \in Verdicts : Thread(v) \/ JudgeRaises(v) \/ RecordRetried(v) \/ RecordRaises(v)
    \/ Flush \/ Sweep
    \/ \E u \in Uploaders : Upload(u) \/ MarkFails(u) \/ Kill(u)
    \/ \E b \in Blobs : LoseBlob(b)
    \/ \E q \in late : Late(q)

Spec == Init /\ [][Next]_vars

\* The sweep is run again and again; nothing is assumed of the run.
FairSpec == Spec /\ WF_vars(Sweep) /\ WF_vars(Upload("sweep"))

-----------------------------------------------------------------------------
\* Threads, rows, uploaders and requests have the shape the code gives them,
\* one commit never carries more than a batch, and only the batch in hand is
\* acknowledged.
TypeOK ==
    /\ stage \in [Verdicts -> {"new", "written", "recorded", "handed", "gone"}]
    /\ rows \in [Verdicts -> {"absent", "pending", "uploaded"}]
    /\ disk \subseteq Blobs /\ hub \subseteq Blobs
    /\ up \in [Uploaders -> [phase : {"open", "flushing", "done", "idle"},
                            queue : SUBSET Verdicts, batch : SUBSET Verdicts, committed : BOOLEAN]]
    /\ \A u \in Uploaders :
           /\ Cardinality(up[u].batch) <= BatchSize
           /\ up[u].committed => up[u].batch # {}
    /\ late \subseteq [op : {"insert"}, verdict : Verdicts] \cup [op : {"mark"}, blobs : SUBSET Blobs]
    /\ faults \in 0 .. MaxFaults

\* "Nothing here ever claims `uploaded` for a blob a commit did not take",
\* whichever of two uploaders marks it, however late a request lands.
UploadedMeansOnHub == \A v \in Verdicts : rows[v] = "uploaded" => Blob[v] \in hub

\* A run that ends without a fault leaves no row it wrote pending, though rows
\* share blobs and a sweep works beside it.
NothingForgotten ==
    up["run"].phase = "done" /\ faults = 0 => \A v \in Verdicts : rows[v] = "uploaded"

\* Whatever failed, a row is marked in the end as long as its blob is still on
\* disk: reconciliation repairs every way a row can be left pending.
AllPushed ==
    \A v \in Verdicts :
        rows[v] = "pending" /\ Blob[v] \in disk
            ~> rows[v] = "uploaded" \/ Blob[v] \notin disk

\* A retried insert "updates the row to the values it already holds ...
\* because nothing changes" (record_verdict), taken at its word.
UploadedStays ==
    [][\A v \in Verdicts : rows[v] = "uploaded" => rows'[v] = "uploaded"]_vars
=============================================================================
