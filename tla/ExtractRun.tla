----------------------------- MODULE ExtractRun -----------------------------
(***************************************************************************)
(* The extract tier: runs that extract works batch by batch, each batch    *)
(* under a claim a heartbeat renews, and corrections of stored results.    *)
(* Both write permanent verdict rows and point old rows at new ones, which *)
(* hides the old ones from every reader; both read rows long before they   *)
(* act on what they read.                                                  *)
(*                                                                         *)
(* An RPC executes in one step (`Claims` opens it up).  Lease ends are     *)
(* counted from now: the clock stands at 0, and a tick, a third of the     *)
(* lease, lowers every end by one.  One release, one generation; every     *)
(* work is admitted by the screens.                                        *)
(***************************************************************************)
EXTENDS ClaimLedger, Sequences

CONSTANTS
    Runs,         \* processes: `extract --run`, or a correction tool
    Tier, Release,
    Modes,        \* live and validation, kept on the claim
    BatchSize,    \* EXTRACT_CLAIM_BATCH
    Limits,       \* what --limit may say; the number of works is no limit
    Named,        \* the sets --redo may name; none is the run without it
    Patched,      \* the sets of works a correction may be about
    MaxFaults     \* bound: failed calls, failed works, kills, operators' ends

ASSUME WorksAssumption == IsFiniteSet(Works)
ASSUME ModesAssumption == Modes # {}
ASSUME TierAssumption == Tier \in LockTiers /\ Release \in Releases
ASSUME BoundsAssumption ==
    BatchSize \in Nat \ {0} /\ Limits \subseteq Nat \ {0} /\ MaxFaults \in Nat
ASSUME NamesAssumption == Named \subseteq SUBSET Works /\ Patched \subseteq SUBSET Works

VARIABLES
    rows,     \* engine_verdicts of this tier: each work's, in the order created
    runs,     \* what each process keeps in memory
    faults

vars == <<releases, claims, now, rows, runs, faults>>

TTL == 3      \* EXTRACT_CLAIM_TTL_MINUTES, in heartbeats

\* A result row settles its work or rests it, or is an api_error, which a later
\* run redoes; an evidence row is one call.  `by` is superseded_by, 0 for null.
Kinds == {"evidence", "settled", "api_error"}
Row == [mode : Modes, kind : Kinds, by : Nat]

None == "none"
ASSUME NoneAssumption == None \notin ClaimIds
NoRows == [w \in Works |-> 0]

\* `old`: the rows to be superseded; `new`: what supersedes them.  `busy`: the
\* works at a thread.  `due`, `missed`, `lost` are the heartbeat's.
Idle ==
    [phase |-> "idle", mode |-> CHOOSE m \in Modes : TRUE, reopened |-> {}, left |-> 0,
     todo |-> {}, attempted |-> {}, old |-> NoRows, new |-> NoRows,
     batch |-> {}, queue |-> {}, busy |-> {}, claim |-> None, failed |-> FALSE,
     due |-> FALSE, missed |-> 0, lost |-> FALSE]

Init ==
    /\ releases = Releases /\ now = 0
    /\ claims = [id \in ClaimIds |-> NoClaim]
    /\ rows = [w \in Works |-> <<>>]
    /\ runs = [r \in Runs |-> Idle]
    /\ faults = 0

Fault == faults < MaxFaults /\ faults' = faults + 1
Becomes(r, c) == runs' = [runs EXCEPT ![r] = c]

-----------------------------------------------------------------------------
\* What readers make of the rows.
Newest(S) == IF S = {} THEN 0 ELSE CHOOSE i \in S : \A j \in S : j <= i
Readable(w, modes) ==
    {i \in DOMAIN rows[w] : rows[w][i].mode \in modes /\ rows[w][i].by = 0}
IsResult(w, i) == rows[w][i].kind # "evidence"

\* _by_work takes the group of rows with the newest row, and evidence rows are a
\* group of their own: newer evidence hides the results.
Decision(w, modes) ==
    LET newest == Newest(Readable(w, modes))
    IN  IF newest # 0 /\ IsResult(w, newest) THEN newest ELSE 0

\* latest_results, for the export and for corrections, reads results only.
LatestResult(w, mode) == Newest({i \in Readable(w, {mode}) : IsResult(w, i)})

Settled(mode) ==
    {w \in Works : Decision(w, {mode}) # 0 /\ rows[w][Decision(w, {mode})].kind = "settled"}
Held == UNION {claims[id].items : id \in {i \in ClaimIds : Live(i, now)}}

\* Mutant: what this run has judged is offered again unless it settled.
OfferedAgain(mode, reopened, attempted) == Works \ (Held \cup (Settled(mode) \ reopened))
Offered(mode, reopened, attempted) ==
    Works \ (Held \cup (Settled(mode) \ reopened) \cup attempted)

-----------------------------------------------------------------------------
\* run_extract_tier: the worklist.  A run that refuses works nobody named does
\* not start.
Plan(r, mode, redo, limit) ==
    LET works == Offered(mode, redo, {})
    IN  /\ runs[r].phase = "idle" /\ works # {}
        /\ Becomes(r, [Idle EXCEPT !.phase = IF redo = {} THEN "planned" ELSE "reopening",
                                   !.mode = mode, !.reopened = redo, !.left = limit,
                                   !.todo = works])
        /\ UNCHANGED ledger /\ UNCHANGED <<rows, faults>>

\* _supersedable: the rows --redo is about to replace, in the run's own mode.
ReadOld(r) ==
    LET old == [w \in Works |-> IF w \in runs[r].reopened
                                THEN Decision(w, {runs[r].mode}) ELSE 0]
    IN  /\ runs[r].phase = "reopening"
        /\ Becomes(r, [runs[r] EXCEPT !.phase = "planned", !.old = old])
        /\ UNCHANGED ledger /\ UNCHANGED <<rows, faults>>

\* The next batch: as many works as are left, a claim takes, and --limit allows.
Batch(r, B) ==
    /\ B \subseteq runs[r].todo
    /\ Cardinality(B) <= BatchSize /\ Cardinality(B) <= runs[r].left
    /\ B = runs[r].todo \/ Cardinality(B) \in {BatchSize, runs[r].left}

\* The server mints an id and inserts the claim.
Fresh == {id \in ClaimIds : claims[id].status = "absent"}
Grant(id, B) ==
    /\ id \in Fresh /\ id = CHOOSE i \in Fresh : TRUE
    /\ Claimable(Release, Tier, B, now + TTL, now)
    /\ InsertClaim(id, Release, Tier, B, now + TTL)
    /\ UNCHANGED <<releases, now>>

ClaimBatch(r, id, B) ==
    /\ runs[r].phase = "planned" /\ Batch(r, B) /\ Grant(id, B)
    /\ Becomes(r, [runs[r] EXCEPT !.phase = "running", !.batch = B, !.queue = B, !.todo = {},
                                  !.claim = id, !.missed = 0])
    /\ UNCHANGED <<rows, faults>>

\* A conflict ends the run.
ClaimRefused(r, B) ==
    /\ runs[r].phase \in {"planned", "patching"}
    /\ IF runs[r].phase = "planned" THEN Batch(r, B) ELSE B = runs[r].batch
    /\ Conflicts(Tier, B, now) # {}
    /\ Becomes(r, Idle)
    /\ UNCHANGED ledger /\ UNCHANGED <<rows, faults>>

-----------------------------------------------------------------------------
\* run_tier, on threads: judge a work, write its rows.  The evidence
\* a result follows is left out: in one mode nothing reads past a newer result.
Ask(r, w) ==
    /\ runs[r].phase = "running" /\ ~runs[r].failed /\ w \in runs[r].queue
    /\ Becomes(r, [runs[r] EXCEPT !.queue = runs[r].queue \ {w}, !.busy = runs[r].busy \cup {w}])
    /\ UNCHANGED ledger /\ UNCHANGED <<rows, faults>>

Append1(r, w, kind) ==
    rows' = [rows EXCEPT ![w] = Append(@, [mode |-> runs[r].mode, kind |-> kind, by |-> 0])]

Result(r, w, kind) ==
    /\ runs[r].phase = "running" /\ w \in runs[r].busy
    /\ Append1(r, w, kind)
    /\ Becomes(r, [runs[r] EXCEPT !.busy = runs[r].busy \ {w}])
    /\ UNCHANGED ledger /\ UNCHANGED faults

\* The judge raises, or an insert does: what the work has written stays, and so
\* does a row whose insert went through though its answer was lost.
WorkRaises(r, w) ==
    /\ runs[r].phase = "running" /\ w \in runs[r].busy
    /\ Fault
    /\ UNCHANGED rows \/ \E kind \in Kinds : Append1(r, w, kind)
    /\ Becomes(r, [runs[r] EXCEPT !.busy = runs[r].busy \ {w}, !.failed = TRUE])
    /\ UNCHANGED ledger

\* The end of a batch.  `lost` is looked at only now; a run that failed, or whose
\* claim somebody else ended, dies here and supersedes nothing.
BatchOver(r) ==
    runs[r].phase = "running" /\ runs[r].busy = {} /\ (runs[r].queue = {} \/ runs[r].failed)

\* Mutant: the run keeps the claim it ended.
AfterBatchKeeps(r) ==
    [runs[r] EXCEPT !.attempted = runs[r].attempted \cup runs[r].batch,
                    !.phase = IF runs[r].lost THEN "reading" ELSE "rebuilding",
                    !.batch = {}, !.queue = {}, !.missed = 0, !.due = FALSE]
AfterBatch(r) ==
    [runs[r] EXCEPT !.attempted = runs[r].attempted \cup runs[r].batch,
                    !.reopened = runs[r].reopened \ runs[r].batch,
                    !.left = runs[r].left - Cardinality(runs[r].batch),
                    !.phase = IF runs[r].lost \/ runs[r].left = Cardinality(runs[r].batch)
                              THEN "reading" ELSE "rebuilding",
                    !.batch = {}, !.queue = {}, !.claim = None, !.missed = 0,
                    !.due = FALSE]

EndBatch(r) ==
    /\ BatchOver(r)
    /\ IF Endable(runs[r].claim)
       THEN /\ EndClaim(runs[r].claim, IF runs[r].failed THEN "failed" ELSE "complete")
            /\ UNCHANGED <<releases, now>>
       ELSE UNCHANGED ledger
    /\ Becomes(r, IF Endable(runs[r].claim) /\ ~runs[r].failed THEN AfterBatch(r) ELSE Idle)
    /\ UNCHANGED <<rows, faults>>

Rebuild(r) ==
    LET works == Offered(runs[r].mode, runs[r].reopened, runs[r].attempted)
    IN  /\ runs[r].phase = "rebuilding"
        /\ Becomes(r, [runs[r] EXCEPT !.todo = works,
                                      !.phase = IF works = {} THEN "reading" ELSE "planned"])
        /\ UNCHANGED ledger /\ UNCHANGED <<rows, faults>>

-----------------------------------------------------------------------------
\* _supersede: whatever decides the work now, in any mode, replaces the row read
\* before the run.
\* Mutant: a work that was not extracted again is superseded by its own row.
ReadCurrentSelf(r) ==
    LET replaced == {w \in Works : runs[r].old[w] # 0 /\ Decision(w, Modes) # 0}
    IN  /\ runs[r].phase = "reading"
        /\ Becomes(r, IF replaced = {} THEN Idle
                      ELSE [Idle EXCEPT
                            !.phase = "superseding", !.mode = runs[r].mode,
                            !.old = [w \in Works |-> IF w \in replaced THEN runs[r].old[w] ELSE 0],
                            !.new = [w \in Works |-> IF w \in replaced THEN Decision(w, Modes)
                                                                       ELSE 0]])
        /\ UNCHANGED ledger /\ UNCHANGED <<rows, faults>>
ReadCurrent(r) ==
    LET replaced == {w \in Works : runs[r].old[w] # 0
                                   /\ Decision(w, Modes) \notin {0, runs[r].old[w]}}
    IN  /\ runs[r].phase = "reading"
        /\ Becomes(r, IF replaced = {} THEN Idle
                      ELSE [Idle EXCEPT
                            !.phase = "superseding", !.mode = runs[r].mode,
                            !.old = [w \in Works |-> IF w \in replaced THEN runs[r].old[w] ELSE 0],
                            !.new = [w \in Works |-> IF w \in replaced THEN Decision(w, Modes)
                                                                       ELSE 0]])
        /\ UNCHANGED ledger /\ UNCHANGED <<rows, faults>>

Supersede(r, w) ==
    /\ runs[r].phase \in {"superseding", "correcting"} /\ runs[r].new[w] # 0
    /\ rows' = [rows EXCEPT ![w][runs[r].old[w]].by = runs[r].new[w]]
    /\ LET c == [runs[r] EXCEPT !.old = [@ EXCEPT ![w] = 0], !.new = [@ EXCEPT ![w] = 0]]
       IN  Becomes(r, IF c.phase = "superseding" /\ c.new = NoRows THEN Idle ELSE c)
    /\ UNCHANGED ledger /\ UNCHANGED faults

-----------------------------------------------------------------------------
\* supersede_targets: the results to correct are read, then claimed, without a
\* heartbeat; each is copied into a new row, which then supersedes it.
PlanCorrection(r, mode, patched) ==
    LET located == {w \in patched : LatestResult(w, mode) # 0}
    IN  /\ runs[r].phase = "idle" /\ located # {}
        /\ Becomes(r, [Idle EXCEPT !.phase = "patching", !.mode = mode, !.batch = located,
                          !.old = [w \in Works |-> IF w \in located THEN LatestResult(w, mode)
                                                                    ELSE 0]])
        /\ UNCHANGED ledger /\ UNCHANGED <<rows, faults>>

ClaimCorrection(r, id) ==
    /\ runs[r].phase = "patching" /\ Grant(id, runs[r].batch)
    /\ Becomes(r, [runs[r] EXCEPT !.phase = "correcting", !.claim = id])
    /\ UNCHANGED <<rows, faults>>

CopyRow(r, w) ==
    /\ runs[r].phase = "correcting" /\ runs[r].old[w] # 0 /\ runs[r].new = NoRows
    /\ Append1(r, w, rows[w][runs[r].old[w]].kind)
    /\ Becomes(r, [runs[r] EXCEPT !.new = [@ EXCEPT ![w] = Len(rows[w]) + 1]])
    /\ UNCHANGED ledger /\ UNCHANGED faults

\* The claim ends complete when all is written, and also when a write raised.
EndCorrection(r) ==
    /\ runs[r].phase = "correcting"
    /\ IF runs[r].old = NoRows THEN UNCHANGED faults ELSE Fault
    /\ IF Endable(runs[r].claim)
       THEN EndClaim(runs[r].claim, "complete") /\ UNCHANGED <<releases, now>>
       ELSE UNCHANGED ledger
    /\ Becomes(r, Idle)
    /\ UNCHANGED rows

-----------------------------------------------------------------------------
\* _Heartbeat._beat.  A renewal comes a third of the lease after the one before.
Beating(r) == runs[r].phase = "running" /\ runs[r].due

\* Mutant: the renewal asks for what is left of the lease.
RenewShort(r) ==
    /\ Beating(r) /\ Renewable(runs[r].claim, now)
    /\ ExtendLease(runs[r].claim, claims[runs[r].claim].expires)
    /\ Becomes(r, [runs[r] EXCEPT !.due = FALSE, !.missed = 0])
    /\ UNCHANGED <<releases, now, rows, faults>>
Renew(r) ==
    /\ Beating(r) /\ Renewable(runs[r].claim, now)
    /\ ExtendLease(runs[r].claim, now + TTL)
    /\ Becomes(r, [runs[r] EXCEPT !.due = FALSE, !.missed = 0])
    /\ UNCHANGED <<releases, now, rows, faults>>

\* A call that failed, or met a claim somebody ended, is not a lost lease.  An
\* outage is one fault, however many renewals it costs.
RenewFails(r) ==
    /\ Beating(r)
    /\ IF claims[runs[r].claim].status = "active" /\ runs[r].missed = 0
       THEN Fault ELSE UNCHANGED faults
    /\ Becomes(r, [runs[r] EXCEPT !.due = FALSE, !.missed = IF @ < TTL THEN @ + 1 ELSE TTL])
    /\ UNCHANGED ledger /\ UNCHANGED rows

\* claim_lease_lost: the thread notes it and returns.
RenewLost(r) ==
    /\ Beating(r)
    /\ claims[runs[r].claim].status = "active" /\ ~Live(runs[r].claim, now)
    /\ Becomes(r, [runs[r] EXCEPT !.due = FALSE, !.lost = TRUE])
    /\ UNCHANGED ledger /\ UNCHANGED <<rows, faults>>

-----------------------------------------------------------------------------
\* A third of the lease passes.  No heartbeat sleeps through two.
Tick ==
    /\ \A r \in Runs : ~Beating(r)
    /\ \E id \in ClaimIds : Live(id, now)
    /\ claims' = [id \in ClaimIds |->
            [claims[id] EXCEPT !.expires = IF @ > 0 THEN @ - 1 ELSE 0]]
    /\ runs' = [r \in Runs |->
            [runs[r] EXCEPT !.due = runs[r].phase = "running" /\ ~runs[r].lost]]
    /\ UNCHANGED <<releases, now, rows, faults>>

\* A process dies.  A run whose claim was made and not answered dies too.
Kill(r) ==
    /\ runs[r].phase # "idle"
    /\ Fault
    /\ Becomes(r, Idle)
    /\ UNCHANGED ledger /\ UNCHANGED rows

\* release-claim, by an operator who takes a live run for a dead one.
OperatorEnds(id) ==
    /\ Live(id, now)
    /\ Fault
    /\ EndClaim(id, "failed")
    /\ UNCHANGED <<releases, now, rows, runs>>

Next ==
    \/ \E r \in Runs :
        \/ \E mode \in Modes :
              \/ \E redo \in Named, limit \in Limits : Plan(r, mode, redo, limit)
              \/ \E patched \in Patched : PlanCorrection(r, mode, patched)
        \/ ReadOld(r) \/ EndBatch(r) \/ Rebuild(r) \/ ReadCurrent(r) \/ EndCorrection(r)
        \/ \E B \in SUBSET Works, id \in ClaimIds : ClaimBatch(r, id, B)
        \/ \E B \in SUBSET Works : ClaimRefused(r, B)
        \/ \E id \in ClaimIds : ClaimCorrection(r, id)
        \/ \E w \in Works :
              \/ Ask(r, w) \/ WorkRaises(r, w)
              \/ \E kind \in {"settled", "api_error"} : Result(r, w, kind)
              \/ Supersede(r, w) \/ CopyRow(r, w)
        \/ Renew(r) \/ RenewFails(r) \/ RenewLost(r)
        \/ Kill(r)
    \/ \E id \in ClaimIds : OperatorEnds(id)
    \/ Tick

Spec == Init /\ [][Next]_vars

-----------------------------------------------------------------------------
Phases == {"idle", "reopening", "planned", "running", "rebuilding", "reading", "superseding",
           "patching", "correcting"}
Commands ==
    [phase : Phases, mode : Modes, reopened : SUBSET Works, left : Nat, todo : SUBSET Works,
     attempted : SUBSET Works, old : [Works -> Nat], new : [Works -> Nat],
     batch : SUBSET Works, queue : SUBSET Works, busy : SUBSET Works,
     claim : ClaimIds \cup {None}, failed : BOOLEAN, due : BOOLEAN, missed : 0 .. TTL,
     lost : BOOLEAN]

\* Everything has its shape, rows point at rows, and a process holds a claim while
\* it works under one.
TypeOK ==
    /\ LedgerTypeOK
    /\ rows \in [Works -> Seq(Row)]
    /\ \A w \in Works : \A i \in DOMAIN rows[w] : rows[w][i].by <= Len(rows[w])
    /\ runs \in [Runs -> Commands]
    /\ \A r \in Runs : (runs[r].claim # None) = (runs[r].phase \in {"running", "correcting"})
    /\ faults \in 0 .. MaxFaults

\* The heartbeat's arithmetic: one renewal may fail and the batch still holds its
\* works, unless an operator ended its claim.
LeaseKept ==
    \A r \in Runs :
        (runs[r].phase = "running" /\ runs[r].missed < 2 /\ ~runs[r].lost) =>
            claims[runs[r].claim].status # "active" \/ Live(runs[r].claim, now)

\* The works a process spends on, or is rewriting.
Touches(r) ==
    IF runs[r].phase = "running" THEN runs[r].busy
    ELSE IF runs[r].phase = "correcting" THEN {w \in Works : runs[r].old[w] # 0} ELSE {}

\* Two processes write about one work at a time only if one of them no longer has
\* its lease.
WritesAlone ==
    \A r, q \in Runs :
        (r # q /\ Touches(r) \cap Touches(q) # {}) =>
            ~Live(runs[r].claim, now) \/ ~Live(runs[q].claim, now)

\* A run judges a work once, whatever the answer and whether or not it was named
\* for --redo: the worklist is rebuilt between batches, and no work that does not
\* settle comes back in the same run.
OncePerRun == \A r \in Runs : runs[r].batch \cap runs[r].attempted = {}

\* Each superseded result was replaced in its own mode.
OwnMode(w, mode) ==
    \A i \in DOMAIN rows[w] :
        (rows[w][i].mode = mode /\ rows[w][i].by # 0) => rows[w][rows[w][i].by].mode = mode

\* Whoever supersedes what, in whatever order, from however old a reading: the
\* export and the corrections get the newest result of a work, whatever was
\* superseded, and the checkpoint gets the same one, except that the evidence of a
\* later call without a result hides it, and then it gets none.  A row of another
\* mode that took a result's place is excepted.  Which row is newest is what this
\* says, not whose content is right: the copy a correction made is the newest too.
RowsOf(w, mode) == {i \in DOMAIN rows[w] : rows[w][i].mode = mode}
NewestSpeaks ==
    \A w \in Works, mode \in Modes :
        LET newest == Newest({i \in RowsOf(w, mode) : IsResult(w, i)})
        IN  OwnMode(w, mode) =>
              /\ LatestResult(w, mode) = newest
              /\ Decision(w, {mode}) =
                    IF \E i \in RowsOf(w, mode) : newest < i THEN 0 ELSE newest
=============================================================================
