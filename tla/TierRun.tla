-------------------------------- MODULE TierRun --------------------------------
(***************************************************************************)
(* Screen runs over one tier: several runners plan a batch from what they  *)
(* read, claim it, ask both voters about each work on worker threads,      *)
(* record each vote and end the claim.  Nothing connects a runner to the   *)
(* server but calls that can be lost before they arrive, answered into a   *)
(* dead connection, or executed long after the caller gave up; a runner    *)
(* can be killed at any step, and an operator can end any claim.           *)
(*                                                                         *)
(* Each RPC executes in one step here; `Claims` opens it up.  Time passes  *)
(* only while some lease is live: nothing else can tell it passed.         *)
(***************************************************************************)
EXTENDS ClaimLedger

CONSTANTS
    Runners,    \* processes running `screen --run` over the tier
    Tier,       \* the tier they run
    Offers,     \* the sets of works a run may be offered (whole pile, --limit, ids)
    TTL,        \* CLAIM_TTL_HOURS, in clock steps
    Workers,    \* ENGINE_TIER_WORKERS
    Attempts,   \* calls the retry ladder makes before it raises
    MaxFaults   \* bound: faults (lost calls, failed answers, kills) in a behaviour

ASSUME TierAssumption == Tier \in LockTiers
ASSUME RunnersAssumption == IsFiniteSet(Runners)
ASSUME OffersAssumption == Offers \subseteq SUBSET Works
ASSUME BoundsAssumption == {TTL, Workers, Attempts} \subseteq Nat \ {0} /\ MaxFaults \in Nat

VARIABLES
    run,      \* each runner's batch and claim
    asked,    \* works each runner's threads are asking the voters about
    owed,     \* votes received and not yet recorded
    rows,     \* engine_verdicts, identified by claim, work and voter
    late,     \* requests whose caller stopped waiting, still on their way
    faults

vars == <<releases, claims, now, run, asked, owed, rows, late, faults>>

Voters == {1, 2}
Placeholder == 0     \* the no_answer row a work gets when no voter answered
None == "none"
ASSUME NoneAssumption == None \notin ClaimIds

Row == [claim : ClaimIds, work : Works, voter : Voters \cup {Placeholder}]
\* `failed`: some work's thread has raised.  `stop`: the run has noticed.
Idle == [pc |-> "idle", release |-> "", batch |-> {}, claim |-> None,
         until |-> 0, tries |-> 0, todo |-> {}, failed |-> FALSE, stop |-> FALSE]

Init ==
    /\ LedgerInit
    /\ run = [r \in Runners |-> Idle]
    /\ asked = [r \in Runners |-> {}]
    /\ owed = [r \in Runners |-> {}]
    /\ rows = {} /\ late = {} /\ faults = 0

-----------------------------------------------------------------------------
\* Works whose recorded votes add up to a decision, votes pooled over claims.
Decided(w) == \A v \in Voters : \E x \in rows : x.work = w /\ x.voter = v
DecidedWorks == {w \in Works : Decided(w)}

\* claimed_work_ids: live claims of this tier, in this release only.
ClaimedWorks(release) ==
    UNION {claims[id].items : id \in {i \in ClaimIds : /\ Live(i, now)
                                                       /\ claims[i].tier = Tier
                                                       /\ claims[i].release = release}}

Fault == faults < MaxFaults /\ faults' = faults + 1
Quiet == UNCHANGED <<faults, late>>
Working == UNCHANGED <<asked, owed, rows>>   \* no work of any batch is touched

\* A call failed in transport: on to the next attempt, or the ladder is spent
\* and the run dies.
NextAttempt(r) ==
    IF run[r].tries + 1 < Attempts THEN [run[r] EXCEPT !.tries = @ + 1] ELSE Idle

\* A request the caller stopped waiting for is lost, or still on its way.
LostOrLate(request) == late' \in {late, late \cup {request}}

-----------------------------------------------------------------------------
\* _batch: first what is claimed, and only later, after the overlay and the
\* pool scan, what is decided.
ReadClaimed(r) ==
    /\ run[r].pc = "idle"
    /\ \E release \in Releases, S \in Offers :
           run' = [run EXCEPT ![r] = [Idle EXCEPT !.pc = "planning", !.release = release,
                                                  !.batch = S \ ClaimedWorks(release)]]
    /\ UNCHANGED ledger /\ Working /\ Quiet

\* Mutant: what is decided is not subtracted.
ReadNothing(r) ==
    /\ run[r].pc = "planning"
    /\ run' = [run EXCEPT ![r].pc = "planned"]
    /\ UNCHANGED ledger /\ Working /\ Quiet
ReadDecided(r) ==
    /\ run[r].pc = "planning"
    /\ LET batch == run[r].batch \ DecidedWorks
       IN  run' = [run EXCEPT ![r] =
               IF batch = {} THEN Idle ELSE [@ EXCEPT !.pc = "planned", !.batch = batch]]
    /\ UNCHANGED ledger /\ Working /\ Quiet

\* The lease end is the caller's own arithmetic, fixed for the whole ladder.
CallClaim(r) ==
    /\ run[r].pc = "planned"
    /\ run' = [run EXCEPT ![r] = [@ EXCEPT !.pc = "claiming", !.until = now + TTL, !.tries = 0]]
    /\ UNCHANGED ledger /\ Working /\ Quiet

ClaimRequest(r) ==
    [op |-> "claim", release |-> run[r].release, items |-> run[r].batch, until |-> run[r].until]

Grantable(q) == Claimable(q.release, Tier, q.items, q.until, now)

\* The server mints an id and inserts the claim.
Fresh == {id \in ClaimIds : claims[id].status = "absent"}
Grant(id, q) ==
    /\ id \in Fresh /\ id = CHOOSE i \in Fresh : TRUE
    /\ Grantable(q)
    /\ InsertClaim(id, q.release, Tier, q.items, q.until)
    /\ UNCHANGED <<releases, now>>

ClaimGranted(r) ==
    /\ run[r].pc = "claiming"
    /\ \E id \in ClaimIds :
           /\ Grant(id, ClaimRequest(r))
           /\ run' = [run EXCEPT ![r] = [@ EXCEPT !.pc = "running", !.claim = id,
                                               !.todo = run[r].batch, !.tries = 0]]
    /\ Working /\ Quiet

\* The claim committed and its response did not arrive: nobody knows its id.
ClaimGrantedUnheard(r) ==
    /\ run[r].pc = "claiming"
    /\ Fault
    /\ \E id \in ClaimIds : Grant(id, ClaimRequest(r))
    /\ run' = [run EXCEPT ![r] = NextAttempt(r)]
    /\ Working /\ UNCHANGED late

ClaimUnanswered(r) ==
    /\ run[r].pc = "claiming"
    /\ Fault
    /\ LostOrLate(ClaimRequest(r))
    /\ run' = [run EXCEPT ![r] = NextAttempt(r)]
    /\ UNCHANGED ledger /\ Working

\* The batch is rejected whole and the run exits.
ClaimRefused(r) ==
    /\ run[r].pc = "claiming"
    /\ ~Grantable(ClaimRequest(r))
    /\ run[r].release \in releases \/ run[r].until <= now
    /\ run' = [run EXCEPT ![r] = Idle]
    /\ UNCHANGED ledger /\ Working /\ Quiet

\* _claim: a release the server has never seen is registered and the claim
\* made again.
RegisterRelease(r) ==
    /\ run[r].pc = "claiming" /\ run[r].until > now
    /\ run[r].release \notin releases
    /\ releases' = releases \cup {run[r].release}
    /\ run' = [run EXCEPT ![r] = [@ EXCEPT !.pc = "planned"]]
    /\ UNCHANGED <<claims, now>> /\ Working /\ Quiet

-----------------------------------------------------------------------------
\* run_tier: the works of one batch on worker threads.
Busy(r) == asked[r] \cup {x.work : x \in owed[r]}

Ask(r) ==
    /\ run[r].pc = "running" /\ ~run[r].stop
    /\ Cardinality(Busy(r)) < Workers
    /\ \E w \in run[r].todo :
           /\ run' = [run EXCEPT ![r] = [@ EXCEPT !.todo = run[r].todo \ {w}]]
           /\ asked' = [asked EXCEPT ![r] = @ \cup {w}]
    /\ UNCHANGED ledger /\ UNCHANGED <<owed, rows>> /\ Quiet

\* What a work owes the table once its voters A answered.
VotesOf(r, w, A) ==
    {[claim |-> run[r].claim, work |-> w, voter |-> v] :
        v \in IF A = {} THEN {Placeholder} ELSE A}

Judged(r, w, A) ==
    /\ w \in asked[r]
    /\ asked' = [asked EXCEPT ![r] = @ \ {w}]
    /\ owed' = [owed EXCEPT ![r] = @ \cup VotesOf(r, w, A)]
    /\ UNCHANGED <<run, rows, late>> /\ UNCHANGED ledger

Answered(r) == \E w \in Works : Judged(r, w, Voters) /\ UNCHANGED faults
HalfAnswered(r) == \E w \in Works, A \in SUBSET Voters : A # Voters /\ Judged(r, w, A) /\ Fault

\* The judge raises (budget exhausted, provider gone): no votes.
JudgeRaises(r) ==
    /\ Fault
    /\ \E w \in asked[r] : asked' = [asked EXCEPT ![r] = @ \ {w}]
    /\ run' = [run EXCEPT ![r] = [@ EXCEPT !.failed = TRUE]]
    /\ UNCHANGED <<owed, rows, late>> /\ UNCHANGED ledger

\* Ctrl-C: the works in flight finish, the queued ones become no-ops.
Interrupt(r) ==
    /\ run[r].pc = "running"
    /\ Fault
    /\ run' = [run EXCEPT ![r] = [@ EXCEPT !.failed = TRUE, !.stop = TRUE]]
    /\ UNCHANGED ledger /\ Working /\ UNCHANGED late

\* The main thread hears of a failed work; until then others may still start.
HearFailure(r) ==
    /\ run[r].pc = "running" /\ run[r].failed /\ ~run[r].stop
    /\ run' = [run EXCEPT ![r] = [@ EXCEPT !.stop = TRUE]]
    /\ UNCHANGED ledger /\ Working /\ Quiet

\* A thread writes the votes of its work in voter order.
NextVotes(r) == {x \in owed[r] : \A y \in owed[r] : y.work = x.work => x.voter <= y.voter}

\* Lost responses below the end of the ladder are invisible: the insert is an
\* upsert on the id the row carries.
Record(r) ==
    /\ \E x \in NextVotes(r) :
           /\ rows' = rows \cup {x}
           /\ owed' = [owed EXCEPT ![r] = @ \ {x}]
    /\ UNCHANGED ledger /\ UNCHANGED <<run, asked>> /\ Quiet

\* The ladder is spent: the row is in the table, lost, or still coming, and
\* the thread raises without writing its other votes.
RecordRaises(r) ==
    /\ Fault
    /\ \E x \in NextVotes(r) :
           /\ \/ rows' = rows \cup {x} /\ late' = late
              \/ rows' = rows /\ LostOrLate([op |-> "row", row |-> x])
           /\ owed' = [owed EXCEPT ![r] = {y \in @ : y.work # x.work}]
    /\ run' = [run EXCEPT ![r] = [@ EXCEPT !.failed = TRUE]]
    /\ UNCHANGED ledger /\ UNCHANGED asked

\* Every future has returned.
Drain(r) ==
    /\ run[r].pc = "running"
    /\ Busy(r) = {}
    /\ run[r].todo = {} \/ run[r].stop
    /\ run' = [run EXCEPT ![r] = [@ EXCEPT !.pc = "ending", !.todo = {}]]
    /\ UNCHANGED ledger /\ Working /\ Quiet

-----------------------------------------------------------------------------
\* Mutant: the claim ends "failed" only if the works still queued were stopped.
EndStatusIfStopped(r) == IF run[r].stop THEN "failed" ELSE "complete"
EndStatus(r) == IF run[r].failed THEN "failed" ELSE "complete"

EndRequest(r) == [op |-> "end", id |-> run[r].claim, status |-> EndStatus(r)]

Ended(r) ==
    /\ run[r].pc = "ending"
    /\ Endable(run[r].claim)
    /\ EndClaim(run[r].claim, EndStatus(r))
    /\ run' = [run EXCEPT ![r] = Idle]
    /\ UNCHANGED <<releases, now>> /\ Working /\ Quiet

EndedUnheard(r) ==
    /\ run[r].pc = "ending"
    /\ Fault
    /\ Endable(run[r].claim)
    /\ EndClaim(run[r].claim, EndStatus(r))
    /\ run' = [run EXCEPT ![r] = NextAttempt(r)]
    /\ UNCHANGED <<releases, now, late>> /\ Working

EndUnanswered(r) ==
    /\ run[r].pc = "ending"
    /\ Fault
    /\ LostOrLate(EndRequest(r))
    /\ run' = [run EXCEPT ![r] = NextAttempt(r)]
    /\ UNCHANGED ledger /\ Working

\* Mutant: a run whose end is refused keeps the claim it does not hold.
EndRefusedKeeps(r) ==
    /\ run[r].pc = "ending"
    /\ ~Endable(run[r].claim)
    /\ run' = [run EXCEPT ![r] = [Idle EXCEPT !.claim = run[r].claim]]
    /\ UNCHANGED ledger /\ Working /\ Quiet

\* claim_not_active: forgiven after a retry, raised on a first attempt; the
\* run is over either way.
EndRefused(r) ==
    /\ run[r].pc = "ending"
    /\ ~Endable(run[r].claim)
    /\ run' = [run EXCEPT ![r] = Idle]
    /\ UNCHANGED ledger /\ Working /\ Quiet

\* What a runner may have sent and not heard of yet.
InFlight(r) ==
    {q \in {ClaimRequest(r)} : run[r].pc = "claiming"}
    \cup {q \in {EndRequest(r)} : run[r].pc = "ending"}
    \cup {[op |-> "row", row |-> x] : x \in NextVotes(r)}

\* SIGKILL: the process is gone; its claim and its rows stay, and what it had
\* sent may still be executed.
Kill(r) ==
    /\ run[r].pc # "idle"
    /\ Fault
    /\ run' = [run EXCEPT ![r] = Idle]
    /\ asked' = [asked EXCEPT ![r] = {}]
    /\ owed' = [owed EXCEPT ![r] = {}]
    /\ \E sent \in SUBSET InFlight(r) : late' = late \cup sent
    /\ UNCHANGED rows /\ UNCHANGED ledger

-----------------------------------------------------------------------------
\* A request nobody waits for reaches the server after all.
LateClaim(q) ==
    /\ q.op = "claim"
    /\ \E id \in ClaimIds : Grant(id, q)
    /\ UNCHANGED rows
LateRow(q) ==
    /\ q.op = "row"
    /\ rows' = rows \cup {q.row}
    /\ UNCHANGED ledger
LateEnd(q) ==
    /\ q.op = "end"
    /\ Endable(q.id)
    /\ EndClaim(q.id, q.status)
    /\ UNCHANGED <<releases, now, rows>>

Late(q) ==
    /\ LateClaim(q) \/ LateRow(q) \/ LateEnd(q)
    /\ late' = late \ {q}
    /\ UNCHANGED <<run, asked, owed, faults>>

\* `release-claim --claim <id> --yes`, whatever the claim's runner is doing.
OperatorEnds(id) ==
    /\ Fault
    /\ Endable(id)
    /\ EndClaim(id, "failed")
    /\ UNCHANGED <<releases, now, run, late>> /\ Working

Tick ==
    /\ \E id \in ClaimIds : Live(id, now)
    /\ now' = now + 1
    /\ UNCHANGED <<releases, claims, run>> /\ Working /\ Quiet

\* What a runner does of its own accord when nothing goes wrong.
Step(r) ==
    \/ ReadClaimed(r) \/ ReadDecided(r) \/ CallClaim(r)
    \/ ClaimGranted(r) \/ ClaimRefused(r) \/ RegisterRelease(r)
    \/ Ask(r) \/ Answered(r) \/ Record(r) \/ HearFailure(r) \/ Drain(r)
    \/ Ended(r) \/ EndRefused(r)

Trouble(r) ==
    \/ ClaimGrantedUnheard(r) \/ ClaimUnanswered(r)
    \/ HalfAnswered(r) \/ JudgeRaises(r) \/ Interrupt(r) \/ RecordRaises(r)
    \/ EndedUnheard(r) \/ EndUnanswered(r) \/ Kill(r)

Next ==
    \/ \E r \in Runners : Step(r) \/ Trouble(r)
    \/ \E q \in late : Late(q)
    \/ \E id \in ClaimIds : OperatorEnds(id)
    \/ Tick

Spec == Init /\ [][Next]_vars

\* The screens are run again until the pile is empty, and the clock goes on.
FairSpec == Spec /\ WF_vars(Tick) /\ \A r \in Runners : WF_vars(Step(r))

-----------------------------------------------------------------------------
\* Batches, votes and rows have the shape the code gives them.
TypeOK ==
    /\ LedgerTypeOK
    /\ \A r \in Runners :
           /\ run[r].pc \in {"idle", "planning", "planned", "claiming", "running", "ending"}
           /\ run[r].batch \subseteq Works /\ run[r].todo \subseteq run[r].batch
           /\ run[r].tries \in 0 .. Attempts - 1
           /\ run[r].claim \in ClaimIds <=> run[r].pc \in {"running", "ending"}
           /\ asked[r] \subseteq Works /\ owed[r] \subseteq Row
           /\ Cardinality(Busy(r)) <= Workers
    /\ rows \subseteq Row

\* A claim that ended "complete" left a row of its own for every work it held,
\* whatever the responses that were lost, the threads that raised and the
\* order they raised in: the handoff and the cost report read it so.
CompleteMeansAnswered ==
    \A id \in ClaimIds : claims[id].status = "complete" =>
        \A w \in claims[id].items : \E x \in rows : x.claim = id /\ x.work = w

\* Two runners are asking about one work at the same moment only when a claim
\* has already stopped holding it (its lease ran out, an operator ended it).
NoConcurrentSpend ==
    \A r, s \in Runners :
        /\ r # s /\ run[r].claim # None /\ run[s].claim # None
        /\ Busy(r) \cap Busy(s) # {}
        => ~Live(run[r].claim, now) \/ ~Live(run[s].claim, now)

\* Claims under which both voters' answers about w are recorded.
FullScreens(w) ==
    {id \in ClaimIds : \A v \in Voters : [claim |-> id, work |-> w, voter |-> v] \in rows}

\* What reading before claiming can cost: every runner may buy a work once on
\* a stale read, and a fault may bring one screen more (a row that lands late
\* completes a screen that was already bought again), but a decided work is
\* never bought over and over.
BoundedRebuy ==
    \A w \in Works : Cardinality(FullScreens(w)) <= Cardinality(Runners) + faults

\* "A work whose rows add up to a decision must not be re-bought"
\* (checkpoint_decisions), taken at its word.
NoRebuy ==
    [][\A r \in Runners : \A w \in asked'[r] \ asked[r] : ~Decided(w)]_vars

\* However runs, calls and voters fail, every work is decided in the end: no
\* claim, incomplete screen or half-recorded batch strands it.
AllDecided == \A w \in Works : <>Decided(w)
=============================================================================
