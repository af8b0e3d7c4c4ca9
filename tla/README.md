# FLoRA extractor: verification of the engine's state and its runs

This directory models the parts of the FLoRA extractor that several processes, threads or machines
share: the claims over works in the Postgres state authority, the runs that spend money under those
claims, the verdict rows they leave and what later readers make of them, the raw responses, the caches
shared through a hub, and the keys and budgets that calls to providers use up. Paths below are relative
to the repository; `tiers.py`, `claims.py`, `handoff.py` and `cli.py` are in `src/filter/engine/`,
migrations in `src/db/migrations/`.

## 1. The system

A pool of OpenAlex works is *routed* by text rules into piles under a *release*. Each pile is worked
off by a *tier*: two LLM screens (`screen_cheap`, `screen_expensive`), the `extract` tier, and human
and measurement tiers. A tier run plans a batch, **claims** it in Postgres for a limited time (a
lease), asks the models about each work on worker threads, records permanent **verdict** rows, ends
the claim, and later readers (handoff, export) turn the rows into CSVs. Raw responses go to disk,
then in batches to Hugging Face. Machines and operators share nothing but Postgres and the hub.

| component | state | operations | hard behaviour | what makes it correct |
|---|---|---|---|---|
| claim RPCs (migrations 0001, 0004, 0005) | releases, claims with items and lease end | `engine_claim_batch`, `engine_renew_claim`, `engine_release_claim` | overlapping transactions under READ COMMITTED; `now()` is the transaction's start; leases lapse without a write | one live claim per work and tier; claims are permanent records |
| claims client (`claims.py`) | none; a retry ladder | claim, renew, end, record verdict, mark uploaded, paged reads | an answer lost after a commit, a request executed late, refusals caused by one's own earlier attempt | retries neither spend twice nor strand works |
| tier run of the screens (`tiers.py: _batch .. _finish`) | batch, claim id, stop flag, worker threads | plan, claim, judge, record, end | stale reads before the claim, failing threads, Ctrl-C, SIGKILL, lease expiry | works are decided in the end, at bounded cost; a claim's status tells the truth |
| screen decisions (`tiers.py: _by_work, decided_work_ids`, `handoff.py: decisions`) | none: recomputed from permanent rows | group, select, decide; subtract what is settled; drop or admit | rows of several claims, generations, texts and modes, some of them half a screen | one decision has two voters, one generation, one text; it is not taken back; no work is stranded |
| response blobs (`tiers.py: _ResponseUploader, reconcile_responses`) | blobs on disk, queue, `response_state` | write, hand over, commit, mark, sweep | disk, hub and database fail independently; run and sweep overlap | a row never claims an upload that did not happen; none is forgotten |
| extract tier (`src/extract/tier.py`) | payload rows, leases renewed by a heartbeat | batches, `--redo`, corrections | heartbeat against expiry; read, then claim, then supersede | one current result per work; corrections are not lost |
| export and publish (`src/extract/export.py`, `handoff.py: write_handoff`) | CSV, manifests | render, publish | crash between two renames; successive renders | ids retire once; a manifest describes its CSV (not modelled) |
| cache sync (`src/shared/cache_sync.py`, `src/tools/repair_cache_manifest.py`) | shards and manifest on the hub, caches and pull state per machine | push, pull, repair | several machines at once, stopped anywhere; nothing locks the hub | the manifest names what is there, a guarded push drops nothing it could see, machines converge |
| provider calls: OpenAlex keys, daily budget, call loops (`src/shared`) | key pointer per process, the day's record in a file | next key, check, call, record, retry | threads and processes, lost answers, unreadable record, midnight | keys are used up in turn; spending is counted; the cap is overshot by a bounded amount; calls end |
| routing, rule books, releases, overlay | DuckDB file, chunks, hashes | route, backfill | one writer, one transaction | pure functions of their input |
| search, snapshot, provider clients, dashboards, repair tools | files, HTTP | download, parse, render | I/O | not modelled |

`PROJECT.json` lists every component with its files and status, and under `hazards` the places in the
code where an order, a failure or a stale value can go wrong, each at its line.

## 2. Modules

| module | models | role |
|---|---|---|
| `ClaimLedger` | the claim tables, what each RPC checks and writes, and what the claims are to `WorkLease` | state and operators, no next-state relation |
| `Claims` | the RPCs as database transactions over `ClaimLedger` | specification |
| `WorkLease` | what the RPCs promise: exclusive leases, taken whole, never taken back | abstract specification |
| `TierRun` | several screen runs against `ClaimLedger`, with the client's retries | specification |
| `Screening` | what the rows of several runs decide about a work, in both screens and the handoff | specification |
| `ExtractRun` | extract runs, their heartbeat, `--redo` and corrections, against `ClaimLedger` | specification |
| `ResponseUpload` | blobs, verdict rows, the run's uploader and the sweep | specification |
| `CacheSync` | pushes, pulls and repairs by several machines | specification |
| `ProviderCalls` | lookups over rotating keys and model calls under a daily cap | specification |
| `X_proofs` | theorems about `X`: `ClaimLedger`, `Claims`, `TierRun`, `Screening`, `ExtractRun`, `ResponseUpload`, `CacheSync`, `ProviderCalls` | TLAPS |
| `MCX` | instances of `X` | TLC |

`Claims`, `TierRun` and `ExtractRun` all extend `ClaimLedger`, so the conflict check the proofs speak
about is the one the runs meet. `Claims` opens each RPC into its begin and its commit; the others
take an RPC as one step (sound as long as no transaction stays open across a lease end, see `Prompt` below)
and open up the client around it.

### ClaimLedger and Claims
`claims[id]` is one row of `engine_claims` joined with its items; `now` is the database clock. A
transaction begins, which fixes its `now()`, and later commits or rolls back; each statement reads the rows committed when it
starts. A claim has three moments: `BeginClaim`, `CheckClaim` (the refusals, the advisory lock of the tier, the conflict
SELECT) and `CommitClaim`. The lock is held from check to commit and orders claims only with claims: a renewal or an
end, which takes the lock of its row, may commit in between. A renewal and an end hold that row from their SELECT to their
commit, so they have two moments. `Measurement` claims skip the lock and the check. `revived` is a history variable: the claims
renewed by a transaction that began while the lease ran and committed after it had ended. A live claim that was never revived is
*firm*. Holders of a slot (tier, work) in `WorkLease` are the firm claims that name it (`ImplementsFirmLease`), or all live
ones (`ImplementsWorkLease`); an id is retired once its claim ended, lapsed or was revived, and a claim written after its own
lease end was over before it took anything (`Forgo`).

### TierRun
One runner goes `idle -> planning -> planned -> claiming -> running -> ending -> idle`. `ReadClaimed` and
`ReadDecided` are the two reads of `_batch`, with time between them and the claim. `ClaimGranted`,
`ClaimGrantedUnheard`, `ClaimUnanswered` and `ClaimRefused` are the outcomes of one attempt of
`ClaimsClient.claim`; a request the client gave up on may still be executed (`Late`). Threads ask about
at most `Workers` works, each work owes its votes (or a `no_answer` placeholder) and writes them in
order; a thread that raises sets `failed`, and the main thread notices later (`HearFailure` sets `stop`).
`_finish` ends the claim "failed" or "complete"; `OperatorEnds` is `release-claim --yes` with its default
status. A work is decided when both voters' answers are recorded, under whatever claims. A runner killed
in the middle of a call leaves it lost or still on its way (`InFlight`). The client's clock and the
database's are taken to agree: `_lease_end` and `claimed_work_ids` use the former.

### ResponseUpload
Each verdict is written to disk, inserted `response_pending_upload`, and its blob handed to the run's
uploader; a second uploader is the sweep of `reconcile_responses`, which may run at any time. A commit
takes up to `BatchSize` queue entries, reads their files (a missing one fails the commit whole), and rows are
marked by blob hash, in chunks that can fail part way. Two verdicts can share a blob, because the hash
names the bytes. A retried or abandoned request can arrive late, and a killed process may have had an
insert, a marking or a commit in flight.

### Screening
One work, followed through the cheap and the main screen. `rows` is its verdict rows in the order written;
nothing else is stored about decisions, so `Selected`, `Decision`, `Settled`, `Dropped` and `Admitted` are
operators over the rows, the generation each tier screens with now (`screen`), the text the work has (`text`) and
when an overlay last supplied it (`fetched`). A process `Plan`s (`_batch` with or without `--limit`), claims
or is refused, and records one row per vote; a question is named by its text, a generation by a name.
The cheap tier asks its second voter only after a first no, and its bypass is a first voter who keeps the work.
`VoteFails`, `Kill` and `Lapse` are what leaves half a screen behind; `Deploy`, `NewText` and `Route` are what
makes an old screen answer another question. The claim is a flag here (`TierRun` has the ledger),
the read of the rows one step, and an answer's confidence, the record type and the admission gates are left out.

### ExtractRun
A process is a run (`Plan`, then batch after batch: claim, work, end, rebuild the worklist) or a correction
(`PlanCorrection`: read, claim, copy each row, supersede, end). Rows per work are in creation order, each with
its mode, its kind and the row that superseded it. Lease ends are counted from now: the clock stands at 0, a
`Tick` lowers every `expires` by one, a lease is three ticks long, and no heartbeat sleeps through two of
them. An outage of the state authority is one fault, however many calls it fails. Decisions of the
model: "settled" stands for settled or resting, so a result that leaves a work open is simply not among the
settled kinds; evidence rows before a result are left out, except that a work that raises may leave one as its last; a run
`_refuse_unnamed_works` would refuse does not start; a claim whose answer is lost is a `Kill` right
after the claim; a work that raises may leave a row of either kind, its insert's answer lost; the two reads in `extract_works` are one; one release and one generation.

### CacheSync
An entry lives in a fixed shard of a part. A machine has a cache (`files`), a pull state (digests it recorded)
and at most one command; the hub has the shards and a manifest. A push reads the manifest (or cannot), packs its
shards one by one against the remote ones with the shrink guard, commits in batches, and publishes a manifest
merged with the one it read; a pull unpacks what the manifest names under a digest it has not recorded; a repair reads
the manifest, hashes what no shard names, reads the manifest again and writes it whole. Packing is deterministic, so a
digest is the set of entries. `Stop` is a kill, a failed download or a refused commit, anywhere. Left out:
the abstract store (one file with a guard on its number of rows), `--dry-run`, parts that are links, and entries deleted locally.

### ProviderCalls
Threads in processes. A lookup reads the pointer, builds its headers (a second read), and is answered, retried,
or refused; a refused key turns to the next. A model call checks the cap, calls, and records under the lock; a
failed record, a lost answer and a refused flex tier lead to further attempts. Tokens and dollars are counted
in calls; under the token cap only calls to OpenAI count. Beneath the loops the OpenAI SDK
sends a request again that timed out or met a 5xx, up to its own `max_retries`, which `llm_client.py:534` and `:900` leave at its default: `Resent` is
such a request that had been served, with no check of the budget, no record and no attempt spent, at most `Resends` times a request. Those
that were not served change nothing the properties tell apart; Gemini's client is asked once. OpenRouter's calls are OpenAI's without the
flex tier. Gemini's flex tier, the blind `rotate_key()` of `src/search/fetch_abstracts.py:256`, a configuration without keys,
and what callers make of a raise are not modelled; the call queue only delays and is the wait before a request. `Midnight`
resets what the providers and the record count; a `Kill` resets a process's pointer.

## 3. Runs

| run | instance | result |
|---|---|---|
| `claims` | 2 works, 1 locking tier and measurement, 2 ids, 2 open transactions, lease ends 1 and 2, clock to 2; transactions stay open as long as they like (1.46 million states) | `TypeOK`, `ExclusionUnlessRevived`, `Permanence` and the refinement of `WorkLease` by the firm claims hold |
| `claims_straddle` | the same | `Exclusion` is **violated**, see findings |
| `screen_safe` | 2 runners, 2 works, 2 releases, 2 workers, 2 attempts, 5 ids, 1 fault | `TypeOK`, `CompleteMeansAnswered`, `NoConcurrentSpend`, `BoundedRebuy` and the refinement of `WorkLease` hold |
| `screen_live` | 2 runners, 1 work, 6 ids, 2 faults, fair | `AllDecided` holds |
| `screen_rebuy` | 2 runners, 1 work, no fault | `NoRebuy` is **violated**, see findings |
| `screening` | 2 processes, 2 generations of which the newer accepts the older, 2 texts, an empty past or an old discard without generation, 2 events, fair | `TypeOK`, `OneScreen`, `StaysDecided`, `Sandboxed`, `Screened` hold |
| `extract_run` | 2 processes, 2 works, 3 ids, batches of 1, `--limit` 2 or none, `--redo` of nothing or all, 1 fault | `TypeOK`, `LeaseKept`, `WritesAlone`, `OncePerRun`, `NewestSpeaks` and the refinement of `WorkLease` hold |
| `response_upload` | 3 verdicts sharing 2 blobs, batches of 2, 2 faults, sweep fair | `TypeOK`, `UploadedMeansOnHub`, `NothingForgotten`, `AllPushed` hold |
| `response_stays` | the same with 1 fault | `UploadedStays` is **violated**, see findings |
| `cache_sync` | 2 machines, 4 entries in shards 1, 2 (one part) and 3 (another), 1 fault, fair | `TypeOK`, `NamedIsThere`, `DropsOnlyUnseen` and, for that one fault, `Converges` hold |
| `cache_unnamed` | the same without a fault | `StaysNamed` is **violated**, see findings |
| `provider_calls` | 1 process, 2 threads, 2 keys, 1 retry; 2 attempts, 2 Gemini keys, patience 1, 1 resend a request; either cap, budget 1, 3 calls, 1 fault or midnight | `TypeOK`, `KeysInTurn`, `Counted`, `Overshoot`, `ChargesBounded`, `CallsEnd` hold |

**Bounds.** The caps are named: `MaxOpen`, `MaxTime`, `ClaimIds`, `MaxFaults`, `MaxEvents`, `MaxCalls`. Two works distinguish
"shares one" from "shares all"; two ids and two open transactions are the least in which a claim and a
renewal overlap, and the clock reaches both lease ends: a lease is live before its end, so at clock 2 both have lapsed. In `TierRun` the clock needs no cap: a
runner reads it only as a lease end, and it stands still when no lease is live. Ids are minted in order, and
`IdsLeft` (in `MCTierRun`) holds in both runs, so no runner ever waits for an id the bound withholds.
The retry ladder has four attempts in the code and two here: one in the middle of the ladder and one at
its end are what the properties tell apart, and two faults spend the whole of it. One fault in the
two-work run is enough for each failure, placed anywhere, to meet a second runner. Batches of two over
two shared blobs give a full batch, a short last batch, and one blob queued from two rows.

`screening` needs no bound on rows: once events are spent a settled work is not claimed again. Its one
budget of events is shared by everything that can disturb a screen, so every pair of disturbances meets in every
order; a run that overlaps another costs one too. `extract_run` has one mode, in which `NewestSpeaks` is
the strict form; with both modes it needs the exception its comment gives (`OwnMode`): a `--redo --limit` run and a
newer validation row can hide a live answer, because `_supersede` (`src/extract/tier.py:1515`) looks at any
mode. Its symmetry is that of works and processes, sound for safety properties; its `VIEW` drops only what ended claims still
say. `Converges` is stated for one fault: any one death, lost commit, overlap of pushes, forced command or push without the manifest is healed. Two make it fail in `cache_sync`
when pushes overlap and one of them, or a later one, could not read the manifest: a pull records the digest the
manifest gave, not that of what it unpacked, so a machine can believe for good that it holds a shard it never saw. Pushes that only die, twice, are healed too. In `provider_calls` one call of budget puts every thread at the cap; that a pointer which gave up means all
keys are empty *today* does not hold after a midnight, so `KeysInTurn` speaks of keys that were refused.
`LeaseKept` survives one failed renewal; the docstring at `src/extract/tier.py:1269-1271` counts on two, but
the third renewal comes when the lease has ended.

**Deadlock** is unchecked where the system may stop: `Claims` when every id is spent, `Screening` when the work is settled,
`ExtractRun`, `CacheSync` and `ProviderCalls` when every command has ended and bounds are spent, and
`ResponseUpload` when the run is over and nothing is pending. It is checked in `TierRun`.

**Fairness.** `screen_live` assumes that time passes and that somebody keeps running the screens: weak
fairness of each runner's fault-free steps as a whole, no fairness of any single one. `screening` assumes the same of
each process, run live and over the whole pile: neither a limited nor a validation run need ever come. `response_upload`
assumes only that the sweep is run again and again; the run itself may stop anywhere. `cache_sync` assumes that commands
begun go on (weak), that full pushes and pulls are started again and again though other commands
come between (strong), and that the repair is not run for ever. In `provider_calls` each thread's work goes on: a request is answered or times
out, and `MaxCalls` bounds how often a lock can be lost to others. All of these match the
documentation, where re-running the command is the recovery. Faults are finite in number: no fairness
survives providers that fail for ever.

**Findings.** Four statements in the repository are stronger than the code.
1. `engine_renew_claim` compares the lease with `now()`, its transaction's start. A renewal that starts
   before the lease ends and reads its row after another claim took the works, or between that claim's check and its
   commit, extends it all the same: two live claims. It needs a renewal that stays open across the lease end. What holds without
   any promptness is that nothing else makes live claims overlap (`ExclusionUnlessRevived`) and that the firm ones are exclusive leases
   (`ImplementsFirmLease`); that no live claims overlap at all is proved for transactions that end before the clock moves (`Prompt`).
2. "A work whose rows add up to a decision must not be re-bought": planning reads decisions before it
   claims, and the claim RPC looks at live claims only. `BoundedRebuy` is what does hold.
3. A retried verdict insert does change something: it carries `response_state`, so a late first attempt puts
   an uploaded row back to pending. `AllPushed` shows a later sweep repairs it.
4. A push replaces a part's whole entry in the manifest by the shards it packed (`src/shared/cache_sync.py:596`). A machine
   without a file of some shard takes that shard out of the manifest though the hub still holds it, and
   nobody pulls it until a machine that has its entries pushes the part again; the repair tool looks only for parts
   none of whose shards are named. `NamedIsThere` is the direction that does hold, and `Converges` that it heals.

More disagreements were met while modelling and have no run of their own:

- `src/shared/llm_client.py:485-488`, `:537-538` and `:636-639` say a timeout may have been billed and "takes the retry loop
  instead", three attempts being all there is. The clients of `:534` and `:900` keep the SDK's default `max_retries`, so the SDK sends a
  timed-out request again inside one attempt. That a call is charged at most once an attempt therefore fails by one step, `Resent`;
  `ChargesBounded` says what holds of the loops and of the SDK apart.
- `src/tools/repair_cache_manifest.py:72-74` says a digest that disagrees costs "never a skipped shard, because the state only ever
  records a digest it has unpacked". A pull records the digest of the manifest, not of the shard it downloaded
  (`src/shared/cache_sync.py:707`). Two pushes that overlap, once, are enough: their shards and manifests come in different orders, and a machine that
  pulls then unpacks one shard and records the digest of the other (what `RecordedIsHeld` of `CacheSync_proofs` says of runs without a fault fails
  with one). A later push and pull repair it; if a push without the manifest is added, the machine can skip the shard for good (`Converges` with
  `MaxFaults = 2`, a million states and six minutes). Without a fault the sentence is right: `SharingAdds` proves it.
- `_downloaded` (`src/shared/cache_sync.py:720-722`) explains a shard that is named and not there as "a push that was interrupted between its
  data and its manifest". A push sends its shards first, so an interruption leaves the opposite, a shard that is there and not named, and `NamedIsThere`
  holds through every interruption: nothing in this program needs that branch (a shard deleted on the hub by other means would).
- `src/extract/tier.py:1507-1510` says superseding makes "the export and the checkpoint see one answer per work". They need not:
  `_by_work` (`src/filter/engine/tiers.py:1036`) takes the group of the newest rows, so evidence of a later call that left no result hides the answer from the
  checkpoint, while `latest_results` still gives it to the export. `NewestSpeaks` says that this is the only way they differ.
- `docs/models-and-screening.md:63-64` says a keep of the cheap screen passes the work on to the main one, but `_batch` offers the main
  tier only the works of its own pile.
- `_batch` with `--limit` can fill its limit with settled works whose overlay text is older than their verdict, and then says the pile is empty
  (`tiers.py:859`) with works open.
- Two overlapping publishes share one temporary manifest and can leave a CSV no manifest describes (`handoff.py:363`).
- A claim without a mode is live to `_mode_rows` and invisible to `tier_decisions`.

## 4. Proofs

`ClaimLedger_proofs` holds what the three proofs of a refinement share: a claim `Takes` a slot for each work of its batch, and whatever else
changes the tables without making a claim live `GivesUp` the slots of those that no longer are; both need that a written
claim holds a work (`HoldsSome`). It also proves what a refinement buys: `LeaseKeeps`,
`ImplementsWorkLease => []Apart /\ NeverAgain`, from the exclusion of `WorkLease` and its retired holders alone. `Apart` says
that at most one live claim of a locking tier holds a work, `NeverAgain` that such a claim, once ended or run out, is never
live again. Each specification has it as a corollary of its refinement: `NothingRevived` (`Claims`, under
`Prompt`), `RunsStayApart`, `ExtractsStayApart`.

`Claims_proofs` proves, for every set of works, tiers, releases, ids and lease ends and every number of
open transactions and every clock:

- `TypeCorrect`: `Spec => []TypeOK`.
- `LedgerPermanence`: `Spec => Permanence`.
- `OverlapsAreRevived`: `Spec => []ExclusionUnlessRevived`.
- `Implements`: `Spec => ImplementsFirmLease`, that is, `FirmLease!Spec`.
- `MutualExclusion`: `Spec /\ Prompt => []Exclusion`.
- `PromptImplements`: `Spec /\ Prompt => ImplementsWorkLease`, that is, all live claims are the leases.

`Prompt` is `[][now' # now => txns = {}]_vars`: the clock moves only when no transaction is open. It is a hypothesis of the last two
theorems and nothing of the specification.

Assumptions: `MeasurementAssumption` (it is not a locking tier) and `LeasesAssumption` (lease
ends are numbers). Neither form of exclusion is inductive. A claim is safe only because nothing the check could have met becomes
live before its commit, which is `LockInv`: of a tier one transaction at most is between check and commit, and what it is about to claim meets no
firm claim. That no lease becomes firm in between is `FirmAfter`: an insert is behind the lock, and a renewal makes live what
was live, or it straddled the lease end and is in `revived`. The check judges by the time of its transaction, which is not ahead of the clock
(`ClockInv`): a claim live now was live at any earlier time it could use. That a commit writes a row nobody has needs `FreshInv` (the id of
an open claim transaction is still absent and belongs to no other), and that a claim is a holder of at least one slot
needs `OfferInv` and `RowInv` (a checked transaction offers works, a written claim has a tier and works). The refinement maps a commit in a
locking tier to `Take`, or to `Forgo` when its lease is over already; an end or a tick that lets leases lapse to
`GiveUp` of those that are firm no longer, a release or a renewal, the straddling ones included, to a stutter; everything else to a stutter. Under `Prompt` nothing is ever revived (`NothingStraddles`), so firm and live
are the same.

`TierRun_proofs` proves, for every set of works, runners, releases and ids, every lease length, ladder,
number of threads and number of faults:

- `TypeCorrect`: `Spec => []TypeOK`, through `Inv` (`Shapes`: the tables and the calls on their way;
  `RunsOK`: what a runner knows at each point; `BusyOK`: threads work only on the claimed batch, only while it runs).
- `SpendsAlone`: `Spec => []NoConcurrentSpend`. Inductive with `Inv`: a runner with a claim works on exactly
  what its row holds (`Owned`), no two runners have one claim (`Distinct`), and live claims of the tier are
  disjoint (`Exclusive`). `LedgerStep` sorts every step of the system, late calls included, into a grant,
  an end or neither, and `RowsStay` says what none of them can do to a claim.
- `CompleteIsTrue`: `Spec => []CompleteMeansAnswered`. Inductive with `Inv`, `Owned` and `Truthful`: every work
  of a batch that has not failed is queued, at a thread, or recorded under the claim (`Accounted`), and a
  "complete" still on its way is true already (`LateEndsTrue`), which a late or in-flight end would otherwise break.
- `BuysBounded`: `Spec => []BoundedRebuy`. The bound alone is not inductive: a runner that has read what is decided buys the
  work whatever is recorded meanwhile, and a vote on its way may complete a screen that nobody counts yet. `RebuyInv` counts
  all three: the full screens of a work, the votes about it that are late, and the runners that buy it and have not
  completed theirs are together no more than the runners and the faults, and the late votes no more than the faults. `BuysAfter`
  says that a runner becomes a buyer only by reading, and of a work without a full screen; `OneVote`, that it has one vote of a
  work on its way at a time; `LateAfter`, that a vote is late only after a fault. `OneMore` and `OneLess` count.
- `ResultsAreFinal`: `Spec => ResultsStand`. A decided work stays decided, and a claim that ended keeps saying how,
  whatever ends still arrive.
- `RunsLease`: `Spec => ImplementsWorkLease`. By `LedgerStep`, a grant is a `Take` and an end or a tick a `GiveUp`; no promptness is
  assumed, since a screen never renews and an RPC is one step here.

Assumptions: `TierAssumption` (the tier locks), `RunnersAssumption` (the runners are finitely many; only the count needs
it), `OffersAssumption`, `BoundsAssumption`, `NoneAssumption` and `MeasurementAssumption`.

`Screening_proofs` proves, for every set of processes, generations and texts, whatever generations are
equivalent or grandfathered, whatever rows there are to begin with, and any number of events:

- `TypeCorrect`: `Spec => []TypeOK`, with one writer per live claim (`OneWriter`), by `JobReplaced`.
- `ScreenedByOne`: `Spec => []OneScreen`. It follows from the type invariant alone: it is about what the readers make of
  *any* rows. `Selecting` shows that the group `_by_work` prefers exists and goes before all others (`Best`: among finitely many
  numbers, some of them full, some of them current, one goes first), and `DecidedByBoth` that each voter has a last answer in it.
- `DecisionsStay`: `Spec => StaysDecided`. A step appends at most a row (`RowsStep`), which makes groups of the main tier more
  complete, never less (`CompleteGrows`), and a complete group goes first.
- `ModesApart`: `Spec => Sandboxed`. The rows read in the other mode are the same rows and say the same (`Unread`,
  `ReadAlike`), and the group preferred among them is unique (`SelectedAlike`).

Assumptions: `ScreensAssumption`, `BoundAssumption`, `StartsAssumption` (the program starts from well-formed rows).

`ExtractRun_proofs` proves, for every set of works, processes, modes and claim ids, every batch size and limit,
whatever `--redo` and corrections name, and any number of faults:

- `TypeCorrect`: `Spec => []TypeOK`.
- `LeaseIsKept`: `Spec => []LeaseKept`. While a batch runs, the lease it has left, the renewals missed and the one due add up to
  a whole lease (`LeaseLeft`).
- `NobodyWritesTwice`: `Spec => []WritesAlone`. A process works on what its claim holds (`Owns`), no two have one claim
  (`Distinct`), live claims are disjoint (`Exclusive`).
- `NoWorkComesBack`: `Spec => []OncePerRun`. A run's worklist and batch never meet what it attempted (`CommandOK`).
- `NewestIsRead`: `Spec => []NewestSpeaks`. A superseded row points at a later result (`PointsOn`), so the newest result of a work is never
  superseded, by whatever old reading (`History`), and what is newer than it is evidence, which nothing supersedes
  (`NewestDecides`): the export reads the one, and the checkpoint the same or, behind that evidence, none. `Greatest`, `NewestIs` and
  `DecisionIsLast` are about the readers. It is about which row is read: a correction that copied an old result after a newer one was written makes that
  copy the newest.
- `AnswersMoveOn`: `Spec => NeverGoesBack`. No step puts the answer readers get of a work back to an older result or to
  none: a step leaves every row its place, mode and kind (`RowsStep`, `RowsLast`), and the newest result is what is read before and after. It has the
  exception of `NewestSpeaks` (`OwnMode`), and needs it: a `--redo --limit` run hides the answer of a work it did not
  reach behind a validation row.
- `ExtractsLease`: `Spec => ImplementsWorkLease`. `ClaimsStep` sorts the steps; of a renewal it is shown that it makes
  nothing live that was not (`Fading`), so a lease that was lost stays lost.

The invariant `Inv` joins these with the types of the ledger. Assumptions: `WorksAssumption`, `ModesAssumption`, `TierAssumption`,
`BoundsAssumption`, `NamesAssumption`, `NoneAssumption` and `MeasurementAssumption`.

`ResponseUpload_proofs` proves, for every set of verdicts and blobs and every batch size and number of faults:

- `TypeCorrect`: `Spec => []TypeOK`.
- `UploadsAreReal`: `Spec => []UploadedMeansOnHub`. Inductive with `OnHub`: an acknowledged batch is on the hub,
  and so is every blob that a marking request still on its way names.
- `NoneForgotten`: `Spec => []NothingForgotten`. Inductive with `Kept`: until something fails, a verdict that was handed over is
  uploaded or in the run's queue or batch, and its file is on disk; a sweep beside it only marks more (`SweepKeeps`).

Assumptions: `BlobAssumption`, `BatchAssumption`.

`CacheSync_proofs` proves, for every set of machines, entries, shards and parts and any number of faults:

- `TypeCorrect`: `Spec => []TypeOK`.
- `NamesOnlyWhatIsThere`: `Spec => []NamedIsThere`. Inductive with `Sound`: what a command has in hand to publish names only shards
  the hub holds.
- `NothingSeenIsDropped`: `Spec => DropsOnlyUnseen`. `Sound` also holds that a guarded push replaces only shards it looked into
  (`LooksBeforeReplacing`).
- `SharingAdds`: `Spec => []RecordedIsHeld /\ OnlyAdds`, "sharing is additive": as long as nothing goes wrong (no crash, no
  manifest that cannot be read, nothing forced, no push beside another), no step takes an entry out of the hub, a machine has
  everything under the digests it recorded, and the manifest promises nothing its shard does not hold.
  Inductive with `Clean`: what a command has packed, read or is about to record is still so (`Honest`), since
  nobody replaced the shards in between. With a fault it need not hold.

Assumptions: those about `Shards`, `ShardOf`, `PartOf`, `Asked`, `Held`, `Buys` and the bounds.

`ProviderCalls_proofs` proves, for every number of processes, threads, keys, attempts and calls, and every budget:

- `TypeCorrect`: `Spec => []TypeOK`.
- `KeysAreUsedUp`: `Spec => []KeysInTurn`, through `KeyInv`: every key behind a pointer or behind a thread's reading of it was refused
  (`AllPassed`), and a thread's reading is never ahead of its pointer (`AllInTurn`).
- `NothingUncounted` and `BoundedOvershoot`: `Spec => []Counted`, `[]Overshoot`, through `UseInv`: one thread has the lock (`Locked`); the record, what is pending and what no record could
  have make up what was charged (`Counted`, `SeenCounted`, `AllAccounted`).

- `ChargesAreBounded`: `Spec => []ChargesBounded`. The loops' charges are part of `UseInv`. For the SDK's, `AllSent` counts along: what was
  resent is at most `Resends` for each request of the attempts before and of this one (`Before`, `Refusals`), and `resends` for the
  request in hand (`Sent`), which a refused flex tier starts anew.

Assumptions: `ThreadsAssumption`, `KeysAssumption`, `AttemptsAssumption`, `ResendsAssumption`, `BudgetAssumption`, `BoundsAssumption`.

Only model-checked: liveness (`AllDecided`, `Screened`, `AllPushed`, `Converges`, `CallsEnd`), since TLAPS does
not reason about `ENABLED`. Every other property of a passing run is a theorem. No model has a recursive operator, and what the readers of
rows compute is stated by `CHOOSE` and sets, so nothing is left to induction over data except `Greatest` and `LastIs`,
which go through well-founded subsets.

## 5. What the models leave out

- One tier and one mode in `TierRun`, with a decision that takes both voters; what the cheap screen, modes,
  generations and texts change about decisions is `Screening`, and what is said of claims, spending and status carries over.
- Several works in `Screening`: decisions are made work by work; a batch is `TierRun`'s.
- Generations in `ExtractRun`, where the readers are the same `_by_work`.
- `release-claim` takes other statuses too; an operator who declares a running claim `complete` makes a
  statement no code checks, so only the default is modelled.
- One disk for the run and the sweep; a run on another machine sees its blobs as missing, which the sweep
  treats as `LoseBlob`. A run with uploads switched off leaves its rows pending; `NothingForgotten` is
  about runs that push.
- Paged reads: a read is one step everywhere. Offset paging over rows that are superseded meanwhile can skip
  a row (`claims.py:325`, listed as a hazard without a property).
- The publish of the handoff and of the extract export: one process rewriting its own files.
- A blob cut short: `path.write_text` is not atomic, and a kill in the middle of it leaves a truncated file under the final name,
  which a later sweep would push. `WriteBlob` writes it whole or not at all.
- A correction's content: rows have a kind and a mode, so a copy of an outdated result is not told from a fresh one.
- Audit entries, reports and texts, except where a property turns on them.
- Most of the lines of this repository transform data: prompts, parsing, linking, matching, rendering, text rules. They keep no
  state and meet no other process, their results depend on providers or on free text, and a model of them would copy
  them. That is why the share of the code that is modelled is small: the components marked `not_modelled` in `PROJECT.json` say so
  one by one.

## 6. Plan

Done: every module of section 2. What is left, in order of worth:

1. `PagedRead`: offset paging of `_get_paged` while rows are superseded.
2. `Publish`: the handoff's and the export's renames by overlapping processes, with the retirement manifest over
   successive renders; and the admission gates as part of `Screening`.
