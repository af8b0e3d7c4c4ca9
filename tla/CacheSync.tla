------------------------------ MODULE CacheSync ------------------------------
(***************************************************************************)
(* The API caches, shared through one dataset repository.  An entry lives  *)
(* in a fixed shard of a part; a push packs whole shards and replaces the  *)
(* remote ones that differ, then writes the manifest; a pull unpacks every *)
(* shard the manifest names under a digest this machine has not recorded.  *)
(* Nothing locks the repository: a push reads the manifest, looks at the   *)
(* remote shards, commits and publishes in separate steps, and a machine   *)
(* can stop after any of them.  tools/repair_cache_manifest.py rewrites a  *)
(* manifest that lost parts.                                               *)
(* Packing is deterministic, so a digest is the set of entries packed; no  *)
(* digest is the empty set.  Shards are numbered in the order a command    *)
(* goes through them.  The abstract store is not in this module.           *)
(***************************************************************************)
EXTENDS Integers, FiniteSets

CONSTANTS
    Machines,
    Entries, Shards, Parts,
    ShardOf,      \* the shard of each entry
    PartOf,       \* the part of each shard
    Asked,        \* the --parts in use
    Held,         \* the answers each machine starts with
    Buys,         \* the answers each machine's own runs may add
    BatchSize,    \* FLORA_HF_COMMIT_BATCH
    SaveEvery,    \* shards between two saves of the pull state
    MaxFaults     \* bound: crashes, unread manifests, forced and overlapping pushes

ASSUME ShardsAssumption == Shards \subseteq Nat
ASSUME ShardOfAssumption == ShardOf \in [Entries -> Shards]
ASSUME PartOfAssumption == PartOf \in [Shards -> Parts]
ASSUME AskedAssumption == Parts \in Asked /\ Asked \subseteq SUBSET Parts
ASSUME HeldAssumption == Held \in [Machines -> SUBSET Entries]
ASSUME BuysAssumption == Buys \in [Machines -> SUBSET Entries]
ASSUME BoundAssumption ==
    /\ BatchSize \in Nat \ {0} /\ SaveEvery \in Nat \ {0} /\ MaxFaults \in Nat

VARIABLES
    local,      \* entries in each machine's cache directories
    pulled,     \* .cache_sync_pulled.json: the digest recorded for each shard
    files,      \* the repository: what each remote shard holds
    manifest,   \* the digest the manifest gives each shard
    sync,       \* the command each machine is running
    faults

vars == <<local, pulled, files, manifest, sync, faults>>

ShardsOf(parts) == {s \in Shards : PartOf[s] \in parts}
In(entries, s) == {e \in entries : ShardOf[e] = s}
Nothing == [s \in Shards |-> {}]
First(s, shards) == s \in shards /\ \A t \in shards : s <= t
Present(table) == {s \in Shards : table[s] # {}}

\* What a command keeps in memory.  `known` is the manifest it read, `todo` the
\* shards it has yet to look at, `packed` what it made of them, `seen` what the
\* repository held when it looked, `got` the shards a pull has unpacked since it
\* last saved its state, `stale` that a manifest was published meanwhile.
Idle == [op |-> "idle", known |-> Nothing, todo |-> {}, packed |-> Nothing,
         seen |-> Nothing, uploads |-> {}, got |-> {}, guard |-> TRUE, lossy |-> FALSE,
         stale |-> FALSE]

Init ==
    /\ local = Held
    /\ pulled = [m \in Machines |-> Nothing]
    /\ files = Nothing /\ manifest = Nothing
    /\ sync = [m \in Machines |-> Idle]
    /\ faults = 0

Fault == faults < MaxFaults /\ faults' = faults + 1
Pushing(m) == sync[m].op \in {"pack", "upload", "publish"}

\* Pushes are run by hand, one at a time; two that overlap count as a fault.
FaultIf(condition) == IF condition THEN Fault ELSE UNCHANGED faults

-----------------------------------------------------------------------------
\* The pipelines add an answer to the local cache.
Produce(m, e) ==
    /\ e \in Buys[m] \ local[m]
    /\ local' = [local EXCEPT ![m] = @ \cup {e}]
    /\ UNCHANGED <<pulled, files, manifest, sync, faults>>

-----------------------------------------------------------------------------
\* push_cache reads the manifest.  --force turns the shrink guard off.
StartPush(m, parts, force) ==
    /\ sync[m].op = "idle" /\ parts # {}
    /\ FaultIf(force \/ \E n \in Machines : Pushing(n))
    /\ sync' = [sync EXCEPT ![m] =
            [Idle EXCEPT !.op = "pack", !.known = manifest, !.todo = ShardsOf(parts),
                         !.guard = ~force]]
    /\ UNCHANGED <<local, pulled, files, manifest>>

\* The manifest could not be read: a push of some parts is refused, a push of
\* all of them goes ahead knowing nothing and without the guard.
StartBlindPush(m) ==
    /\ sync[m].op = "idle"
    /\ Fault
    /\ sync' = [sync EXCEPT ![m] =
            [Idle EXCEPT !.op = "pack", !.todo = Shards, !.guard = FALSE]]
    /\ UNCHANGED <<local, pulled, files, manifest>>

\* A shard without local files is not packed.  One whose digest the manifest
\* does not give is downloaded to see whether replacing it would lose entries.
\* Mutant: the entries are counted, not compared.
LostByCount(m, s) ==
    IF Cardinality(In(local[m], s)) < Cardinality(files[s]) THEN files[s] ELSE {}
Lost(m, s) == files[s] \ In(local[m], s)

Pack(m, s) ==
    LET mine == In(local[m], s)
        changed == mine # {} /\ mine # sync[m].known[s]
        looks == changed /\ sync[m].guard
    IN  /\ sync[m].op = "pack" /\ First(s, sync[m].todo)
        /\ sync' = [sync EXCEPT ![m] =
                [@ EXCEPT !.todo = sync[m].todo \ {s},
                          !.packed = [sync[m].packed EXCEPT ![s] = mine],
                          !.seen = [sync[m].seen EXCEPT ![s] = IF looks THEN files[s] ELSE {}],
                          !.uploads = IF changed THEN sync[m].uploads \cup {s}
                                                 ELSE sync[m].uploads,
                          !.lossy = sync[m].lossy \/ (looks /\ Lost(m, s) # {}),
                          !.op = IF sync[m].todo = {s} THEN "upload" ELSE "pack"]]
        /\ UNCHANGED <<local, pulled, files, manifest, faults>>

\* _refuse_shrinking_push: nothing was uploaded.
RefusePush(m) ==
    /\ sync[m].op = "upload" /\ sync[m].lossy
    /\ sync' = [sync EXCEPT ![m] = Idle]
    /\ UNCHANGED <<local, pulled, files, manifest, faults>>

\* upload_batched: each commit replaces a batch of shards at once.
Batch(m, B) ==
    /\ B \subseteq sync[m].uploads
    /\ \A s \in B, t \in sync[m].uploads \ B : s < t
    /\ Cardinality(B) = BatchSize
         \/ (B = sync[m].uploads /\ Cardinality(B) < BatchSize)
Replace(m, B) == files' = [s \in Shards |-> IF s \in B THEN sync[m].packed[s] ELSE files[s]]

Commit(m, B) ==
    /\ sync[m].op = "upload" /\ ~sync[m].lossy /\ B # {} /\ Batch(m, B)
    /\ Replace(m, B)
    /\ sync' = [sync EXCEPT ![m] =
            [@ EXCEPT !.uploads = sync[m].uploads \ B,
                      !.seen = [s \in Shards |-> IF s \in B THEN {} ELSE sync[m].seen[s]]]]
    /\ UNCHANGED <<local, pulled, manifest, faults>>

\* The commit was accepted and its answer lost: the push raises.
CommitRaises(m, B) ==
    /\ sync[m].op = "upload" /\ ~sync[m].lossy /\ B # {} /\ Batch(m, B)
    /\ Fault
    /\ Replace(m, B)
    /\ sync' = [sync EXCEPT ![m] = Idle]
    /\ UNCHANGED <<local, pulled, manifest>>

\* Mutant: the manifest is written while shards are still to be sent.
RecordPushedEarly(m) ==
    /\ sync[m].op = "upload" /\ ~sync[m].lossy
    /\ pulled' = [pulled EXCEPT ![m] =
            [s \in Shards |-> IF sync[m].packed[s] # {} THEN sync[m].packed[s]
                                                        ELSE pulled[m][s]]]
    /\ sync' = [sync EXCEPT ![m] = [@ EXCEPT !.op = "publish"]]
    /\ UNCHANGED <<local, files, manifest, faults>>

\* _record_pushed comes between the last shard and the manifest.
RecordPushed(m) ==
    /\ sync[m].op = "upload" /\ sync[m].uploads = {} /\ ~sync[m].lossy
    /\ pulled' = [pulled EXCEPT ![m] =
            [s \in Shards |-> IF sync[m].packed[s] # {} THEN sync[m].packed[s]
                                                        ELSE pulled[m][s]]]
    /\ sync' = [sync EXCEPT ![m] = [@ EXCEPT !.op = "publish"]]
    /\ UNCHANGED <<local, files, manifest, faults>>

\* The manifest names what the command read in it, with each part the command
\* has something of replaced by what it has of it.
Merged(m) ==
    [s \in Shards |->
        IF \E t \in ShardsOf({PartOf[s]}) : sync[m].packed[t] # {}
        THEN sync[m].packed[s] ELSE sync[m].known[s]]
Publish(m) ==
    /\ sync[m].op = "publish"
    /\ manifest' = Merged(m)
    /\ sync' = [n \in Machines |->
            IF n = m THEN Idle
            ELSE [sync[n] EXCEPT !.stale = sync[n].op = "hash"]]
    /\ UNCHANGED <<local, pulled, files, faults>>

-----------------------------------------------------------------------------
\* Mutant: a shard pulled once is never looked at again.
StartPullNew(m, parts, force) ==
    LET wanted == {s \in ShardsOf(parts) \cap Present(manifest) :
                        force \/ pulled[m][s] = {}}
    IN  /\ sync[m].op = "idle" /\ wanted # {}
        /\ FaultIf(force)
        /\ sync' = [sync EXCEPT ![m] =
                [Idle EXCEPT !.op = "pull", !.known = manifest, !.todo = wanted]]
        /\ UNCHANGED <<local, pulled, files, manifest>>

\* pull_cache reads the manifest and takes the shards it names under a digest
\* this machine has not recorded; --force takes them all.
StartPull(m, parts, force) ==
    LET wanted == {s \in ShardsOf(parts) \cap Present(manifest) :
                        force \/ pulled[m][s] # manifest[s]}
    IN  /\ sync[m].op = "idle" /\ wanted # {}
        /\ FaultIf(force)
        /\ sync' = [sync EXCEPT ![m] =
                [Idle EXCEPT !.op = "pull", !.todo = wanted,
                             !.known = [s \in Shards |-> IF s \in wanted THEN manifest[s] ELSE {}]]]
        /\ UNCHANGED <<local, pulled, files, manifest>>

Saved(m, shards) ==
    [pulled EXCEPT ![m] =
        [s \in Shards |-> IF s \in shards THEN sync[m].known[s] ELSE pulled[m][s]]]

\* _unpack adds what is not there; the digest recorded is the manifest's.  A
\* shard the repository does not hold is passed over.
PullShard(m, s) ==
    LET got == IF files[s] = {} THEN sync[m].got ELSE sync[m].got \cup {s}
        save == Cardinality(got) >= SaveEvery
    IN  /\ sync[m].op = "pull" /\ First(s, sync[m].todo)
        /\ local' = [local EXCEPT ![m] = @ \cup files[s]]
        /\ pulled' = IF save THEN Saved(m, got) ELSE pulled
        /\ sync' = [sync EXCEPT ![m] =
                [@ EXCEPT !.todo = sync[m].todo \ {s}, !.got = IF save THEN {} ELSE got]]
        /\ UNCHANGED <<files, manifest, faults>>

\* Mutant: the state saved is what this pull got, the earlier pulls forgotten.
EndPullAlone(m) ==
    /\ sync[m].op = "pull" /\ sync[m].todo = {}
    /\ pulled' = [pulled EXCEPT ![m] = [s \in sync[m].got |-> sync[m].known[s]]]
    /\ sync' = [sync EXCEPT ![m] = Idle]
    /\ UNCHANGED <<local, files, manifest, faults>>

EndPull(m) ==
    /\ sync[m].op = "pull" /\ sync[m].todo = {}
    /\ pulled' = Saved(m, sync[m].got)
    /\ sync' = [sync EXCEPT ![m] = Idle]
    /\ UNCHANGED <<local, files, manifest, faults>>

-----------------------------------------------------------------------------
\* repair_cache_manifest: parts the repository holds and the manifest does not
\* name are hashed, and published unless the manifest changed meanwhile.
Unnamed == {s \in Present(files) : \A t \in Present(manifest) : PartOf[t] # PartOf[s]}

StartRepair(m) ==
    /\ sync[m].op = "idle" /\ Present(manifest) # {} /\ Unnamed # {}
    /\ sync' = [sync EXCEPT ![m] =
            [Idle EXCEPT !.op = "hash", !.known = manifest, !.todo = Unnamed]]
    /\ UNCHANGED <<local, pulled, files, manifest, faults>>

HashShard(m, s) ==
    /\ sync[m].op = "hash" /\ First(s, sync[m].todo)
    /\ sync' = [sync EXCEPT ![m] =
            [@ EXCEPT !.todo = sync[m].todo \ {s},
                      !.packed = [sync[m].packed EXCEPT ![s] = files[s]]]]
    /\ UNCHANGED <<local, pulled, files, manifest, faults>>

\* The manifest is read again, and later written: a push may come in between.
CheckRepair(m) ==
    /\ sync[m].op = "hash" /\ sync[m].todo = {}
    /\ sync' = [sync EXCEPT ![m] =
            IF sync[m].stale THEN Idle ELSE [sync[m] EXCEPT !.op = "rename"]]
    /\ UNCHANGED <<local, pulled, files, manifest, faults>>

PublishRepair(m) ==
    /\ sync[m].op = "rename"
    /\ manifest' = Merged(m)
    /\ sync' = [sync EXCEPT ![m] = Idle]
    /\ UNCHANGED <<local, pulled, files, faults>>

-----------------------------------------------------------------------------
\* The process is killed, a download fails, or a commit is refused.
Stop(m) ==
    /\ sync[m].op # "idle"
    /\ Fault
    /\ sync' = [sync EXCEPT ![m] = Idle]
    /\ UNCHANGED <<local, pulled, files, manifest>>

Next ==
    \E m \in Machines :
        \/ \E e \in Entries : Produce(m, e)
        \/ \E parts \in Asked, force \in BOOLEAN :
                StartPush(m, parts, force) \/ StartPull(m, parts, force)
        \/ StartBlindPush(m)
        \/ \E s \in Shards : Pack(m, s) \/ PullShard(m, s) \/ HashShard(m, s)
        \/ RefusePush(m)
        \/ \E B \in SUBSET Shards : Commit(m, B) \/ CommitRaises(m, B)
        \/ RecordPushed(m) \/ Publish(m)
        \/ EndPull(m)
        \/ StartRepair(m) \/ CheckRepair(m) \/ PublishRepair(m)
        \/ Stop(m)

Spec == Init /\ [][Next]_vars

\* Machines keep pushing and pulling everything, and a command they started goes
\* on.  Nobody is obliged to force, to repair, or to produce, and the repair tool
\* is not run over and over.
Continue(m) ==
    \/ \E s \in Shards : Pack(m, s) \/ PullShard(m, s) \/ HashShard(m, s)
    \/ RefusePush(m) \/ \E B \in SUBSET Shards : Commit(m, B)
    \/ RecordPushed(m) \/ Publish(m) \/ EndPull(m) \/ CheckRepair(m) \/ PublishRepair(m)

FairSpec ==
    /\ Spec
    /\ \A m \in Machines : WF_vars(Continue(m))
    /\ \A m \in Machines : SF_vars(StartPush(m, Parts, FALSE))
    /\ \A m \in Machines : SF_vars(StartPull(m, Parts, FALSE))
    /\ <>[][\A m \in Machines : ~StartRepair(m)]_vars

-----------------------------------------------------------------------------
Table == [Shards -> SUBSET Entries]
Ops == {"idle", "pack", "upload", "publish", "pull", "hash", "rename"}
Commands ==
    [op: Ops, known: Table, todo: SUBSET Shards, packed: Table, seen: Table,
     uploads: SUBSET Shards, got: SUBSET Shards, guard: BOOLEAN,
     lossy: BOOLEAN, stale: BOOLEAN]

TypeOK ==
    /\ local \in [Machines -> SUBSET Entries]
    /\ pulled \in [Machines -> Table]
    /\ files \in Table /\ manifest \in Table
    /\ sync \in [Machines -> Commands]
    /\ faults \in 0 .. MaxFaults

\* The manifest goes up last: whatever it names, the repository holds, also when a
\* push died between the two, which can only leave a shard the manifest does not
\* name.  _downloaded takes a shard that is named and not there for such a push and
\* skips it: no command of this program brings that about.
NamedIsThere == Present(manifest) \subseteq Present(files)

\* "Sharing is additive": a push that read the manifest and was not forced drops
\* nothing from a shard that was there when it looked; what it does drop was
\* committed by another push in between.
DropsOnlyUnseen ==
    [][\A s \in Shards : files[s] \ files'[s] # {} =>
          \E m \in Machines :
              /\ sync[m].op = "upload" /\ s \in sync[m].uploads
              /\ ~sync[m].guard \/ (files[s] \ files'[s]) \cap sync[m].seen[s] = {}]_vars

\* "The code is fixed, so no future push can do this again": no command takes a
\* shard out of the manifest while the repository holds it.
StaysNamed == [][Present(manifest) \subseteq Present(manifest')]_vars

\* Machines that keep pushing and pulling end up with every answer any of them
\* bought, if no more than MaxFaults = 1 thing goes wrong on the way.  With two it
\* fails: when two pushes overlap and one of them, or a later one, could not read the
\* manifest, shards replace one another unseen, and a machine can have recorded the
\* digest of a shard it never unpacked, which it then skips for good.
Shared == \A m, n \in Machines : local[m] = local[n]
Converges == <>[]Shared
=============================================================================
