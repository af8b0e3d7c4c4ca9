--------------------------- MODULE CacheSync_proofs ---------------------------
(***************************************************************************)
(* Theorems about CacheSync, for every set of machines, entries and parts, *)
(* every batch size and every number of faults.                            *)
(***************************************************************************)
EXTENDS CacheSync, TLAPS

\* What makes NamedIsThere and DropsOnlyUnseen inductive, as a condition on one
\* command and the repository: it read only what is there, everything it packed
\* is there or still to be sent, and under the guard it looked before it replaces.
Sound(c, repo) ==
    /\ Present(c.known) \subseteq Present(repo)
    /\ c.uploads \subseteq Present(c.packed)
    /\ Present(c.packed) \subseteq Present(repo) \cup c.uploads
    /\ c.todo \cap c.uploads = {}
    /\ c.op \in {"publish", "hash", "rename"} => c.uploads = {}
    /\ c.op \in {"pack", "upload"} /\ c.guard /\ ~c.lossy
            => \A s \in c.uploads : c.seen[s] \subseteq c.packed[s]

IInv ==
    /\ TypeOK
    /\ NamedIsThere
    /\ \A m \in Machines : Sound(sync[m], files)

LEMMA NothingType == Nothing \in Table /\ Present(Nothing) = {}
  BY DEF Nothing, Table, Present

LEMMA IdleType == Idle \in Commands
  BY NothingType DEF Idle, Commands, Ops

LEMMA IdleSound == ASSUME NEW repo PROVE Sound(Idle, repo)
  BY NothingType DEF Idle, Sound

LEMMA InType ==
    ASSUME NEW entries \in SUBSET Entries, NEW s
    PROVE  In(entries, s) \in SUBSET Entries
  BY DEF In

LEMMA FaultType == ASSUME TypeOK, Fault PROVE faults' \in 0 .. MaxFaults
  BY BoundAssumption DEF TypeOK, Fault

LEMMA FaultIfType ==
    ASSUME TypeOK, NEW condition, FaultIf(condition) PROVE faults' \in 0 .. MaxFaults
  BY FaultType DEF FaultIf, TypeOK

LEMMA ShardsOfType == ASSUME NEW parts PROVE ShardsOf(parts) \in SUBSET Shards
  BY DEF ShardsOf

\* What commands know stays true while the repository only gains shards.
LEMMA SoundStays ==
    ASSUME NEW c \in Commands, NEW old \in Table, NEW new \in Table,
           Present(old) \subseteq Present(new), Sound(c, old)
    PROVE  Sound(c, new)
  BY DEF Sound

\* A step of one machine, the manifest being left alone.
LEMMA OneMachine ==
    ASSUME IInv, NEW m \in Machines, NEW c \in Commands,
           sync' = [sync EXCEPT ![m] = c],
           local' \in [Machines -> SUBSET Entries], pulled' \in [Machines -> Table],
           files' \in Table, faults' \in 0 .. MaxFaults, manifest' = manifest,
           Present(files) \subseteq Present(files'), Sound(c, files')
    PROVE  IInv'
<1>1. TypeOK'
  BY DEF IInv, TypeOK
<1>2. NamedIsThere'
  BY DEF IInv, NamedIsThere, Present
<1>3. ASSUME NEW n \in Machines PROVE Sound(sync'[n], files')
  <2>1. CASE n = m
    BY <2>1 DEF IInv, TypeOK
  <2>2. CASE n # m
    BY <2>2, SoundStays DEF IInv, TypeOK
  <2>3. QED
    BY <2>1, <2>2
<1>4. QED
  BY <1>1, <1>2, <1>3 DEF IInv

\* The same, for a step that changes nothing but its command.
LEMMA CommandOnly ==
    ASSUME IInv, NEW m \in Machines, NEW c \in Commands,
           sync' = [sync EXCEPT ![m] = c], Sound(c, files),
           UNCHANGED <<local, pulled, files, manifest>>, faults' \in 0 .. MaxFaults
    PROVE  IInv'
  BY OneMachine DEF IInv, TypeOK

\* The same, for a step that ends it.
LEMMA Ends ==
    ASSUME IInv, NEW m \in Machines, sync' = [sync EXCEPT ![m] = Idle],
           UNCHANGED <<local, files, manifest>>, pulled' \in [Machines -> Table],
           faults' \in 0 .. MaxFaults
    PROVE  IInv'
  BY OneMachine, IdleType, IdleSound DEF IInv, TypeOK

LEMMA SavedType ==
    ASSUME TypeOK, NEW m \in Machines, NEW shards
    PROVE  Saved(m, shards) \in [Machines -> Table]
  BY DEF TypeOK, Saved, Table, Commands

-----------------------------------------------------------------------------
\* One lemma per action.
LEMMA StartPushKeeps ==
    ASSUME IInv, NEW m \in Machines, NEW parts \in Asked, NEW force \in BOOLEAN,
           StartPush(m, parts, force)
    PROVE  IInv'
<1> DEFINE c == [Idle EXCEPT !.op = "pack", !.known = manifest, !.todo = ShardsOf(parts),
                             !.guard = ~force]
<1>1. c \in Commands
  BY IdleType, ShardsOfType DEF IInv, TypeOK, Commands, Ops
<1>2. Sound(c, files)
  BY NothingType DEF Idle, Sound, IInv, NamedIsThere
<1>3. QED
  BY <1>1, <1>2, CommandOnly, FaultIfType DEF StartPush, IInv

LEMMA StartBlindPushKeeps ==
    ASSUME IInv, NEW m \in Machines, StartBlindPush(m)
    PROVE  IInv'
<1> DEFINE c == [Idle EXCEPT !.op = "pack", !.todo = Shards, !.guard = FALSE]
<1>1. c \in Commands
  BY IdleType DEF Commands, Ops
<1>2. Sound(c, files)
  BY NothingType DEF Idle, Sound
<1>3. QED
  BY <1>1, <1>2, CommandOnly, FaultType DEF StartBlindPush, IInv

LEMMA PackKeeps ==
    ASSUME IInv, NEW m \in Machines, NEW s \in Shards, Pack(m, s)
    PROVE  IInv'
<1> DEFINE old == sync[m]
           mine == In(local[m], s)
           changed == mine # {} /\ mine # old.known[s]
           looks == changed /\ old.guard
           uploads == IF changed THEN old.uploads \cup {s} ELSE old.uploads
           packed == [old.packed EXCEPT ![s] = mine]
           seen == [old.seen EXCEPT ![s] = IF looks THEN files[s] ELSE {}]
           lossy == old.lossy \/ (looks /\ Lost(m, s) # {})
           c == [old EXCEPT !.todo = old.todo \ {s}, !.packed = packed, !.seen = seen,
                            !.uploads = uploads, !.lossy = lossy,
                            !.op = IF old.todo = {s} THEN "upload" ELSE "pack"]
<1>1. old \in Commands /\ Sound(old, files) /\ mine \in SUBSET Entries /\ files \in Table
  BY InType DEF IInv, TypeOK
<1>2. s \in old.todo /\ old.op = "pack"
  BY DEF Pack, First
<1>3. packed \in Table /\ seen \in Table /\ uploads \in SUBSET Shards /\ lossy \in BOOLEAN
  <2> HIDE DEF mine
  <2>. QED
    BY <1>1 DEF Commands, Table
<1>4. c \in Commands
  <2> HIDE DEF packed, seen, uploads, lossy, old
  <2>. QED
    BY <1>1, <1>3 DEF Commands, Ops
<1>5. /\ c.known = old.known /\ c.uploads = uploads /\ c.packed = packed
      /\ c.todo = old.todo \ {s} /\ c.seen = seen /\ c.guard = old.guard
      /\ c.lossy = lossy /\ c.op \in {"pack", "upload"}
  <2> HIDE DEF packed, seen, uploads, lossy, old
  <2>. QED
    BY <1>1 DEF Commands
<1>6. uploads \subseteq Present(packed)
  BY <1>1, <1>2 DEF Sound, Present, Commands, Table
<1>7. Present(packed) \subseteq Present(files) \cup uploads
  BY <1>1, <1>2 DEF Sound, Present, Commands, Table
<1>8. ASSUME old.guard, ~lossy, NEW t \in uploads PROVE seen[t] \subseteq packed[t]
  <2>1. CASE t = s
    <3>1. ~(s \in old.uploads)
      BY <1>1, <1>2 DEF Sound
    <3>2. changed /\ looks
      BY <2>1, <3>1, <1>8
    <3>3. files[s] \subseteq mine
      <4>1. Lost(m, s) = {}
        BY <3>2, <1>8
      <4>2. QED
        BY <4>1 DEF Lost
    <3>4. QED
      BY <2>1, <3>2, <3>3, <1>1 DEF Commands, Table
  <2>2. CASE t # s
    <3>1. t \in old.uploads /\ ~old.lossy
      BY <2>2, <1>8
    <3>2. old.seen[t] \subseteq old.packed[t]
      BY <3>1, <1>8, <1>1, <1>2 DEF Sound
    <3>3. QED
      BY <2>2, <3>1, <3>2, <1>1 DEF Commands, Table
  <2>3. QED
    BY <2>1, <2>2
<1>9. Sound(c, files)
  <2>1. (old.todo \ {s}) \cap uploads = {}
    BY <1>1, <1>2 DEF Sound
  <2>2. Present(old.known) \subseteq Present(files)
    BY <1>1 DEF Sound
  <2> HIDE DEF packed, seen, uploads, lossy, old, c
  <2>. QED
    BY <1>5, <1>6, <1>7, <1>8, <2>1, <2>2 DEF Sound
<1>10. sync' = [sync EXCEPT ![m] = c] /\ UNCHANGED <<local, pulled, files, manifest, faults>>
  BY DEF Pack
<1>11. QED
  <2> HIDE DEF c
  <2>. QED
    BY <1>4, <1>9, <1>10, CommandOnly DEF IInv, TypeOK

LEMMA RefusePushKeeps == ASSUME IInv, NEW m \in Machines, RefusePush(m) PROVE IInv'
  BY Ends DEF RefusePush, IInv, TypeOK

\* Sending a batch: what is replaced is replaced by something, so no shard
\* disappears from the repository.
LEMMA ReplaceGrows ==
    ASSUME IInv, NEW m \in Machines, NEW B \in SUBSET Shards, Batch(m, B), Replace(m, B)
    PROVE  /\ files' \in Table
           /\ Present(files) \subseteq Present(files') /\ B \subseteq Present(files')
<1>1. sync[m].packed \in Table /\ files \in Table
  BY DEF IInv, TypeOK, Commands
<1>2. B \subseteq Present(sync[m].packed)
  BY DEF IInv, Sound, Batch
<1>3. QED
  BY <1>1, <1>2 DEF Replace, Table, Present

LEMMA CommitKeeps ==
    ASSUME IInv, NEW m \in Machines, NEW B \in SUBSET Shards, Commit(m, B)
    PROVE  IInv'
<1> DEFINE old == sync[m]
           uploads == old.uploads \ B
           seen == [s \in Shards |-> IF s \in B THEN {} ELSE old.seen[s]]
           c == [old EXCEPT !.uploads = uploads, !.seen = seen]
<1>1. old \in Commands /\ Sound(old, files) /\ old.op = "upload"
  BY DEF IInv, TypeOK, Commit
<1>2. seen \in Table /\ uploads \in SUBSET Shards
  BY <1>1 DEF Commands, Table
<1>3. /\ c \in Commands /\ c.known = old.known /\ c.uploads = uploads /\ c.packed = old.packed
      /\ c.todo = old.todo /\ c.seen = seen /\ c.guard = old.guard
      /\ c.lossy = old.lossy /\ c.op = old.op
  <2> HIDE DEF uploads, seen, old
  <2>. QED
    BY <1>1, <1>2 DEF Commands
<1>4. files' \in Table /\ Present(files) \subseteq Present(files') /\ B \subseteq Present(files')
  BY ReplaceGrows DEF Commit
<1>5. Sound(c, files')
  <2>1. \A s \in uploads : seen[s] = old.seen[s] /\ s \in old.uploads
    BY <1>1 DEF Commands
  <2> HIDE DEF seen, old, c
  <2>. QED
    BY <1>1, <1>3, <1>4, <2>1 DEF Sound
<1>6. sync' = [sync EXCEPT ![m] = c] /\ UNCHANGED <<local, pulled, manifest, faults>>
  BY DEF Commit
<1>7. QED
  <2> HIDE DEF c
  <2>. QED
    BY <1>3, <1>4, <1>5, <1>6, OneMachine DEF IInv, TypeOK

LEMMA CommitRaisesKeeps ==
    ASSUME IInv, NEW m \in Machines, NEW B \in SUBSET Shards, CommitRaises(m, B)
    PROVE  IInv'
<1>1. files' \in Table /\ Present(files) \subseteq Present(files')
  BY ReplaceGrows DEF CommitRaises
<1>2. QED
  BY <1>1, OneMachine, IdleType, IdleSound, FaultType DEF CommitRaises, IInv, TypeOK

LEMMA RecordPushedKeeps == ASSUME IInv, NEW m \in Machines, RecordPushed(m) PROVE IInv'
<1> DEFINE old == sync[m]
           c == [old EXCEPT !.op = "publish"]
<1>1. old \in Commands /\ Sound(old, files) /\ old.uploads = {} /\ old.op = "upload"
  BY DEF IInv, TypeOK, RecordPushed
<1>2. /\ c \in Commands /\ c.known = old.known /\ c.uploads = {} /\ c.packed = old.packed
      /\ c.todo = old.todo /\ c.op = "publish"
  <2> HIDE DEF old
  <2>. QED
    BY <1>1 DEF Commands, Ops
<1>3. Sound(c, files)
  <2> HIDE DEF old, c
  <2>. QED
    BY <1>1, <1>2 DEF Sound
<1>4. pulled' \in [Machines -> Table]
  BY <1>1 DEF RecordPushed, IInv, TypeOK, Commands, Table
<1>5. sync' = [sync EXCEPT ![m] = c] /\ UNCHANGED <<local, files, manifest, faults>>
  BY DEF RecordPushed
<1>6. QED
  <2> HIDE DEF c
  <2>. QED
    BY <1>2, <1>3, <1>4, <1>5, OneMachine DEF IInv, TypeOK

\* The manifest a command writes names nothing the repository does not hold.
LEMMA MergedIsThere ==
    ASSUME IInv, NEW m \in Machines, sync[m].op \in {"publish", "rename"}
    PROVE  Merged(m) \in Table /\ Present(Merged(m)) \subseteq Present(files)
<1>1. sync[m] \in Commands /\ Sound(sync[m], files)
  BY DEF IInv, TypeOK
<1>2. /\ Present(sync[m].known) \subseteq Present(files)
      /\ Present(sync[m].packed) \subseteq Present(files)
  BY <1>1 DEF Sound
<1>3. QED
  BY <1>1, <1>2 DEF Merged, Present, Commands, Table

LEMMA PublishKeeps == ASSUME IInv, NEW m \in Machines, Publish(m) PROVE IInv'
<1>1. Merged(m) \in Table /\ Present(Merged(m)) \subseteq Present(files)
  BY MergedIsThere DEF Publish
<1>2. ASSUME NEW n \in Machines
      PROVE  sync'[n] \in Commands /\ Sound(sync'[n], files)
  <2> DEFINE c == [sync[n] EXCEPT !.stale = sync[n].op = "hash"]
  <2>1. sync[n] \in Commands /\ Sound(sync[n], files)
    BY DEF IInv, TypeOK
  <2>2. c \in Commands
    BY <2>1 DEF Commands
  <2>3. Sound(c, files)
    <3>1. /\ c.known = sync[n].known /\ c.uploads = sync[n].uploads
          /\ c.packed = sync[n].packed /\ c.todo = sync[n].todo /\ c.seen = sync[n].seen
          /\ c.guard = sync[n].guard /\ c.lossy = sync[n].lossy /\ c.op = sync[n].op
      BY <2>1 DEF Commands
    <3> HIDE DEF c
    <3>. QED
      BY <2>1, <3>1 DEF Sound
  <2>4. sync'[n] = IF n = m THEN Idle ELSE c
    BY DEF Publish
  <2>5. QED
    BY <2>2, <2>3, <2>4, IdleType, IdleSound
<1>3. sync' = [n \in Machines |-> sync'[n]]
  BY DEF Publish
<1>4. TypeOK'
  BY <1>1, <1>2, <1>3 DEF Publish, IInv, TypeOK
<1>5. NamedIsThere'
  BY <1>1 DEF Publish, NamedIsThere, Present
<1>6. QED
  BY <1>2, <1>4, <1>5 DEF IInv, Publish

LEMMA StartPullKeeps ==
    ASSUME IInv, NEW m \in Machines, NEW parts \in Asked, NEW force \in BOOLEAN,
           StartPull(m, parts, force)
    PROVE  IInv'
<1> DEFINE wanted == {s \in ShardsOf(parts) \cap Present(manifest) :
                        force \/ pulled[m][s] # manifest[s]}
           known == [s \in Shards |-> IF s \in wanted THEN manifest[s] ELSE {}]
           c == [Idle EXCEPT !.op = "pull", !.todo = wanted, !.known = known]
<1>1. wanted \in SUBSET Shards
  BY ShardsOfType
<1>2. known \in Table /\ Present(known) \subseteq Present(files)
  <2> HIDE DEF wanted
  <2>. QED
    BY <1>1 DEF IInv, TypeOK, NamedIsThere, Present, Table
<1>3. c \in Commands
  <2> HIDE DEF wanted, known
  <2>. QED
    BY <1>1, <1>2, IdleType DEF Commands, Ops
<1>4. Sound(c, files)
  <2> HIDE DEF wanted, known
  <2>. QED
    BY <1>2, NothingType DEF Idle, Sound
<1>5. sync' = [sync EXCEPT ![m] = c] /\ UNCHANGED <<local, pulled, files, manifest>>
  BY DEF StartPull
<1>6. faults' \in 0 .. MaxFaults
  BY FaultIfType DEF StartPull, IInv
<1>7. QED
  <2> HIDE DEF c
  <2>. QED
    BY <1>3, <1>4, <1>5, <1>6, CommandOnly

LEMMA PullShardKeeps ==
    ASSUME IInv, NEW m \in Machines, NEW s \in Shards, PullShard(m, s)
    PROVE  IInv'
<1> DEFINE old == sync[m]
           got == IF files[s] = {} THEN old.got ELSE old.got \cup {s}
           save == Cardinality(got) >= SaveEvery
           kept == IF save THEN {} ELSE got
           c == [old EXCEPT !.todo = old.todo \ {s}, !.got = kept]
<1>1. old \in Commands /\ Sound(old, files) /\ old.op = "pull"
  BY DEF IInv, TypeOK, PullShard
<1>2. kept \in SUBSET Shards
  BY <1>1 DEF Commands
<1>3. /\ c \in Commands /\ c.known = old.known /\ c.uploads = old.uploads
      /\ c.packed = old.packed /\ c.todo = old.todo \ {s} /\ c.op = old.op
  <2> HIDE DEF old, kept
  <2>. QED
    BY <1>1, <1>2 DEF Commands
<1>4. Sound(c, files)
  <2> HIDE DEF old, c
  <2>. QED
    BY <1>1, <1>3 DEF Sound
<1>5. local' \in [Machines -> SUBSET Entries]
  BY DEF PullShard, IInv, TypeOK, Table
<1>6. pulled' \in [Machines -> Table]
  BY SavedType DEF PullShard, IInv, TypeOK
<1>7. sync' = [sync EXCEPT ![m] = c] /\ UNCHANGED <<files, manifest, faults>>
  BY DEF PullShard
<1>8. QED
  <2> HIDE DEF c
  <2>. QED
    BY <1>3, <1>4, <1>5, <1>6, <1>7, OneMachine DEF IInv, TypeOK

LEMMA EndPullKeeps == ASSUME IInv, NEW m \in Machines, EndPull(m) PROVE IInv'
  BY Ends, SavedType DEF EndPull, IInv, TypeOK

LEMMA StartRepairKeeps == ASSUME IInv, NEW m \in Machines, StartRepair(m) PROVE IInv'
<1> DEFINE c == [Idle EXCEPT !.op = "hash", !.known = manifest, !.todo = Unnamed]
<1>1. Unnamed \in SUBSET Shards
  BY DEF Unnamed, Present
<1>2. c \in Commands
  BY <1>1, IdleType DEF IInv, TypeOK, Commands, Ops
<1>3. Sound(c, files)
  BY NothingType DEF Idle, Sound, IInv, NamedIsThere
<1>4. QED
  BY <1>2, <1>3, CommandOnly DEF StartRepair, IInv, TypeOK

LEMMA HashShardKeeps ==
    ASSUME IInv, NEW m \in Machines, NEW s \in Shards, HashShard(m, s)
    PROVE  IInv'
<1> DEFINE old == sync[m]
           packed == [old.packed EXCEPT ![s] = files[s]]
           c == [old EXCEPT !.todo = old.todo \ {s}, !.packed = packed]
<1>1. old \in Commands /\ Sound(old, files) /\ old.op = "hash"
  BY DEF IInv, TypeOK, HashShard
<1>2. packed \in Table
  BY <1>1 DEF IInv, TypeOK, Commands, Table
<1>3. /\ c \in Commands /\ c.known = old.known /\ c.uploads = old.uploads
      /\ c.packed = packed /\ c.todo = old.todo \ {s} /\ c.op = old.op
  <2> HIDE DEF old, packed
  <2>. QED
    BY <1>1, <1>2 DEF Commands
<1>4. Present(packed) \subseteq Present(files)
  BY <1>1 DEF Sound, Present, Commands, Table
<1>5. Sound(c, files)
  <2> HIDE DEF old, c, packed
  <2>. QED
    BY <1>1, <1>3, <1>4 DEF Sound
<1>6. sync' = [sync EXCEPT ![m] = c] /\ UNCHANGED <<local, pulled, files, manifest, faults>>
  BY DEF HashShard
<1>7. QED
  <2> HIDE DEF c
  <2>. QED
    BY <1>3, <1>5, <1>6, CommandOnly DEF IInv, TypeOK

LEMMA CheckRepairKeeps == ASSUME IInv, NEW m \in Machines, CheckRepair(m) PROVE IInv'
<1> DEFINE old == sync[m]
           c == [old EXCEPT !.op = "rename"]
<1>1. old \in Commands /\ Sound(old, files) /\ old.op = "hash"
  BY DEF IInv, TypeOK, CheckRepair
<1>2. /\ c \in Commands /\ c.known = old.known /\ c.uploads = old.uploads
      /\ c.packed = old.packed /\ c.todo = old.todo /\ c.op = "rename"
  <2> HIDE DEF old
  <2>. QED
    BY <1>1 DEF Commands, Ops
<1>3. Sound(c, files)
  <2> HIDE DEF old, c
  <2>. QED
    BY <1>1, <1>2 DEF Sound
<1>4. CASE old.stale
  BY <1>4, Ends DEF CheckRepair, IInv, TypeOK
<1>5. CASE ~old.stale
  <2>1. sync' = [sync EXCEPT ![m] = c]
    BY <1>5 DEF CheckRepair
  <2> HIDE DEF c
  <2>. QED
    BY <1>2, <1>3, <2>1, CommandOnly DEF CheckRepair, IInv, TypeOK
<1>6. QED
  BY <1>4, <1>5

LEMMA PublishRepairKeeps == ASSUME IInv, NEW m \in Machines, PublishRepair(m) PROVE IInv'
<1>1. Merged(m) \in Table /\ Present(Merged(m)) \subseteq Present(files)
  BY MergedIsThere DEF PublishRepair
<1>2. TypeOK'
  BY <1>1, IdleType DEF PublishRepair, IInv, TypeOK
<1>3. NamedIsThere'
  BY <1>1 DEF PublishRepair, NamedIsThere, Present
<1>4. ASSUME NEW n \in Machines PROVE Sound(sync'[n], files)
  BY IdleSound DEF PublishRepair, IInv, TypeOK
<1>5. QED
  BY <1>2, <1>3, <1>4 DEF IInv, PublishRepair

LEMMA ProduceKeeps ==
    ASSUME IInv, NEW m \in Machines, NEW e \in Entries, Produce(m, e) PROVE IInv'
  BY DEF Produce, IInv, TypeOK, NamedIsThere, Present

LEMMA StopKeeps == ASSUME IInv, NEW m \in Machines, Stop(m) PROVE IInv'
  BY Ends, FaultType DEF Stop, IInv, TypeOK

-----------------------------------------------------------------------------
LEMMA Inductive == IInv /\ [Next]_vars => IInv'
<1> SUFFICES ASSUME IInv, [Next]_vars PROVE IInv'
  OBVIOUS
<1>1. CASE UNCHANGED vars
  BY <1>1 DEF vars, IInv, TypeOK, NamedIsThere, Present
<1>2. CASE Next
  BY <1>2, ProduceKeeps, StartPushKeeps, StartPullKeeps, StartBlindPushKeeps, PackKeeps,
     PullShardKeeps, HashShardKeeps, RefusePushKeeps, CommitKeeps, CommitRaisesKeeps,
     RecordPushedKeeps, PublishKeeps, EndPullKeeps, StartRepairKeeps, CheckRepairKeeps,
     PublishRepairKeeps, StopKeeps DEF Next
<1>3. QED
  BY <1>1, <1>2

LEMMA Initially == Init => IInv
<1> SUFFICES ASSUME Init PROVE IInv
  OBVIOUS
<1>1. TypeOK
  BY NothingType, IdleType, HeldAssumption, BoundAssumption DEF Init, TypeOK
<1>2. NamedIsThere
  BY NothingType DEF Init, NamedIsThere
<1>3. QED
  BY <1>1, <1>2, IdleSound DEF Init, IInv

LEMMA Invariant == Spec => []IInv
  BY Initially, Inductive, PTL DEF Spec

\* Type correctness of caches, repository and commands, whatever fails or stops.
THEOREM TypeCorrect == Spec => []TypeOK
<1>1. IInv => TypeOK
  BY DEF IInv
<1>2. QED
  BY <1>1, Invariant, PTL

\* The manifest never names a shard the repository does not hold, however many
\* machines push, repair, die or are refused at any point.
THEOREM NamesOnlyWhatIsThere == Spec => []NamedIsThere
<1>1. IInv => NamedIsThere
  BY DEF IInv
<1>2. QED
  BY <1>1, Invariant, PTL

\* Only a commit changes the repository's shards.
LEMMA OthersKeepFiles ==
    ASSUME NEW m, NEW e, NEW parts, NEW force, NEW s,
           \/ Produce(m, e) \/ StartPush(m, parts, force) \/ StartPull(m, parts, force)
           \/ StartBlindPush(m) \/ Pack(m, s) \/ PullShard(m, s) \/ HashShard(m, s)
           \/ RefusePush(m) \/ RecordPushed(m) \/ Publish(m) \/ EndPull(m)
           \/ StartRepair(m) \/ CheckRepair(m) \/ PublishRepair(m) \/ Stop(m)
    PROVE  files' = files
<1>1. CASE Produce(m, e)
  BY <1>1 DEF Produce
<1>2. CASE StartPush(m, parts, force)
  BY <1>2 DEF StartPush
<1>3. CASE StartPull(m, parts, force)
  BY <1>3 DEF StartPull
<1>4. CASE StartBlindPush(m)
  BY <1>4 DEF StartBlindPush
<1>5. CASE Pack(m, s)
  BY <1>5 DEF Pack
<1>6. CASE PullShard(m, s)
  BY <1>6 DEF PullShard
<1>7. CASE HashShard(m, s)
  BY <1>7 DEF HashShard
<1>8. CASE RefusePush(m) \/ RecordPushed(m) \/ Publish(m) \/ EndPull(m)
  BY <1>8 DEF RefusePush, RecordPushed, Publish, EndPull
<1>9. CASE StartRepair(m) \/ CheckRepair(m) \/ PublishRepair(m) \/ Stop(m)
  BY <1>9 DEF StartRepair, CheckRepair, PublishRepair, Stop
<1>10. QED
  BY <1>1, <1>2, <1>3, <1>4, <1>5, <1>6, <1>7, <1>8, <1>9

\* An unforced push that read the manifest drops no entry it could have seen.
THEOREM NothingSeenIsDropped == Spec => DropsOnlyUnseen
<1> DEFINE Safe == \A s \in Shards : files[s] \ files'[s] # {} =>
              \E m \in Machines :
                  /\ sync[m].op = "upload" /\ s \in sync[m].uploads
                  /\ ~sync[m].guard \/ (files[s] \ files'[s]) \cap sync[m].seen[s] = {}
<1>1. ASSUME IInv, NEW m \in Machines, NEW B \in SUBSET Shards,
             Commit(m, B) \/ CommitRaises(m, B)
      PROVE  Safe
  <2>1. sync[m].op = "upload" /\ ~sync[m].lossy /\ B \subseteq sync[m].uploads /\ Replace(m, B)
    BY <1>1 DEF Commit, CommitRaises, Batch
  <2>2. sync[m].guard => \A s \in sync[m].uploads : sync[m].seen[s] \subseteq sync[m].packed[s]
    BY <1>1, <2>1 DEF IInv, Sound
  <2>3. ASSUME NEW s \in Shards, files[s] \ files'[s] # {}
        PROVE  s \in B /\ files'[s] = sync[m].packed[s]
    BY <2>1, <2>3 DEF Replace
  <2>4. QED
    BY <2>1, <2>2, <2>3
<1>2. ASSUME files' = files PROVE Safe
  BY <1>2
<1>3. IInv /\ [Next]_vars => Safe
  <2> SUFFICES ASSUME IInv, [Next]_vars PROVE Safe
    OBVIOUS
  <2> HIDE DEF Safe
  <2>1. CASE UNCHANGED vars
    BY <2>1, <1>2 DEF vars
  <2>2. CASE Next
    BY <2>2, <1>1, <1>2, OthersKeepFiles DEF Next
  <2>3. QED
    BY <2>1, <2>2
<1>4. QED
  BY <1>3, Invariant, PTL DEF DropsOnlyUnseen, Spec

-----------------------------------------------------------------------------
\* What sharing is while nothing goes wrong: no push is forced, blind or beside
\* another one, and no command dies.  What a command knows and packed is on the
\* hub or is to be sent, what it sends takes nothing away, a push sends what its
\* machine has, and a pull records what it brought.
Honest(c, mine, repo) ==
    /\ \A s \in Shards : c.known[s] \subseteq repo[s]
    /\ \A s \in Shards \ c.uploads : c.packed[s] \subseteq repo[s]
    /\ c.op \in {"pack", "upload", "publish"} => c.guard /\ \A s \in Shards : c.packed[s] \subseteq mine
    /\ c.lossy \/ \A s \in c.uploads : repo[s] \subseteq c.packed[s]
    /\ c.op \notin {"pack", "upload"} => c.uploads = {}
    /\ c.op = "pull" => \A s \in c.got : c.known[s] \subseteq mine
Clean ==
    /\ \A s \in Shards : manifest[s] \subseteq files[s]
    /\ \A m \in Machines, s \in Shards : pulled[m][s] \subseteq local[m]
    /\ \A m, n \in Machines : Pushing(m) /\ Pushing(n) => m = n
    /\ \A m \in Machines : Honest(sync[m], local[m], files)

LEMMA IdleHonest == ASSUME NEW mine, NEW repo PROVE Honest(Idle, mine, repo)
  BY DEF Honest, Idle, Nothing

\* A command that sends nothing stays honest while caches and hub only grow.
LEMMA HonestStays ==
    ASSUME NEW c, NEW mine, NEW repo, NEW more, NEW grown, Honest(c, mine, repo),
           mine \subseteq more, \A s \in Shards : repo[s] \subseteq grown[s],
           c.uploads = {} \/ grown = repo
    PROVE  Honest(c, more, grown)
  BY DEF Honest

LEMMA CleanOne ==
    ASSUME IInv, Clean, NEW m \in Machines, NEW c \in Commands,
           sync' = [sync EXCEPT ![m] = c], manifest' = manifest,
           \A n \in Machines : n # m => local'[n] = local[n] /\ pulled'[n] = pulled[n],
           local[m] \subseteq local'[m], \A s \in Shards : pulled'[m][s] \subseteq local'[m],
           \A s \in Shards : files[s] \subseteq files'[s],
           files' = files \/ Pushing(m),
           c.op \in {"pack", "upload", "publish"} => Pushing(m) \/ \A n \in Machines : ~Pushing(n),
           Honest(c, local'[m], files')
    PROVE  Clean'
<1>1. sync \in [Machines -> Commands]
  BY DEF IInv, TypeOK
<1>2. \A n \in Machines : sync'[n] = IF n = m THEN c ELSE sync[n]
  BY <1>1
<1>3. ASSUME NEW n \in Machines, n # m
      PROVE  Honest(sync'[n], local'[n], files')
  <2>1. Honest(sync[n], local[n], files) /\ sync'[n] = sync[n] /\ local'[n] = local[n]
    BY <1>2, <1>3 DEF Clean
  <2>2. sync[n].uploads = {} \/ files' = files
    BY <1>3, <2>1 DEF Clean, Honest, Pushing
  <2>3. QED
    BY <2>1, <2>2, HonestStays
<1>4. \A n \in Machines : Honest(sync'[n], local'[n], files')
  BY <1>2, <1>3
<1>5. \A i, j \in Machines : Pushing(i)' /\ Pushing(j)' => i = j
  BY <1>2 DEF Pushing, Clean
<1>6. \A s \in Shards : manifest'[s] \subseteq files'[s]
  BY DEF Clean
<1>7. \A n \in Machines, s \in Shards : pulled'[n][s] \subseteq local'[n]
  BY DEF Clean
<1>8. QED
  BY <1>4, <1>5, <1>6, <1>7 DEF Clean

\* The same, for a step that changes nothing but its command.
LEMMA CleanCommand ==
    ASSUME IInv, Clean, NEW m \in Machines, NEW c \in Commands, sync' = [sync EXCEPT ![m] = c],
           UNCHANGED <<local, pulled, files, manifest>>,
           c.op \in {"pack", "upload", "publish"} => Pushing(m) \/ \A n \in Machines : ~Pushing(n),
           Honest(c, local[m], files)
    PROVE  Clean'
  BY CleanOne DEF Clean

LEMMA KnownCommand ==
    ASSUME IInv, Clean, NEW m \in Machines
    PROVE  /\ sync[m] \in Commands /\ Sound(sync[m], files) /\ Honest(sync[m], local[m], files)
           /\ \A s \in Shards : manifest[s] \subseteq files[s] /\ pulled[m][s] \subseteq local[m]
           /\ manifest \in Table /\ files \in Table
  BY DEF IInv, TypeOK, Clean

LEMMA StartPushClean ==
    ASSUME IInv, Clean, NEW m \in Machines, NEW parts, StartPush(m, parts, FALSE),
           \A n \in Machines : ~Pushing(n)
    PROVE  Clean'
<1>1. PICK c : c = [Idle EXCEPT !.op = "pack", !.known = manifest, !.todo = ShardsOf(parts),
                                !.guard = TRUE]
  OBVIOUS
<1>2. c \in Commands
  BY <1>1, IdleType, ShardsOfType, KnownCommand DEF Commands, Ops
<1>3. /\ c.op = "pack" /\ c.known = manifest /\ c.guard /\ c.packed = Nothing
      /\ c.uploads = {} /\ c.lossy = FALSE
  BY <1>1 DEF Idle
<1>4. Honest(c, local[m], files)
  BY <1>3, KnownCommand DEF Honest, Nothing
<1>5. sync' = [sync EXCEPT ![m] = c] /\ UNCHANGED <<local, pulled, files, manifest>>
  BY <1>1 DEF StartPush
<1>6. QED
  BY <1>2, <1>4, <1>5, CleanCommand

LEMMA PackFields ==
    ASSUME IInv, NEW m \in Machines, NEW s \in Shards, Pack(m, s)
    PROVE  \E c \in Commands :
               /\ sync' = [sync EXCEPT ![m] = c]
               /\ c.known = sync[m].known /\ c.guard = sync[m].guard /\ c.op \in {"pack", "upload"}
               /\ c.packed = [sync[m].packed EXCEPT ![s] = In(local[m], s)]
               /\ \/ c.uploads = sync[m].uploads /\ c.lossy = sync[m].lossy
                     /\ In(local[m], s) \in {{}, sync[m].known[s]}
                  \/ /\ c.uploads = sync[m].uploads \cup {s}
                     /\ c.lossy <=> sync[m].lossy \/ (sync[m].guard /\ Lost(m, s) # {})
<1> DEFINE old == sync[m]
           mine == In(local[m], s)
           changed == mine # {} /\ mine # old.known[s]
           looks == changed /\ old.guard
           uploads == IF changed THEN old.uploads \cup {s} ELSE old.uploads
           packed == [old.packed EXCEPT ![s] = mine]
           seen == [old.seen EXCEPT ![s] = IF looks THEN files[s] ELSE {}]
           lossy == old.lossy \/ (looks /\ Lost(m, s) # {})
           c == [old EXCEPT !.todo = old.todo \ {s}, !.packed = packed, !.seen = seen,
                            !.uploads = uploads, !.lossy = lossy,
                            !.op = IF old.todo = {s} THEN "upload" ELSE "pack"]
<1>1. old \in Commands /\ mine \in SUBSET Entries /\ files \in Table
  BY InType DEF IInv, TypeOK
<1>2. packed \in Table /\ seen \in Table /\ uploads \in SUBSET Shards /\ lossy \in BOOLEAN
  <2> HIDE DEF mine
  <2>. QED
    BY <1>1 DEF Commands, Table
<1>3. c \in Commands
  <2> HIDE DEF packed, seen, uploads, lossy, old
  <2>. QED
    BY <1>1, <1>2 DEF Commands, Ops
<1>4. /\ c.known = old.known /\ c.uploads = uploads /\ c.packed = packed
      /\ c.guard = old.guard /\ c.lossy = lossy /\ c.op \in {"pack", "upload"}
  <2> HIDE DEF packed, seen, uploads, lossy, old
  <2>. QED
    BY <1>1 DEF Commands
<1>5. sync' = [sync EXCEPT ![m] = c]
  BY DEF Pack
<1>6. old.lossy \in BOOLEAN
  BY <1>1 DEF Commands
<1>7. CASE changed
  <2>1. uploads = old.uploads \cup {s} /\ (lossy <=> old.lossy \/ (old.guard /\ Lost(m, s) # {}))
    BY <1>7
  <2> HIDE DEF c, uploads, lossy, old
  <2>2. QED
    BY <1>3, <1>4, <1>5, <2>1 DEF old
<1>8. CASE ~changed
  <2>1. uploads = old.uploads /\ (lossy <=> old.lossy) /\ mine \in {{}, old.known[s]}
    BY <1>8
  <2>2. lossy = old.lossy
    BY <1>2, <1>6, <2>1
  <2> HIDE DEF c, uploads, lossy, old
  <2>3. QED
    BY <1>3, <1>4, <1>5, <2>1, <2>2 DEF old
<1>9. QED
  BY <1>7, <1>8

LEMMA PackClean ==
    ASSUME IInv, Clean, NEW m \in Machines, NEW s \in Shards, Pack(m, s)
    PROVE  Clean'
<1>1. PICK old \in Commands : old = sync[m] /\ Sound(old, files) /\ Honest(old, local[m], files)
  BY KnownCommand
<1>2. PICK mine : mine = In(local[m], s) /\ mine \subseteq local[m]
  BY DEF In
<1>3. old.op = "pack" /\ s \in old.todo /\ s \notin old.uploads
  BY <1>1 DEF Pack, First, Sound
<1>4. old.guard /\ \A t \in Shards : old.packed[t] \subseteq local[m]
  BY <1>1, <1>3 DEF Honest
<1>5. PICK c \in Commands :
          /\ sync' = [sync EXCEPT ![m] = c]
          /\ c.known = old.known /\ c.guard = old.guard /\ c.op \in {"pack", "upload"}
          /\ c.packed = [old.packed EXCEPT ![s] = mine]
          /\ \/ c.uploads = old.uploads /\ c.lossy = old.lossy /\ mine \in {{}, old.known[s]}
             \/ /\ c.uploads = old.uploads \cup {s}
                /\ c.lossy <=> old.lossy \/ (old.guard /\ Lost(m, s) # {})
  BY <1>1, <1>2, PackFields
<1>6. \A t \in Shards : c.packed[t] = IF t = s THEN mine ELSE old.packed[t]
  BY <1>5 DEF Commands, Table
<1>7. \A t \in Shards : c.packed[t] \subseteq local[m]
  BY <1>2, <1>4, <1>6
<1>8. \A t \in Shards : c.known[t] \subseteq files[t]
  BY <1>1, <1>5 DEF Honest
<1>9. c.guard /\ c.op \in {"pack", "upload"}
  BY <1>4, <1>5
<1>10. ASSUME c.uploads = old.uploads, c.lossy = old.lossy, mine \in {{}, old.known[s]}
       PROVE  Honest(c, local[m], files)
  <2>1. \A t \in Shards \ c.uploads : c.packed[t] \subseteq files[t]
    BY <1>1, <1>6, <1>10 DEF Honest
  <2>2. c.lossy \/ \A t \in c.uploads : files[t] \subseteq c.packed[t]
    BY <1>1, <1>3, <1>6, <1>10 DEF Honest, Commands
  <2>3. QED
    BY <1>7, <1>8, <1>9, <2>1, <2>2 DEF Honest
<1>11. ASSUME c.uploads = old.uploads \cup {s},
              c.lossy <=> old.lossy \/ (old.guard /\ Lost(m, s) # {})
       PROVE  Honest(c, local[m], files)
  <2>1. \A t \in Shards \ c.uploads : c.packed[t] \subseteq files[t]
    BY <1>1, <1>6, <1>11 DEF Honest
  <2>2. ASSUME ~c.lossy
        PROVE  \A t \in c.uploads : files[t] \subseteq c.packed[t]
    <3>1. ~old.lossy /\ Lost(m, s) = {}
      BY <1>4, <1>11, <2>2
    <3>2. files[s] \subseteq mine
      BY <1>2, <3>1 DEF Lost
    <3>3. \A t \in old.uploads : t \in Shards /\ files[t] \subseteq old.packed[t]
      BY <1>1, <3>1 DEF Honest, Commands
    <3>4. QED
      BY <1>6, <1>11, <3>2, <3>3
  <2>3. QED
    BY <1>7, <1>8, <1>9, <2>1, <2>2 DEF Honest
<1>12. Honest(c, local[m], files)
  BY <1>5, <1>10, <1>11
<1>13. Pushing(m) /\ UNCHANGED <<local, pulled, files, manifest>>
  BY DEF Pushing, Pack
<1>14. QED
  BY <1>5, <1>12, <1>13, CleanCommand

\* A commit of a push that is not lossy only adds.
LEMMA CommitClean ==
    ASSUME IInv, Clean, NEW m \in Machines, NEW B \in SUBSET Shards, Commit(m, B)
    PROVE  Clean' /\ \A s \in Shards : files[s] \subseteq files'[s]
<1>1. PICK old \in Commands : old = sync[m] /\ Sound(old, files) /\ Honest(old, local[m], files)
  BY KnownCommand
<1>2. /\ old.op = "upload" /\ ~old.lossy /\ B \subseteq old.uploads
      /\ files' = [s \in Shards |-> IF s \in B THEN old.packed[s] ELSE files[s]]
      /\ UNCHANGED <<local, pulled, manifest>>
  BY <1>1 DEF Commit, Batch, Replace
<1>3. PICK u, seen : /\ u = old.uploads \ B
                     /\ seen = [s \in Shards |-> IF s \in B THEN {} ELSE old.seen[s]]
  OBVIOUS
<1>4. u \in SUBSET Shards /\ seen \in Table
  BY <1>3 DEF Commands, Table
<1>5. PICK c : c = [old EXCEPT !.uploads = u, !.seen = seen]
  OBVIOUS
<1>6. /\ c \in Commands /\ c.op = old.op /\ c.known = old.known /\ c.packed = old.packed
      /\ c.uploads = u /\ c.lossy = old.lossy /\ c.guard = old.guard
  BY <1>4, <1>5 DEF Commands
<1>7. sync' = [sync EXCEPT ![m] = c]
  BY <1>1, <1>3, <1>5 DEF Commit
<1>8. \A s \in Shards : files[s] \subseteq files'[s]
  BY <1>1, <1>2 DEF Honest
<1>9. Honest(c, local[m], files')
  <2>1. \A s \in Shards : c.known[s] \subseteq files'[s]
    BY <1>1, <1>6, <1>8 DEF Honest
  <2>2. \A s \in Shards \ c.uploads : c.packed[s] \subseteq files'[s]
    BY <1>1, <1>2, <1>3, <1>6 DEF Honest
  <2>3. \A s \in c.uploads : s \in Shards /\ files'[s] \subseteq c.packed[s]
    BY <1>1, <1>2, <1>3, <1>6 DEF Honest, Commands
  <2>4. c.guard /\ \A s \in Shards : c.packed[s] \subseteq local[m]
    BY <1>1, <1>2, <1>6 DEF Honest
  <2>5. QED
    BY <1>2, <1>6, <2>1, <2>2, <2>3, <2>4 DEF Honest
<1>10. \A s \in Shards : pulled'[m][s] \subseteq local'[m]
  BY <1>2, KnownCommand
<1>11. QED
  BY <1>1, <1>2, <1>6, <1>7, <1>8, <1>9, <1>10, CleanOne DEF Pushing

LEMMA RecordPushedClean ==
    ASSUME IInv, Clean, NEW m \in Machines, RecordPushed(m)
    PROVE  Clean'
<1>1. PICK old \in Commands : old = sync[m] /\ Sound(old, files) /\ Honest(old, local[m], files)
  BY KnownCommand
<1>2. /\ old.op = "upload" /\ old.uploads = {} /\ UNCHANGED <<local, files, manifest>>
      /\ pulled' = [pulled EXCEPT ![m] =
            [s \in Shards |-> IF old.packed[s] # {} THEN old.packed[s] ELSE pulled[m][s]]]
      /\ sync' = [sync EXCEPT ![m] = [old EXCEPT !.op = "publish"]]
  BY <1>1 DEF RecordPushed
<1>3. PICK c : c = [old EXCEPT !.op = "publish"]
  OBVIOUS
<1>4. /\ c \in Commands /\ c.op = "publish" /\ c.known = old.known /\ c.packed = old.packed
      /\ c.uploads = old.uploads /\ c.lossy = old.lossy /\ c.guard = old.guard
  BY <1>3 DEF Commands, Ops
<1>5. Honest(c, local[m], files)
  BY <1>1, <1>2, <1>4 DEF Honest
<1>6. pulled \in [Machines -> Table]
  BY DEF IInv, TypeOK
<1>7. /\ \A n \in Machines : n # m => pulled'[n] = pulled[n]
      /\ \A s \in Shards : pulled'[m][s] = IF old.packed[s] # {} THEN old.packed[s] ELSE pulled[m][s]
  BY <1>2, <1>6
<1>8. \A s \in Shards : pulled'[m][s] \subseteq local[m]
  BY <1>1, <1>2, <1>7, KnownCommand DEF Honest
<1>9. QED
  BY <1>1, <1>2, <1>3, <1>4, <1>5, <1>7, <1>8, CleanOne DEF Pushing

LEMMA MergedIsHeld ==
    ASSUME IInv, Clean, NEW m \in Machines, sync[m].op \in {"publish", "rename"}
    PROVE  \A s \in Shards : Merged(m)[s] \subseteq files[s]
<1>1. Sound(sync[m], files) /\ Honest(sync[m], local[m], files)
  BY KnownCommand
<1>2. sync[m].uploads = {}
  BY <1>1 DEF Sound
<1>3. QED
  BY <1>1, <1>2 DEF Merged, Honest

LEMMA PublishClean ==
    ASSUME IInv, Clean, NEW m \in Machines, Publish(m) \/ PublishRepair(m)
    PROVE  Clean'
<1>1. /\ UNCHANGED <<local, pulled, files>>
      /\ \A s \in Shards : manifest'[s] \subseteq files'[s]
  BY MergedIsHeld DEF Publish, PublishRepair
<1>2. ASSUME NEW n \in Machines
      PROVE  /\ sync'[n] = Idle \/ sync'[n].op = sync[n].op
             /\ Honest(sync'[n], local[n], files)
  <2>1. PICK old \in Commands : old = sync[n] /\ Honest(old, local[n], files)
    BY KnownCommand
  <2>2. PICK c : c = [old EXCEPT !.stale = old.op = "hash"]
    OBVIOUS
  <2>3. sync'[n] = Idle \/ sync'[n] = old \/ sync'[n] = c
    <3>1. CASE Publish(m)
      BY <2>1, <2>2, <3>1 DEF Publish
    <3>2. CASE PublishRepair(m)
      BY <2>1, <3>2 DEF PublishRepair, IInv, TypeOK
    <3>3. QED
      BY <3>1, <3>2
  <2>4. /\ c.op = old.op /\ c.known = old.known /\ c.packed = old.packed /\ c.got = old.got
        /\ c.uploads = old.uploads /\ c.lossy = old.lossy /\ c.guard = old.guard
    BY <2>2 DEF Commands
  <2>5. Honest(c, local[n], files)
    BY <2>1, <2>4 DEF Honest
  <2>6. QED
    BY <2>1, <2>3, <2>4, <2>5, IdleHonest
<1>3. Idle.op = "idle"
  BY DEF Idle
<1>4. \A i, j \in Machines : Pushing(i)' /\ Pushing(j)' => i = j
  BY <1>2, <1>3 DEF Pushing, Clean
<1>5. QED
  BY <1>1, <1>2, <1>4 DEF Clean

LEMMA StartPullClean ==
    ASSUME IInv, Clean, NEW m \in Machines, NEW parts, NEW force, StartPull(m, parts, force)
    PROVE  Clean'
<1>1. PICK wanted : wanted = {s \in ShardsOf(parts) \cap Present(manifest) :
                                  force \/ pulled[m][s] # manifest[s]}
  OBVIOUS
<1>2. PICK known : known = [s \in Shards |-> IF s \in wanted THEN manifest[s] ELSE {}]
  OBVIOUS
<1>3. PICK c : c = [Idle EXCEPT !.op = "pull", !.todo = wanted, !.known = known]
  OBVIOUS
<1>4. wanted \in SUBSET Shards /\ known \in Table
  BY <1>1, <1>2, ShardsOfType, KnownCommand DEF Table
<1>5. c \in Commands
  BY <1>3, <1>4, IdleType DEF Commands, Ops
<1>6. /\ c.op = "pull" /\ c.known = known /\ c.packed = Nothing
      /\ c.uploads = {} /\ c.lossy = FALSE /\ c.got = {}
  BY <1>3 DEF Idle
<1>7. Honest(c, local[m], files)
  BY <1>2, <1>6, KnownCommand DEF Honest, Nothing
<1>8. sync' = [sync EXCEPT ![m] = c] /\ UNCHANGED <<local, pulled, files, manifest>>
  BY <1>1, <1>2, <1>3 DEF StartPull
<1>9. QED
  BY <1>5, <1>6, <1>7, <1>8, CleanCommand

\* What is saved as pulled was brought.
LEMMA SavedIsHeld ==
    ASSUME IInv, Clean, NEW m \in Machines, NEW shards, NEW mine, local[m] \subseteq mine,
           \A s \in Shards \cap shards : sync[m].known[s] \subseteq mine
    PROVE  /\ \A n \in Machines : n # m => Saved(m, shards)[n] = pulled[n]
           /\ \A s \in Shards : Saved(m, shards)[m][s] \subseteq mine
<1>1. pulled \in [Machines -> Table]
  BY DEF IInv, TypeOK
<1>2. \A s \in Shards : Saved(m, shards)[m][s] = IF s \in shards THEN sync[m].known[s] ELSE pulled[m][s]
  BY <1>1 DEF Saved
<1>3. QED
  BY <1>1, <1>2, KnownCommand DEF Saved

LEMMA PullShardClean ==
    ASSUME IInv, Clean, NEW m \in Machines, NEW s \in Shards, PullShard(m, s)
    PROVE  Clean'
<1>1. PICK old \in Commands : old = sync[m] /\ Honest(old, local[m], files)
  BY KnownCommand
<1>2. PICK got : got = IF files[s] = {} THEN old.got ELSE old.got \cup {s}
  OBVIOUS
<1>3. PICK kept : kept = IF Cardinality(got) >= SaveEvery THEN {} ELSE got
  OBVIOUS
<1>4. PICK c : c = [old EXCEPT !.todo = old.todo \ {s}, !.got = kept]
  OBVIOUS
<1>5. kept \in SUBSET Shards /\ kept \subseteq got
  BY <1>2, <1>3 DEF Commands
<1>6. /\ c \in Commands /\ c.op = old.op /\ c.known = old.known /\ c.packed = old.packed /\ c.got = kept
      /\ c.uploads = old.uploads /\ c.lossy = old.lossy /\ c.guard = old.guard
  BY <1>4, <1>5 DEF Commands
<1>7. /\ old.op = "pull" /\ UNCHANGED <<files, manifest>>
      /\ local' = [local EXCEPT ![m] = @ \cup files[s]]
      /\ pulled' \in {pulled, Saved(m, got)}
      /\ sync' = [sync EXCEPT ![m] = c]
  BY <1>1, <1>2, <1>3, <1>4 DEF PullShard
<1>8. /\ local'[m] = local[m] \cup files[s]
      /\ \A n \in Machines : n # m => local'[n] = local[n]
  BY <1>7 DEF IInv, TypeOK
<1>9. \A t \in got : old.known[t] \subseteq local'[m]
  BY <1>1, <1>2, <1>7, <1>8 DEF Honest
<1>10. /\ \A n \in Machines : n # m => pulled'[n] = pulled[n]
       /\ \A t \in Shards : pulled'[m][t] \subseteq local'[m]
  <2>1. PICK more : more = local'[m] /\ local[m] \subseteq more
    BY <1>8
  <2>2. \A t \in Shards \cap got : sync[m].known[t] \subseteq more
    BY <1>1, <1>9, <2>1
  <2>3. /\ \A n \in Machines : n # m => Saved(m, got)[n] = pulled[n]
        /\ \A t \in Shards : Saved(m, got)[m][t] \subseteq more
    BY <2>1, <2>2, SavedIsHeld
  <2>4. \A t \in Shards : pulled[m][t] \subseteq more
    BY <2>1, KnownCommand
  <2>5. QED
    BY <1>7, <2>1, <2>3, <2>4
<1>11. Honest(c, local'[m], files)
  <2>1. c.uploads = {} /\ c.op = "pull"
    BY <1>1, <1>6, <1>7 DEF Honest
  <2>2. /\ \A t \in Shards : c.known[t] \subseteq files[t]
        /\ \A t \in Shards : c.packed[t] \subseteq files[t]
        /\ \A t \in c.got : c.known[t] \subseteq local'[m]
    BY <1>1, <1>5, <1>6, <1>9, <2>1 DEF Honest
  <2>3. QED
    BY <2>1, <2>2 DEF Honest
<1>12. c.op \notin {"pack", "upload", "publish"}
  BY <1>6, <1>7
<1>13. local[m] \subseteq local'[m] /\ files' = files /\ manifest' = manifest
  BY <1>7, <1>8
<1>14. Honest(c, local'[m], files') /\ \A t \in Shards : files[t] \subseteq files'[t]
  BY <1>11, <1>13
<1>15. QED
  BY <1>6, <1>7, <1>8, <1>10, <1>12, <1>13, <1>14, CleanOne

LEMMA EndPullClean ==
    ASSUME IInv, Clean, NEW m \in Machines, EndPull(m)
    PROVE  Clean'
<1>1. /\ sync' = [sync EXCEPT ![m] = Idle] /\ UNCHANGED <<local, files, manifest>>
      /\ pulled' = Saved(m, sync[m].got) /\ sync[m].op = "pull"
  BY DEF EndPull
<1>2. \A s \in Shards \cap sync[m].got : sync[m].known[s] \subseteq local[m]
  BY <1>1, KnownCommand DEF Honest
<1>3. /\ \A n \in Machines : n # m => pulled'[n] = pulled[n]
      /\ \A s \in Shards : pulled'[m][s] \subseteq local[m]
  <2>1. PICK got, mine : got = sync[m].got /\ mine = local[m]
    OBVIOUS
  <2>2. local[m] \subseteq mine /\ \A s \in Shards \cap got : sync[m].known[s] \subseteq mine
    BY <1>2, <2>1
  <2>3. /\ \A n \in Machines : n # m => Saved(m, got)[n] = pulled[n]
        /\ \A s \in Shards : Saved(m, got)[m][s] \subseteq mine
    BY <2>2, SavedIsHeld
  <2>4. QED
    BY <1>1, <2>1, <2>3
<1>4. Idle.op = "idle"
  BY DEF Idle
<1>5. QED
  BY <1>1, <1>3, <1>4, IdleType, IdleHonest, CleanOne

LEMMA RefusePushClean ==
    ASSUME IInv, Clean, NEW m \in Machines, RefusePush(m)
    PROVE  Clean'
<1>1. Idle.op = "idle"
  BY DEF Idle
<1>2. QED
  BY <1>1, IdleType, IdleHonest, CleanCommand DEF RefusePush

LEMMA RepairClean ==
    ASSUME IInv, Clean, NEW m \in Machines, NEW s,
           StartRepair(m) \/ (s \in Shards /\ HashShard(m, s)) \/ CheckRepair(m)
    PROVE  Clean'
<1>1. PICK old \in Commands : old = sync[m] /\ Sound(old, files) /\ Honest(old, local[m], files)
  BY KnownCommand
<1>2. UNCHANGED <<local, pulled, files, manifest>>
  BY DEF StartRepair, HashShard, CheckRepair
<1>3. CASE StartRepair(m)
  <2>1. PICK c : c = [Idle EXCEPT !.op = "hash", !.known = manifest, !.todo = Unnamed]
    OBVIOUS
  <2>2. Unnamed \in SUBSET Shards
    BY DEF Unnamed, Present
  <2>3. c \in Commands
    BY <2>1, <2>2, IdleType, KnownCommand DEF Commands, Ops
  <2>4. /\ c.op = "hash" /\ c.known = manifest /\ c.packed = Nothing
        /\ c.uploads = {} /\ c.lossy = FALSE
    BY <2>1 DEF Idle
  <2>5. Honest(c, local[m], files)
    BY <2>4, KnownCommand DEF Honest, Nothing
  <2>6. sync' = [sync EXCEPT ![m] = c]
    BY <1>3, <2>1 DEF StartRepair
  <2>7. QED
    BY <1>2, <2>3, <2>4, <2>5, <2>6, CleanCommand
<1>4. CASE s \in Shards /\ HashShard(m, s)
  <2>1. PICK packed : packed = [old.packed EXCEPT ![s] = files[s]]
    OBVIOUS
  <2>2. packed \in Table /\ \A t \in Shards : packed[t] = IF t = s THEN files[s] ELSE old.packed[t]
    BY <2>1, KnownCommand DEF Commands, Table
  <2>3. PICK c : c = [old EXCEPT !.todo = old.todo \ {s}, !.packed = packed]
    OBVIOUS
  <2>4. /\ c \in Commands /\ c.op = old.op /\ c.known = old.known /\ c.packed = packed
        /\ c.uploads = old.uploads /\ c.lossy = old.lossy
    BY <2>2, <2>3 DEF Commands
  <2>5. old.op = "hash"
    BY <1>1, <1>4 DEF HashShard
  <2>6. Honest(c, local[m], files)
    BY <1>1, <2>2, <2>4, <2>5 DEF Honest
  <2>7. sync' = [sync EXCEPT ![m] = c]
    BY <1>1, <1>4, <2>1, <2>3 DEF HashShard
  <2>8. QED
    BY <1>2, <2>4, <2>5, <2>6, <2>7, CleanCommand
<1>5. CASE CheckRepair(m)
  <2>1. PICK c : c = [old EXCEPT !.op = "rename"]
    OBVIOUS
  <2>2. /\ c \in Commands /\ c.op = "rename" /\ c.known = old.known /\ c.packed = old.packed
        /\ c.uploads = old.uploads /\ c.lossy = old.lossy
    BY <2>1 DEF Commands, Ops
  <2>3. old.op = "hash"
    BY <1>1, <1>5 DEF CheckRepair
  <2>4. Honest(c, local[m], files)
    BY <1>1, <2>2, <2>3 DEF Honest
  <2>5. sync' = [sync EXCEPT ![m] = IF old.stale THEN Idle ELSE c]
    BY <1>1, <1>5, <2>1 DEF CheckRepair
  <2>6. Idle.op = "idle"
    BY DEF Idle
  <2>7. PICK d : d = IF old.stale THEN Idle ELSE c
    OBVIOUS
  <2>8. d \in Commands /\ d.op \in {"idle", "rename"} /\ Honest(d, local[m], files)
    BY <2>2, <2>4, <2>6, <2>7, IdleType, IdleHonest
  <2>9. QED
    BY <1>2, <2>5, <2>7, <2>8, CleanCommand
<1>6. QED
  BY <1>3, <1>4, <1>5

LEMMA ProduceClean ==
    ASSUME IInv, Clean, NEW m \in Machines, NEW e \in Entries, Produce(m, e)
    PROVE  Clean'
<1>1. /\ UNCHANGED <<pulled, files, manifest, sync>>
      /\ \A n \in Machines : local[n] \subseteq local'[n]
  BY DEF Produce, IInv, TypeOK
<1>2. \A n \in Machines : Honest(sync[n], local'[n], files)
  BY <1>1, HonestStays DEF Clean
<1>3. QED
  BY <1>1, <1>2 DEF Clean, Pushing

\* A step without a fault keeps sharing clean, and adds to the hub.
LEMMA CleanStep ==
    ASSUME IInv, Clean, Next, faults = 0, faults' = 0
    PROVE  Clean' /\ \A s \in Shards : files[s] \subseteq files'[s]
<1>1. ~Fault
  BY DEF Fault
<1>2. \A m \in Machines, B \in SUBSET Shards : ~StartBlindPush(m) /\ ~CommitRaises(m, B) /\ ~Stop(m)
  BY <1>1 DEF StartBlindPush, CommitRaises, Stop
<1>3. ASSUME NEW m \in Machines, NEW parts \in Asked, NEW force \in BOOLEAN, StartPush(m, parts, force)
      PROVE  Clean' /\ files' = files
  <2>1. ~force /\ \A n \in Machines : ~Pushing(n)
    BY <1>1, <1>3 DEF StartPush, FaultIf
  <2>2. force = FALSE
    BY <2>1
  <2>3. QED
    BY <1>3, <2>1, <2>2, StartPushClean DEF StartPush
<1>4. ASSUME NEW m \in Machines, NEW B \in SUBSET Shards, Commit(m, B)
      PROVE  Clean' /\ \A s \in Shards : files[s] \subseteq files'[s]
  BY <1>4, CommitClean
<1>5. ASSUME NEW m \in Machines, NEW e \in Entries, Produce(m, e)
      PROVE  Clean' /\ files' = files
  BY <1>5, ProduceClean DEF Produce
<1>6. ASSUME NEW m \in Machines, NEW parts \in Asked, NEW force \in BOOLEAN, StartPull(m, parts, force)
      PROVE  Clean' /\ files' = files
  BY <1>6, StartPullClean DEF StartPull
<1>7. ASSUME NEW m \in Machines, NEW s \in Shards, Pack(m, s) \/ PullShard(m, s) \/ HashShard(m, s)
      PROVE  Clean' /\ files' = files
  BY <1>7, PackClean, PullShardClean, RepairClean DEF Pack, PullShard, HashShard
<1>8. ASSUME NEW m \in Machines, RefusePush(m) \/ RecordPushed(m) \/ Publish(m) \/ EndPull(m)
      PROVE  Clean' /\ files' = files
  BY <1>8, RefusePushClean, RecordPushedClean, PublishClean, EndPullClean
  DEF RefusePush, RecordPushed, Publish, EndPull
<1>9. ASSUME NEW m \in Machines, StartRepair(m) \/ CheckRepair(m) \/ PublishRepair(m)
      PROVE  Clean' /\ files' = files
  BY <1>9, RepairClean, PublishClean DEF StartRepair, CheckRepair, PublishRepair
<1>10. QED
  BY <1>2, <1>3, <1>4, <1>5, <1>6, <1>7, <1>8, <1>9 DEF Next

LEMMA FaultOrNone ==
    ASSUME Next PROVE Fault \/ faults' = faults
<1>1. ASSUME NEW m, NEW e, Produce(m, e) PROVE faults' = faults
  BY <1>1 DEF Produce
<1>2. ASSUME NEW m, NEW parts, NEW force, StartPush(m, parts, force) \/ StartPull(m, parts, force)
      PROVE  Fault \/ faults' = faults
  BY <1>2 DEF StartPush, StartPull, FaultIf
<1>3. ASSUME NEW m, NEW B, Commit(m, B) \/ CommitRaises(m, B)
      PROVE  Fault \/ faults' = faults
  BY <1>3 DEF Commit, CommitRaises
<1>4. ASSUME NEW m, NEW s, Pack(m, s) \/ PullShard(m, s) \/ HashShard(m, s)
      PROVE  faults' = faults
  BY <1>4 DEF Pack, PullShard, HashShard
<1>5. ASSUME NEW m, \/ RefusePush(m) \/ RecordPushed(m) \/ Publish(m) \/ EndPull(m)
                    \/ StartRepair(m) \/ CheckRepair(m) \/ PublishRepair(m)
      PROVE  faults' = faults
  BY <1>5 DEF RefusePush, RecordPushed, Publish, EndPull, StartRepair, CheckRepair, PublishRepair
<1>6. ASSUME NEW m, StartBlindPush(m) \/ Stop(m) PROVE Fault
  BY <1>6 DEF StartBlindPush, Stop
<1>7. QED
  BY <1>1, <1>2, <1>3, <1>4, <1>5, <1>6 DEF Next

\* What the pull state says was pulled is here, and what the manifest says a
\* shard holds it holds, as long as nothing went wrong.
RecordedIsHeld ==
    faults = 0 => /\ \A m \in Machines, s \in Shards : pulled[m][s] \subseteq local[m]
                  /\ \A s \in Shards : manifest[s] \subseteq files[s]
OnlyAdds == [][faults' = 0 => \A s \in Shards : files[s] \subseteq files'[s]]_vars

\* "Sharing is additive": pushes that are not forced, blind or beside another,
\* with pulls and repairs at any time, take no answer out of the hub, and a shard a
\* pull passes over because its digest is recorded has nothing this machine lacks
\* (push_cache, pull_cache).
THEOREM SharingAdds == Spec => []RecordedIsHeld /\ OnlyAdds
<1> DEFINE Adds == \A s \in Shards : files[s] \subseteq files'[s]
           CleanInv == faults = 0 => Clean
<1>1. Init => CleanInv
  <2>1. ASSUME Init PROVE Clean
    <3>1. \A m \in Machines : sync[m] = Idle
      BY <2>1 DEF Init
    <3>2. Idle.op = "idle"
      BY DEF Idle
    <3>3. QED
      BY <2>1, <3>1, <3>2, IdleHonest DEF Init, Clean, Nothing, Pushing
  <2>2. QED
    BY <2>1
<1>2. ASSUME IInv, CleanInv, [Next]_vars
      PROVE  CleanInv' /\ (faults' = 0 => Adds)
  <2>1. CASE UNCHANGED vars
    BY <1>2, <2>1 DEF vars, Clean, Pushing
  <2>2. CASE Next
    <3>1. SUFFICES ASSUME faults' = 0 PROVE Clean' /\ Adds
      OBVIOUS
    <3>2. faults = 0
      <4>1. faults \in Nat /\ (Fault => faults' = faults + 1)
        BY <1>2 DEF IInv, TypeOK, Fault
      <4>2. Fault \/ faults' = faults
        BY <2>2, FaultOrNone
      <4>3. QED
        BY <3>1, <4>1, <4>2
    <3>3. QED
      BY <1>2, <2>2, <3>1, <3>2, CleanStep
  <2>3. QED
    BY <1>2, <2>1, <2>2
<1>3. CleanInv => RecordedIsHeld
  BY DEF Clean, RecordedIsHeld
<1>4. QED
  <2>1. IInv /\ CleanInv /\ [Next]_vars => CleanInv'
    BY <1>2
  <2>2. IInv /\ CleanInv /\ [Next]_vars => [faults' = 0 => Adds]_vars
    BY <1>2
  <2> HIDE DEF CleanInv
  <2>3. QED
    BY <1>1, <1>3, <2>1, <2>2, Invariant, PTL DEF Spec, OnlyAdds
=============================================================================
